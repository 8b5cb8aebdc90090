SPECIFICATION Spec
CONSTANTS
  Setups <- AllSetups
  MaxCalls = 3
  MaxMoves = 3
  MaxFaults = 1
CHECK_DEADLOCK FALSE
INVARIANTS
    PublishedOnce
    ResultIsHonest
    ReviewedIsDrafted
PROPERTIES
    NothingIsLost
