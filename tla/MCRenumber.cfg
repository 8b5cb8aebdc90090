SPECIFICATION Spec
CONSTANTS
  Procs = {"p", "q"}
  Slugs = {"a", "b"}
  Setups <- Collision
  MaxNumber = 2
PROPERTY
  ApprovedIsKept
CHECK_DEADLOCK FALSE
