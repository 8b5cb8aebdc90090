SPECIFICATION Spec
CONSTANTS
  Procs = {"p", "q"}
  Slugs = {"a", "b"}
  Setups <- Stories
  MaxNumber = 3
CHECK_DEADLOCK FALSE

    
PROPERTIES
    NumberApprovedOnce
    
