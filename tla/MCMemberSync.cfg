SPECIFICATION FairSpec
CONSTANTS
  Numbers = {1, 2}
  Chosen = {11}
  Entered = {2}
PROPERTIES
  DeactivatesOnlyLeft
  
  
  
CHECK_DEADLOCK FALSE
