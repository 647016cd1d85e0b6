SPECIFICATION FairSpec
CONSTANTS
  Messages = {m1, m2}
  MaxSubscribes = 2
INVARIANTS
  NoAmplification

  
CHECK_DEADLOCK FALSE
