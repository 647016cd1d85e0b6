SPECIFICATION FairSpec
CONSTANTS
  LEAVE_TIME = 2
  ENTER_TIME = 3
  GW_UNLOCK_PERIOD = 3
  STATUS_PERIOD = 1
  POLL_PERIOD = 4
INVARIANTS
  TimedUnlockIsArmed
  

  
CHECK_DEADLOCK FALSE
