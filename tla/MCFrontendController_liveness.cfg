SPECIFICATION FairSpec
CONSTANTS
  Cards = {}
  Tokens = {}
  RemoteActions = {"lock", "unlock", "reboot"}
  IsMain = FALSE
  LEAVE_TIME = 1
  ENTER_TIME = 1
  GW_UNLOCK_PERIOD = 1
  UNLOCK_PERIOD = 1
  UNLOCK_WARN = 0
  UNLOCK_WARN_MIN = 1
  STATUS_INTERVAL = 1
PROPERTIES
  TimedUnlockEnds
  LockedReleasesRelay
  ThursdayEnds
  ActionTaken
  StatusCatchesUp
