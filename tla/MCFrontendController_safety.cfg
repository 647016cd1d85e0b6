SPECIFICATION Spec
CONSTANTS
  Cards = {c1}
  Tokens = {}
  RemoteActions = {"lock", "unlock", "setacstoken", "unknown"}
  IsMain = TRUE
  LEAVE_TIME = 1
  ENTER_TIME = 2
  GW_UNLOCK_PERIOD = 2
  UNLOCK_PERIOD = 3
  UNLOCK_WARN = 2
  UNLOCK_WARN_MIN = 1
  STATUS_INTERVAL = 1
INVARIANTS
  TypeOK
  TimedUnlockIsArmed
  StatusNotUnlockedWhenLocked
  
PROPERTIES
  ReaderClientSpec
  DoorStatesSpec
