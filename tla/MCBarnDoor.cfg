SPECIFICATION FairSpec
CONSTANTS
  Cards = {"member", "stranger"}
  Allowed = {"member"}
  TIMEOUT = 1
  EXPIRY = 2
  UNLOCK_TIME = 2
  LOG_TIMEOUT = 2
  MAX_OPEN_TIME = 2
  MAX_INTERVAL = 8
INVARIANTS
  LockedWhileWatching
PROPERTIES
  StaleSwipesExpire
  
  
CHECK_DEADLOCK FALSE
