SPECIFICATION FairSpec
CONSTANTS
  Cards = {"ann"}
  MAX_CACHE_AGE = 4
  ANSWER_TIME = 1
  UPDATE_esp32 = 3
  UPDATE_opi = 2
INVARIANTS
  RevokedWithin
  
  NeverPermittedNeverOpens
PROPERTIES
  CacheConverges
CHECK_DEADLOCK FALSE
