SPECIFICATION FairSpec
CONSTANTS
  Versions = {"1.0", "1.1", "1.2"}
  Broken = {"1.2"}
  FIRST_VERSION = "1.0"
  BLOCKS = 3
  ATTEMPTS = 3
INVARIANTS
  AlwaysBootable
PROPERTIES
  ComesUp
  UpdateArrives
CHECK_DEADLOCK FALSE
