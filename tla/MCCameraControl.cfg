SPECIFICATION FairSpec
CONSTANTS
  DEBOUNCE = 1
  MAX_DISCONNECTS = 1
  STATUS_PERIOD = 2
INVARIANTS
  TypeOK
  EstopIsSaved
PROPERTIES
  EstopNeedsButton
  RelaysFollow
  StatusFollows
  RestartsWhenCutOff
