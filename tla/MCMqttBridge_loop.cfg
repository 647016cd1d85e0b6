SPECIFICATION Spec
CONSTANTS
  Messages = {m1}
  MaxSubscribes = 0
INVARIANTS
  NotReforwarded
CHECK_DEADLOCK FALSE
