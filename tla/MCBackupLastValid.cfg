SPECIFICATION Spec
CONSTANTS
  Worker = {w1}
  Retention = 2
  MaxRecord = 3
  MaxStem = 3
  Events = {}
INVARIANTS
  LastValidKept
CHECK_DEADLOCK FALSE
