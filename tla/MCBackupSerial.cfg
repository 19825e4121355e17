SPECIFICATION FairSpec
CONSTANTS
  Worker = {w1}
  Retention = 1
  MaxRecord = 3
  MaxStem = 3
  Events = {"rot"}
INVARIANTS
  PrunedToRetention
PROPERTY QueuedIsConcluded
CHECK_DEADLOCK FALSE
