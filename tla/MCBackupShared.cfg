SPECIFICATION Spec
CONSTANTS
  Worker = {w1, w2}
  Retention = 1
  MaxRecord = 3
  MaxStem = 3
  Events = {"broker", "kill", "db"}
SYMMETRY Symmetry
INVARIANTS
  TypeOK
  SucceededFileIntact
  NewestKept
  RestoresValidated
  RestoredIsSource
PROPERTIES
  RefinesLedger
CHECK_DEADLOCK FALSE
