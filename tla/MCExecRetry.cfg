SPECIFICATION FairSpec
CONSTANTS
  a1 = a1
  a2 = a2
  Handler = {h1, h2}
  Worker = {w1, w2}
  Asset = {a1, a2}
  Batches <- Mixed
  Key = {k1}
  PassTwice = FALSE
  MaxRecord = 1
  MaxRetry = 2
  Events = {"broker", "crash", "kill", "delete"}
INVARIANTS
  TypeOK
  OneWorkerPerRow
  DoneIsConcluded
PROPERTIES
  SucceededIsFinal
  RefinesLedger
  BatchConcludes
CHECK_DEADLOCK FALSE
