SPECIFICATION FairSpec
CONSTANTS
  a1 = a1
  a2 = a2
  Handler = {h1}
  Worker = {w1}
  Asset = {a1}
  Batches <- Single
  Key = {k1}
  PassTwice = TRUE
  MaxRecord = 1
  MaxRetry = 0
  Events = {}
PROPERTIES
  BatchConcludes
CHECK_DEADLOCK FALSE
