SPECIFICATION FairSpec
CONSTANTS
  a1 = a1
  a2 = a2
  Handler = {h1, h2}
  Worker = {w1, w2}
  Asset = {a1, a2}
  Lists <- Both
  Answer <- Answers
  Seeds <- Some
  Installed <- FreshOrOwn
  Payload <- Payloads
  PassTwice = FALSE
  MaxRecord = 1
  MaxHosts = 2
  MaxEdit = 1
  Events = {"broker", "crash", "kill", "delete"}
INVARIANTS
  TypeOK
  SeededOnce
  HealthyHasBasis
  AlarmsMatchHost
PROPERTIES
  RefinesLedger
  InspectionConcludes
CHECK_DEADLOCK FALSE
