SPECIFICATION FairSpec
CONSTANTS
  p1 = p1
  p2 = p2
  a1 = a1
  NoHost = NoHost
  NoDigest = NoDigest
  Project = {p1, p2}
  Asset = {a1}
  ProjectAsset <- TwoProjects
  Host = {h1}
  Tag = {latest}
  Digest = {d1, d2}
  Broken = {d2}
  Worker = {w1}
  MaxRelease = 3
  Events = {"push", "retarget"}
INVARIANTS
  SavedSuccessIsRunning
  SucceededImageGetsHealthy
  RollbackPointSound
  ContainerTraceable
PROPERTY QueuedIsConcluded
CHECK_DEADLOCK FALSE
