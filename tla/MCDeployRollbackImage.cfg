SPECIFICATION Spec
CONSTANTS
  p1 = p1
  p2 = p2
  a1 = a1
  NoHost = NoHost
  NoDigest = NoDigest
  Project = {p1}
  Asset = {a1}
  ProjectAsset <- OneProject
  Host = {h1}
  Tag = {latest}
  Digest = {d1, d2}
  Broken = {}
  Worker = {w1}
  MaxRelease = 3
  Events = {"push"}
INVARIANT RollbackRestoresImage
CHECK_DEADLOCK FALSE
