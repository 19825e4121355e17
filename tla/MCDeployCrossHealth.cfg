SPECIFICATION Spec
CONSTANTS
  p1 = p1
  p2 = p2
  a1 = a1
  NoHost = NoHost
  NoDigest = NoDigest
  Project = {p1}
  Asset = {a1}
  ProjectAsset <- OneProject
  Host = {h1}
  Tag = {latest, stable}
  Digest = {d1, d2}
  Broken = {d2}
  Worker = {w1, w2}
  MaxRelease = 2
  Events = {}
INVARIANT SucceededImageGetsHealthy
CHECK_DEADLOCK FALSE
