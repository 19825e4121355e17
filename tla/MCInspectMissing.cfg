SPECIFICATION Spec
CONSTANTS
  a1 = a1
  a2 = a2
  Handler = {h1}
  Worker = {w1}
  Asset = {a1}
  Lists <- One
  Answer <- Large
  Seeds <- DefaultRules
  Installed <- Fresh
  Payload = {}
  PassTwice = TRUE
  MaxRecord = 1
  MaxHosts = 1
  MaxEdit = 0
  Events = {}
INVARIANT MissingIsUnknown
CHECK_DEADLOCK FALSE
