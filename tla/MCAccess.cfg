SPECIFICATION Spec
CONSTANTS
  Handler = {h1, h2}
  Name = {"admin", "ann"}
  Installed <- Databases
  Sent <- SomeParams
  MaxRecord = 2
  MaxFixed = 1
  MaxUse = 2
  Events = {"crash", "disable"}
SYMMETRY Symmetry
INVARIANTS
  TypeOK
  InstalledOnce
  BreakGlassIsAudited
  CommandsAreWhitelisted
PROPERTY AccountsAreKept
CHECK_DEADLOCK FALSE
