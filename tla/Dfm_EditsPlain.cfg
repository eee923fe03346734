SPECIFICATION FairSpec
CONSTANTS
  Absent = Absent
  Torn = Torn
  Files = {f1}
  Contents = {a, b, c}
  Managed <- PlainSlots
  UserPaths <- PlainPaths
  Runs <- PlainPathRuns
  ForceEncrypted = {}
  SourceInTarget = TRUE
  EditPhases = {"idle", "check", "exec", "copy", "record", "stamp", "commit"}
  EditSides = {"target"}
  Faults = {"denied"}
  Reverts = FALSE
  MaxClock = 4
PROPERTIES
  NoLostEdit
  RunEnds
