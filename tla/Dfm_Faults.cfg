SPECIFICATION Spec
CONSTANTS
  Absent = Absent
  Torn = Torn
  Files = {f1}
  Contents = {a, b, c}
  Managed <- EncSlots
  UserPaths <- Paths
  Runs <- WalkRuns
  ForceEncrypted = {}
  SourceInTarget = FALSE
  EditPhases = {"idle", "check", "exec", "copy"}
  EditSides = {"target", "enc"}
  Faults = {"crash", "denied", "error"}
  Reverts = FALSE
  MaxClock = 3
INVARIANTS
  UnmodifiedIsEqual
PROPERTIES
  NoLostEdit
  StoresTheSynced
