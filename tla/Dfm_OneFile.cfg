SPECIFICATION Spec
CONSTANTS
  Absent = Absent
  Torn = Torn
  Files = {f1}
  Contents = {a, b}
  Managed = {}
  UserPaths <- Paths
  Runs <- PathRuns
  ForceEncrypted = {}
  SourceInTarget = TRUE
  EditPhases = {"idle"}
  EditSides = {}
  Faults = {}
  Reverts = TRUE
  MaxClock = 6
INVARIANTS
  TypeOK
  StatusForetells
  RecordIsSynced
  RunConverges
PROPERTIES
  ImplementsReplicas
