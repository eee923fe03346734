SPECIFICATION Spec
CONSTANTS
  Absent = Absent
  Torn = Torn
  Files = {f1, f2}
  Contents = {a, b}
  Managed <- PlainSlots
  UserPaths <- PlainPaths
  Runs <- WalkAndDryRuns
  ForceEncrypted = {}
  SourceInTarget = FALSE
  EditPhases = {"idle"}
  EditSides = {}
  Faults = {}
  Reverts = TRUE
  MaxClock = 4
INVARIANTS
  SyncConverges
PROPERTIES
  SyncRespectsConflicts
  RefusalWritesNothing
