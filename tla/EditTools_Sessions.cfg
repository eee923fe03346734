SPECIFICATION Spec
CONSTANTS
  Absent = Absent
  Torn = Torn
  Files = {f1, f2}
  Encrypted = {f2}
  Contents = {a, b}
  Runs <- MergesAndEdits
  EditPhases = {"idle", "copy", "tool", "write2", "sync"}
  Faults = {"denied", "error", "crash"}
  MaxClock = 3
SYMMETRY Alike
INVARIANTS
  ToolsTypeOK
  UnmodifiedIsEqual
  MergeResolves
PROPERTIES
  OverwritesWhatWasShown
