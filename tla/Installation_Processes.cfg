SPECIFICATION Spec
CONSTANTS
  k1 = k1
  k2 = k2
  Procs = {p, q}
  Keys = {k1, k2}
  Commands <- AllCommands
  Faults = {"error", "crash"}
  MaxRuns = 3
  MaxRecords = 2
INVARIANTS
  InstallationTypeOK
  TornOnlyByRace
PROPERTIES
  LoneRunIsExact
  InitCompletes
