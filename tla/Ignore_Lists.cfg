SPECIFICATION Spec
CONSTANTS
  Stems = {"log", "etc", "x"}
  ShortStems = {"x"}
  ProbeStem = "x"
  NoPattern = NoPattern
  Files <- DeepFiles
  UserPatterns <- GivenPatterns
  Faults = {"error"}
  MaxActs = 4
  MaxLines = 3
INVARIANTS
  IgnoreTypeOK
  IgnoreHolds
PROPERTIES
  IgnoreIsExact
  EntriesKept
