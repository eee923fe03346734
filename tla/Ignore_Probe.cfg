SPECIFICATION Spec
CONSTANTS
  Stems = {"log", "etc", "x"}
  ShortStems = {"x"}
  ProbeStem = "x"
  NoPattern = NoPattern
  Files <- FewFiles
  UserPatterns = {}
  Faults = {}
  MaxActs = 2
  MaxLines = 2
INVARIANTS
  PruneHidesNothing
