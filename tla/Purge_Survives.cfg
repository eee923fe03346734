SPECIFICATION Spec
CONSTANTS
  Absent = Absent
  Link = Link
  Outside = Outside
  Names = {n1, n2}
  Encrypted = {n2}
  Contents = {a, b}
  Situations = {"added", "linked", "pulledLink", "cloned", "unmanaged"}
  UserActs = {"edit", "remove", "repoint"}
  Runs <- RunType
  OwnNaming = TRUE
  Faults = {"error", "crash"}
  MaxClock = 3
INVARIANTS
  PurgeTypeOK
PROPERTIES
  CheckedSurvives
  PurgeCompletes
  KeepsWhatItShould
