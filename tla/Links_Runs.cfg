SPECIFICATION Spec
CONSTANTS
  Absent = Absent
  Contents = {a, b}
  UserPointees = {"ownRel", "stray", "out", "./rel"}
  Runs <- LinkRuns
  Faults = {"denied", "error", "crash"}
  MaxActs = 5
INVARIANTS
  LinksTypeOK
  PulledLinkLeads
  AddSettles
PROPERTIES
  AddKeepsContent
