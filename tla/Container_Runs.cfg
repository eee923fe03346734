SPECIFICATION FairSpec
CONSTANTS
  Absent = Absent
  Garbage = Garbage
  Files = {f1, f2}
  Passwords = {p, q}
  left = left
  right = right
  Blocks = {left, right}
  InitialTexts <- TwoChunks
  NewTexts <- ShorterTexts
  MaxChunks = 2
  MaxSeals = 2
  MaxEvents = 1
  EditPhases = {"idle", "seal"}
  Faults = {"error", "crash", "damage", "unflushed"}
INVARIANTS
  ContainerTypeOK
  OpenedIsWhole
  ContainerWhole
PROPERTIES
  FailedDecryptLeavesNothing
  OnlyTypedPasswordFails
  RunEnds
