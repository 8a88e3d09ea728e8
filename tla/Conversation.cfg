CONSTANTS
  r1 = r1
  r2 = r2
  r3 = r3
  Turns = {r1, r2}
  TailKeep = 1
  PageSize = 4
  Kinds = {"chat", "analysis", "research"}
  InitialSizes = {0, 3}
  MaxMessages = 5

SPECIFICATION Spec

SYMMETRY Symmetry

CHECK_DEADLOCK FALSE

INVARIANTS
  NothingIsLost
  ContextIsWhole
