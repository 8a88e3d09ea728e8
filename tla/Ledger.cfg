CONSTANTS
  r1 = r1
  r2 = r2
  r3 = r3
  r4 = r4
  NoRow = NoRow
  Requests = {r1, r2, r3, r4}
  MaxQuantity = 2
  Ops <- Operations
  MayFail = TRUE

SPECIFICATION Spec

CHECK_DEADLOCK FALSE

CONSTRAINT ThreeWithTrouble

SYMMETRY Symmetry

INVARIANTS
  Lockstep
  DriftIsDeclared

PROPERTIES
  RejectionsKeepAccount
  StaleWritesMiss
