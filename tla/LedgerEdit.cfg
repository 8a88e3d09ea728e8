CONSTANTS
  r1 = r1
  r2 = r2
  r3 = r3
  r4 = r4
  NoRow = NoRow
  Requests = {r1, r2, r3}
  MaxQuantity = 2
  Ops <- TransactionOps
  MayFail = FALSE

SPECIFICATION Spec

CHECK_DEADLOCK FALSE

CONSTRAINT ThreeWithTrouble

PROPERTY RejectedEditIsRestored
