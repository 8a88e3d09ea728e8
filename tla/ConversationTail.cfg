CONSTANTS
  r1 = r1
  r2 = r2
  r3 = r3
  Turns = {r1}
  TailKeep = 2
  PageSize = 5
  Kinds = {"analysis"}
  InitialSizes = {4}
  MaxMessages = 5

SPECIFICATION Spec

CHECK_DEADLOCK FALSE

PROPERTY TailIsKept
