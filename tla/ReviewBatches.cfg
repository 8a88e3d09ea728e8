CONSTANTS
  q0 = q0
  q1 = q1
  q2 = q2
  d1 = d1
  d2 = d2
  w1 = w1
  NoRequest = NoRequest
  NoDelivery = NoDelivery
  NoWriter = NoWriter
  Requests = {q0, q1, q2}
  Deliveries = {d1, d2}
  Writers = {w1}
  Kinds <- ReviewKinds
  InitialPolicy = q0
  HistoryBudget = 2
  MaxWrites = 1
  MayExpire = TRUE
  MayFail = TRUE

SPECIFICATION Spec

CHECK_DEADLOCK FALSE

SYMMETRY Symmetry

INVARIANT
  HistoriesAreBounded

PROPERTIES
  HistoryIsKept
  ComparedAsCommitted
  SettledInputs
  NoLateApproval
  ViewIsTrue
  RefinesAtomicReview
