CONSTANTS
  d1 = d1
  d2 = d2
  d3 = d3
  q = q
  v = v
  NoDelivery = NoDelivery
  Deliveries = {d1, d2, d3}
  Names = {q, v}
  Request = q
  MaxVersion = 2
  MayFail = TRUE

SPECIFICATION Spec

CHECK_DEADLOCK FALSE

SYMMETRY Symmetry

INVARIANTS
  PaidCallsAreLeased

PROPERTIES
  SettledByItsOwner
  RefinesAtomicDecision
