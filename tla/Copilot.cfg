CONSTANTS
  r1 = r1
  r2 = r2
  m1 = m1
  NoModel = NoModel
  Free = Free
  Requests = {r1, r2}
  Models = {m1}
  MaxArrivals = 3
  MaxLogouts = 1
  MayFail = TRUE

SPECIFICATION FairSpec

VIEW Distinctions

CHECK_DEADLOCK FALSE

INVARIANTS
  TokensBelongToSession
  RevisionNamesRouting
  StreamsKeepTheirSession

PROPERTIES
  RefreshNeedsCause
  RefinesCopilotAccount
  HandlersFinish
