CONSTANTS
  t1 = t1
  t2 = t2
  Triggers = {t1, t2}
  KeyOf <- OneKey
  RunsMayFail = TRUE

SPECIFICATION FairSpec

INVARIANTS
  OverlapNeedsExpiredLease
  ReleasedRunIsNotWorkedOn

PROPERTIES
  RefinesAgentRun
  KeysAreFreed
