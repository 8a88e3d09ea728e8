--------------------------- MODULE PortfolioRunProofs ---------------------------
(***************************************************************************)
(* Proofs about PortfolioRun for every set of triggers and keys, with and  *)
(* without failing calls.                                                  *)
(***************************************************************************)
EXTENDS PortfolioRun, TLAPS

\* The conditional updates that trigger_analysis and its tasks issue.
LEMMA SourceStatuses ==
  /\ AllowedFrom({"pending"}, "running") = {"pending"}
  /\ AllowedFrom(FromStatuses["completed"], "completed") = {"running", "waiting_for_input"}
  /\ AllowedFrom(FromStatuses["failed"], "failed") =
       {"pending", "running", "waiting_for_input"}
BY DEF AllowedFrom, FromStatuses, ALLOWED_RUN_TRANSITIONS

-------------------------------------------------------------------------------
(* The inductive invariant *)

BeforeInsert == {"new", "release", "insert", "find"}

\* What the position of a trigger and its task says about the run it created.
\* Only a lease release writes the run of another trigger, and it leaves it failed.
PcStatus(t) ==
  /\ pc[t] \in BeforeInsert => status[t] = "absent"
  /\ pc[t] \in {"queued", "mark"} => status[t] \in {"pending", "failed"}
  /\ InFlow(t) \/ pc[t] = "complete" => status[t] \in {"running", "failed"}
  /\ InFlow(t) /\ status[t] = "failed" => expired[t]

\* A run that is or may yet be started by its task has no assessment.
WorkNeedsRunning(t) ==
  /\ assessment[t] # "none" => status[t] \notin {"absent", "pending"}
  /\ pc[t] \in {"queued", "mark"} => assessment[t] = "none"

\* The claim is held exactly by the active statuses a dashboard run can have.
HoldsWhileActive(t) ==
  /\ status[t] # "waiting_for_input"
  /\ holds[t] <=> status[t] \in ActiveStatuses

ReleasedIsOver(t) ==
  released[t] = "pending" =>
    status[t] = "failed" /\ ~InFlow(t) /\ pc[t] # "complete" /\ assessment[t] = "none"

CompletesAfterAssessing(t) ==
  pc[t] = "complete" \/ status[t] = "completed" =>
    outcome[t] = "nothing" \/ assessment[t] # "none"

RunInv(t) ==
  /\ attempt[t] = 3 => pc[t] = "ended"
  /\ PcStatus(t)
  /\ WorkNeedsRunning(t)
  /\ HoldsWhileActive(t)
  /\ ReleasedIsOver(t)
  /\ CompletesAfterAssessing(t)

OneHolder == \A s, t \in Triggers : holds[s] /\ holds[t] /\ KeyOf[s] = KeyOf[t] => s = t

IInv == TypeOK /\ (\A t \in Triggers : RunInv(t)) /\ OneHolder

LEMMA Initially == Init => IInv
BY KeyAssumption DEF Init, IInv, TypeOK, RunInv, PcStatus, WorkNeedsRunning, HoldsWhileActive,
   ReleasedIsOver, CompletesAfterAssessing, OneHolder, Labels, Task, InFlow, BeforeInsert,
   StatusOrAbsent, Statuses, ActiveStatuses, TERMINAL_RUN_STATUSES, Keys

-------------------------------------------------------------------------------
(* Types *)

LEMMA GotoType ==
  ASSUME TypeOK, NEW t \in Triggers, NEW label \in Labels, Goto(t, label)
  PROVE  pc' \in [Triggers -> Labels]
BY DEF TypeOK, Goto

LEMMA SetRunType ==
  ASSUME TypeOK, NEW t \in Triggers, NEW from, NEW to \in Statuses, NEW o,
         SetRun(t, from, to, o)
  PROVE  /\ status' \in [Triggers -> StatusOrAbsent]
         /\ holds' \in [Triggers -> BOOLEAN]
BY DEF TypeOK, SetRun, Transitioned, StatusOrAbsent

LEMMA ReleaseType ==
  ASSUME TypeOK, NEW k, Release(k)
  PROVE  /\ status' \in [Triggers -> StatusOrAbsent]
         /\ holds' \in [Triggers -> BOOLEAN]
         /\ released' \in [Triggers -> {"no"} \cup ActiveStatuses]
BY DEF TypeOK, Release, ActiveRuns, StatusOrAbsent, Statuses, TERMINAL_RUN_STATUSES

LEMMA LegacyType ==
  ASSUME TypeOK, NEW k \in Keys, ReadLegacy(k)
  PROVE  legacy' \in [Keys -> {"none", "running", "expired", "error"}]
BY DEF TypeOK, ReadLegacy

\* Every step keeps the types; the fourth insert of a claim is never tried.
LEMMA TypeStep ==
  ASSUME TypeOK, \A t \in Triggers : attempt[t] = 3 => pc[t] = "ended", [Next]_vars
  PROVE  TypeOK'
<1> USE DEF Labels, Task
<1> DEFINE Rest == <<attempt, legacy, expired, released, assessment, outcome>>
<1>1. ASSUME NEW t \in Triggers, Arrive(t) PROVE TypeOK'
  <2>1. KeyOf[t] \in Keys BY DEF Keys
  <2>2. legacy' \in [Keys -> {"none", "running", "expired", "error"}]
    BY <1>1, <2>1, LegacyType DEF Arrive
  <2>3. pc' \in [Triggers -> Labels] BY <1>1, GotoType DEF Arrive
  <2> QED BY <1>1, <2>2, <2>3 DEF Arrive, TypeOK, runVars, flowVars
<1>2. ASSUME NEW t \in Triggers, ReleaseStale(t) PROVE TypeOK'
  <2>1. pc' \in [Triggers -> Labels] BY <1>2, GotoType DEF ReleaseStale
  <2>2. \/ Release(KeyOf[t])
        \/ UNCHANGED <<status, holds, released>>
    BY <1>2 DEF ReleaseStale
  <2> QED BY <1>2, <2>1, <2>2, ReleaseType DEF ReleaseStale, TypeOK, flowVars
<1>3. ASSUME NEW t \in Triggers, InsertRun(t) PROVE TypeOK'
  BY <1>3 DEF InsertRun, TypeOK, Goto, flowVars, StatusOrAbsent, Statuses, ActiveStatuses
<1>4. ASSUME NEW t \in Triggers, InsertDuplicate(t) PROVE TypeOK'
  <2>1. attempt[t] \in 0..2 BY <1>4 DEF InsertDuplicate, TypeOK
  <2> QED BY <1>4, <2>1 DEF InsertDuplicate, TypeOK, Goto, runVars, flowVars
<1>5. ASSUME NEW t \in Triggers,
             FindActive(t) \/ StartTask(t) \/ Gate1(t) \/ Phase1(t) \/ Gate2(t) \/ Phase2(t)
               \/ FlowRaises(t)
      PROVE TypeOK'
  <2>1. pc' \in [Triggers -> Labels]
    BY <1>5, GotoType DEF FindActive, StartTask, Gate1, Phase1, Gate2, Phase2, FlowRaises
  <2> QED BY <1>5, <2>1 DEF FindActive, StartTask, Gate1, Phase1, Gate2, Phase2, FlowRaises,
        TypeOK, runVars, flowVars
<1>6. ASSUME NEW t \in Triggers, MarkRunning(t) \/ Complete(t) \/ FailRun(t) PROVE TypeOK'
  <2>1. pc' \in [Triggers -> Labels] BY <1>6, GotoType DEF MarkRunning, Complete, FailRun
  <2>2. {"running", "completed", "failed"} \subseteq Statuses
    BY DEF Statuses, ActiveStatuses, TERMINAL_RUN_STATUSES
  <2>3. /\ status' \in [Triggers -> StatusOrAbsent]
        /\ holds' \in [Triggers -> BOOLEAN]
    BY <1>6, <2>2, SetRunType DEF MarkRunning, Complete, FailRun
  <2>4. UNCHANGED Rest BY <1>6 DEF MarkRunning, Complete, FailRun, flowVars
  <2> QED BY <2>1, <2>3, <2>4 DEF TypeOK
<1>7. ASSUME NEW t \in Triggers, Capture(t) \/ Assess(t) PROVE TypeOK'
  BY <1>7 DEF Capture, Assess, TypeOK, Goto, runVars
<1>8. ASSUME NEW t \in Triggers, LeaseExpires(t) PROVE TypeOK'
  BY <1>8 DEF LeaseExpires, TypeOK, requestVars, flowVars
<1>9. ASSUME NEW k \in Keys, LegacyExpires(k) PROVE TypeOK'
  BY <1>9 DEF LegacyExpires, TypeOK, requestVars, runVars, flowVars
<1>10. ASSUME NEW k \in Keys, PollStatus(k) PROVE TypeOK'
  <2>1. legacy' \in [Keys -> {"none", "running", "expired", "error"}]
    BY <1>10, LegacyType DEF PollStatus, TypeOK
  <2> QED BY <1>10, <2>1, ReleaseType DEF PollStatus, TypeOK, requestVars, flowVars
<1>11. CASE Crash BY <1>11 DEF Crash, TypeOK, runVars, flowVars
<1>12. CASE UNCHANGED vars BY <1>12 DEF TypeOK, vars, requestVars, runVars, flowVars
<1> QED BY <1>1, <1>2, <1>3, <1>4, <1>5, <1>6, <1>7, <1>8, <1>9, <1>10, <1>11, <1>12
        DEF Next, Progress

-------------------------------------------------------------------------------
(* Every step keeps the inductive invariant *)

\* A lease release fails active runs whose lease ran out, and touches no other.
LEMMA ReleaseStep ==
  ASSUME IInv, TypeOK', NEW k, Release(k),
         UNCHANGED <<attempt, expired, assessment, outcome>>,
         \A u \in Triggers :
           \/ pc'[u] = pc[u]
           \/ pc[u] = "release" /\ pc'[u] \in {"insert", "ended"}
  PROVE  (\A u \in Triggers : RunInv(u)') /\ OneHolder'
<1>1. ASSUME NEW u \in Triggers PROVE RunInv(u)'
  <2> DEFINE stale == {t \in ActiveRuns(k) : holds[t] /\ expired[t]}
  <2>1. \/ /\ status'[u] = status[u] /\ (holds'[u] <=> holds[u])
           /\ released'[u] = released[u]
        \/ /\ status[u] \in ActiveStatuses /\ expired[u]
           /\ status'[u] = "failed" /\ ~holds'[u] /\ released'[u] = status[u]
    <3>1. /\ status'[u] = (IF u \in stale THEN "failed" ELSE status[u])
          /\ holds'[u] <=> (holds[u] /\ u \notin stale)
          /\ released'[u] = (IF u \in stale THEN status[u] ELSE released[u])
      BY Zenon DEF Release
    <3>2. u \in stale => status[u] \in ActiveStatuses /\ expired[u] BY DEF ActiveRuns
    <3> QED BY <3>1, <3>2
  <2>2. /\ attempt'[u] = attempt[u] /\ expired'[u] = expired[u]
        /\ assessment'[u] = assessment[u] /\ outcome'[u] = outcome[u]
    OBVIOUS
  <2>3. RunInv(u) BY DEF IInv
  <2>4. InFlow(u)' <=> InFlow(u) BY DEF InFlow, Task
  <2>5. pc[u] = "release" => status[u] = "absent" BY <2>3 DEF RunInv, PcStatus, BeforeInsert
  <2>6. CASE /\ status'[u] = status[u] /\ (holds'[u] <=> holds[u])
             /\ released'[u] = released[u]
    BY <2>2, <2>3, <2>4, <2>6 DEF RunInv, PcStatus, WorkNeedsRunning, HoldsWhileActive,
         ReleasedIsOver, CompletesAfterAssessing, BeforeInsert, InFlow, Task
  <2>7. CASE /\ status[u] \in ActiveStatuses /\ expired[u]
             /\ status'[u] = "failed" /\ ~holds'[u] /\ released'[u] = status[u]
    <3>1. pc'[u] = pc[u] BY <2>5, <2>7 DEF ActiveStatuses
    <3> QED BY <2>2, <2>3, <2>4, <2>7, <3>1 DEF RunInv, PcStatus, WorkNeedsRunning,
          HoldsWhileActive, ReleasedIsOver, CompletesAfterAssessing, BeforeInsert,
          ActiveStatuses
  <2> QED BY <2>1, <2>6, <2>7
<1>2. OneHolder' BY DEF Release, IInv, TypeOK, OneHolder
<1> QED BY <1>1, <1>2

\* A conditional update moves the run and gives the key back, or does nothing.
LEMMA SetRunEffect ==
  ASSUME IInv, NEW t \in Triggers, NEW from, NEW to, NEW o, SetRun(t, from, to, o)
  PROVE  /\ status'[t] = status[t] \/ (status'[t] = to /\ status[t] \in AllowedFrom(from, to))
         /\ holds'[t] <=> (holds[t] /\ status'[t] \notin TERMINAL_RUN_STATUSES)
<1>1. t \in DOMAIN status /\ t \in DOMAIN holds BY DEF IInv, TypeOK
<1>2. status'[t] = IF o = "reject" THEN status[t] ELSE Transitioned(status[t], from, to)
  BY <1>1 DEF SetRun
<1>3. holds'[t] <=> (holds[t] /\ status'[t] \notin TERMINAL_RUN_STATUSES)
  BY <1>1, Zenon DEF SetRun
<1> QED BY <1>2, <1>3 DEF Transitioned

\* A step of a trigger or of its task, other than the lease release.
LEMMA RunStep ==
  ASSUME IInv, TypeOK', NEW t \in Triggers, Progress(t), ~ReleaseStale(t),
         NEW u \in Triggers
  PROVE  RunInv(u)'
<1> USE DEF RunInv, PcStatus, WorkNeedsRunning, HoldsWhileActive, ReleasedIsOver,
            CompletesAfterAssessing, BeforeInsert, InFlow, Task, Goto
<1>1. CASE InsertRun(t)
  <2>1. CASE u # t BY <1>1, <2>1 DEF InsertRun, IInv, TypeOK, flowVars
  <2>2. CASE u = t
    <3>1. RunInv(t) /\ status[t] = "absent" BY <1>1 DEF InsertRun, IInv
    <3>2. \/ status'[t] = "absent" /\ ~holds'[t] /\ pc'[t] = "ended"
          \/ status'[t] = "pending" /\ holds'[t] /\ pc'[t] \in {"queued", "ended"}
      <4>1. t \in DOMAIN status /\ t \in DOMAIN holds /\ t \in DOMAIN pc
        BY DEF IInv, TypeOK
      <4>2. PICK o \in Outcomes :
              /\ status' = [status EXCEPT ![t] = IF o = "reject" THEN @ ELSE "pending"]
              /\ holds' = [holds EXCEPT ![t] = o # "reject"]
              /\ pc' = [pc EXCEPT ![t] = IF o = "ok" THEN "queued" ELSE "ended"]
        BY <1>1 DEF InsertRun
      <4>3. holds'[t] <=> o # "reject" BY <4>1, <4>2, Zenon
      <4> QED BY <3>1, <4>1, <4>2, <4>3
    <3>3. UNCHANGED <<attempt, released, assessment, outcome>>
      BY <1>1 DEF InsertRun, flowVars
    <3>4. attempt[t] # 3 BY <1>1, <3>1 DEF InsertRun
    <3> QED BY <2>2, <3>1, <3>2, <3>3, <3>4 DEF ActiveStatuses, IInv
  <2> QED BY <2>1, <2>2
<1>2. CASE InsertDuplicate(t)
  BY <1>2 DEF InsertDuplicate, IInv, TypeOK, runVars, flowVars
<1>3. CASE FindActive(t) BY <1>3 DEF FindActive, IInv, TypeOK, runVars, flowVars
<1>4. CASE StartTask(t) BY <1>4 DEF StartTask, IInv, TypeOK, runVars, flowVars
<1>5. CASE MarkRunning(t)
  BY <1>5, SourceStatuses DEF MarkRunning, SetRun, Transitioned, Accepted, IInv, TypeOK,
     flowVars, ActiveStatuses, TERMINAL_RUN_STATUSES
<1>6. CASE Capture(t) BY <1>6 DEF Capture, IInv, TypeOK, runVars
<1>7. CASE Gate1(t) \/ Phase1(t) \/ Gate2(t) \/ Phase2(t) \/ FlowRaises(t)
  BY <1>7 DEF Gate1, Phase1, Gate2, Phase2, FlowRaises, IInv, TypeOK, runVars, flowVars
<1>8. CASE Assess(t) BY <1>8 DEF Assess, IInv, TypeOK, runVars
<1>9. CASE Complete(t)
  <2>1. CASE u # t BY <1>9, <2>1 DEF Complete, SetRun, IInv, TypeOK, flowVars
  <2>2. CASE u = t
    <3>1. RunInv(t) BY DEF IInv
    <3>2. \/ status'[t] = status[t] /\ (holds'[t] <=> holds[t])
          \/ /\ status[t] \in ActiveStatuses
             /\ status'[t] = "completed" /\ ~holds'[t]
      BY <1>9, <3>1, SourceStatuses, SetRunEffect DEF Complete, ActiveStatuses,
         TERMINAL_RUN_STATUSES
    <3>3. UNCHANGED <<attempt, expired, released, assessment, outcome>>
      BY <1>9 DEF Complete, flowVars
    <3>4. pc[t] = "complete" /\ pc'[t] \in {"ended", "fail"}
      BY <1>9 DEF Complete, IInv, TypeOK
    <3> QED BY <2>2, <3>1, <3>2, <3>3, <3>4 DEF ActiveStatuses
  <2> QED BY <2>1, <2>2
<1>10. CASE FailRun(t)
  <2>1. CASE u # t BY <1>10, <2>1 DEF FailRun, SetRun, IInv, TypeOK, flowVars
  <2>2. CASE u = t
    <3>1. RunInv(t) BY DEF IInv
    <3>2. \/ status'[t] = status[t] /\ (holds'[t] <=> holds[t])
          \/ /\ status[t] \in ActiveStatuses
             /\ status'[t] = "failed" /\ ~holds'[t]
      BY <1>10, <3>1, SourceStatuses, SetRunEffect DEF FailRun, ActiveStatuses,
         TERMINAL_RUN_STATUSES
    <3>3. UNCHANGED <<attempt, expired, released, assessment, outcome>>
      BY <1>10 DEF FailRun, flowVars
    <3>4. pc[t] = "fail" /\ pc'[t] \in {"ended", "fail"}
      BY <1>10 DEF FailRun, IInv, TypeOK
    <3> QED BY <2>2, <3>1, <3>2, <3>3, <3>4 DEF ActiveStatuses
  <2> QED BY <2>1, <2>2
<1> QED BY <1>1, <1>2, <1>3, <1>4, <1>5, <1>6, <1>7, <1>8, <1>9, <1>10 DEF Progress

\* The claim of a key only changes hands through the unique index.
LEMMA OneHolderStep ==
  ASSUME IInv, TypeOK', NEW t \in Triggers, Progress(t), ~ReleaseStale(t)
  PROVE  OneHolder'
<1>1. CASE InsertRun(t)
  <2>1. \A s \in Triggers \ {t} : holds'[s] = holds[s] BY <1>1 DEF InsertRun, IInv, TypeOK
  <2>2. \A s \in Triggers : KeyOf[s] = KeyOf[t] => ~holds[s] BY <1>1 DEF InsertRun, Holders
  <2> QED BY <2>1, <2>2 DEF OneHolder, IInv
<1>2. CASE ~InsertRun(t)
  <2>1. \A s \in Triggers : holds'[s] => holds[s]
    BY <1>2 DEF Progress, InsertDuplicate, FindActive, StartTask, MarkRunning, Capture, Gate1,
       Phase1, Gate2, Phase2, FlowRaises, Assess, Complete, FailRun, SetRun, IInv, TypeOK,
       runVars
  <2> QED BY <2>1 DEF OneHolder, IInv
<1> QED BY <1>1, <1>2

LEMMA Inductive == IInv /\ [Next]_vars => IInv'
<1> SUFFICES ASSUME IInv, [Next]_vars PROVE IInv' OBVIOUS
<1>1. TypeOK' BY TypeStep DEF IInv, RunInv
<1>2. ASSUME NEW t \in Triggers, Arrive(t) PROVE IInv'
  BY <1>1, <1>2 DEF Arrive, Goto, IInv, TypeOK, OneHolder, RunInv, PcStatus, WorkNeedsRunning,
     HoldsWhileActive, ReleasedIsOver, CompletesAfterAssessing, BeforeInsert, InFlow, Task,
     runVars, flowVars
<1>3. ASSUME NEW t \in Triggers, Progress(t), ~ReleaseStale(t) PROVE IInv'
  BY <1>1, <1>3, RunStep, OneHolderStep DEF IInv
<1>4. ASSUME NEW t \in Triggers, ReleaseStale(t) PROVE IInv'
  <2>1. CASE Release(KeyOf[t])
    <3>1. \A u \in Triggers :
            \/ pc'[u] = pc[u]
            \/ pc[u] = "release" /\ pc'[u] \in {"insert", "ended"}
      BY <1>4 DEF ReleaseStale, Goto, IInv, TypeOK
    <3>2. UNCHANGED <<attempt, expired, assessment, outcome>>
      BY <1>4 DEF ReleaseStale, flowVars
    <3> QED BY <1>1, <2>1, <3>1, <3>2, ReleaseStep DEF IInv
  <2>2. CASE Goto(t, "ended") /\ UNCHANGED <<status, holds, released>>
    BY <1>1, <1>4, <2>2 DEF ReleaseStale, Goto, IInv, TypeOK, OneHolder, RunInv, PcStatus,
       WorkNeedsRunning, HoldsWhileActive, ReleasedIsOver, CompletesAfterAssessing,
       BeforeInsert, InFlow, Task, flowVars
  <2> QED BY <1>4, <2>1, <2>2 DEF ReleaseStale
<1>5. ASSUME NEW t \in Triggers, LeaseExpires(t) PROVE IInv'
  BY <1>1, <1>5 DEF LeaseExpires, IInv, TypeOK, OneHolder, RunInv, PcStatus, WorkNeedsRunning,
     HoldsWhileActive, ReleasedIsOver, CompletesAfterAssessing, InFlow, requestVars, flowVars
<1>6. ASSUME NEW k \in Keys, LegacyExpires(k) PROVE IInv'
  BY <1>1, <1>6 DEF LegacyExpires, IInv, OneHolder, RunInv, PcStatus, WorkNeedsRunning,
     HoldsWhileActive, ReleasedIsOver, CompletesAfterAssessing, InFlow, requestVars, runVars,
     flowVars
<1>7. ASSUME NEW k \in Keys, PollStatus(k) PROVE IInv'
  <2>1. Release(k) /\ UNCHANGED <<pc, attempt, expired, assessment, outcome>>
    BY <1>7 DEF PollStatus, requestVars, flowVars
  <2> QED BY <1>1, <2>1, ReleaseStep DEF IInv
<1>8. CASE Crash
  BY <1>1, <1>8 DEF Crash, IInv, TypeOK, OneHolder, RunInv, PcStatus, WorkNeedsRunning,
     HoldsWhileActive, ReleasedIsOver, CompletesAfterAssessing, BeforeInsert, InFlow, Task,
     runVars, flowVars
<1>9. CASE UNCHANGED vars
  BY <1>1, <1>9 DEF vars, IInv, OneHolder, RunInv, PcStatus, WorkNeedsRunning,
     HoldsWhileActive, ReleasedIsOver, CompletesAfterAssessing, InFlow, requestVars, runVars,
     flowVars
<1> QED BY <1>2, <1>3, <1>4, <1>5, <1>6, <1>7, <1>8, <1>9 DEF Next

LEMMA Invariance == Spec => []IInv
BY Initially, Inductive, PTL DEF Spec

-------------------------------------------------------------------------------
(* The theorems *)

\* Every variable keeps the values that the endpoint, its tasks and the polls can
\* give it; no trigger tries more than three inserts (claim_portfolio_run).
THEOREM TypeCorrect == Spec => []TypeOK
<1>1. IInv => TypeOK BY DEF IInv
<1> QED BY <1>1, Invariance, PTL

\* The unique index and the status agree on who holds a key, at every instant and
\* for any number of triggers, late tasks and lease releases.
THEOREM OneActiveRunHolds == Spec => []OneActiveRun
<1>1. IInv => OneActiveRun BY DEF IInv, RunInv, HoldsWhileActive, OneHolder, OneActiveRun
<1> QED BY <1>1, Invariance, PTL

\* Two flows of one key overlap only when the lease of one of them ran out: the
\* lease release is the single hole in the mutual exclusion of flows.
THEOREM OverlapHolds == Spec => []OverlapNeedsExpiredLease
<1>1. IInv => OverlapNeedsExpiredLease
  <2> SUFFICES ASSUME IInv, NEW s \in Triggers, NEW t \in Triggers, s # t,
                      KeyOf[s] = KeyOf[t], InFlow(s), InFlow(t), ~expired[s], ~expired[t]
               PROVE  FALSE
    BY DEF OverlapNeedsExpiredLease
  <2>1. status[s] = "running" /\ status[t] = "running" BY DEF IInv, RunInv, PcStatus
  <2>2. holds[s] /\ holds[t] BY <2>1 DEF IInv, RunInv, HoldsWhileActive, ActiveStatuses
  <2> QED BY <2>2 DEF IInv, OneHolder
<1> QED BY <1>1, Invariance, PTL

\* A run released before its task marked it running is never worked on.
THEOREM ReleasedRunHolds == Spec => []ReleasedRunIsNotWorkedOn
<1>1. IInv => ReleasedRunIsNotWorkedOn
  BY DEF IInv, RunInv, ReleasedIsOver, ReleasedRunIsNotWorkedOn
<1> QED BY <1>1, Invariance, PTL

\* A completed run has its assessment, unless there was nothing to assess.
THEOREM CompletedRunHolds == Spec => []CompletedRunHasAssessment
<1>1. IInv => CompletedRunHasAssessment
  BY DEF IInv, RunInv, CompletesAfterAssessing, CompletedRunHasAssessment
<1> QED BY <1>1, Invariance, PTL

\* A release touches one run at most: the index lets one run hold the key.
LEMMA ReleaseMovesOne ==
  ASSUME IInv, NEW k, Release(k), status' # status
  PROVE  \E t \in Triggers :
           status[t] \in ActiveStatuses /\ status' = [status EXCEPT ![t] = "failed"]
<1> DEFINE stale == {t \in ActiveRuns(k) : holds[t] /\ expired[t]}
<1>1. status' = [t \in Triggers |-> IF t \in stale THEN "failed" ELSE status[t]]
  BY DEF Release
<1>2. stale # {}
  <2> SUFFICES ASSUME stale = {} PROVE FALSE OBVIOUS
  <2>1. status' = [t \in Triggers |-> status[t]] BY <1>1
  <2> QED BY <2>1 DEF IInv, TypeOK
<1>3. PICK t \in stale : TRUE BY <1>2
<1>4. \A s \in stale : s = t BY <1>3 DEF ActiveRuns, IInv, OneHolder
<1>5. status' = [status EXCEPT ![t] = "failed"]
  <2> HIDE DEF stale
  <2> QED BY <1>1, <1>3, <1>4 DEF IInv, TypeOK
<1> QED BY <1>3, <1>5 DEF ActiveRuns

\* The dashboard keeps the promise of agent_runs: runs are inserted pending, move
\* along the status graph only, and never out of a terminal status.
THEOREM Refinement == Spec => RefinesAgentRun
<1>1. Init => Run!Init BY DEF Init, Run!Init
<1>2. Run!Statuses = Statuses /\ Run!ALLOWED_RUN_TRANSITIONS = ALLOWED_RUN_TRANSITIONS
  BY DEF Run!Statuses, Run!ActiveStatuses, Run!TERMINAL_RUN_STATUSES, Statuses, ActiveStatuses,
         TERMINAL_RUN_STATUSES, Run!ALLOWED_RUN_TRANSITIONS, ALLOWED_RUN_TRANSITIONS
<1>3. ASSUME NEW t \in Triggers, NEW to \in Statuses,
             <<status[t], to>> \in ALLOWED_RUN_TRANSITIONS,
             status' = [status EXCEPT ![t] = to]
      PROVE  Run!Next
  <2>1. status[t] \in Statuses BY <1>3 DEF ALLOWED_RUN_TRANSITIONS, Statuses, ActiveStatuses
  <2>2. Run!Move(t, to) BY <1>2, <1>3, <2>1 DEF Run!Move
  <2> QED BY <1>2, <2>2 DEF Run!Next
<1>4. {"running", "completed", "failed"} \subseteq Statuses
  BY DEF Statuses, ActiveStatuses, TERMINAL_RUN_STATUSES
<1>5. ASSUME IInv, NEW t \in Triggers, NEW from, NEW to \in Statuses, NEW o,
             SetRun(t, from, to, o), status' # status
      PROVE  Run!Next
  <2>1. status' = [status EXCEPT ![t] = status'[t]] /\ status'[t] # status[t]
    BY <1>5 DEF SetRun, IInv, TypeOK
  <2>2. status'[t] = to /\ status[t] \in AllowedFrom(from, to) BY <1>5, <2>1, SetRunEffect
  <2> QED BY <1>3, <2>1, <2>2 DEF AllowedFrom
<1>6. ASSUME IInv, NEW k, Release(k), status' # status PROVE Run!Next
  <2>1. PICK t \in Triggers :
          status[t] \in ActiveStatuses /\ status' = [status EXCEPT ![t] = "failed"]
    BY <1>6, ReleaseMovesOne
  <2>2. <<status[t], "failed">> \in ALLOWED_RUN_TRANSITIONS
    BY <2>1 DEF ActiveStatuses, ALLOWED_RUN_TRANSITIONS
  <2> QED BY <1>3, <1>4, <2>1, <2>2
<1>7. ASSUME IInv, NEW t \in Triggers, InsertRun(t), status' # status PROVE Run!Next
  <2>1. status[t] = "absent" BY <1>7 DEF InsertRun, IInv, RunInv, PcStatus, BeforeInsert
  <2>2. status' = [status EXCEPT ![t] = "pending"]
    BY <1>7 DEF InsertRun, IInv, TypeOK
  <2>3. Run!Claim(t) BY <2>1, <2>2 DEF Run!Claim, Run!SameRequest
  <2> QED BY <2>3 DEF Run!Next
<1>8. ASSUME IInv, [Next]_vars PROVE [Run!Next]_status
  <2> SUFFICES ASSUME status' # status PROVE Run!Next OBVIOUS
  <2>1. ASSUME NEW t \in Triggers, Progress(t) PROVE Run!Next
    <3>1. CASE ReleaseStale(t) BY <1>6, <1>8, <3>1 DEF ReleaseStale
    <3>2. CASE InsertRun(t) BY <1>7, <1>8, <3>2
    <3>3. CASE MarkRunning(t) \/ Complete(t) \/ FailRun(t)
      BY <1>4, <1>5, <1>8, <3>3 DEF MarkRunning, Complete, FailRun
    <3>4. CASE InsertDuplicate(t) \/ FindActive(t) \/ StartTask(t) \/ Capture(t) \/ Gate1(t)
               \/ Phase1(t) \/ Gate2(t) \/ Phase2(t) \/ FlowRaises(t) \/ Assess(t)
      BY <3>4 DEF InsertDuplicate, FindActive, StartTask, Capture, Gate1, Phase1, Gate2, Phase2,
         FlowRaises, Assess, runVars
    <3> QED BY <2>1, <3>1, <3>2, <3>3, <3>4 DEF Progress
  <2>2. ASSUME NEW k \in Keys, PollStatus(k) PROVE Run!Next
    BY <1>6, <1>8, <2>2 DEF PollStatus
  <2>3. ASSUME NEW t \in Triggers, Arrive(t) \/ LeaseExpires(t) PROVE FALSE
    BY <2>3 DEF Arrive, LeaseExpires, runVars
  <2>4. ASSUME NEW k \in Keys, LegacyExpires(k) PROVE FALSE
    BY <2>4 DEF LegacyExpires, runVars
  <2>5. CASE Crash \/ UNCHANGED vars BY <2>5 DEF Crash, vars, runVars
  <2> QED BY <1>8, <2>1, <2>2, <2>3, <2>4, <2>5 DEF Next
<1> QED BY <1>1, <1>8, Invariance, PTL DEF Spec, RefinesAgentRun, Run!Spec

===============================================================================
