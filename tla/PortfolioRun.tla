------------------------------ MODULE PortfolioRun ------------------------------
(***************************************************************************)
(* Dashboard analyses: POST trigger-analysis claims the one active run of  *)
(* its portfolio key, and a background task of the same process carries it *)
(* out (api/portfolio_admin.py, agent/portfolio/flows.py).  A claim is a   *)
(* two-hour lease, which triggers and status polls release when it has     *)
(* run out, whatever its task is doing by then.                            *)
(*                                                                         *)
(* The run document is indexed by the trigger that minted its run_id; pc   *)
(* follows the request and then the task it queued.                        *)
(***************************************************************************)
EXTENDS Naturals, RunStatus

CONSTANTS
  Triggers,     \* POST requests that reach the endpoint
  KeyOf,        \* "holdings", "picks" or "single_<SYMBOL>" of each
  RunsMayFail   \* calls on agent_runs may raise

ASSUME KeyAssumption == DOMAIN KeyOf = Triggers
ASSUME FaultAssumption == RunsMayFail \in BOOLEAN

VARIABLES
  pc,          \* where the request, then its background task, is
  attempt,     \* inserts that claim_portfolio_run has tried
  legacy,      \* analysis_runs: the record of each key from before the shared model
  status,      \* agent_runs: status of the run the trigger created
  holds,       \* agent_runs: its active_portfolio_key is set
  expired,     \* its lease_expires_at has passed
  released,    \* history: the status the lease release took it from, or "no"
  assessment,  \* decision_assessments: "none", "research" or "proposals"
  outcome      \* what the flow returned: "none", "nothing" to do, or "assessed"

requestVars == <<pc, attempt>>
runVars == <<status, holds, expired, released>>
flowVars == <<assessment, outcome>>
vars == <<requestVars, legacy, runVars, flowVars>>

Keys == {KeyOf[t] : t \in Triggers}

Task == {"mark", "capture", "gate1", "phase1", "gate2", "phase2", "assess",
         "assess_no_agent", "complete", "fail"}

Labels == Task \cup {"new", "release", "insert", "find", "queued", "ended"}

\* The flow itself, between the transition to running and the terminal one.
InFlow(t) == pc[t] \in Task \ {"mark", "complete", "fail"}

Outcomes == IF RunsMayFail THEN {"ok", "reject", "lost"} ELSE {"ok"}

Goto(t, label) == pc' = [pc EXCEPT ![t] = label]

ActiveRuns(k) == {t \in Triggers : KeyOf[t] = k /\ status[t] \in ActiveStatuses}

-------------------------------------------------------------------------------
(* The run document *)

\* AgentRunRepository.transition: a terminal status gives the key back.
SetRun(t, from, to, o) ==
  /\ status' = [status EXCEPT ![t] = IF o = "reject" THEN @ ELSE Transitioned(@, from, to)]
  /\ holds' = [holds EXCEPT ![t] = @ /\ status'[t] \notin TERMINAL_RUN_STATUSES]

Accepted(t, from, to, o) == o = "ok" /\ status[t] \in AllowedFrom(from, to)

\* Mutant: only runs that started are released.
ReleaseRunning(k) ==
  LET stale == {t \in ActiveRuns(k) : holds[t] /\ expired[t] /\ status[t] = "running"}
  IN  /\ status' = [t \in Triggers |-> IF t \in stale THEN "failed" ELSE status[t]]
      /\ holds' = [t \in Triggers |-> holds[t] /\ t \notin stale]
      /\ released' = [t \in Triggers |-> IF t \in stale THEN status[t] ELSE released[t]]

\* Mutant: the filter looks at the lease only, not at the status.
ReleaseByLease(k) ==
  LET stale == {t \in Triggers : KeyOf[t] = k /\ status[t] # "absent" /\ expired[t]}
  IN  /\ status' = [t \in Triggers |-> IF t \in stale THEN "failed" ELSE status[t]]
      /\ holds' = [t \in Triggers |-> holds[t] /\ t \notin stale]
      /\ UNCHANGED released

\* release_stale_portfolio_claim: one update_many.
Release(k) ==
  LET stale == {t \in ActiveRuns(k) : holds[t] /\ expired[t]}
  IN  /\ status' = [t \in Triggers |-> IF t \in stale THEN "failed" ELSE status[t]]
      /\ holds' = [t \in Triggers |-> holds[t] /\ t \notin stale]
      /\ released' = [t \in Triggers |-> IF t \in stale THEN status[t] ELSE released[t]]

-------------------------------------------------------------------------------
(* The request: legacy record, settings, claim *)

\* _get_legacy_run: a record whose lease ran out becomes an error when it is read.
ReadLegacy(k) ==
  legacy' = [legacy EXCEPT ![k] = IF @ = "expired" THEN "error" ELSE @]

\* A running legacy record answers the request; so do missing or invalid settings.
Arrive(t) ==
  /\ pc[t] = "new"
  /\ ReadLegacy(KeyOf[t])
  /\ \/ Goto(t, "ended")
     \/ legacy[KeyOf[t]] # "running" /\ Goto(t, "release")
  /\ UNCHANGED <<attempt, runVars, flowVars>>

ReleaseStale(t) ==
  /\ pc[t] = "release"
  /\ \/ Release(KeyOf[t]) /\ Goto(t, "insert")
     \/ RunsMayFail /\ Release(KeyOf[t]) /\ Goto(t, "ended")
     \/ RunsMayFail /\ Goto(t, "ended") /\ UNCHANGED <<status, holds, released>>
  /\ UNCHANGED <<attempt, legacy, expired, flowVars>>

Holders(k) == {t \in Triggers : KeyOf[t] = k /\ holds[t]}

\* Mutant: the index on active_portfolio_key is not unique.
InsertRunAnyway(t) ==
  /\ pc[t] = "insert"
  /\ status' = [status EXCEPT ![t] = "pending"]
  /\ holds' = [holds EXCEPT ![t] = TRUE]
  /\ Goto(t, "queued")
  /\ UNCHANGED <<attempt, legacy, expired, released, flowVars>>

\* The insert wins the unique active_portfolio_key and queues the task.
InsertRun(t) ==
  /\ pc[t] = "insert" /\ Holders(KeyOf[t]) = {}
  /\ \E o \in Outcomes :
       /\ status' = [status EXCEPT ![t] = IF o = "reject" THEN @ ELSE "pending"]
       /\ holds' = [holds EXCEPT ![t] = o # "reject"]
       /\ Goto(t, IF o = "ok" THEN "queued" ELSE "ended")
  /\ UNCHANGED <<attempt, legacy, expired, released, flowVars>>

\* DuplicateKeyError: look for the winner, but the third time it is raised.
InsertDuplicate(t) ==
  /\ pc[t] = "insert" /\ Holders(KeyOf[t]) # {}
  /\ attempt' = [attempt EXCEPT ![t] = @ + 1]
  /\ Goto(t, IF attempt[t] < 2 THEN "find" ELSE "ended")
  /\ UNCHANGED <<legacy, runVars, flowVars>>

\* get_active_by_portfolio_key: the winner's run is the answer, or it is over
\* and the insert is tried again.
FindActive(t) ==
  /\ pc[t] = "find"
  /\ \/ Goto(t, IF ActiveRuns(KeyOf[t]) # {} THEN "ended" ELSE "insert")
     \/ RunsMayFail /\ Goto(t, "ended")
  /\ UNCHANGED <<attempt, legacy, runVars, flowVars>>

-------------------------------------------------------------------------------
(* The background task *)

StartTask(t) ==
  /\ pc[t] = "queued"
  /\ Goto(t, "mark")
  /\ UNCHANGED <<attempt, legacy, runVars, flowVars>>

\* Mutant: the result of the transition is not looked at.
MarkRunningAnyway(t) ==
  /\ pc[t] = "mark"
  /\ SetRun(t, {"pending"}, "running", "ok")
  /\ Goto(t, "capture")
  /\ UNCHANGED <<attempt, legacy, expired, released, flowVars>>

\* No flow for a run that could not be moved to running.
MarkRunning(t) ==
  /\ pc[t] = "mark"
  /\ \E o \in Outcomes :
       /\ SetRun(t, {"pending"}, "running", o)
       /\ Goto(t, IF Accepted(t, {"pending"}, "running", o) THEN "capture" ELSE "fail")
  /\ UNCHANGED <<attempt, legacy, expired, released, flowVars>>

\* Holdings, universe, risk and evidence snapshots; there may be nothing to do.
Capture(t) ==
  /\ pc[t] = "capture"
  /\ \/ Goto(t, "gate1") /\ UNCHANGED outcome
     \/ Goto(t, "complete") /\ outcome' = [outcome EXCEPT ![t] = "nothing"]
  /\ UNCHANGED <<attempt, legacy, runVars, assessment>>

\* The agent is dropped when the run is seen not to be running any more.
Gate1(t) ==
  /\ pc[t] = "gate1"
  /\ Goto(t, IF status[t] = "running" THEN "phase1" ELSE "assess_no_agent")
  /\ UNCHANGED <<attempt, legacy, runVars, flowVars>>

Phase1(t) ==
  /\ pc[t] = "phase1"
  /\ Goto(t, "gate2")
  /\ UNCHANGED <<attempt, legacy, runVars, flowVars>>

\* Phase 2 also needs complete and consistent research and a complete estimate.
Gate2(t) ==
  /\ pc[t] = "gate2"
  /\ \/ status[t] = "running" /\ Goto(t, "phase2")
     \/ Goto(t, "assess_no_agent")
  /\ UNCHANGED <<attempt, legacy, runVars, flowVars>>

Phase2(t) ==
  /\ pc[t] = "phase2"
  /\ Goto(t, "assess")
  /\ UNCHANGED <<attempt, legacy, runVars, flowVars>>

FlowRaises(t) ==
  /\ InFlow(t)
  /\ Goto(t, "fail")
  /\ UNCHANGED <<attempt, legacy, runVars, flowVars>>

\* assess_and_persist: one insert under the id of the source and the run; it may
\* raise after it was applied (FlowRaises covers the rejection).
Assess(t) ==
  /\ pc[t] \in {"assess", "assess_no_agent"}
  /\ assessment' = [assessment EXCEPT
       ![t] = IF pc[t] = "assess" THEN "proposals" ELSE "research"]
  /\ \/ Goto(t, "complete") /\ outcome' = [outcome EXCEPT ![t] = "assessed"]
     \/ Goto(t, "fail") /\ UNCHANGED outcome
  /\ UNCHANGED <<attempt, legacy, runVars>>

\* The result of the completion is ignored; only an exception fails the run.
Complete(t) ==
  /\ pc[t] = "complete"
  /\ \E o \in Outcomes :
       /\ SetRun(t, FromStatuses["completed"], "completed", o)
       /\ Goto(t, IF o = "ok" THEN "ended" ELSE "fail")
  /\ UNCHANGED <<attempt, legacy, expired, released, flowVars>>

\* The failure is written by the except clause itself: it may raise too.
FailRun(t) ==
  /\ pc[t] = "fail"
  /\ \E o \in Outcomes : SetRun(t, FromStatuses["failed"], "failed", o)
  /\ Goto(t, "ended")
  /\ UNCHANGED <<attempt, legacy, expired, released, flowVars>>

-------------------------------------------------------------------------------
(* Time, status polls, and the crash of the process *)

LeaseExpires(t) ==
  /\ status[t] \in ActiveStatuses /\ ~expired[t]
  /\ expired' = [expired EXCEPT ![t] = TRUE]
  /\ UNCHANGED <<requestVars, legacy, status, holds, released, flowVars>>

LegacyExpires(k) ==
  /\ legacy[k] = "running"
  /\ legacy' = [legacy EXCEPT ![k] = "expired"]
  /\ UNCHANGED <<requestVars, runVars, flowVars>>

\* GET status: release, then the newest run of the key or the legacy record.
PollStatus(k) ==
  /\ Release(k)
  /\ IF \E t \in Triggers : KeyOf[t] = k /\ status[t] # "absent"
     THEN UNCHANGED legacy ELSE ReadLegacy(k)
  /\ UNCHANGED <<requestVars, expired, flowVars>>

\* BackgroundTasks live in the process: their runs stay where they were.
Crash ==
  /\ \E t \in Triggers : pc[t] \notin {"new", "ended"}
  /\ pc' = [t \in Triggers |-> IF pc[t] = "new" THEN "new" ELSE "ended"]
  /\ UNCHANGED <<attempt, legacy, runVars, flowVars>>

-------------------------------------------------------------------------------
Init ==
  /\ pc = [t \in Triggers |-> "new"]
  /\ attempt = [t \in Triggers |-> 0]
  /\ legacy \in [Keys -> {"none", "running"}]
  /\ status = [t \in Triggers |-> "absent"]
  /\ holds = [t \in Triggers |-> FALSE]
  /\ expired = [t \in Triggers |-> FALSE]
  /\ released = [t \in Triggers |-> "no"]
  /\ assessment = [t \in Triggers |-> "none"]
  /\ outcome = [t \in Triggers |-> "none"]

Progress(t) ==
  \/ ReleaseStale(t) \/ InsertRun(t) \/ InsertDuplicate(t) \/ FindActive(t)
  \/ StartTask(t) \/ MarkRunning(t) \/ Capture(t) \/ Gate1(t) \/ Phase1(t)
  \/ Gate2(t) \/ Phase2(t) \/ FlowRaises(t) \/ Assess(t) \/ Complete(t) \/ FailRun(t)

Next ==
  \/ \E t \in Triggers : Arrive(t) \/ Progress(t) \/ LeaseExpires(t)
  \/ \E k \in Keys : LegacyExpires(k) \/ PollStatus(k)
  \/ Crash

Spec == Init /\ [][Next]_vars

\* The clock does not stop, and the dashboard polls the status of its keys.
\* Nothing forces a task to make progress: its model calls may hang.
Fairness ==
  /\ \A t \in Triggers : WF_vars(LeaseExpires(t))
  /\ \A k \in Keys : WF_vars(PollStatus(k))

FairSpec == Spec /\ Fairness

-------------------------------------------------------------------------------
(* Properties *)

\* Every variable keeps the values the code can give it.
TypeOK ==
  /\ pc \in [Triggers -> Labels]
  /\ attempt \in [Triggers -> 0..3]
  /\ legacy \in [Keys -> {"none", "running", "expired", "error"}]
  /\ status \in [Triggers -> StatusOrAbsent]
  /\ holds \in [Triggers -> BOOLEAN]
  /\ expired \in [Triggers -> BOOLEAN]
  /\ released \in [Triggers -> {"no"} \cup ActiveStatuses]
  /\ assessment \in [Triggers -> {"none", "research", "proposals"}]
  /\ outcome \in [Triggers -> {"none", "nothing", "assessed"}]

\* At most one active run per key, and the key is held exactly by active runs: a
\* lookup by status after a duplicate-key error and the index agree
\* (claim_portfolio_run, transition, release_stale_portfolio_claim).
OneActiveRun ==
  /\ \A t \in Triggers : holds[t] <=> status[t] \in ActiveStatuses
  /\ \A s, t \in Triggers : holds[s] /\ holds[t] /\ KeyOf[s] = KeyOf[t] => s = t

\* Two flows of one key are at work together only after a lease ran out.
OverlapNeedsExpiredLease ==
  \A s, t \in Triggers :
    s # t /\ KeyOf[s] = KeyOf[t] /\ InFlow(s) /\ InFlow(t) => expired[s] \/ expired[t]

\* A run whose claim was released before its task marked it running is never
\* worked on: no flow, no assessment (_run_holdings_flow and its siblings).
ReleasedRunIsNotWorkedOn ==
  \A t \in Triggers :
    released[t] = "pending" => ~InFlow(t) /\ assessment[t] = "none"

\* A completed run has its assessment unless there was nothing to assess, so a
\* reader that finds the run completed finds the research of that very run.
CompletedRunHasAssessment ==
  \A t \in Triggers :
    status[t] = "completed" => outcome[t] = "nothing" \/ assessment[t] # "none"

Run == INSTANCE AgentRun WITH
         Runs <- Triggers,
         RequestOf <- [t \in Triggers |-> "none"],
         NoRequest <- "none"

\* Triggers, tasks and lease releases keep the promise of agent_runs.
RefinesAgentRun == Run!Spec

\* A key is given back whatever happens to the task that holds it.
KeysAreFreed == \A t \in Triggers : holds[t] ~> ~holds[t]

===============================================================================
