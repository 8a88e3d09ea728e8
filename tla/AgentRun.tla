------------------------------- MODULE AgentRun -------------------------------
(***************************************************************************)
(* What the agent_runs collection promises every reader, whatever handler  *)
(* writes it: one client request owns at most one run document, a run      *)
(* moves only along the status graph, and a terminal run never moves.      *)
(* ChatRun and PortfolioRun are shown to implement it.                     *)
(***************************************************************************)
EXTENDS RunStatus

CONSTANTS
  Runs,       \* run_ids that may ever be minted
  RequestOf,  \* the client request_id each run carries
  NoRequest   \* a run without request_id, which idempotency leaves alone

VARIABLE status

SameRequest(r, s) == RequestOf[r] = RequestOf[s] /\ RequestOf[r] # NoRequest

Init == status = [r \in Runs |-> "absent"]

\* The unique partial index on request_id: the first insert owns the request.
Claim(r) ==
  /\ status[r] = "absent"
  /\ \A s \in Runs : SameRequest(r, s) => status[s] = "absent"
  /\ status' = [status EXCEPT ![r] = "pending"]

Move(r, to) ==
  /\ status[r] \in Statuses
  /\ <<status[r], to>> \in ALLOWED_RUN_TRANSITIONS
  /\ status' = [status EXCEPT ![r] = to]

Next == \E r \in Runs : Claim(r) \/ \E to \in Statuses : Move(r, to)

Spec == Init /\ [][Next]_status

===============================================================================
