------------------------------ MODULE RunStatus ------------------------------
(***************************************************************************)
(* The status graph of a durable agent run (models/agent_run.py) and the   *)
(* effect of the repository's conditional status update on one document.   *)
(* Chat runs and portfolio runs share both.                                *)
(***************************************************************************)

ActiveStatuses == {"pending", "running"}

TERMINAL_RUN_STATUSES == {"completed", "failed", "cancelled"}

Statuses == ActiveStatuses \cup {"waiting_for_input"} \cup TERMINAL_RUN_STATUSES

\* "absent": no document of the agent_runs collection has this run_id yet.
StatusOrAbsent == Statuses \cup {"absent"}

ALLOWED_RUN_TRANSITIONS ==
  ({"pending"} \X {"running", "waiting_for_input", "failed", "cancelled"})
  \cup ({"running"} \X {"waiting_for_input", "completed", "failed", "cancelled"})
  \cup ({"waiting_for_input"} \X {"running", "completed", "failed", "cancelled"})

\* The statuses the caller of transition() names that the graph lets reach "to".
AllowedFrom(from, to) == {s \in from : <<s, to>> \in ALLOWED_RUN_TRANSITIONS}

\* find_one_and_update filtered on the status: a document outside the filter
\* stays as it is, and the caller gets None.
Transitioned(current, from, to) ==
  IF current \in AllowedFrom(from, to) THEN to ELSE current

\* The from_statuses AgentRunService passes for each target status.
FromStatuses ==
  [running |-> {"pending", "waiting_for_input"},
   completed |-> {"running", "waiting_for_input"},
   waiting_for_input |-> {"pending", "running"},
   failed |-> {"pending", "running", "waiting_for_input"},
   cancelled |-> {"pending", "running", "waiting_for_input"}]

===============================================================================
