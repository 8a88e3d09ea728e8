------------------------------ MODULE AtomicReview ------------------------------
(***************************************************************************)
(* What the review control promises: a proposal, an approval or a          *)
(* cancellation is one step, taken while nobody changes the inputs, and a  *)
(* batch is only approved on the very inputs it was evaluated on.          *)
(***************************************************************************)
CONSTANTS Requests, NoRequest

VARIABLES
  inputs,     \* account and configuration
  quiet,      \* no mutation is in flight, and none failed unreconciled
  evaluated,  \* published batches: the inputs they were evaluated on
  current,    \* the current batch and its state
  approved    \* batches that were approved

vars == <<inputs, quiet, evaluated, current, approved>>

reviews == <<evaluated, current, approved>>

Init ==
  /\ quiet = TRUE
  /\ evaluated = [q \in {} |-> inputs]
  /\ current = [batch |-> NoRequest, state |-> "none"]
  /\ approved = {}

\* A mutation of the inputs begins, writes or ends; an account is reconciled.  Nothing
\* is written before its mutation has begun.
Change ==
  /\ quiet => UNCHANGED inputs
  /\ UNCHANGED reviews

Publish(q) ==
  /\ quiet /\ q \notin DOMAIN evaluated
  /\ evaluated' = [r \in DOMAIN evaluated \cup {q} |-> IF r = q THEN inputs ELSE evaluated[r]]
  /\ current' = [batch |-> q, state |-> "published"]
  /\ UNCHANGED <<inputs, quiet, approved>>

Approve ==
  /\ quiet /\ current.state = "published" /\ evaluated[current.batch] = inputs
  /\ current.batch \notin approved
  /\ current' = [current EXCEPT !.state = "approved"]
  /\ approved' = approved \cup {current.batch}
  /\ UNCHANGED <<inputs, quiet, evaluated>>

\* The account may be uncertain.
Cancel ==
  /\ current.batch # NoRequest
  /\ current' = [current EXCEPT !.state = "cancelled"]
  /\ UNCHANGED <<inputs, quiet, evaluated, approved>>

Next == Change \/ Approve \/ Cancel \/ \E q \in Requests : Publish(q)

Spec == Init /\ [][Next]_vars

===============================================================================
