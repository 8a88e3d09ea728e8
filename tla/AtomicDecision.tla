----------------------------- MODULE AtomicDecision -----------------------------
(***************************************************************************)
(* What a model decision promises, however often it is asked for: it is    *)
(* recorded once, under the policy it was claimed under, and then never    *)
(* changes; it is published under a name once, under the version of the    *)
(* inputs that its requester named, and as ready for approval only while   *)
(* the policy that it names is the active one.                             *)
(***************************************************************************)
EXTENDS Integers

CONSTANTS Answers, Names, NoAnswer

VARIABLES
  decision,  \* the record: its status, its policy, its answer
  control,   \* the version of the inputs and the active policy
  reviews    \* what was published of the decision

vars == <<decision, control, reviews>>

Init ==
  /\ decision = [status |-> "none", policy |-> 0, answer |-> NoAnswer]
  /\ control = [version |-> 1, policy |-> 1]
  /\ reviews = {}

\* Somebody else changes the account, the policy or the reviews.
Change ==
  /\ control'.version = control.version + 1
  /\ UNCHANGED <<decision, reviews>>

Claim ==
  /\ decision.status = "none"
  /\ \E p \in 1..control.version : decision' = [decision EXCEPT !.status = "running", !.policy = p]
  /\ UNCHANGED <<control, reviews>>

Complete(a) ==
  /\ decision.status = "running"
  /\ decision' = [decision EXCEPT !.status = "completed", !.answer = a]
  /\ UNCHANGED <<control, reviews>>

Fail ==
  /\ decision.status = "running"
  /\ decision' = [decision EXCEPT !.status = "failed"]
  /\ UNCHANGED <<control, reviews>>

Publish(name, ready) ==
  /\ decision.status = "completed" /\ \A r \in reviews : r.name # name
  /\ ready => decision.policy = control.policy
  /\ reviews' = reviews \cup
       {[name |-> name, answer |-> decision.answer, expected |-> control.version, ready |-> ready]}
  /\ control' = [control EXCEPT !.version = @ + 1]
  /\ UNCHANGED decision

Next ==
  \/ Change \/ Claim \/ Fail
  \/ \E a \in Answers : Complete(a)
  \/ \E name \in Names, ready \in BOOLEAN : Publish(name, ready)

Spec == Init /\ [][Next]_vars

===============================================================================
