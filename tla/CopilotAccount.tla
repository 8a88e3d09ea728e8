----------------------------- MODULE CopilotAccount -----------------------------
(***************************************************************************)
(* What the stored Copilot account promises: sessions follow one another   *)
(* and none comes back; a session is granted at most once and loses all it *)
(* has when it ends; and every change of the model routing, the end of a   *)
(* session included, has a revision of its own, so that a client who names *)
(* a revision names one configuration of one session.                      *)
(***************************************************************************)
EXTENDS Integers

CONSTANTS
  Routings,     \* what a user can choose
  NoRouting     \* what a session begins with

VARIABLES
  session,   \* the current session
  ended,     \* the sessions before it
  granted,   \* whether GitHub has granted the current session
  routing    \* the revision and the choice

vars == <<session, ended, granted, routing>>

Init ==
  /\ session \in Nat /\ ended = {} /\ granted \in BOOLEAN
  /\ routing.choice \in Routings \cup {NoRouting}

Revised(choice) == [revision |-> routing.revision + 1, choice |-> choice]

\* The user logs in or out, or GitHub refuses what it had granted.
Replace ==
  /\ session' \in Nat \ (ended \cup {session})
  /\ ended' = ended \cup {session}
  /\ granted' = FALSE
  /\ routing' = Revised(NoRouting)

Grant == ~granted /\ granted' = TRUE /\ UNCHANGED <<session, ended, routing>>

Route ==
  /\ granted
  /\ \E choice \in Routings : routing' = Revised(choice)
  /\ UNCHANGED <<session, ended, granted>>

Next == Replace \/ Grant \/ Route

Spec == Init /\ [][Next]_vars

===============================================================================
