------------------------------ MODULE PaperJournal ------------------------------
(***************************************************************************)
(* What a paper experiment promises: an append-only log in which every     *)
(* request is recorded at most once, on exactly the state its author had   *)
(* seen, only while the experiment is open and the books allow it; and a   *)
(* valuation covers the positions and belongs to the session of its        *)
(* moment.                                                                 *)
(***************************************************************************)
EXTENDS Integers, Sequences

CONSTANTS
  RequestIds, Entries, Budget,
  Closed(_),      \* whether a log has ended
  Accepts(_, _),  \* whether the books after a log allow for an entry
  Positions(_)    \* the symbols that are held after a log

VARIABLES log, today

vars == <<log, today>>

\* What is written down for an entry on top of a log.
Event(q, entry) ==
  [request |-> q, entry |-> entry, expected |-> Len(log),
   marks |-> IF entry.kind = "valuation" THEN Positions(log) ELSE {}]

Init == log = <<>> /\ today = 0

\* A session of the exchange closes.
Close == today' = today + 1 /\ UNCHANGED log

Allowed(q, entry) ==
  /\ ~Closed(log) /\ Len(log) < Budget
  /\ \A i \in DOMAIN log : log[i].request # q
  /\ Accepts(log, entry)
  /\ entry.kind = "valuation" => entry.session = today

Record(q, entry) ==
  /\ entry.kind = "created" <=> log = <<>>
  /\ log' = Append(log, Event(q, entry))
  /\ log # <<>> => Allowed(q, entry)
  /\ UNCHANGED today

Next == Close \/ (log' # log /\ \E q \in RequestIds, entry \in Entries : Record(q, entry))

Spec == Init /\ [][Next]_vars

===============================================================================
