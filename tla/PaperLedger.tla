------------------------------ MODULE PaperLedger ------------------------------
(***************************************************************************)
(* One paper experiment (services/paper_ledger/store.py and service.py):   *)
(* a document with a list of events, which a request reads, extends and    *)
(* writes back under a filter on the sequence that it read.  Requests are  *)
(* delivered more than once, overlap, and may be a valuation that waits    *)
(* for prices while the exchange closes another session.                   *)
(*                                                                         *)
(* A body is what the client sends; its fingerprint is the body itself.    *)
(* An event is a body and, for a valuation, the symbols it marked.  Hashes *)
(* and times of recording are left out.                                    *)
(***************************************************************************)
EXTENDS PaperAccounting

CONSTANTS
  RequestIds,     \* request_ids
  Creation,     \* the request_id whose digest is the experiment's identifier
  Deliveries,   \* HTTP requests that are served at a time
  Entries,      \* entries a client may send
  Budget,       \* events of an experiment (500 in the code)
  MaxSession,   \* bound: sessions that close while the model looks on
  CallsFail       \* storage and provider calls may raise, and requests be cancelled

ASSUME CreationAssumption == Creation \in RequestIds
ASSUME EntriesAssumption == \A entry \in Entries : IsEntry(entry)
ASSUME BudgetAssumption == Budget \in Nat \ {0} /\ MaxSession \in Nat
ASSUME CallsFailAssumption == CallsFail \in BOOLEAN

VARIABLES
  events,    \* the document's events; none before it is created
  session,   \* the last completed session of the exchange
  place, mem    \* a delivery: its place; its body and the events it read

ledger == <<events, session, place, mem>>

Idle == {"idle", "answered", "refused"}

NoBody == [request |-> Creation, entry |-> [kind |-> "none"], expected |-> 0]

NoMemory == [body |-> NoBody, read |-> <<>>]

\* A request that ends leaves nothing behind in the process.
Step(d, label, m) ==
  /\ place' = [place EXCEPT ![d] = label]
  /\ mem' = [mem EXCEPT ![d] = IF label \in Idle THEN NoMemory ELSE m]

MoveTo(d, label) == Step(d, label, mem[d])

Created(entry) == entry.kind = "created"

Dated(entry) == entry.kind = "valuation"

Body(event) == [request |-> event.request, entry |-> event.entry, expected |-> event.expected]

\* The event that a request adds to the events it read.
Addition(read, body) ==
  [request |-> body.request, entry |-> body.entry, expected |-> body.expected,
   marks |-> IF Dated(body.entry) THEN Positions(read) ELSE {}]

-------------------------------------------------------------------------------
(* The client *)

\* What it saw last: the sequence of the experiment and the current session.
Fresh(body) ==
  /\ body.entry \in Entries
  /\ Created(body.entry) => body.request = Creation /\ body.expected = 0
  /\ ~Created(body.entry) => events # <<>> /\ body.expected = Len(events)
  /\ Dated(body.entry) => body.entry.session = session

\* It sends a new request, or once more one that is being served or was recorded.
\* What was refused or lost looks like a new request that is served late.
Repeated(body) ==
  \/ \E i \in DOMAIN events : body = Body(events[i])
  \/ \E d \in Deliveries : place[d] \notin Idle /\ body = mem[d].body

Deliver(d) ==
  /\ place[d] \in Idle
  /\ \E q \in RequestIds, entry \in Entries, n \in 0..Budget :
       LET body == [request |-> q, entry |-> entry, expected |-> n]
       IN  /\ Fresh(body) \/ Repeated(body)
           /\ Step(d, IF Created(entry) THEN "create" ELSE "get", [body |-> body, read |-> <<>>])
  /\ UNCHANGED <<events, session>>

-------------------------------------------------------------------------------
(* The requests *)

\* Mutant: whoever sends the same request_id is answered.
ReplaysByRequest(recorded, body) ==
  \E i \in DOMAIN recorded : recorded[i].request = body.request

\* replay_request: the same request was recorded, with the same fingerprint.
Replays(recorded, body) == \E i \in DOMAIN recorded : Body(recorded[i]) = body

\* The same request_id was recorded, with whatever inputs.
Taken(recorded, body) == \E i \in DOMAIN recorded : recorded[i].request = body.request

\* create: an upsert that only sets what it inserts.
Create(d) ==
  LET body == mem[d].body
  IN  /\ place[d] = "create"
      /\ events' = IF events = <<>> THEN <<Addition(<<>>, body)>> ELSE events
      /\ \/ MoveTo(d, IF Body(events'[1]) = body THEN "answered" ELSE "refused")
         \/ CallsFail /\ MoveTo(d, "refused")
      /\ UNCHANGED session

\* writable
Writable(recorded, body) == body.expected = Len(recorded) /\ ~Closed(recorded)

\* append's checks of the document it is about to write.
Appendable(recorded, body) ==
  /\ Len(recorded) < Budget
  /\ Accepts(recorded, body.entry)

\* Where journal and refresh go with what they read.
NextOf(body) ==
  CASE Replays(events, body) -> "answered"
    [] Taken(events, body) /\ ~Replays(events, body) -> "refused"
    [] ~Taken(events, body) /\ ~Writable(events, body) -> "refused"
    [] OTHER -> IF Dated(body.entry)
                THEN IF body.entry.session = session THEN "capture" ELSE "refused"
                ELSE IF Appendable(events, body) THEN "append" ELSE "refused"

Get(d) ==
  LET body == mem[d].body
  IN  /\ place[d] = "get"
      /\ Step(d, NextOf(body), [mem[d] EXCEPT !.read = events])
      /\ UNCHANGED <<events, session>>

\* The prices are there: the session must still be the same.
Capture(d) ==
  LET body == mem[d].body
  IN  /\ place[d] = "capture"
      /\ MoveTo(d, IF body.entry.session = session /\ Appendable(mem[d].read, body)
                 THEN "append" ELSE "refused")
      /\ UNCHANGED <<events, session>>

\* Mutant: the update is filtered on the identifier alone.
InTurnAlways(d) == Dated(mem[d].body.entry) => session =< mem[d].body.entry.session

\* Mutant: the deadline of a valuation is left to the application's clock.
InTurnWithoutDeadline(d) == Len(events) = Len(mem[d].read)

\* The filter of append's update: the sequence that was read and, by the database's
\* clock, a time before the next close.
InTurn(d) ==
  /\ Len(events) = Len(mem[d].read)
  /\ Dated(mem[d].body.entry) => session =< mem[d].body.entry.session

Put(d) ==
  /\ place[d] = "append" /\ InTurn(d)
  /\ events' = Append(mem[d].read, Addition(mem[d].read, mem[d].body))
  /\ MoveTo(d, "answered") \/ (CallsFail /\ MoveTo(d, "refused"))
  /\ UNCHANGED session

Miss(d) ==
  /\ place[d] = "append" /\ ~InTurn(d)
  /\ MoveTo(d, "reread")
  /\ UNCHANGED <<events, session>>

\* Somebody else was faster: with the same request, or with another one.
Reread(d) ==
  /\ place[d] = "reread"
  /\ MoveTo(d, IF Replays(events, mem[d].body) THEN "answered" ELSE "refused")
  /\ UNCHANGED <<events, session>>

\* A call raises without effect, or the request is cancelled.
Fail(d) ==
  /\ CallsFail /\ place[d] \notin Idle
  /\ MoveTo(d, "refused")
  /\ UNCHANGED <<events, session>>

\* The next session of the exchange closes.
NextClose ==
  /\ session < MaxSession
  /\ session' = session + 1
  /\ UNCHANGED <<events, place, mem>>

-------------------------------------------------------------------------------
PaperInit ==
  /\ events = <<>> /\ session = 0
  /\ place = [d \in Deliveries |-> "idle"]
  /\ mem = [d \in Deliveries |-> NoMemory]

PaperNext ==
  \/ \E d \in Deliveries :
       \/ Deliver(d) \/ Create(d) \/ Get(d) \/ Capture(d)
       \/ Put(d) \/ Miss(d) \/ Reread(d) \/ Fail(d)
  \/ NextClose

PaperSpec == PaperInit /\ [][PaperNext]_ledger

-------------------------------------------------------------------------------
(* Properties *)

Bodies == [request : RequestIds, entry : Entries, expected : 0..Budget]

IsEvent(e) == Body(e) \in Bodies /\ DOMAIN e = {"request", "entry", "expected", "marks"}

Places == Idle \cup {"create", "get", "capture", "append", "reread"}

\* Every variable keeps the values the code can give it, and the history never
\* exceeds its budget.
PaperTypeOK ==
  /\ events \in Seq({e \in {events[i] : i \in DOMAIN events} : IsEvent(e)})
  /\ Len(events) =< Budget
  /\ session \in 0..MaxSession
  /\ place \in [Deliveries -> Places]
  /\ \A d \in Deliveries : place[d] \notin Idle => mem[d].body \in Bodies

\* However often and however concurrently a request is sent, it is recorded once.
OncePerRequest ==
  \A i, j \in DOMAIN events : events[i].request = events[j].request => i = j

\* Whoever is told that a request is recorded can rely on it, inputs included: also
\* after losing the race, and after a retry that finds another one's event.
AnswersAreRecorded ==
  [][\A d \in Deliveries :
       place'[d] = "answered" /\ place[d] # "answered" =>
         \E i \in DOMAIN events' : Body(events'[i]) = mem[d].body]_ledger

\* A valuation is recorded before the next close, and marks the positions that are
\* held when it is recorded, although its prices were waited for.
ValuationIsCurrent ==
  [][\A i \in DOMAIN events' \ DOMAIN events :
       Dated(events'[i].entry) =>
         /\ events'[i].entry.session = session
         /\ events'[i].marks = Positions(events)]_ledger

\* After every event, through partial sales, splits, dividends and half-cent
\* rounding: cash and the cost of what is held are the initial cash and the realized
\* gains and dividends, to the cent, and cash is never negative.
BooksBalance ==
  events # <<>> =>
    LET books == Projection(events)
    IN  /\ books.cash >= 0 /\ \A k \in DOMAIN books.lots : books.lots[k].quantity > 0
        /\ books.cash + Basis(books.lots) = Settings(events).cash + books.realized + books.income

\* The filtered update makes every request one atomic step on the log.
Journal == INSTANCE PaperJournal WITH log <- events, today <- session

RefinesPaperJournal == Journal!Spec

===============================================================================
