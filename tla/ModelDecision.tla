------------------------------ MODULE ModelDecision ------------------------------
(***************************************************************************)
(* A decision of the language model that is asked for under one            *)
(* request_id (services/decision_policy/model_decision.py): a record that  *)
(* is claimed before the paid call, under a lease that may end while the   *)
(* call goes on, settled by a filtered update, replayed to whoever asks    *)
(* again, and published to the review control (model_review.py).           *)
(*                                                                         *)
(* A delivery is one HTTP request: its identity is the uuid that it claims *)
(* with, and its answer is known by it.  The review control is its version *)
(* (its revision and generation, which every change of inputs or reviews   *)
(* moves) and the active policy, known by the version that confirmed it.   *)
(* What the gates say beyond the policy is a choice.                       *)
(***************************************************************************)
EXTENDS Integers, Sequences, FiniteSets

CONSTANTS
  Deliveries,   \* HTTP requests for or about the decision
  NoDelivery,
  Names,        \* request_ids under which it may be published
  Request,      \* the one under which it is asked for
  MaxVersion,   \* bound: versions of the review control that others make
  MayFail       \* calls may raise, and the process die

ASSUME DeliveriesAssumption == NoDelivery \notin Deliveries
ASSUME NamesAssumption == Request \in Names
ASSUME VersionAssumption == MaxVersion \in Nat
ASSUME FlagAssumption == MayFail \in BOOLEAN

NoPolicy == 0

VARIABLES
  record,    \* the document of the decision
  lapsed,    \* its lease is over
  control,   \* the review control: version and active policy
  batches,   \* preparations by name
  published, \* names of the published ones, in order
  pc, mem,   \* a delivery: its place, and what it remembers
  asked,     \* the policy under which a delivery called the model, if it did
  expiries   \* leases that ended

vars == <<record, lapsed, control, batches, published, pc, mem, asked, expiries>>

reviewing == <<control, batches, published>>

claiming == <<record, lapsed, expiries>>

NoRecord ==
  [status |-> "none", owner |-> NoDelivery, policy |-> NoPolicy, answer |-> NoDelivery]

NoBatch == [answer |-> NoDelivery, expected |-> 0, ready |-> FALSE]

NoMemory ==
  [expected |-> 0, name |-> Request, seen |-> [version |-> 0, policy |-> NoPolicy],
   policy |-> NoPolicy, rival |-> NoDelivery, mine |-> NoRecord, existing |-> NoBatch,
   answer |-> NoDelivery, review |-> FALSE]

Ended == {"answered", "refused"}

InFlight(d) == pc[d] \notin Ended \cup {"idle"}

Step(d, label, m) ==
  /\ pc' = [pc EXCEPT ![d] = label]
  /\ mem' = [mem EXCEPT ![d] = m]

Goto(d, label) == Step(d, label, mem[d])

\* Nothing is left of a request that is refused, and of one that raised.
Refuse(d) == Step(d, "refused", NoMemory)

\* A view: the record as the delivery knows it, with a published review or without.
Respond(d, r, review) ==
  Step(d, "answered", [NoMemory EXCEPT !.answer = r.answer, !.review = review, !.mine = r])

-------------------------------------------------------------------------------
(* The client *)

\* It asks for the decision, once more if it likes, or has it validated again, each
\* time naming some version of the inputs that it saw.
Arrive(d) ==
  /\ pc[d] = "idle"
  /\ \E v \in 1..control.version :
       \/ Step(d, "read", [NoMemory EXCEPT !.expected = v])
       \/ /\ record # NoRecord
          /\ \E name \in Names :
               Step(d, "fetch", [NoMemory EXCEPT !.expected = v, !.name = name])
  /\ UNCHANGED <<claiming, reviewing, asked>>

-------------------------------------------------------------------------------
(* decide, up to the call *)

ReadControl(d) ==
  /\ pc[d] = "read"
  /\ Step(d, "lookup", [mem[d] EXCEPT !.seen = control])
  /\ UNCHANGED <<claiming, reviewing, asked>>

\* A settled decision is replayed, whatever the inputs are by now.  Anything else needs
\* the version that the client named.
Lookup(d) ==
  /\ pc[d] = "lookup"
  /\ CASE record.status = "completed" -> Step(d, "review", [NoMemory EXCEPT !.mine = record])
       [] record.status = "failed" -> Refuse(d)
       [] OTHER -> IF mem[d].seen.version = mem[d].expected
                   THEN \/ Step(d, "eligible", [NoMemory EXCEPT !.expected = mem[d].expected])
                        \/ Refuse(d)
                   ELSE Refuse(d)
  /\ UNCHANGED <<claiming, reviewing, asked>>

\* The review control is read again.  The source may not be eligible.
Eligible(d) ==
  /\ pc[d] = "eligible"
  /\ \/ /\ control.policy # NoPolicy
        /\ Step(d, "claim", [mem[d] EXCEPT !.policy = control.policy])
     \/ Refuse(d)
  /\ UNCHANGED <<claiming, reviewing, asked>>

\* Mutant: a claim is taken over while its lease runs.
ExpiredAlways == TRUE

Expired == lapsed

\* The upsert inserts the claim; lost, it is there although the call raised.
ClaimFresh(d) ==
  /\ pc[d] = "claim" /\ record.status = "none"
  /\ record' = [status |-> "running", owner |-> d, policy |-> mem[d].policy,
                answer |-> NoDelivery]
  /\ Step(d, "prompt", [mem[d] EXCEPT !.mine = record']) \/ (MayFail /\ Refuse(d))
  /\ UNCHANGED <<lapsed, expiries, reviewing, asked>>

\* The upsert finds a record.
ClaimFound(d) ==
  /\ pc[d] = "claim" /\ record.status # "none"
  /\ CASE record.status = "completed" -> Step(d, "review", [NoMemory EXCEPT !.mine = record])
       [] record.status = "running" /\ Expired ->
            Step(d, "takeover", [mem[d] EXCEPT !.rival = record.owner])
       [] OTHER -> Refuse(d)
  /\ UNCHANGED <<claiming, reviewing, asked>>

\* The filter of the take-over: the owner that was read, still running.
Takeable(d) == record.status = "running" /\ record.owner = mem[d].rival

\* Only the owner and the lease are replaced: policy and scope stay those of the claim
\* that is taken over.
TakeOver(d) ==
  /\ pc[d] = "takeover" /\ Takeable(d)
  /\ record' = [record EXCEPT !.status = "running", !.owner = d]
  /\ lapsed' = FALSE
  /\ Step(d, "prompt", [mem[d] EXCEPT !.mine = record']) \/ (MayFail /\ Refuse(d))
  /\ UNCHANGED <<expiries, reviewing, asked>>

TakeOverMisses(d) ==
  /\ pc[d] = "takeover" /\ ~Takeable(d)
  /\ Refuse(d)
  /\ UNCHANGED <<claiming, reviewing, asked>>

\* The prompt is built for the policy that was read, and the call begins.  Nobody looks
\* at the claim again before.
Call(d) ==
  /\ pc[d] = "prompt"
  /\ asked' = [asked EXCEPT ![d] = mem[d].policy]
  /\ Step(d, "call", [mem[d] EXCEPT !.policy = NoPolicy, !.rival = NoDelivery])
  /\ UNCHANGED <<claiming, reviewing>>

\* There is no agent, which is recorded as a failure.
NoAgent(d) ==
  /\ pc[d] = "prompt"
  /\ Step(d, "fail", [mem[d] EXCEPT !.policy = NoPolicy, !.rival = NoDelivery])
  /\ UNCHANGED <<claiming, reviewing, asked>>

-------------------------------------------------------------------------------
(* The end of the call *)

\* The model answers; or it does not, its answer is invalid, the call is cancelled.
Return(d) ==
  /\ pc[d] = "call"
  /\ Goto(d, "finish") \/ Goto(d, "fail")
  /\ UNCHANGED <<claiming, reviewing, asked>>

\* Mutant: whoever comes back from a call settles the claim that is running.
HoldsRunning(d) == record.status = "running"

\* The filter of finish: a fenced owner finds another one's claim.
Holds(d) == record.status = "running" /\ record.owner = d

Finish(d) ==
  /\ pc[d] = "finish" /\ Holds(d)
  /\ record' = [mem[d].mine EXCEPT !.status = "completed", !.answer = d]
  /\ Step(d, "publish", [mem[d] EXCEPT !.mine = record']) \/ (MayFail /\ Refuse(d))
  /\ UNCHANGED <<lapsed, expiries, reviewing, asked>>

RecordFailure(d) ==
  /\ pc[d] = "fail" /\ Holds(d)
  /\ record' = [mem[d].mine EXCEPT !.status = "failed"]
  /\ Refuse(d)
  /\ UNCHANGED <<lapsed, expiries, reviewing, asked>>

\* The claim was lost: what was paid for is not recorded.
Fenced(d) ==
  /\ pc[d] \in {"finish", "fail"} /\ ~Holds(d)
  /\ Refuse(d)
  /\ UNCHANGED <<claiming, reviewing, asked>>

-------------------------------------------------------------------------------
(* Publication *)

\* revalidate
Fetch(d) ==
  /\ pc[d] = "fetch"
  /\ IF record.status = "completed"
     THEN Step(d, "publish", [mem[d] EXCEPT !.mine = record])
     ELSE Refuse(d)
  /\ UNCHANGED <<claiming, reviewing, asked>>

\* There may be nothing to approve.  Otherwise propose looks for an earlier preparation.
Publish(d) ==
  /\ pc[d] = "publish"
  /\ \/ Step(d, "base", [mem[d] EXCEPT !.existing = batches[mem[d].name]])
     \/ Respond(d, mem[d].mine, FALSE)
  /\ UNCHANGED <<claiming, reviewing, asked>>

IsPublished(name) == \E i \in DOMAIN published : published[i] = name

\* A preparation by this name is a replay only if it was made for the same version and
\* published; without one, the version that the client named must be the current one.
Base(d) ==
  LET m == mem[d]
  IN  /\ pc[d] = "base"
      /\ IF m.existing = NoBatch
         THEN \/ m.expected = control.version /\ Step(d, "evaluate", [m EXCEPT !.seen = control])
              \/ Respond(d, m.mine, FALSE)
         ELSE Respond(d, m.mine, m.existing.expected = m.expected /\ IsPublished(m.name))
      /\ UNCHANGED <<claiming, reviewing, asked>>

\* A decision under another policy than the active one needs review.
Gates(m) == {ready \in BOOLEAN : ready => m.mine.policy = m.seen.policy}

\* evaluate and save, which inserts only what nobody prepared in the meantime.
Prepare(d) ==
  LET m == mem[d]
  IN  /\ pc[d] = "evaluate"
      /\ IF batches[m.name] = NoBatch
         THEN /\ \E ready \in Gates(m) :
                   batches' = [batches EXCEPT ![m.name] =
                     [answer |-> m.mine.answer, expected |-> m.expected, ready |-> ready]]
              /\ Goto(d, "commit") \/ (MayFail /\ Refuse(d))
         ELSE Respond(d, m.mine, FALSE) /\ UNCHANGED batches
      /\ UNCHANGED <<claiming, control, published, asked>>

\* Mutant: the version is compared before the evaluation only.
CurrentAlways(d) == TRUE

Current(d) == control.version = mem[d].seen.version

Commit(d) ==
  /\ pc[d] = "commit" /\ Current(d)
  /\ control' = [control EXCEPT !.version = @ + 1]
  /\ published' = Append(published, mem[d].name)
  /\ Respond(d, mem[d].mine, TRUE) \/ (MayFail /\ Refuse(d))
  /\ UNCHANGED <<claiming, batches, asked>>

\* The inputs changed, or the batch expired while it was prepared: the preparation stays
\* unpublished, and its name is spent.
CommitMisses(d) ==
  /\ pc[d] = "commit"
  /\ Respond(d, mem[d].mine, FALSE)
  /\ UNCHANGED <<claiming, reviewing, asked>>

\* latest_review
Review(d) ==
  /\ pc[d] = "review"
  /\ Respond(d, mem[d].mine, published # <<>>)
  /\ UNCHANGED <<claiming, reviewing, asked>>

-------------------------------------------------------------------------------
(* Faults, time and everybody else *)

\* A call raises without effect.  One to the model is caught and recorded.
Raise(d) ==
  /\ MayFail /\ InFlight(d) /\ pc[d] # "call"
  /\ Refuse(d)
  /\ UNCHANGED <<claiming, reviewing, asked>>

\* The process dies; a claim stays until its lease is over.
Crash ==
  /\ MayFail /\ \E d \in Deliveries : InFlight(d)
  /\ pc' = [d \in Deliveries |-> IF InFlight(d) THEN "refused" ELSE pc[d]]
  /\ mem' = [d \in Deliveries |-> IF InFlight(d) THEN NoMemory ELSE mem[d]]
  /\ UNCHANGED <<claiming, reviewing, asked>>

LeaseExpires ==
  /\ record.status = "running" /\ ~lapsed
  /\ lapsed' = TRUE
  /\ expiries' = expiries + 1
  /\ UNCHANGED <<record, reviewing, pc, mem, asked>>

\* The account or another review changes, a policy is confirmed or deactivated.
Change ==
  /\ control.version =< MaxVersion
  /\ \E policy \in {control.policy, control.version + 1, NoPolicy} :
       control' = [version |-> control.version + 1, policy |-> policy]
  /\ UNCHANGED <<claiming, batches, published, pc, mem, asked>>

-------------------------------------------------------------------------------
Init ==
  /\ record = NoRecord /\ lapsed = FALSE /\ expiries = 0
  /\ control = [version |-> 1, policy |-> 1]
  /\ batches = [name \in Names |-> NoBatch] /\ published = <<>>
  /\ pc = [d \in Deliveries |-> "idle"]
  /\ mem = [d \in Deliveries |-> NoMemory]
  /\ asked = [d \in Deliveries |-> NoPolicy]

Handle(d) ==
  \/ Arrive(d) \/ ReadControl(d) \/ Lookup(d) \/ Eligible(d)
  \/ ClaimFresh(d) \/ ClaimFound(d) \/ TakeOver(d) \/ TakeOverMisses(d)
  \/ Call(d) \/ NoAgent(d) \/ Return(d)
  \/ Finish(d) \/ RecordFailure(d) \/ Fenced(d)
  \/ Fetch(d) \/ Publish(d) \/ Base(d) \/ Prepare(d) \/ Commit(d) \/ CommitMisses(d)
  \/ Review(d) \/ Raise(d)

Next == (\E d \in Deliveries : Handle(d)) \/ Crash \/ LeaseExpires \/ Change

Spec == Init /\ [][Next]_vars

-------------------------------------------------------------------------------
(* Properties *)

Statuses == {"none", "running", "completed", "failed"}

Records ==
  [status : Statuses, owner : Deliveries \cup {NoDelivery}, policy : Nat,
   answer : Deliveries \cup {NoDelivery}]

Controls == [version : Nat, policy : Nat]

Batches == [answer : Deliveries \cup {NoDelivery}, expected : Nat, ready : BOOLEAN]

Labels ==
  {"idle", "read", "lookup", "eligible", "claim", "takeover", "prompt", "call", "finish",
   "fail", "fetch", "publish", "base", "evaluate", "commit", "review"} \cup Ended

Memories ==
  [expected : Nat, name : Names, seen : Controls, policy : Nat,
   rival : Deliveries \cup {NoDelivery}, mine : Records, existing : Batches,
   answer : Deliveries \cup {NoDelivery}, review : BOOLEAN]

\* Every variable keeps the values the code can give it.
TypeOK ==
  /\ record \in Records /\ lapsed \in BOOLEAN /\ expiries \in Nat
  /\ control \in Controls
  /\ batches \in [Names -> Batches] /\ published \in Seq(Names)
  /\ pc \in [Deliveries -> Labels] /\ mem \in [Deliveries -> Memories]
  /\ asked \in [Deliveries -> Nat]

Paid == {d \in Deliveries : asked[d] # NoPolicy}

\* The model is called once for the request, and once more for every lease that ended
\* before its claim was settled: replays, retries, overlapping deliveries, crashes and
\* lost acknowledgements cost no call of their own.
PaidCallsAreLeased == Cardinality(Paid) =< 1 + expiries

\* A claim is settled by the delivery that holds it: a fenced owner that comes back late
\* neither records its answer over the claim of its successor nor declares the call of
\* its successor failed.
SettledByItsOwner ==
  [][record.status = "running" /\ record'.status # "running" =>
       /\ record'.owner = record.owner /\ record'.policy = record.policy
       /\ record'.answer = IF record'.status = "completed" THEN record.owner
                                                           ELSE NoDelivery]_vars

\* Everybody who is shown the decision is shown the same one, the one that is stored,
\* and a review with it only if one was published.
AnswersAgree ==
  \A d \in Deliveries :
    pc[d] = "answered" =>
      /\ mem[d].mine = record /\ record.status = "completed"
      /\ mem[d].review => published # <<>>

\* However the claim moves between deliveries and however long model and gates take, the
\* decision is one record that never changes once settled, published on the inputs of
\* the moment.
Decision == INSTANCE AtomicDecision WITH
  Answers <- Deliveries,
  NoAnswer <- NoDelivery,
  decision <- [status |-> record.status, policy |-> record.policy, answer |-> record.answer],
  reviews <- {[name |-> published[i], answer |-> batches[published[i]].answer,
               expected |-> batches[published[i]].expected,
               ready |-> batches[published[i]].ready] : i \in DOMAIN published}

RefinesAtomicDecision == Decision!Spec

===============================================================================
