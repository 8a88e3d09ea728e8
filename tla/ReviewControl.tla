----------------------------- MODULE ReviewControl -----------------------------
(***************************************************************************)
(* Paper reviews of target allocations (services/decision_policy):         *)
(* proposals, approvals and changes of the policy are prepared from the    *)
(* account and the configuration, which other requests change meanwhile,   *)
(* and become authoritative by one compare-and-swap of the review_control  *)
(* document.  Every writer of the inputs announces a ticket in that same   *)
(* document before it writes, and removes it afterwards.                   *)
(*                                                                         *)
(* The client composes a request from what it saw, and may deliver it      *)
(* several times; a batch is named by the request that proposed it.        *)
(***************************************************************************)
EXTENDS Integers, FiniteSets

CONSTANTS
  Requests,       \* request_ids
  NoRequest,
  Deliveries,     \* HTTP requests, each carrying one of the request_ids
  NoDelivery,
  Writers,        \* mutations of holdings, transactions, settings or configuration
  NoWriter,
  Kinds,          \* kinds of requests the client composes
  InitialPolicy,  \* the confirm request that made the active policy, if any
  HistoryBudget,  \* bound of every history (100 or 200 in the code)
  MaxWrites,      \* storage writes of one mutation
  MayExpire,      \* lifetimes may end
  MayFail         \* storage calls may raise, and the process may die

ReviewKinds == {"propose", "approve", "cancel", "confirm", "deactivate", "reconcile", "view"}

\* The account (holdings and user_settings) and the configuration (risk_policy and
\* research_strategy_state), as far as a review depends on them.
Inputs == {"account", "policy"}

ASSUME KindsAssumption == Kinds \subseteq ReviewKinds
ASSUME PolicyAssumption == InitialPolicy \in Requests \cup {NoRequest}
ASSUME BudgetAssumption == HistoryBudget \in Nat \ {0} /\ MaxWrites \in Nat \ {0}
ASSUME AbsentAssumption ==
  NoRequest \notin Requests /\ NoDelivery \notin Deliveries /\ NoWriter \notin Writers
ASSUME FlagAssumption == MayExpire \in BOOLEAN /\ MayFail \in BOOLEAN

VARIABLES
  control,    \* the review_control document
  inputs,     \* the inputs, each known by its last write
  prepared,   \* review_batches and review_approval_receipts, by request
  expired,    \* batches and receipts whose expires_at has passed
  wpc, target, written,   \* a mutation: its place, the input it changes, its writes
  form,       \* what the client put into a request
  pc, mem,    \* a delivery: its place and its memory
  told,       \* its response said that the approval is current
  commits,    \* history: commits made by a request
  reconciled  \* history: failed mutations that an account reconciliation followed

writer == <<wpc, target, written>>
delivery == <<pc, mem, told>>
history == <<commits, reconciled>>
vars == <<control, inputs, prepared, expired, writer, form, delivery, history>>

Original == [by |-> NoWriter, step |-> 0]
Unread == [by |-> NoWriter, step |-> 1]
Nothing == [i \in Inputs |-> Unread]

NoDocument == [by |-> NoDelivery, seen |-> Nothing, ready |-> FALSE, policy |-> NoRequest]
NoForm ==
  [kind |-> "none", batch |-> NoRequest, revision |-> 0, generation |-> 0, declared |-> Unread]

\* ReviewControl() with the defaults, or with one policy confirmed.
InitialControl ==
  LET first == {InitialPolicy} \ {NoRequest}
  IN  [revision   |-> Cardinality(first), generation |-> Cardinality(first),
       mutations  |-> {}, uncertain |-> FALSE,
       current    |-> [batch |-> NoRequest, state |-> "none"],
       published  |-> {}, approvals |-> {}, events |-> {},
       policies   |-> first, active |-> InitialPolicy]

Settled == {"new", "done", "rejected", "crashed"}

\* What a delivery remembers while it is served: its request, the control document it
\* read first, the one its projection read first, and the inputs it read since.
NoMemory == [req |-> NoRequest, snap |-> InitialControl, state |-> InitialControl, seen |-> Nothing]

Step(d, label, m) ==
  /\ pc' = [pc EXCEPT ![d] = label]
  /\ mem' = [mem EXCEPT ![d] = IF label \in Settled THEN NoMemory ELSE m]

Goto(d, label) == Step(d, label, mem[d])

kind(d) == form[mem[d].req].kind

Batches(c) == {p.batch : p \in c.published}

-------------------------------------------------------------------------------
(* Mutations of the inputs: control.mutation *)

\* Announcing counts even if the caller only learns of a failure: nothing is
\* written then, and the ticket stays.
Announce(w) ==
  /\ wpc[w] = "new"
  /\ control' = [control EXCEPT !.revision = @ + 1, !.mutations = @ \cup {w}]
  /\ \E i \in Inputs : target' = [target EXCEPT ![w] = i]
  /\ \/ wpc' = [wpc EXCEPT ![w] = "writing"]
     \/ MayFail /\ wpc' = [wpc EXCEPT ![w] = "stuck"]
  /\ UNCHANGED <<inputs, prepared, expired, written, form, delivery, history>>

Write(w) ==
  /\ wpc[w] = "writing" /\ written[w] < MaxWrites
  /\ written' = [written EXCEPT ![w] = @ + 1]
  /\ inputs' = [inputs EXCEPT ![target[w]] = [by |-> w, step |-> written[w] + 1]]
  /\ UNCHANGED <<control, prepared, expired, wpc, target, form, delivery, history>>

\* The body of the mutation returns, or raises: HTTPExceptions count as failures.
EndBody(w) ==
  /\ wpc[w] = "writing"
  /\ \E label \in {"closing", "failing"} : wpc' = [wpc EXCEPT ![w] = label]
  /\ UNCHANGED <<control, inputs, prepared, expired, target, written, form, delivery, history>>

\* Mutant: a failed mutation is closed like any other.
FinishClean(w) ==
  /\ wpc[w] \in {"closing", "failing"} /\ w \in control.mutations
  /\ control' = [control EXCEPT !.revision = @ + 1, !.mutations = @ \ {w}]
  /\ wpc' = [wpc EXCEPT ![w] = IF @ = "failing" THEN "failed" ELSE "done"]
  /\ UNCHANGED <<inputs, prepared, expired, target, written, form, delivery, history>>

Finish(w) ==
  /\ wpc[w] \in {"closing", "failing"} /\ w \in control.mutations
  /\ control' = [control EXCEPT !.revision = @ + 1, !.mutations = @ \ {w},
                                !.uncertain = @ \/ wpc[w] = "failing"]
  /\ wpc' = [wpc EXCEPT ![w] = IF @ = "failing" THEN "failed" ELSE "done"]
  /\ UNCHANGED <<inputs, prepared, expired, target, written, form, delivery, history>>

\* The update that would close the ticket fails; nobody tries again.
FinishFails(w) ==
  /\ MayFail /\ wpc[w] \in {"closing", "failing"}
  /\ wpc' = [wpc EXCEPT ![w] = "stuck"]
  /\ UNCHANGED <<control, inputs, prepared, expired, target, written, form, delivery, history>>

-------------------------------------------------------------------------------
(* The client *)

\* The input whose revision the client repeats in its request.
Watched(k) == IF k = "reconcile" THEN "account" ELSE "policy"

Declares(k) == k \in {"confirm", "reconcile"}

\* A request carries the revision and generation that its page was loaded with.
Compose(q) ==
  /\ form[q].kind = "none"
  /\ \E k \in Kinds, b \in Requests :
       /\ k \notin {"approve", "cancel", "view"} => b = q
       /\ k \in {"approve", "cancel", "view"} => form[b].kind = "propose"
       /\ form' = [form EXCEPT ![q] =
            [kind |-> k, batch |-> b, revision |-> control.revision,
             generation |-> control.generation, declared |-> Unread]]
  /\ UNCHANGED <<control, inputs, prepared, expired, writer, delivery, history>>

\* settings() reads the control document first and the inputs after it.
Inspect(q) ==
  /\ Declares(form[q].kind) /\ form[q].declared = Unread
  /\ form' = [form EXCEPT ![q].declared = inputs[Watched(form[q].kind)]]
  /\ UNCHANGED <<control, inputs, prepared, expired, writer, delivery, history>>

Deliver(d) ==
  /\ pc[d] = "new"
  /\ \E q \in Requests :
       /\ form[q].kind # "none"
       /\ Declares(form[q].kind) => form[q].declared # Unread
       /\ Step(d, CASE form[q].kind = "propose" -> "load" [] form[q].kind = "view" -> "view"
                    [] OTHER -> "read",
               [NoMemory EXCEPT !.req = q])
  /\ UNCHANGED <<control, inputs, prepared, expired, writer, form, told, history>>

-------------------------------------------------------------------------------
(* Requests: propose, approve, cancel, confirm, deactivate, reconcile *)

\* propose looks for an earlier preparation of its request before anything else.
Load(d) ==
  /\ pc[d] = "load"
  /\ Goto(d, IF prepared[mem[d].req] # NoDocument THEN "reload" ELSE "read")
  /\ UNCHANGED <<control, inputs, prepared, expired, writer, form, told, history>>

\* A published preparation is shown again; an unpublished one is never used again.
Reload(d) ==
  /\ pc[d] = "reload"
  /\ Goto(d, IF mem[d].req \in Batches(control) THEN "view" ELSE "rejected")
  /\ UNCHANGED <<control, inputs, prepared, expired, writer, form, told, history>>

\* The request was carried out before.
Replayed(c, q) ==
  CASE form[q].kind = "propose" -> FALSE
    [] form[q].kind = "approve" -> \E e \in c.approvals : e.request = q
    [] form[q].kind = "confirm" -> q \in c.policies
    [] OTHER -> q \in c.events

\* What a repeated or a committed request answers: a view of its batch, or settings.
Respond(k) == IF k \in {"propose", "approve", "cancel"} THEN "view" ELSE "done"

\* Mutant: neither a mutation in flight nor an uncertain account is refused.
CheckedDirty(c, q) == c.revision = form[q].revision /\ c.generation = form[q].generation

\* control.check
Checked(c, q) ==
  /\ c.revision = form[q].revision /\ c.generation = form[q].generation
  /\ c.mutations = {}
  /\ form[q].kind \in {"propose", "approve", "confirm"} => ~c.uncertain

\* The history that a request of this kind is recorded in.
HistoryOf(c, k) ==
  CASE k = "propose" -> c.published [] k = "approve" -> c.approvals
    [] k = "confirm" -> c.policies [] OTHER -> c.events

\* Mutant: the budget admits one more.
WithinBudgetOffByOne(c, k) == Cardinality(HistoryOf(c, k)) =< HistoryBudget

WithinBudget(c, k) == Cardinality(HistoryOf(c, k)) < HistoryBudget

Admitted(c, q) ==
  /\ Checked(c, q) /\ WithinBudget(c, form[q].kind)
  /\ form[q].kind \in {"approve", "cancel"} => c.current.batch = form[q].batch

\* Where an admitted request goes on.
Proceed(k) ==
  CASE k = "propose" -> "evaluate" [] k = "approve" -> "project"
    [] k \in {"confirm", "reconcile"} -> "compare" [] OTHER -> "commit"

Read(d) ==
  /\ pc[d] = "read"
  /\ Step(d, CASE Replayed(control, mem[d].req) -> Respond(kind(d))
               [] ~Replayed(control, mem[d].req) /\ Admitted(control, mem[d].req) -> Proceed(kind(d))
               [] OTHER -> "rejected",
          [mem[d] EXCEPT !.snap = control, !.seen = Nothing])
  /\ UNCHANGED <<control, inputs, prepared, expired, writer, form, told, history>>

\* Evaluations and projections read the configuration first and the account after it.
ReadInput(d) ==
  /\ pc[d] \in {"evaluate", "project_read", "view_read"}
  /\ \E i \in Inputs :
       /\ mem[d].seen[i] = Unread
       /\ i = "account" => mem[d].seen["policy"] # Unread
       /\ Step(d, pc[d], [mem[d] EXCEPT !.seen[i] = inputs[i]])
  /\ UNCHANGED <<control, inputs, prepared, expired, writer, form, told, history>>

AllRead(d) == \A i \in Inputs : mem[d].seen[i] # Unread

\* review_gate.evaluate: without a policy confirmed for this configuration the verdict
\* is no; with one it may still be no, by evidence, allocation or market data.
Verdicts(d) ==
  LET p == mem[d].snap.active
  IN  {FALSE} \cup (IF p # NoRequest /\ mem[d].seen["policy"] = form[p].declared THEN {TRUE} ELSE {})

\* The evaluation is stored under the request, first come first kept: two
\* preparations are never equal.  An approval needs a ready one.
Save(d) ==
  /\ pc[d] = "evaluate" /\ AllRead(d)
  /\ \E ready \in Verdicts(d) :
       LET refused == (kind(d) = "approve" /\ ~ready) \/ prepared[mem[d].req] # NoDocument
       IN  /\ prepared' = IF refused THEN prepared
                          ELSE [prepared EXCEPT ![mem[d].req] =
                                  [by |-> d, seen |-> mem[d].seen, ready |-> ready,
                                   policy |-> mem[d].snap.active]]
           /\ \/ Goto(d, IF refused THEN "rejected" ELSE "commit")
              \/ MayFail /\ Goto(d, "rejected")
  /\ UNCHANGED <<control, inputs, expired, writer, form, told, history>>

\* policies.confirm and policies.reconcile compare what the client declared.
Compare(d) ==
  /\ pc[d] = "compare"
  /\ Goto(d, IF inputs[Watched(kind(d))] = form[mem[d].req].declared THEN "commit" ELSE "rejected")
  /\ UNCHANGED <<control, inputs, prepared, expired, writer, form, told, history>>

-------------------------------------------------------------------------------
(* control.commit *)

\* The current batch after a commit.
Pointer(c, q) ==
  CASE form[q].kind = "propose" -> [batch |-> q, state |-> "published"]
    [] form[q].kind = "approve" -> [c.current EXCEPT !.state = "approved"]
    [] form[q].kind = "cancel" -> [c.current EXCEPT !.state = "cancelled"]
    [] OTHER -> c.current

\* Only the policy and the uncertainty of the account are inputs themselves.
MovesRevision(k) == k \in {"confirm", "deactivate", "reconcile"}

Adding(set, new, applies) == IF applies THEN set \cup {new} ELSE set

\* What the document becomes: all of it comes from the snapshot.
Successor(c, q) ==
  LET k == form[q].kind
      b == form[q].batch
  IN  [revision   |-> IF MovesRevision(k) THEN c.revision + 1 ELSE c.revision,
       generation |-> c.generation + 1,
       mutations  |-> c.mutations,
       uncertain  |-> c.uncertain /\ k # "reconcile",
       current    |-> Pointer(c, q),
       published  |-> Adding(c.published, [batch |-> q, revision |-> c.revision], k = "propose"),
       approvals  |-> Adding(c.approvals, [request |-> q, batch |-> b, revision |-> c.revision],
                             k = "approve"),
       events     |-> Adding(c.events, q, k \in {"cancel", "deactivate", "reconcile"}),
       policies   |-> Adding(c.policies, q, k = "confirm"),
       active     |-> CASE k = "confirm" -> q [] k = "deactivate" -> NoRequest [] OTHER -> c.active]

\* Mutant: expiry is left to the projection.
InTimeAtRead(q) == TRUE

\* Ready batches and approvals have a deadline.
InTime(q) ==
  /\ form[q].kind = "propose" /\ prepared[q].ready => q \notin expired
  /\ form[q].kind = "approve" => {q, form[q].batch} \cap expired = {}

\* Mutant: the filter names the revision only.
SwappableByRevision(d) ==
  /\ control.revision = mem[d].snap.revision
  /\ control.mutations = {} /\ control.uncertain = mem[d].snap.uncertain

\* Mutant: the filter names the generation only.
SwappableByGeneration(d) ==
  /\ control.generation = mem[d].snap.generation
  /\ control.mutations = {} /\ control.uncertain = mem[d].snap.uncertain

Swappable(d) ==
  /\ control.revision = mem[d].snap.revision /\ control.generation = mem[d].snap.generation
  /\ control.mutations = {} /\ control.uncertain = mem[d].snap.uncertain

Commit(d) ==
  /\ pc[d] = "commit"
  /\ Swappable(d) /\ InTime(mem[d].req)
  /\ control' = Successor(mem[d].snap, mem[d].req)
  /\ commits' = [commits EXCEPT ![mem[d].req] = @ + 1]
  /\ reconciled' = IF kind(d) = "reconcile" THEN {w \in Writers : wpc[w] = "failed"}
                   ELSE reconciled
  /\ Goto(d, Respond(kind(d))) \/ (MayFail /\ Goto(d, "rejected"))
  /\ UNCHANGED <<inputs, prepared, expired, writer, form, told>>

Conflict(d) ==
  /\ pc[d] = "commit"
  /\ ~(Swappable(d) /\ InTime(mem[d].req))
  /\ Goto(d, "rejected")
  /\ UNCHANGED <<control, inputs, prepared, expired, writer, form, told, history>>

-------------------------------------------------------------------------------
(* review_projection.project, for an approval and for a response *)

\* A batch that was never prepared is not found.
Project(d) ==
  /\ pc[d] \in {"project", "view"}
  /\ Step(d, CASE prepared[form[mem[d].req].batch] = NoDocument -> "rejected"
               [] pc[d] = "project" /\ prepared[form[mem[d].req].batch] # NoDocument -> "project_read"
               [] OTHER -> "view_read",
          [mem[d] EXCEPT !.state = control, !.seen = Nothing])
  /\ UNCHANGED <<control, inputs, prepared, expired, writer, form, told, history>>

\* Mutant: the projection is not fenced by a second read of the control document.
ValidUnfenced(d, b) ==
  LET s == mem[d].state
  IN  /\ prepared[b].ready /\ [batch |-> b, revision |-> s.revision] \in s.published
      /\ s.current.batch = b /\ s.current.state # "cancelled"
      /\ s.mutations = {} /\ ~s.uncertain /\ s.active = prepared[b].policy
      /\ mem[d].seen = prepared[b].seen
      /\ b \notin expired

\* No reason speaks against the batch, and the control document was the same before
\* and after the inputs were looked at.
Valid(d, b) ==
  LET s == mem[d].state
  IN  /\ prepared[b].ready /\ [batch |-> b, revision |-> s.revision] \in s.published
      /\ s.current.batch = b /\ s.current.state # "cancelled"
      /\ s.mutations = {} /\ ~s.uncertain /\ s.active = prepared[b].policy
      /\ mem[d].seen = prepared[b].seen
      /\ b \notin expired
      /\ control = s

Approvable(d, b) == Valid(d, b) /\ mem[d].state.current.state = "published"

ApprovalCurrent(d, b) ==
  /\ Valid(d, b) /\ mem[d].state.current.state = "approved"
  /\ \E e \in mem[d].state.approvals : e.batch = b /\ e.revision = mem[d].state.revision

ProjectEnd(d) ==
  LET b == form[mem[d].req].batch
  IN  /\ AllRead(d)
      /\ \/ /\ pc[d] = "project_read"
            /\ Step(d, IF Approvable(d, b) THEN "evaluate" ELSE "rejected",
                    [mem[d] EXCEPT !.seen = Nothing])
            /\ UNCHANGED told
         \/ /\ pc[d] = "view_read"
            /\ Goto(d, "done")
            /\ told' = [told EXCEPT ![d] = ApprovalCurrent(d, b)]
      /\ UNCHANGED <<control, inputs, prepared, expired, writer, form, history>>

-------------------------------------------------------------------------------
(* Time and failures *)

\* The lifetime of a preparation ends.
Expire(q) ==
  /\ MayExpire /\ prepared[q] # NoDocument /\ q \notin expired
  /\ expired' = expired \cup {q}
  /\ UNCHANGED <<control, inputs, prepared, writer, form, delivery, history>>

\* A storage call of a delivery raises instead of doing its work.
StorageFails(d) ==
  /\ MayFail /\ pc[d] \notin Settled
  /\ Goto(d, "rejected")
  /\ UNCHANGED <<control, inputs, prepared, expired, writer, form, told, history>>

Crash ==
  /\ MayFail
  /\ \E d \in Deliveries : pc[d] \notin Settled \/ \E w \in Writers : wpc[w] \in {"writing", "closing", "failing"}
  /\ pc' = [d \in Deliveries |-> IF pc[d] \in Settled THEN pc[d] ELSE "crashed"]
  /\ mem' = [d \in Deliveries |-> NoMemory]
  /\ wpc' = [w \in Writers |->
               IF wpc[w] \in {"writing", "closing", "failing"} THEN "stuck" ELSE wpc[w]]
  /\ UNCHANGED <<control, inputs, prepared, expired, target, written, form, told, history>>

-------------------------------------------------------------------------------
Init ==
  /\ control = InitialControl
  /\ inputs = [i \in Inputs |-> Original]
  /\ prepared = [q \in Requests |-> NoDocument]
  /\ expired = {}
  /\ wpc = [w \in Writers |-> "new"]
  /\ target = [w \in Writers |-> "account"]
  /\ written = [w \in Writers |-> 0]
  /\ form = [q \in Requests |->
       IF q = InitialPolicy THEN [NoForm EXCEPT !.kind = "confirm", !.batch = q, !.declared = Original]
       ELSE NoForm]
  /\ pc = [d \in Deliveries |-> "new"]
  /\ mem = [d \in Deliveries |-> NoMemory]
  /\ told = [d \in Deliveries |-> FALSE]
  /\ commits = [q \in Requests |-> IF q = InitialPolicy THEN 1 ELSE 0]
  /\ reconciled = {}

Handle(d) ==
  \/ Load(d) \/ Reload(d) \/ Read(d) \/ ReadInput(d) \/ Save(d) \/ Compare(d)
  \/ Commit(d) \/ Conflict(d) \/ Project(d) \/ ProjectEnd(d) \/ StorageFails(d)

Next ==
  \/ \E w \in Writers : Announce(w) \/ Write(w) \/ EndBody(w) \/ Finish(w) \/ FinishFails(w)
  \/ \E q \in Requests : Compose(q) \/ Inspect(q) \/ Expire(q)
  \/ \E d \in Deliveries : Deliver(d) \/ Handle(d)
  \/ Crash

Spec == Init /\ [][Next]_vars

-------------------------------------------------------------------------------
(* Properties *)

Controls ==
  [revision : Nat, generation : Nat, mutations : SUBSET Writers, uncertain : BOOLEAN,
   current : [batch : Requests \cup {NoRequest},
              state : {"none", "published", "approved", "cancelled"}],
   published : SUBSET [batch : Requests, revision : Nat],
   approvals : SUBSET [request : Requests, batch : Requests, revision : Nat],
   events : SUBSET Requests, policies : SUBSET Requests, active : Requests \cup {NoRequest}]

Values == [by : Writers \cup {NoWriter}, step : 0..MaxWrites]

Labels ==
  Settled \cup {"load", "reload", "read", "evaluate", "compare", "commit",
                "project", "project_read", "view", "view_read"}

\* Every variable keeps the values the code can give it.
TypeOK ==
  /\ control \in Controls
  /\ inputs \in [Inputs -> Values]
  /\ prepared \in [Requests -> [by : Deliveries \cup {NoDelivery}, seen : [Inputs -> Values],
                               ready : BOOLEAN, policy : Requests \cup {NoRequest}]]
  /\ expired \subseteq Requests
  /\ wpc \in [Writers -> {"new", "writing", "closing", "failing", "done", "failed", "stuck"}]
  /\ target \in [Writers -> Inputs] /\ written \in [Writers -> 0..MaxWrites]
  /\ form \in [Requests -> [kind : ReviewKinds \cup {"none"}, batch : Requests \cup {NoRequest},
                           revision : Nat, generation : Nat, declared : Values]]
  /\ pc \in [Deliveries -> Labels]
  /\ mem \in [Deliveries -> [req : Requests \cup {NoRequest}, snap : Controls, state : Controls,
                             seen : [Inputs -> Values]]]
  /\ told \in [Deliveries -> BOOLEAN]
  /\ commits \in [Requests -> Nat] /\ reconciled \subseteq Writers

\* The bounds of the histories hold although each request checks them long before its
\* commit, on a document that others may extend meanwhile.
HistoriesAreBounded ==
  \A h \in {control.published, control.approvals, control.events, control.policies} :
    Cardinality(h) =< HistoryBudget

\* The requests whose evaluation became authoritative: proposals and approvals.
Evaluations(c) == Batches(c) \cup {e.request : e \in c.approvals}

Committed(q) == q \in Evaluations(control)' /\ q \notin Evaluations(control)

\* A published or approved evaluation is one of the inputs as they are at its commit,
\* although it read them one by one, long before and without a lock.
EvaluatedAsCommitted ==
  [][\A q \in Requests : Committed(q) => prepared[q].seen = inputs]_vars

\* Nothing is published or approved on the remains of a mutation that is still at work,
\* that died, or that failed and was not followed by a reconciliation.
SettledInputs ==
  [][\A q \in Requests : Committed(q) =>
       \A w \in Writers : written[w] > 0 => wpc[w] = "done" \/ w \in reconciled]_vars

\* An approval belongs to a published batch, was evaluated on the same inputs at the
\* same revision, and is the only one of that batch.
ApprovalMatchesBatch ==
  \A e \in control.approvals :
    /\ [batch |-> e.batch, revision |-> e.revision] \in control.published
    /\ prepared[e.request].seen = prepared[e.batch].seen
    /\ \A f \in control.approvals : f.batch = e.batch => f = e

\* A batch that lost its place, or was cancelled, never comes back.
NoResurrection ==
  [][control'.current # control.current =>
       \/ control'.current.batch \notin Batches(control)
       \/ /\ control'.current.batch = control.current.batch
          /\ control.current.state = "cancelled" => control'.current.state = "cancelled"]_vars

\* A commit writes the whole document from an old snapshot, and still loses nothing:
\* the histories only grow, and a ticket leaves only when its mutation has ended.
HistoryIsKept ==
  [][/\ control.published \subseteq control'.published
     /\ control.approvals \subseteq control'.approvals
     /\ control.events \subseteq control'.events
     /\ control.policies \subseteq control'.policies
     /\ \A w \in control.mutations \ control'.mutations : wpc'[w] \in {"done", "failed"}]_vars

\* However often and however concurrently a request is delivered, it commits once.
OncePerRequest == \A q \in Requests : commits[q] =< 1

\* A policy is confirmed, and an account reconciled, in the state its user inspected.
ComparedAsCommitted ==
  [][\A q \in Requests :
       commits'[q] # commits[q] /\ Declares(form[q].kind) =>
         form[q].declared = inputs[Watched(form[q].kind)]]_vars

\* A batch whose lifetime ended between its approval's checks and the commit stays
\* unapproved.
NoLateApproval ==
  [][\A e \in control'.approvals \ control.approvals : {e.request, e.batch} \cap expired = {}]_vars

\* When a response calls an approval current, the inputs are still those approved and
\* no mutation is in flight, although the response was put together from many reads.
ViewIsTrue ==
  [][\A d \in Deliveries : told'[d] /\ ~told[d] =>
       /\ prepared[form[mem[d].req].batch].seen = inputs
       /\ control.mutations = {} /\ ~control.uncertain]_vars

\* The compare-and-swap makes the long evaluations atomic.
Atomic == INSTANCE AtomicReview WITH
  quiet     <- control.mutations = {} /\ ~control.uncertain,
  evaluated <- [q \in Batches(control) |-> prepared[q].seen],
  current   <- control.current,
  approved  <- {e.batch : e \in control.approvals}

RefinesAtomicReview == Atomic!Spec

===============================================================================
