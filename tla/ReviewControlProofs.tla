-------------------------- MODULE ReviewControlProofs --------------------------
(***************************************************************************)
(* Proofs about ReviewControl for every set of requests, deliveries and    *)
(* mutations, with and without failing calls.                              *)
(*                                                                         *)
(* The argument is the one the compare-and-swap stands on: every change of *)
(* the control document moves its revision or its generation, so a         *)
(* delivery whose snapshot still has both holds the document as it is; and *)
(* inputs are only written under a ticket, whose announcement moved the    *)
(* revision, so what the delivery read since is still what there is.       *)
(***************************************************************************)
EXTENDS ReviewControl, FiniteSetTheorems, TLAPS

Admission == {"evaluate", "project", "project_read", "compare", "commit"}

Evaluating == {"propose", "approve"}

-------------------------------------------------------------------------------
(* The inductive invariant *)

Form(q) ==
  form[q].kind # "none" =>
    /\ form[q].batch \in Requests
    /\ form[q].kind \notin {"approve", "cancel", "view"} => form[q].batch = q

\* A control document that somebody read once.
Past(c) ==
  /\ c.revision =< control.revision /\ c.generation =< control.generation
  /\ c.revision = control.revision =>
       c.mutations = control.mutations /\ c.uncertain = control.uncertain
  /\ c.revision = control.revision /\ c.generation = control.generation => c = control

Remembers(d) == Past(mem[d].snap) /\ Past(mem[d].state)

\* A delivery that is being served has a request that was sent to it.
Served(d) ==
  pc[d] \notin Settled =>
    /\ mem[d].req \in Requests /\ kind(d) # "none"
    /\ Declares(kind(d)) => form[mem[d].req].declared # Unread

\* The kinds of requests that get to a label.
Placed(d) ==
  /\ pc[d] \in {"load", "reload"} => kind(d) = "propose"
  /\ pc[d] \in Admission \cup {"read"} => kind(d) # "view"
  /\ pc[d] \in {"project", "project_read"} => kind(d) = "approve"
  /\ pc[d] = "evaluate" => kind(d) \in Evaluating
  /\ pc[d] = "compare" => Declares(kind(d))

\* The snapshot admitted the request, and knew nothing of it.
AdmittedOnce(d) ==
  pc[d] \in Admission =>
    Admitted(mem[d].snap, mem[d].req) /\ ~Replayed(mem[d].snap, mem[d].req)

\* Who is about to commit an evaluation has stored it.
Stored(d) ==
  pc[d] = "commit" /\ kind(d) \in Evaluating =>
    /\ prepared[mem[d].req].by = d
    /\ prepared[mem[d].req].seen = mem[d].seen /\ AllRead(d)

\* Who is about to commit an approval saw its batch current, and not approved.
Projected(d) ==
  LET s == mem[d].state
      b == form[mem[d].req].batch
  IN  /\ pc[d] = "project_read" \/ (pc[d] \in {"evaluate", "commit"} /\ kind(d) = "approve") =>
           mem[d].snap.revision =< s.revision /\ mem[d].snap.generation =< s.generation
      /\ pc[d] \in {"evaluate", "commit"} /\ kind(d) = "approve" =>
           /\ [batch |-> b, revision |-> s.revision] \in s.published
           /\ s.current.batch = b /\ s.current.state = "published"
           /\ s.mutations = {} /\ prepared[b] # NoDocument

\* What was read, or compared, under a revision is what there is while it lasts.
Fresh(d) ==
  LET s == mem[d].snap
      t == mem[d].state
      q == mem[d].req
  IN  /\ pc[d] \in {"evaluate", "commit"} /\ kind(d) \in Evaluating
           /\ s.revision = control.revision =>
             \A i \in Inputs : mem[d].seen[i] # Unread => mem[d].seen[i] = inputs[i]
      /\ pc[d] \in {"project_read", "view_read"} /\ t.mutations = {}
           /\ t.revision = control.revision =>
             \A i \in Inputs : mem[d].seen[i] # Unread => mem[d].seen[i] = inputs[i]
      /\ pc[d] = "commit" /\ Declares(kind(d)) /\ s.revision = control.revision =>
             form[q].declared = inputs[Watched(kind(d))]
      /\ pc[d] \in {"evaluate", "commit"} /\ kind(d) = "approve"
           /\ t.revision = control.revision =>
             prepared[form[q].batch].seen = inputs

\* A request that is about to commit an evaluation did not commit it before.
Uncommitted(d) ==
  pc[d] = "commit" =>
    /\ kind(d) = "propose" => mem[d].req \notin Batches(control)
    /\ kind(d) = "approve" => \A e \in control.approvals : e.request # mem[d].req

\* A mutation that may have written has its ticket, or failed and is known to have.
Ticket(w) ==
  /\ wpc[w] \in {"writing", "closing", "failing", "stuck"} => w \in control.mutations
  /\ wpc[w] = "failed" => control.uncertain \/ w \in reconciled
  /\ written[w] > 0 => wpc[w] # "new"

\* Histories refer to what was prepared, and every commit is in one of them.
Recorded(c, q) ==
  CASE form[q].kind = "propose" -> q \in Batches(c)
    [] form[q].kind = "approve" -> \E e \in c.approvals : e.request = q
    [] form[q].kind = "confirm" -> q \in c.policies
    [] OTHER -> q \in c.events

Publications == \A p \in control.published : prepared[p.batch] # NoDocument

Approvals ==
  \A e \in control.approvals :
    /\ prepared[e.request] # NoDocument
    /\ e.batch = control.current.batch => control.current.state # "published"

Once(q) ==
  commits[q] # 0 => commits[q] = 1 /\ form[q].kind # "none" /\ Recorded(control, q)

Finite ==
  \A h \in {control.published, control.approvals, control.events, control.policies} :
    IsFiniteSet(h)

IInv ==
  /\ TypeOK
  /\ \A q \in Requests : Form(q) /\ Once(q)
  /\ Past(InitialControl)
  /\ \A d \in Deliveries :
       /\ Remembers(d) /\ Served(d) /\ Placed(d) /\ AdmittedOnce(d)
       /\ Stored(d) /\ Projected(d) /\ Fresh(d) /\ Uncommitted(d)
  /\ \A w \in Writers : Ticket(w)
  /\ \A i \in Inputs : inputs[i] # Unread
  /\ Publications /\ Approvals /\ ApprovalMatchesBatch
  /\ Finite /\ HistoriesAreBounded

-------------------------------------------------------------------------------
(* Types *)

Memories ==
  [req : Requests \cup {NoRequest}, snap : Controls, state : Controls, seen : [Inputs -> Values]]

LEMMA Constants ==
  /\ InitialControl \in Controls
  /\ IsFiniteSet(InitialControl.policies) /\ Cardinality(InitialControl.policies) =< 1
  /\ NoMemory \in Memories
  /\ Original \in Values /\ Unread \in Values /\ Original # Unread /\ Nothing \in [Inputs -> Values]
<1> DEFINE first == {InitialPolicy} \ {NoRequest}
<1>1. IsFiniteSet(first) /\ Cardinality(first) \in {0, 1} /\ first \subseteq Requests
  <2>1. CASE InitialPolicy = NoRequest
    <3>1. first = {} BY <2>1
    <3> QED BY <3>1, FS_EmptySet
  <2>2. CASE InitialPolicy # NoRequest
    <3>1. first = {InitialPolicy} BY <2>2
    <3> QED BY <2>2, <3>1, FS_Singleton, PolicyAssumption
  <2> QED BY <2>1, <2>2
<1>2. InitialControl =
        [revision |-> Cardinality(first), generation |-> Cardinality(first),
         mutations |-> {}, uncertain |-> FALSE,
         current |-> [batch |-> NoRequest, state |-> "none"],
         published |-> {}, approvals |-> {}, events |-> {},
         policies |-> first, active |-> InitialPolicy]
  BY DEF InitialControl
<1> HIDE DEF first
<1>3. InitialControl \in Controls BY <1>1, <1>2, PolicyAssumption DEF Controls
<1>4. /\ Original \in Values /\ Unread \in Values /\ Original # Unread
      /\ Nothing \in [Inputs -> Values]
  BY BudgetAssumption DEF Original, Unread, Values, Nothing
<1>5. NoMemory \in Memories BY <1>3, <1>4 DEF NoMemory, Memories
<1> QED BY <1>1, <1>2, <1>3, <1>4, <1>5

\* A step of a delivery changes its own label and memory only.
LEMMA StepEffect ==
  ASSUME TypeOK, NEW d \in Deliveries, NEW label, NEW m, Step(d, label, m)
  PROVE  /\ pc'[d] = label
         /\ label \in Settled => mem'[d] = NoMemory
         /\ label \notin Settled => mem'[d] = m
         /\ \A e \in Deliveries : e # d => pc'[e] = pc[e] /\ mem'[e] = mem[e]
         /\ label \in Labels => pc' \in [Deliveries -> Labels]
         /\ m \in Memories => mem' \in [Deliveries -> Memories]
BY Constants DEF Step, TypeOK, Memories

LEMMA ControlEdited ==
  ASSUME NEW c \in Controls, NEW r \in Nat, NEW m \in SUBSET Writers, NEW u \in BOOLEAN
  PROVE  [c EXCEPT !.revision = r, !.mutations = m, !.uncertain = u] \in Controls
BY Zenon DEF Controls

LEMMA SuccessorType ==
  ASSUME TypeOK, NEW c \in Controls, NEW q \in Requests, Form(q),
         form[q].kind \notin {"none", "view"}
  PROVE  Successor(c, q) \in Controls
<1> DEFINE k == form[q].kind
           b == form[q].batch
           approval == [request |-> q, batch |-> b, revision |-> c.revision]
<1>1. /\ c.revision \in Nat /\ c.generation \in Nat /\ c.mutations \in SUBSET Writers
      /\ c.uncertain \in BOOLEAN
      /\ c.current \in [batch : Requests \cup {NoRequest},
                        state : {"none", "published", "approved", "cancelled"}]
      /\ c.published \in SUBSET [batch : Requests, revision : Nat]
      /\ c.approvals \in SUBSET [request : Requests, batch : Requests, revision : Nat]
      /\ c.events \in SUBSET Requests /\ c.policies \in SUBSET Requests
      /\ c.active \in Requests \cup {NoRequest}
  BY DEF Controls
<1>2. Pointer(c, q) \in [batch : Requests \cup {NoRequest},
                         state : {"none", "published", "approved", "cancelled"}]
  BY <1>1 DEF Pointer
<1>3. Adding(c.published, [batch |-> q, revision |-> c.revision], k = "propose")
        \in SUBSET [batch : Requests, revision : Nat]
  BY <1>1 DEF Adding
<1>4. k = "approve" => approval \in [request : Requests, batch : Requests, revision : Nat]
  BY <1>1 DEF Form
<1>5. Adding(c.approvals, approval, k = "approve")
        \in SUBSET [request : Requests, batch : Requests, revision : Nat]
  BY <1>1, <1>4 DEF Adding
<1>6. /\ Adding(c.events, q, k \in {"cancel", "deactivate", "reconcile"}) \in SUBSET Requests
      /\ Adding(c.policies, q, k = "confirm") \in SUBSET Requests
  BY <1>1 DEF Adding
<1>7. (CASE k = "confirm" -> q [] k = "deactivate" -> NoRequest [] OTHER -> c.active)
        \in Requests \cup {NoRequest}
  BY <1>1
<1>8. (IF MovesRevision(k) THEN c.revision + 1 ELSE c.revision) \in Nat /\ c.generation + 1 \in Nat
  BY <1>1
<1>9. (c.uncertain /\ k # "reconcile") \in BOOLEAN BY <1>1
<1> QED BY <1>1, <1>2, <1>3, <1>5, <1>6, <1>7, <1>8, <1>9 DEF Successor, Controls

\* Every step keeps the types.
LEMMA TypeStep ==
  ASSUME TypeOK, \A q \in Requests : Form(q), \A d \in Deliveries : Served(d) /\ Placed(d),
         [Next]_vars
  PROVE  TypeOK'
<1> USE DEF Memories
<1>1. ASSUME NEW w \in Writers, Announce(w) \/ Finish(w) PROVE TypeOK'
  <2>1. control \in Controls BY DEF TypeOK
  <2>2. control.revision + 1 \in Nat /\ control.mutations \in SUBSET Writers
        /\ control.uncertain \in BOOLEAN
    BY <2>1 DEF Controls
  <2>3. CASE Announce(w)
    <3>1. control' = [control EXCEPT !.revision = control.revision + 1,
                                     !.mutations = control.mutations \cup {w},
                                     !.uncertain = control.uncertain]
      BY <2>1, <2>3 DEF Announce, Controls
    <3>2. control' \in Controls BY <2>1, <2>2, <3>1, ControlEdited
    <3> QED BY <2>3, <3>2 DEF Announce, TypeOK, delivery, history
  <2>4. CASE Finish(w)
    <3>1. control' = [control EXCEPT !.revision = control.revision + 1,
                                     !.mutations = control.mutations \ {w},
                                     !.uncertain = control.uncertain \/ wpc[w] = "failing"]
      BY <2>4, Zenon DEF Finish
    <3>2. (control.uncertain \/ wpc[w] = "failing") \in BOOLEAN BY <2>2
    <3>3. control' \in Controls BY <2>1, <2>2, <3>1, <3>2, ControlEdited
    <3> QED BY <2>4, <3>3 DEF Finish, TypeOK, delivery, history
  <2> QED BY <1>1, <2>3, <2>4
<1>2. ASSUME NEW w \in Writers, Write(w) \/ EndBody(w) \/ FinishFails(w) PROVE TypeOK'
  <2>1. CASE Write(w)
    <3>1. written[w] + 1 \in 0..MaxWrites /\ target[w] \in Inputs
      BY <2>1, BudgetAssumption DEF Write, TypeOK
    <3>2. [by |-> w, step |-> written[w] + 1] \in Values BY <3>1 DEF Values
    <3> QED BY <2>1, <3>1, <3>2 DEF Write, TypeOK, delivery, history
  <2> QED BY <1>2, <2>1 DEF EndBody, FinishFails, TypeOK, delivery, history
<1>3. ASSUME NEW q \in Requests, Compose(q) \/ Inspect(q) \/ Expire(q) PROVE TypeOK'
  <2>1. control.revision \in Nat /\ control.generation \in Nat BY DEF TypeOK, Controls
  <2>2. CASE Compose(q)
    <3>1. Kinds \subseteq ReviewKinds \cup {"none"} /\ Unread \in Values
      BY KindsAssumption, Constants
    <3> QED BY <2>1, <2>2, <3>1 DEF Compose, TypeOK, writer, delivery, history
  <2>3. CASE Inspect(q)
    <3>1. inputs[Watched(form[q].kind)] \in Values BY DEF TypeOK, Watched, Inputs
    <3> QED BY <2>3, <3>1 DEF Inspect, TypeOK, writer, delivery, history
  <2>4. CASE Expire(q) BY <2>4 DEF Expire, TypeOK, writer, delivery, history
  <2> QED BY <1>3, <2>2, <2>3, <2>4
<1>4. ASSUME NEW d \in Deliveries, Deliver(d) \/ Handle(d) PROVE TypeOK'
  <2>1. mem[d] \in Memories /\ control \in Controls BY DEF TypeOK
  <2>2. CASE Deliver(d)
    <3>1. PICK q \in Requests :
            Step(d, CASE form[q].kind = "propose" -> "load" [] form[q].kind = "view" -> "view"
                      [] OTHER -> "read",
                 [NoMemory EXCEPT !.req = q])
      BY <2>2 DEF Deliver
    <3>2. [NoMemory EXCEPT !.req = q] \in Memories BY Constants
    <3>3. pc' \in [Deliveries -> Labels] /\ mem' \in [Deliveries -> Memories]
      BY <3>1, <3>2, StepEffect DEF Labels
    <3> QED BY <2>2, <3>3 DEF Deliver, TypeOK, writer, history
  <2>3. CASE Load(d) \/ Reload(d) \/ Compare(d) \/ Conflict(d) \/ StorageFails(d)
    <3>1. pc' \in [Deliveries -> Labels] /\ mem' \in [Deliveries -> Memories]
      BY <2>1, <2>3, StepEffect
         DEF Load, Reload, Compare, Conflict, StorageFails, Goto, Labels, Settled
    <3> QED BY <2>3, <3>1 DEF Load, Reload, Compare, Conflict, StorageFails, TypeOK, writer, history
  <2>4. CASE Read(d)
    <3> DEFINE m == [mem[d] EXCEPT !.snap = control, !.seen = Nothing]
    <3>1. m \in Memories BY <2>1, Constants
    <3>2. PICK label \in {Respond(kind(d)), Proceed(kind(d)), "rejected"} : Step(d, label, m)
      BY <2>4 DEF Read
    <3>3. label \in Labels BY DEF Labels, Settled, Respond, Proceed
    <3>4. pc' \in [Deliveries -> Labels] /\ mem' \in [Deliveries -> Memories]
      BY <3>1, <3>2, <3>3, StepEffect
    <3> QED BY <2>4, <3>4 DEF Read, TypeOK, writer, history
  <2>5. CASE ReadInput(d)
    <3>1. PICK i \in Inputs : Step(d, pc[d], [mem[d] EXCEPT !.seen[i] = inputs[i]])
      BY <2>5 DEF ReadInput
    <3>2. [mem[d] EXCEPT !.seen[i] = inputs[i]] \in Memories BY <2>1 DEF TypeOK
    <3>3. pc[d] \in Labels BY DEF TypeOK
    <3>4. pc' \in [Deliveries -> Labels] /\ mem' \in [Deliveries -> Memories]
      BY <3>1, <3>2, <3>3, StepEffect
    <3> QED BY <2>5, <3>4 DEF ReadInput, TypeOK, writer, history
  <2>6. CASE Save(d)
    <3>1. pc' \in [Deliveries -> Labels] /\ mem' \in [Deliveries -> Memories]
      BY <2>1, <2>6, StepEffect DEF Save, Goto, Labels, Settled
    <3>2. mem[d].req \in Requests BY <2>6 DEF Save, Served, Settled
    <3>3. Verdicts(d) \subseteq BOOLEAN BY DEF Verdicts
    <3>4. /\ mem[d].seen \in [Inputs -> Values]
          /\ mem[d].snap.active \in Requests \cup {NoRequest}
      BY <2>1 DEF Controls
    <3>5. prepared' \in [Requests -> [by : Deliveries \cup {NoDelivery}, seen : [Inputs -> Values],
                                      ready : BOOLEAN, policy : Requests \cup {NoRequest}]]
      BY <2>6, <3>2, <3>3, <3>4 DEF Save, TypeOK
    <3> QED BY <2>6, <3>1, <3>5 DEF Save, TypeOK, writer, history
  <2>7. CASE Commit(d)
    <3>1. mem[d].req \in Requests /\ kind(d) \notin {"none", "view"}
      BY <2>7 DEF Commit, Served, Placed, Settled, Admission
    <3>2. control' \in Controls BY <2>1, <2>7, <3>1, SuccessorType DEF Commit, kind
    <3>3. pc' \in [Deliveries -> Labels] /\ mem' \in [Deliveries -> Memories]
      BY <2>1, <2>7, StepEffect DEF Commit, Goto, Labels, Settled, Respond
    <3>4. commits' \in [Requests -> Nat] /\ reconciled' \subseteq Writers
      BY <2>7, <3>1 DEF Commit, TypeOK
    <3> QED BY <2>7, <3>2, <3>3, <3>4 DEF Commit, TypeOK, writer
  <2>8. CASE Project(d)
    <3> DEFINE m == [mem[d] EXCEPT !.state = control, !.seen = Nothing]
    <3>1. m \in Memories BY <2>1, Constants
    <3>2. PICK label \in {"rejected", "project_read", "view_read"} : Step(d, label, m)
      BY <2>8 DEF Project
    <3>3. label \in Labels BY DEF Labels, Settled
    <3>4. pc' \in [Deliveries -> Labels] /\ mem' \in [Deliveries -> Memories]
      BY <3>1, <3>2, <3>3, StepEffect
    <3> QED BY <2>8, <3>4 DEF Project, TypeOK, writer, history
  <2>9. CASE ProjectEnd(d)
    <3> DEFINE m == [mem[d] EXCEPT !.seen = Nothing]
    <3>1. m \in Memories BY <2>1, Constants
    <3>2. pc' \in [Deliveries -> Labels] /\ mem' \in [Deliveries -> Memories]
      BY <2>1, <2>9, <3>1, StepEffect DEF ProjectEnd, Goto, Labels, Settled
    <3>3. ApprovalCurrent(d, form[mem[d].req].batch) \in BOOLEAN BY DEF ApprovalCurrent, Valid
    <3>4. told' \in [Deliveries -> BOOLEAN] BY <2>9, <3>3 DEF ProjectEnd, TypeOK
    <3> QED BY <2>9, <3>2, <3>4 DEF ProjectEnd, TypeOK, writer, history
  <2> QED BY <1>4, <2>2, <2>3, <2>4, <2>5, <2>6, <2>7, <2>8, <2>9 DEF Handle
<1>5. CASE Crash
  <2>1. pc' \in [Deliveries -> Labels] BY <1>5 DEF Crash, TypeOK, Labels, Settled
  <2>2. mem' \in [Deliveries -> Memories] BY <1>5, Constants DEF Crash
  <2>3. wpc' \in [Writers -> {"new", "writing", "closing", "failing", "done", "failed", "stuck"}]
    BY <1>5 DEF Crash, TypeOK
  <2> QED BY <1>5, <2>1, <2>2, <2>3 DEF Crash, TypeOK, history
<1>6. CASE UNCHANGED vars BY <1>6 DEF TypeOK, vars, writer, delivery, history
<1> QED BY <1>1, <1>2, <1>3, <1>4, <1>5, <1>6 DEF Next

-------------------------------------------------------------------------------
(* Every change of the control document moves its revision or its generation *)

\* What a delivery is about to commit goes into the document that it read.
LEMMA Swaps ==
  ASSUME IInv, NEW d \in Deliveries, Commit(d)
  PROVE  /\ mem[d].snap = control
         /\ mem[d].req \in Requests /\ kind(d) \notin {"none", "view"}
         /\ control' = Successor(control, mem[d].req)
         /\ control.mutations = {}
         /\ Admitted(control, mem[d].req) /\ ~Replayed(control, mem[d].req)
<1>1. mem[d].snap = control BY DEF Commit, Swappable, IInv, Remembers, Past
<1>2. mem[d].req \in Requests /\ kind(d) \notin {"none", "view"}
  BY DEF Commit, IInv, Served, Placed, Settled, Admission
<1>3. Admitted(mem[d].snap, mem[d].req) /\ ~Replayed(mem[d].snap, mem[d].req)
  BY DEF Commit, IInv, AdmittedOnce, Admission
<1> QED BY <1>1, <1>2, <1>3 DEF Commit, Swappable

\* The actions that write the control document.
Writes ==
  \/ \E w \in Writers : Announce(w) \/ Finish(w)
  \/ \E d \in Deliveries : Commit(d)

LEMMA OthersKeepControl == ASSUME [Next]_vars, ~Writes PROVE control' = control
BY DEF Writes, Next, Handle, Write, EndBody, FinishFails, Compose, Inspect, Expire, Deliver,
   Load, Reload, Read, ReadInput, Save, Compare, Conflict, Project, ProjectEnd, StorageFails,
   Crash, vars

Moves ==
  /\ control.revision =< control'.revision /\ control.generation =< control'.generation
  /\ control'.revision = control.revision =>
       control'.mutations = control.mutations /\ control'.uncertain = control.uncertain
  /\ control'.revision = control.revision /\ control'.generation = control.generation =>
       control' = control

LEMMA ControlMoves == ASSUME IInv, [Next]_vars PROVE Moves
<1>1. control \in Controls BY DEF IInv, TypeOK
<1>2. control.revision \in Nat /\ control.generation \in Nat /\ control.uncertain \in BOOLEAN
  BY <1>1 DEF Controls
<1>3. ASSUME NEW w \in Writers, Announce(w) \/ Finish(w) PROVE Moves
  <2>1. control'.revision = control.revision + 1 /\ control'.generation = control.generation
    BY <1>1, <1>3 DEF Announce, Finish, Controls
  <2> QED BY <1>2, <2>1 DEF Moves
<1>4. ASSUME NEW d \in Deliveries, Commit(d) PROVE Moves
  <2>1. control' = Successor(control, mem[d].req) BY <1>4, Swaps
  <2>2. /\ control'.generation = control.generation + 1
        /\ control'.mutations = control.mutations
        /\ control'.revision =
             IF MovesRevision(kind(d)) THEN control.revision + 1 ELSE control.revision
        /\ control'.uncertain = (control.uncertain /\ kind(d) # "reconcile")
    BY <2>1, Zenon DEF Successor, kind
  <2> QED BY <1>2, <2>2 DEF Moves, MovesRevision
<1>5. CASE ~Writes BY <1>2, <1>5, OthersKeepControl DEF Moves
<1> QED BY <1>3, <1>4, <1>5 DEF Writes

PastAfter(c) ==
  /\ c.revision =< control'.revision /\ c.generation =< control'.generation
  /\ c.revision = control'.revision =>
       c.mutations = control'.mutations /\ c.uncertain = control'.uncertain
  /\ c.revision = control'.revision /\ c.generation = control'.generation => c = control'

\* A document of the past stays one.
LEMMA PastKept ==
  ASSUME TypeOK, TypeOK', Moves, NEW c \in Controls, Past(c)
  PROVE  PastAfter(c)
<1>1. /\ c.revision \in Nat /\ c.generation \in Nat
      /\ control.revision \in Nat /\ control.generation \in Nat
      /\ control'.revision \in Nat /\ control'.generation \in Nat
  BY DEF TypeOK, Controls
<1>2. c.revision =< control'.revision /\ c.generation =< control'.generation
  BY <1>1 DEF Moves, Past
<1>3. c.revision = control'.revision =>
        c.revision = control.revision /\ control.revision = control'.revision
  BY <1>1 DEF Moves, Past
<1>4. c.generation = control'.generation =>
        c.generation = control.generation /\ control.generation = control'.generation
  BY <1>1 DEF Moves, Past
<1> QED BY <1>2, <1>3, <1>4 DEF Moves, Past, PastAfter

\* Every step is one of a delivery, a crash, or leaves the deliveries alone.
LEMMA StepKinds ==
  ASSUME [Next]_vars
  PROVE  \/ \E d \in Deliveries : Deliver(d) \/ Handle(d)
         \/ Crash
         \/ UNCHANGED <<pc, mem, told>>
<1>1. ASSUME NEW w \in Writers, Announce(w) \/ Write(w) \/ EndBody(w) \/ Finish(w) \/ FinishFails(w)
      PROVE  UNCHANGED <<pc, mem, told>>
  BY <1>1 DEF Announce, Write, EndBody, Finish, FinishFails, delivery
<1>2. ASSUME NEW q \in Requests, Compose(q) \/ Inspect(q) \/ Expire(q)
      PROVE  UNCHANGED <<pc, mem, told>>
  BY <1>2 DEF Compose, Inspect, Expire, delivery
<1>3. UNCHANGED vars => UNCHANGED <<pc, mem, told>> BY DEF vars, delivery
<1> QED BY <1>1, <1>2, <1>3 DEF Next

\* Where the documents in a memory come from.
LEMMA MemorySources ==
  ASSUME TypeOK, [Next]_vars, NEW d \in Deliveries
  PROVE  /\ mem'[d].snap \in {mem[d].snap, control, InitialControl}
         /\ mem'[d].state \in {mem[d].state, control, InitialControl}
<1> DEFINE Good(m) == /\ m.snap \in {mem[d].snap, control, InitialControl}
                      /\ m.state \in {mem[d].state, control, InitialControl}
<1>1. Good(NoMemory) BY DEF NoMemory
<1>2. Good(mem[d]) OBVIOUS
<1>3. mem[d] \in Memories BY DEF TypeOK, Memories
<1> HIDE DEF Good
<1>4. ASSUME NEW e \in Deliveries, NEW label, NEW m, Step(e, label, m), e = d => Good(m)
      PROVE  Good(mem'[d])
  BY <1>1, <1>2, <1>4, StepEffect
<1>5. ASSUME NEW e \in Deliveries, Deliver(e) \/ Handle(e) PROVE Good(mem'[d])
  <2>1. \A q : Good([NoMemory EXCEPT !.req = q]) BY DEF Good, NoMemory
  <2>2. Good([mem[d] EXCEPT !.snap = control, !.seen = Nothing]) BY <1>3 DEF Good, Memories
  <2>3. \A i \in Inputs : Good([mem[d] EXCEPT !.seen[i] = inputs[i]]) BY <1>3 DEF Good, Memories
  <2>4. Good([mem[d] EXCEPT !.state = control, !.seen = Nothing]) BY <1>3 DEF Good, Memories
  <2>5. Good([mem[d] EXCEPT !.seen = Nothing]) BY <1>3 DEF Good, Memories
  <2>6. CASE Deliver(e) BY <1>4, <2>1, <2>6 DEF Deliver
  <2>7. CASE Read(e) BY <1>4, <2>2, <2>7 DEF Read
  <2>8. CASE ReadInput(e) BY <1>4, <2>3, <2>8 DEF ReadInput
  <2>9. CASE Project(e) BY <1>4, <2>4, <2>9 DEF Project
  <2>10. CASE ProjectEnd(e) BY <1>2, <1>4, <2>5, <2>10 DEF ProjectEnd, Goto
  <2>11. CASE \/ Load(e) \/ Reload(e) \/ Save(e) \/ Compare(e) \/ Commit(e) \/ Conflict(e)
              \/ StorageFails(e)
    BY <1>2, <1>4, <2>11 DEF Load, Reload, Save, Compare, Commit, Conflict, StorageFails, Goto
  <2> QED BY <1>5, <2>6, <2>7, <2>8, <2>9, <2>10, <2>11 DEF Handle
<1>6. ASSUME Crash PROVE Good(mem'[d])
  <2>1. mem'[d] = NoMemory BY <1>6 DEF Crash
  <2> QED BY <1>1, <2>1 DEF Good
<1>7. ASSUME UNCHANGED mem PROVE Good(mem'[d]) BY <1>7 DEF Good
<1>8. Good(mem'[d])
  <2>1. CASE \E e \in Deliveries : Deliver(e) \/ Handle(e) BY <1>5, <2>1
  <2>2. CASE UNCHANGED <<pc, mem, told>> BY <1>7, <2>2
  <2> QED BY <1>6, <2>1, <2>2, StepKinds
<1> QED BY <1>8 DEF Good

LEMMA PastStep ==
  ASSUME IInv, TypeOK', [Next]_vars
  PROVE  Past(InitialControl)' /\ \A d \in Deliveries : Remembers(d)'
<1>1. TypeOK /\ Moves BY ControlMoves DEF IInv
<1>2. control \in Controls BY <1>1 DEF TypeOK
<1>3. PastAfter(control) BY <1>1 DEF PastAfter, Moves
<1>4. PastAfter(InitialControl) BY <1>1, PastKept, Constants DEF IInv
<1>5. ASSUME NEW d \in Deliveries PROVE PastAfter(mem'[d].snap) /\ PastAfter(mem'[d].state)
  <2>1. mem[d].snap \in Controls /\ mem[d].state \in Controls BY <1>1 DEF TypeOK
  <2>2. PastAfter(mem[d].snap) /\ PastAfter(mem[d].state)
    BY <1>1, <2>1, PastKept DEF IInv, Remembers
  <2> QED BY <1>1, <1>3, <1>4, <2>2, MemorySources
<1> QED BY <1>4, <1>5 DEF Past, PastAfter, Remembers

-------------------------------------------------------------------------------
(* Requests and preparations are written once *)

LEMMA FormStable ==
  ASSUME TypeOK, [Next]_vars, NEW q \in Requests
  PROVE  /\ form[q].kind # "none" =>
              /\ form'[q].kind = form[q].kind /\ form'[q].batch = form[q].batch
              /\ form'[q].revision = form[q].revision
              /\ form'[q].generation = form[q].generation
              /\ form[q].declared # Unread => form'[q].declared = form[q].declared
         /\ Form(q) => Form(q)'
<1>1. CASE UNCHANGED form BY <1>1 DEF Form
<1>2. ASSUME NEW r \in Requests, Compose(r)
      PROVE  /\ form[q].kind # "none" => form'[q] = form[q]
             /\ Form(q) => Form(q)'
  <2>1. PICK k \in Kinds, b \in Requests :
          /\ k \notin {"approve", "cancel", "view"} => b = r
          /\ form' = [form EXCEPT ![r] =
                [kind |-> k, batch |-> b, revision |-> control.revision,
                 generation |-> control.generation, declared |-> Unread]]
    BY <1>2 DEF Compose
  <2>2. form[r].kind = "none" BY <1>2 DEF Compose
  <2>3. CASE q = r BY <2>1, <2>2, <2>3 DEF Form, TypeOK
  <2>4. CASE q # r BY <2>1, <2>4 DEF Form, TypeOK
  <2> QED BY <2>3, <2>4
<1>3. ASSUME NEW r \in Requests, Inspect(r)
      PROVE  /\ form'[q].kind = form[q].kind /\ form'[q].batch = form[q].batch
             /\ form'[q].revision = form[q].revision
             /\ form'[q].generation = form[q].generation
             /\ form[q].declared # Unread => form'[q].declared = form[q].declared
             /\ Form(q) => Form(q)'
  BY <1>3 DEF Inspect, Form, TypeOK
<1>4. CASE \E r \in Requests : Compose(r) \/ Inspect(r)
  BY <1>2, <1>3, <1>4
<1>5. CASE ~ \E r \in Requests : Compose(r) \/ Inspect(r)
  BY <1>1, <1>5 DEF Next, Handle, Announce, Write, EndBody, Finish, FinishFails, Expire, Deliver,
     Load, Reload, Read, ReadInput, Save, Compare, Commit, Conflict, Project, ProjectEnd,
     StorageFails, Crash, vars
<1> QED BY <1>4, <1>5

LEMMA PreparedStable ==
  ASSUME TypeOK, [Next]_vars, NEW q \in Requests, prepared[q] # NoDocument
  PROVE  prepared'[q] = prepared[q]
<1>1. ASSUME NEW d \in Deliveries, Save(d) PROVE prepared'[q] = prepared[q]
  <2>1. prepared' = prepared \/ (\E m : prepared' = [prepared EXCEPT ![mem[d].req] = m]
                                        /\ prepared[mem[d].req] = NoDocument)
    BY <1>1 DEF Save
  <2> QED BY <2>1 DEF TypeOK
<1>2. CASE ~ \E d \in Deliveries : Save(d)
  BY <1>2 DEF Next, Handle, Announce, Write, EndBody, Finish, FinishFails, Compose, Inspect, Expire,
     Deliver, Load, Reload, Read, ReadInput, Compare, Commit, Conflict, Project, ProjectEnd,
     StorageFails, Crash, vars
<1> QED BY <1>1, <1>2

-------------------------------------------------------------------------------
(* The place and the memory of a delivery fit together *)

Fits(d) == Served(d) /\ Placed(d) /\ AdmittedOnce(d) /\ Stored(d) /\ Projected(d)

\* A delivery that has ended, or has not begun, owes nothing.
LEMMA SettledFits == ASSUME NEW d \in Deliveries, pc'[d] \in Settled PROVE Fits(d)'
BY DEF Fits, Served, Placed, AdmittedOnce, Stored, Projected, Settled, Admission

LEMMA FitsKept ==
  ASSUME IInv, [Next]_vars, NEW d \in Deliveries, pc'[d] = pc[d], mem'[d] = mem[d]
  PROVE  Fits(d)'
<1> DEFINE q == mem[d].req
<1>1. CASE pc[d] \in Settled BY <1>1, SettledFits
<1>2. CASE pc[d] \notin Settled
  <2>1. Fits(d) /\ q \in Requests /\ form[q].kind # "none" /\ form[q].batch \in Requests
    BY <1>2 DEF IInv, Fits, Served, Form, kind
  <2>2. /\ form'[q].kind = form[q].kind /\ form'[q].batch = form[q].batch
        /\ form'[q].revision = form[q].revision /\ form'[q].generation = form[q].generation
        /\ form[q].declared # Unread => form'[q].declared = form[q].declared
    BY <2>1, FormStable DEF IInv
  <2>3. Served(d)' /\ Placed(d)'
    BY <1>2, <2>1, <2>2 DEF Fits, Served, Placed, kind
  <2>4. Admitted(mem[d].snap, q)' <=> Admitted(mem[d].snap, q)
    BY <2>2 DEF Admitted, Checked, WithinBudget, HistoryOf
  <2>5. Replayed(mem[d].snap, q)' <=> Replayed(mem[d].snap, q) BY <2>2 DEF Replayed
  <2>6. AdmittedOnce(d)' BY <2>1, <2>4, <2>5 DEF Fits, AdmittedOnce
  <2>7. Stored(d)'
    <3>1. prepared[q].by = d => prepared[q] # NoDocument
      BY AbsentAssumption DEF NoDocument
    <3>2. prepared[q].by = d => prepared'[q] = prepared[q] BY <2>1, <3>1, PreparedStable DEF IInv
    <3> QED BY <2>1, <2>2, <3>2 DEF Fits, Stored, kind, AllRead
  <2>8. Projected(d)'
    <3>1. prepared[form[q].batch] # NoDocument => prepared'[form[q].batch] = prepared[form[q].batch]
      BY <2>1, PreparedStable DEF IInv
    <3>2. NoDocument' = NoDocument BY DEF NoDocument, Nothing, Unread
    <3> QED BY <2>1, <2>2, <3>1 DEF Fits, Projected, kind
  <2> QED BY <2>3, <2>6, <2>7, <2>8 DEF Fits
<1> QED BY <1>1, <1>2

\* A step of its own takes a delivery from one place to the next.
LEMMA FitsMoved ==
  ASSUME IInv, NEW d \in Deliveries, Deliver(d) \/ Handle(d)
  PROVE  Fits(d)'
<1> DEFINE q == mem[d].req
<1>1. mem[d] \in Memories /\ TypeOK /\ control \in Controls BY DEF IInv, TypeOK, Memories
<1>2. /\ Served(d) /\ Placed(d) /\ AdmittedOnce(d) /\ Stored(d) /\ Projected(d)
      /\ Past(mem[d].snap)
  BY DEF IInv, Remembers
<1>3. form' = form
  BY DEF Deliver, Handle, Load, Reload, Read, ReadInput, Save, Compare, Commit, Conflict, Project,
     ProjectEnd, StorageFails
<1>4. CASE pc'[d] \in Settled BY <1>4, SettledFits
<1>5. ASSUME pc'[d] \notin Settled \cup Admission, mem'[d].req \in Requests,
             form[mem'[d].req].kind # "none",
             Declares(form[mem'[d].req].kind) => form[mem'[d].req].declared # Unread,
             pc'[d] \in {"load", "reload"} => form[mem'[d].req].kind = "propose",
             pc'[d] = "read" => form[mem'[d].req].kind # "view"
      PROVE  Fits(d)'
  BY <1>3, <1>5 DEF Fits, Served, Placed, AdmittedOnce, Stored, Projected, Admission, kind
<1>6. CASE Deliver(d)
  <2> DEFINE label(r) == CASE form[r].kind = "propose" -> "load" [] form[r].kind = "view" -> "view"
                           [] OTHER -> "read"
  <2>1. PICK r \in Requests :
          /\ form[r].kind # "none" /\ (Declares(form[r].kind) => form[r].declared # Unread)
          /\ Step(d, label(r), [NoMemory EXCEPT !.req = r])
    BY <1>6 DEF Deliver
  <2>2. label(r) \in {"load", "view", "read"} OBVIOUS
  <2>3. pc'[d] = label(r) /\ mem'[d] = [NoMemory EXCEPT !.req = r]
    BY <1>1, <2>1, <2>2, StepEffect DEF Settled
  <2>4. mem'[d].req = r BY <2>3 DEF NoMemory
  <2>5. label(r) = "load" => form[r].kind = "propose" OBVIOUS
  <2>6. label(r) = "read" => form[r].kind # "view" OBVIOUS
  <2> QED BY <1>5, <2>1, <2>2, <2>3, <2>4, <2>5, <2>6 DEF Settled, Admission
<1>7. CASE Load(d) \/ Reload(d)
  <2>1. q \in Requests /\ kind(d) = "propose" BY <1>2, <1>7 DEF Load, Reload, Served, Placed, Settled
  <2>2. PICK label \in {"reload", "read", "view", "rejected"} : Step(d, label, mem[d])
    BY <1>7 DEF Load, Reload, Goto
  <2>3. pc'[d] = label /\ (label \notin Settled => mem'[d] = mem[d]) BY <1>1, <2>2, StepEffect
  <2> QED BY <1>4, <1>5, <2>1, <2>3 DEF Settled, Admission, kind, Declares
<1>8. CASE Read(d)
  <2> DEFINE m == [mem[d] EXCEPT !.snap = control, !.seen = Nothing]
  <2>1. /\ q \in Requests /\ kind(d) \notin {"none", "view"}
        /\ Declares(kind(d)) => form[q].declared # Unread
    BY <1>2, <1>8 DEF Read, Served, Placed, Settled
  <2>2. m.req = q /\ m.snap = control BY <1>1 DEF Memories
  <2>3. CASE Replayed(control, q)
    <3>1. Step(d, Respond(kind(d)), m) BY <1>8, <2>3 DEF Read
    <3>2. /\ pc'[d] = Respond(kind(d)) /\ Respond(kind(d)) \in {"view", "done"}
          /\ Respond(kind(d)) \notin Settled => mem'[d] = m
      BY <1>1, <3>1, StepEffect DEF Respond
    <3> QED BY <1>4, <1>5, <2>1, <2>2, <3>2 DEF Settled, Admission, kind
  <2>4. CASE ~Replayed(control, q) /\ Admitted(control, q)
    <3>1. Step(d, Proceed(kind(d)), m) BY <1>8, <2>4 DEF Read
    <3>2. Proceed(kind(d)) \in Admission \ Settled BY DEF Proceed, Admission, Settled
    <3>3. pc'[d] = Proceed(kind(d)) /\ mem'[d] = m BY <1>1, <3>1, <3>2, StepEffect
    <3>4. kind(d)' = kind(d) /\ mem'[d].req = q /\ mem'[d].snap = control
      BY <1>3, <2>2, <3>3 DEF kind
    <3>5. Served(d)' /\ Placed(d)'
      BY <1>3, <2>1, <3>3, <3>4 DEF Served, Placed, Proceed, Evaluating, Declares
    <3>6. AdmittedOnce(d)'
      BY <1>3, <2>4, <3>4
         DEF AdmittedOnce, Admitted, Checked, WithinBudget, HistoryOf, Replayed
    <3>7. Stored(d)' /\ Projected(d)'
      BY <2>1, <3>3, <3>4 DEF Stored, Projected, Proceed, Evaluating
    <3> QED BY <3>5, <3>6, <3>7 DEF Fits
  <2>5. CASE ~Replayed(control, q) /\ ~Admitted(control, q)
    <3>1. Step(d, "rejected", m) BY <1>8, <2>5 DEF Read
    <3>2. pc'[d] = "rejected" BY <1>1, <3>1, StepEffect
    <3> QED BY <1>4, <3>2 DEF Settled
  <2> QED BY <2>3, <2>4, <2>5
<1>9. CASE ReadInput(d)
  <2>1. PICK i \in Inputs : Step(d, pc[d], [mem[d] EXCEPT !.seen[i] = inputs[i]])
    BY <1>9 DEF ReadInput
  <2>2. pc[d] \in {"evaluate", "project_read", "view_read"} BY <1>9 DEF ReadInput
  <2>3. pc'[d] = pc[d] /\ mem'[d] = [mem[d] EXCEPT !.seen[i] = inputs[i]]
    BY <1>1, <2>1, <2>2, StepEffect DEF Settled
  <2>4. mem'[d].req = q /\ mem'[d].snap = mem[d].snap /\ mem'[d].state = mem[d].state
    BY <1>1, <2>3 DEF Memories
  <2>5. kind(d)' = kind(d) /\ prepared' = prepared BY <1>3, <1>9, <2>4 DEF kind, ReadInput
  <2>6. Served(d)' /\ Placed(d)' BY <1>2, <1>3, <2>3, <2>4, <2>5 DEF Served, Placed
  <2>7. AdmittedOnce(d)'
    BY <1>2, <1>3, <2>3, <2>4
       DEF AdmittedOnce, Admitted, Checked, WithinBudget, HistoryOf, Replayed
  <2>8. Stored(d)' BY <2>2, <2>3 DEF Stored
  <2>9. Projected(d)' BY <1>2, <1>3, <2>3, <2>4, <2>5 DEF Projected, NoDocument
  <2> QED BY <2>6, <2>7, <2>8, <2>9 DEF Fits
<1>10. CASE Save(d)
  <2>1. PICK ready \in Verdicts(d) :
          LET refused == (kind(d) = "approve" /\ ~ready) \/ prepared[q] # NoDocument
          IN  /\ prepared' = IF refused THEN prepared
                             ELSE [prepared EXCEPT ![q] =
                                     [by |-> d, seen |-> mem[d].seen, ready |-> ready,
                                      policy |-> mem[d].snap.active]]
              /\ \/ Goto(d, IF refused THEN "rejected" ELSE "commit")
                 \/ MayFail /\ Goto(d, "rejected")
    BY <1>10 DEF Save
  <2>2. pc[d] = "evaluate" /\ AllRead(d) BY <1>10 DEF Save
  <2>3. q \in Requests /\ kind(d) \in Evaluating /\ form[q].kind # "none"
    BY <1>2, <2>2 DEF Served, Placed, Settled, kind
  <2>4. CASE Goto(d, "rejected")
    <3>1. pc'[d] = "rejected" BY <1>1, <2>4, StepEffect DEF Goto
    <3> QED BY <1>4, <3>1 DEF Settled
  <2>5. CASE ~Goto(d, "rejected")
    <3>1. /\ prepared[q] = NoDocument /\ Goto(d, "commit")
          /\ prepared' = [prepared EXCEPT ![q] =
                            [by |-> d, seen |-> mem[d].seen, ready |-> ready,
                             policy |-> mem[d].snap.active]]
      BY <2>1, <2>5
    <3>2. pc'[d] = "commit" /\ mem'[d] = mem[d] BY <1>1, <3>1, StepEffect DEF Goto, Settled
    <3>3. kind(d)' = kind(d) BY <1>3, <3>2 DEF kind
    <3>4. Served(d)' /\ Placed(d)'
      BY <1>2, <1>3, <2>2, <2>3, <3>2, <3>3
         DEF Served, Placed, Evaluating, Declares, Settled, Admission
    <3>5. AdmittedOnce(d)'
      BY <1>2, <1>3, <2>2, <3>2
         DEF AdmittedOnce, Admitted, Checked, WithinBudget, HistoryOf, Replayed, Admission
    <3>6. Stored(d)'
      <4>1. prepared'[q].by = d /\ prepared'[q].seen = mem[d].seen BY <1>1, <2>3, <3>1 DEF TypeOK
      <4> QED BY <2>2, <3>2, <4>1 DEF Stored, AllRead
    <3>7. Projected(d)'
      <4>1. prepared[form[q].batch] # NoDocument =>
              prepared'[form[q].batch] = prepared[form[q].batch]
        BY <1>1, <3>1 DEF TypeOK
      <4> QED BY <1>2, <1>3, <2>2, <3>2, <3>3, <4>1 DEF Projected, NoDocument
    <3> QED BY <3>4, <3>5, <3>6, <3>7 DEF Fits
  <2> QED BY <2>4, <2>5
<1>11. CASE Compare(d)
  <2>1. pc[d] = "compare" /\ Declares(kind(d)) BY <1>2, <1>11 DEF Compare, Placed
  <2>2. PICK label \in {"commit", "rejected"} : Step(d, label, mem[d])
    BY <1>11 DEF Compare, Goto
  <2>3. pc'[d] = label /\ (label \notin Settled => mem'[d] = mem[d]) BY <1>1, <2>2, StepEffect
  <2>4. CASE label = "commit"
    <3>1. pc'[d] = "commit" /\ mem'[d] = mem[d] BY <2>3, <2>4 DEF Settled
    <3>2. kind(d)' = kind(d) BY <1>3, <3>1 DEF kind
    <3>3. Served(d)' /\ Placed(d)'
      BY <1>2, <1>3, <2>1, <3>1, <3>2 DEF Served, Placed, Declares, Settled, Admission
    <3>4. AdmittedOnce(d)'
      BY <1>2, <1>3, <2>1, <3>1
         DEF AdmittedOnce, Admitted, Checked, WithinBudget, HistoryOf, Replayed, Admission
    <3>5. Stored(d)' /\ Projected(d)'
      BY <2>1, <3>1, <3>2 DEF Stored, Projected, Evaluating, Declares
    <3> QED BY <3>3, <3>4, <3>5 DEF Fits
  <2> QED BY <1>4, <2>3, <2>4 DEF Settled
<1>12. CASE Commit(d)
  <2>1. /\ q \in Requests /\ kind(d) # "none"
        /\ Declares(kind(d)) => form[q].declared # Unread
    BY <1>2, <1>12 DEF Commit, Served, Settled
  <2>2. PICK label \in {"view", "done", "rejected"} : Step(d, label, mem[d])
    BY <1>12 DEF Commit, Goto, Respond
  <2>3. pc'[d] = label /\ (label \notin Settled => mem'[d] = mem[d]) BY <1>1, <2>2, StepEffect
  <2> QED BY <1>4, <1>5, <2>1, <2>3 DEF Settled, Admission, kind
<1>13. CASE Conflict(d) \/ StorageFails(d)
  <2>1. pc'[d] = "rejected" BY <1>1, <1>13, StepEffect DEF Conflict, StorageFails, Goto
  <2> QED BY <1>4, <2>1 DEF Settled
<1>14. CASE Project(d)
  <2> DEFINE m == [mem[d] EXCEPT !.state = control, !.seen = Nothing]
  <2>1. /\ q \in Requests /\ kind(d) # "none" /\ pc[d] \in {"project", "view"}
        /\ Declares(kind(d)) => form[q].declared # Unread
    BY <1>2, <1>14 DEF Project, Served, Settled
  <2>2. PICK label \in {"rejected", "project_read", "view_read"} :
          Step(d, label, m) /\ (label = "project_read" => pc[d] = "project")
    BY <1>14 DEF Project
  <2>3. pc'[d] = label /\ (label \notin Settled => mem'[d] = m) BY <1>1, <2>2, StepEffect
  <2>4. m.req = q /\ m.snap = mem[d].snap /\ m.state = control BY <1>1 DEF Memories
  <2>5. CASE label = "project_read"
    <3>1. pc'[d] = "project_read" /\ mem'[d] = m /\ pc[d] = "project" BY <2>2, <2>3, <2>5 DEF Settled
    <3>2. kind(d)' = kind(d) /\ kind(d) = "approve" BY <1>2, <1>3, <2>4, <3>1 DEF kind, Placed
    <3>3. Served(d)' /\ Placed(d)'
      BY <1>3, <2>1, <2>4, <3>1, <3>2 DEF Served, Placed, Declares, Settled, Admission
    <3>4. AdmittedOnce(d)'
      BY <1>2, <1>3, <2>4, <3>1
         DEF AdmittedOnce, Admitted, Checked, WithinBudget, HistoryOf, Replayed, Admission
    <3>5. Stored(d)' /\ Projected(d)'
      BY <1>2, <2>4, <3>1 DEF Stored, Projected, Past
    <3> QED BY <3>3, <3>4, <3>5 DEF Fits
  <2>6. CASE label \in {"rejected", "view_read"}
    BY <1>4, <1>5, <2>1, <2>3, <2>4, <2>6 DEF Settled, Admission, kind
  <2> QED BY <2>5, <2>6
<1>15. CASE ProjectEnd(d)
  <2> DEFINE m == [mem[d] EXCEPT !.seen = Nothing]
             b == form[q].batch
  <2>1. CASE pc[d] = "project_read" /\ Approvable(d, b)
    <3>1. Step(d, "evaluate", m) BY <1>15, <2>1 DEF ProjectEnd
    <3>2. pc'[d] = "evaluate" /\ mem'[d] = m BY <1>1, <3>1, StepEffect DEF Settled
    <3>3. m.req = q /\ m.snap = mem[d].snap /\ m.state = mem[d].state BY <1>1 DEF Memories
    <3>4. kind(d)' = kind(d) /\ kind(d) = "approve" /\ q \in Requests
      BY <1>2, <1>3, <2>1, <3>2, <3>3 DEF kind, Placed, Served, Settled
    <3>5. Served(d)' /\ Placed(d)'
      BY <3>2, <3>3, <3>4 DEF Served, Placed, Declares, Evaluating, Settled, Admission
    <3>6. AdmittedOnce(d)'
      BY <1>2, <1>3, <2>1, <3>2, <3>3
         DEF AdmittedOnce, Admitted, Checked, WithinBudget, HistoryOf, Replayed, Admission
    <3>7. Stored(d)' BY <3>2 DEF Stored
    <3>8. Projected(d)'
      <4>1. prepared' = prepared BY <1>15 DEF ProjectEnd
      <4>2. prepared[b] # NoDocument BY <2>1 DEF Approvable, Valid, NoDocument
      <4>3. /\ [batch |-> b, revision |-> mem[d].state.revision] \in mem[d].state.published
            /\ mem[d].state.current.batch = b /\ mem[d].state.current.state = "published"
            /\ mem[d].state.mutations = {}
        BY <2>1 DEF Approvable, Valid
      <4>4. /\ mem[d].snap.revision =< mem[d].state.revision
            /\ mem[d].snap.generation =< mem[d].state.generation
        BY <1>2, <2>1 DEF Projected
      <4> QED BY <1>3, <3>2, <3>3, <4>1, <4>2, <4>3, <4>4 DEF Projected, NoDocument
    <3> QED BY <3>5, <3>6, <3>7, <3>8 DEF Fits
  <2>2. CASE ~(pc[d] = "project_read" /\ Approvable(d, b))
    <3>1. PICK label \in {"rejected", "done"} : \E n : Step(d, label, n)
      BY <1>15, <2>2 DEF ProjectEnd, Goto
    <3>2. pc'[d] = label BY <1>1, <3>1, StepEffect
    <3> QED BY <1>4, <3>2 DEF Settled
  <2> QED BY <2>1, <2>2
<1> QED BY <1>6, <1>7, <1>8, <1>9, <1>10, <1>11, <1>12, <1>13, <1>14, <1>15 DEF Handle

LEMMA FitsStep ==
  ASSUME IInv, [Next]_vars, NEW d \in Deliveries
  PROVE  Fits(d)'
<1>1. TypeOK BY DEF IInv
<1>2. ASSUME NEW e \in Deliveries, Deliver(e) \/ Handle(e), e # d PROVE Fits(d)'
  <2>1. pc'[d] = pc[d] /\ mem'[d] = mem[d]
    BY <1>1, <1>2, StepEffect
       DEF Deliver, Handle, Load, Reload, Read, ReadInput, Save, Compare, Commit, Conflict, Project,
           ProjectEnd, StorageFails, Goto
  <2> QED BY <2>1, FitsKept
<1>3. CASE Crash
  <2>1. pc'[d] \in Settled BY <1>3 DEF Crash, Settled
  <2> QED BY <2>1, SettledFits
<1>4. CASE UNCHANGED <<pc, mem, told>>
  <2>1. pc'[d] = pc[d] /\ mem'[d] = mem[d] BY <1>4
  <2> QED BY <2>1, FitsKept
<1> QED BY <1>2, <1>3, <1>4, StepKinds, FitsMoved

-------------------------------------------------------------------------------
(* Inputs are written under a ticket *)

LEMMA TicketStep ==
  ASSUME IInv, [Next]_vars, NEW w \in Writers
  PROVE  Ticket(w)'
<1>1. TypeOK /\ Ticket(w) /\ control \in Controls BY DEF IInv, TypeOK
<1>2. ASSUME NEW v \in Writers, Announce(v) PROVE Ticket(w)'
  <2>1. /\ control'.mutations = control.mutations \cup {v}
        /\ control'.uncertain = control.uncertain
    BY <1>1, <1>2 DEF Announce, Controls
  <2>2. wpc'[w] = wpc[w] \/ (v = w /\ wpc'[w] \in {"writing", "stuck"})
    BY <1>1, <1>2 DEF Announce, TypeOK
  <2>3. written' = written /\ reconciled' = reconciled BY <1>2 DEF Announce, history
  <2> QED BY <1>1, <2>1, <2>2, <2>3 DEF Ticket
<1>3. ASSUME NEW v \in Writers, Write(v) PROVE Ticket(w)'
  <2>1. /\ wpc' = wpc /\ control' = control /\ reconciled' = reconciled
        /\ v = w => wpc[w] = "writing"
        /\ v # w => written'[w] = written[w]
    BY <1>1, <1>3 DEF Write, history, TypeOK
  <2> QED BY <1>1, <2>1 DEF Ticket
<1>4. ASSUME NEW v \in Writers, EndBody(v) \/ FinishFails(v) PROVE Ticket(w)'
  <2>1. /\ written' = written /\ control' = control /\ reconciled' = reconciled
        /\ \/ wpc'[w] = wpc[w]
           \/ /\ wpc[w] \in {"writing", "closing", "failing"}
              /\ wpc'[w] \in {"closing", "failing", "stuck"}
    BY <1>1, <1>4 DEF EndBody, FinishFails, history, TypeOK
  <2> QED BY <1>1, <2>1 DEF Ticket
<1>5. ASSUME NEW v \in Writers, Finish(v) PROVE Ticket(w)'
  <2>1. control' = [control EXCEPT !.revision = control.revision + 1,
                                   !.mutations = control.mutations \ {v},
                                   !.uncertain = control.uncertain \/ wpc[v] = "failing"]
    BY <1>5, Zenon DEF Finish
  <2>2. control'.mutations = control.mutations \ {v} BY <1>1, <2>1 DEF Controls
  <2>3. control'.uncertain = (control.uncertain \/ wpc[v] = "failing")
    BY <1>1, <2>1, Zenon DEF Controls
  <2>4. written' = written /\ reconciled' = reconciled BY <1>5 DEF Finish, history
  <2>5. /\ v # w => wpc'[w] = wpc[w]
        /\ wpc'[v] = IF wpc[v] = "failing" THEN "failed" ELSE "done"
    BY <1>1, <1>5 DEF Finish, TypeOK
  <2>6. CASE v = w BY <2>3, <2>4, <2>5, <2>6 DEF Ticket
  <2>7. CASE v # w BY <1>1, <2>2, <2>3, <2>4, <2>5, <2>7 DEF Ticket
  <2> QED BY <2>6, <2>7
<1>6. ASSUME NEW d \in Deliveries, Commit(d) PROVE Ticket(w)'
  <2>1. control' = Successor(control, mem[d].req) BY <1>6, Swaps
  <2>2. /\ control'.mutations = control.mutations
        /\ control'.uncertain = (control.uncertain /\ kind(d) # "reconcile")
    BY <2>1, Zenon DEF Successor, kind
  <2>3. /\ wpc' = wpc /\ written' = written
        /\ reconciled' = IF kind(d) = "reconcile" THEN {v \in Writers : wpc[v] = "failed"}
                         ELSE reconciled
    BY <1>6 DEF Commit, writer
  <2>4. wpc[w] = "failed" => control'.uncertain \/ w \in reconciled'
    BY <1>1, <2>2, <2>3 DEF Ticket
  <2> QED BY <1>1, <2>2, <2>3, <2>4 DEF Ticket
<1>7. CASE Crash
  <2>1. /\ written' = written /\ control' = control /\ reconciled' = reconciled
        /\ wpc'[w] = IF wpc[w] \in {"writing", "closing", "failing"} THEN "stuck" ELSE wpc[w]
    BY <1>7 DEF Crash, history
  <2> QED BY <1>1, <2>1 DEF Ticket
<1>8. CASE UNCHANGED <<control, writer, reconciled>> BY <1>1, <1>8 DEF Ticket, writer
<1>9. ASSUME NEW q \in Requests, Compose(q) \/ Inspect(q) \/ Expire(q)
      PROVE  UNCHANGED <<control, writer, reconciled>>
  BY <1>9 DEF Compose, Inspect, Expire, history
<1>10. ASSUME NEW d \in Deliveries, Deliver(d) \/ Handle(d), ~Commit(d)
       PROVE  UNCHANGED <<control, writer, reconciled>>
  BY <1>10 DEF Deliver, Handle, Load, Reload, Read, ReadInput, Save, Compare, Conflict, Project,
     ProjectEnd, StorageFails, history
<1>11. UNCHANGED vars => UNCHANGED <<control, writer, reconciled>> BY DEF vars, history
<1> QED BY <1>2, <1>3, <1>4, <1>5, <1>6, <1>7, <1>8, <1>9, <1>10, <1>11 DEF Next

\* Only a mutation writes an input.
LEMMA InputsWritten ==
  ASSUME TypeOK, [Next]_vars, inputs' # inputs
  PROVE  \E w \in Writers : Write(w)
BY DEF Next, Handle, Announce, EndBody, Finish, FinishFails, Compose, Inspect, Expire, Deliver,
   Load, Reload, Read, ReadInput, Save, Compare, Commit, Conflict, Project, ProjectEnd,
   StorageFails, Crash, vars

LEMMA InputsRead ==
  ASSUME IInv, [Next]_vars, NEW i \in Inputs
  PROVE  inputs'[i] # Unread
<1>1. TypeOK /\ inputs[i] # Unread BY DEF IInv
<1>2. ASSUME NEW w \in Writers, Write(w) PROVE inputs'[i] # Unread
  <2>1. inputs'[i] = inputs[i] \/ inputs'[i] = [by |-> w, step |-> written[w] + 1]
    BY <1>1, <1>2 DEF Write, TypeOK
  <2> QED BY <1>1, <2>1, AbsentAssumption DEF Unread
<1> QED BY <1>1, <1>2, InputsWritten

\* While a document without tickets keeps its revision, the inputs do not change.
LEMMA InputsStable ==
  ASSUME IInv, TypeOK', [Next]_vars, NEW c \in Controls,
         Past(c), c.mutations = {}, c.revision = control'.revision
  PROVE  c.revision = control.revision /\ inputs' = inputs
<1>1. TypeOK /\ Moves BY ControlMoves DEF IInv
<1>2. c.revision \in Nat /\ control.revision \in Nat /\ control'.revision \in Nat
  BY <1>1 DEF TypeOK, Controls
<1>3. c.revision = control.revision BY <1>1, <1>2 DEF Past, Moves
<1>4. ASSUME NEW w \in Writers, Write(w) PROVE FALSE
  <2>1. w \in control.mutations BY <1>4 DEF Write, IInv, Ticket
  <2> QED BY <1>3, <2>1 DEF Past
<1> QED BY <1>1, <1>3, <1>4, InputsWritten

LEMMA FreshKept ==
  ASSUME IInv, TypeOK', [Next]_vars, NEW d \in Deliveries, pc'[d] = pc[d], mem'[d] = mem[d]
  PROVE  Fresh(d)'
<1> DEFINE q == mem[d].req
           s == mem[d].snap
           t == mem[d].state
<1>1. CASE pc[d] \in Settled BY <1>1 DEF Fresh, Settled
<1>2. CASE pc[d] \notin Settled
  <2>1. /\ TypeOK /\ q \in Requests /\ form[q].kind # "none" /\ form[q].batch \in Requests
        /\ s \in Controls /\ t \in Controls /\ Past(s) /\ Past(t) /\ Fresh(d)
        /\ Declares(kind(d)) => form[q].declared # Unread
    BY <1>2 DEF IInv, TypeOK, Served, Form, kind, Remembers
  <2>2. /\ form'[q].kind = form[q].kind /\ form'[q].batch = form[q].batch
        /\ form[q].declared # Unread => form'[q].declared = form[q].declared
    BY <2>1, FormStable DEF IInv
  <2>3. kind(d)' = kind(d) BY <2>2 DEF kind
  <2>4. pc[d] \in Admission /\ s.revision = control'.revision =>
          s.revision = control.revision /\ inputs' = inputs
    <3>1. pc[d] \in Admission => s.mutations = {} BY DEF IInv, AdmittedOnce, Admitted, Checked
    <3> QED BY <2>1, <3>1, InputsStable
  <2>5. t.mutations = {} /\ t.revision = control'.revision =>
          t.revision = control.revision /\ inputs' = inputs
    BY <2>1, InputsStable
  <2>6. pc[d] \in {"evaluate", "commit"} /\ kind(d) = "approve" =>
          t.mutations = {} /\ prepared'[form[q].batch] = prepared[form[q].batch]
    BY <2>1, PreparedStable DEF IInv, Projected
  <2>7. ASSUME pc[d] \in {"evaluate", "commit"}, kind(d) \in Evaluating,
               s.revision = control'.revision, NEW i \in Inputs, mem[d].seen[i] # Unread
        PROVE  mem[d].seen[i] = inputs'[i]
    BY <2>1, <2>4, <2>7 DEF Fresh, Admission
  <2>8. ASSUME pc[d] \in {"project_read", "view_read"}, t.mutations = {},
               t.revision = control'.revision, NEW i \in Inputs, mem[d].seen[i] # Unread
        PROVE  mem[d].seen[i] = inputs'[i]
    BY <2>1, <2>5, <2>8 DEF Fresh
  <2>9. ASSUME pc[d] = "commit", Declares(kind(d)), s.revision = control'.revision
        PROVE  form'[q].declared = inputs'[Watched(kind(d))]
    BY <2>1, <2>2, <2>4, <2>9 DEF Fresh, Admission
  <2>10. ASSUME pc[d] \in {"evaluate", "commit"}, kind(d) = "approve",
                t.revision = control'.revision
         PROVE  prepared'[form[q].batch].seen = inputs'
    BY <2>1, <2>5, <2>6, <2>10 DEF Fresh
  <2> QED BY <2>2, <2>3, <2>7, <2>8, <2>9, <2>10 DEF Fresh, Unread
<1> QED BY <1>1, <1>2

LEMMA FreshMoved ==
  ASSUME IInv, [Next]_vars, NEW d \in Deliveries, Deliver(d) \/ Handle(d)
  PROVE  Fresh(d)'
<1> DEFINE q == mem[d].req
<1>1. /\ mem[d] \in Memories /\ TypeOK /\ Served(d) /\ Placed(d) /\ Fresh(d) /\ Projected(d)
      /\ Past(mem[d].state)
  BY DEF IInv, TypeOK, Memories, Remembers
<1>2. form' = form /\ inputs' = inputs
  BY DEF Deliver, Handle, Load, Reload, Read, ReadInput, Save, Compare, Commit, Conflict, Project,
     ProjectEnd, StorageFails
<1>3. CASE pc'[d] \notin {"evaluate", "commit", "project_read", "view_read"}
  BY <1>3 DEF Fresh
<1>4. CASE Deliver(d)
  <2>1. PICK label \in {"load", "view", "read"} : \E m : Step(d, label, m) BY <1>4 DEF Deliver
  <2> QED BY <1>1, <1>3, <2>1, StepEffect
<1>5. CASE Load(d) \/ Reload(d) \/ Commit(d) \/ Conflict(d) \/ StorageFails(d)
  <2>1. PICK label \in {"reload", "read", "view", "done", "rejected"} : Step(d, label, mem[d])
    BY <1>5 DEF Load, Reload, Commit, Conflict, StorageFails, Goto, Respond
  <2> QED BY <1>1, <1>3, <2>1, StepEffect
<1>6. CASE Read(d)
  <2> DEFINE m == [mem[d] EXCEPT !.snap = control, !.seen = Nothing]
  <2>1. PICK label \in {Respond(kind(d)), Proceed(kind(d)), "rejected"} :
          /\ Step(d, label, m)
          /\ label \in {Respond(kind(d)), "rejected"} \/ label = Proceed(kind(d))
    BY <1>6 DEF Read
  <2>2. pc'[d] = label /\ (label \notin Settled => mem'[d] = m) BY <1>1, <2>1, StepEffect
  <2>3. CASE label \in {Respond(kind(d)), "rejected"} BY <1>3, <2>2, <2>3 DEF Respond
  <2>4. CASE label = Proceed(kind(d))
    <3>1. label \in Admission BY <2>4 DEF Proceed, Admission
    <3>2. mem'[d] = m /\ m.req = q /\ m.seen = Nothing
      BY <1>1, <2>2, <3>1 DEF Admission, Settled, Memories
    <3>3. kind(d)' = kind(d) BY <1>2, <3>2 DEF kind
    <3>4. \A i \in Inputs : Nothing[i] = Unread BY DEF Nothing
    <3>5. /\ label \in {"evaluate", "commit"} /\ kind(d) \in Evaluating => label = "evaluate"
          /\ label = "commit" => ~Declares(kind(d))
          /\ kind(d) = "approve" => label \notin {"evaluate", "commit"}
          /\ label \notin {"project_read", "view_read"}
      BY <2>4 DEF Proceed, Evaluating, Declares
    <3> QED BY <2>2, <3>2, <3>3, <3>4, <3>5 DEF Fresh, Unread
  <2> QED BY <2>1, <2>3, <2>4
<1>7. CASE ReadInput(d)
  <2>1. PICK i \in Inputs : Step(d, pc[d], [mem[d] EXCEPT !.seen[i] = inputs[i]])
    BY <1>7 DEF ReadInput
  <2>2. pc[d] \in {"evaluate", "project_read", "view_read"} BY <1>7 DEF ReadInput
  <2>3. pc'[d] = pc[d] /\ mem'[d] = [mem[d] EXCEPT !.seen[i] = inputs[i]]
    BY <1>1, <2>1, <2>2, StepEffect DEF Settled
  <2>4. /\ mem'[d].req = q /\ mem'[d].snap = mem[d].snap /\ mem'[d].state = mem[d].state
        /\ \A j \in Inputs : mem'[d].seen[j] = mem[d].seen[j] \/ mem'[d].seen[j] = inputs[j]
    BY <1>1, <2>3 DEF Memories
  <2>5. kind(d)' = kind(d) /\ prepared' = prepared /\ control' = control
    BY <1>2, <1>7, <2>4 DEF kind, ReadInput
  <2>6. ASSUME pc[d] = "evaluate", kind(d) \in Evaluating, mem[d].snap.revision = control.revision,
               NEW j \in Inputs, mem'[d].seen[j] # Unread
        PROVE  mem'[d].seen[j] = inputs[j]
    BY <1>1, <2>4, <2>6 DEF Fresh
  <2>7. ASSUME pc[d] \in {"project_read", "view_read"}, mem[d].state.mutations = {},
               mem[d].state.revision = control.revision,
               NEW j \in Inputs, mem'[d].seen[j] # Unread
        PROVE  mem'[d].seen[j] = inputs[j]
    BY <1>1, <2>4, <2>7 DEF Fresh
  <2>8. pc[d] = "evaluate" /\ kind(d) = "approve" /\ mem[d].state.revision = control.revision =>
          prepared[form[q].batch].seen = inputs
    BY <1>1 DEF Fresh
  <2> QED BY <1>2, <2>2, <2>3, <2>4, <2>5, <2>6, <2>7, <2>8 DEF Fresh, Unread
<1>8. CASE Save(d)
  <2>1. PICK label \in {"commit", "rejected"} : Step(d, label, mem[d]) BY <1>8 DEF Save, Goto
  <2>2. pc'[d] = label /\ (label \notin Settled => mem'[d] = mem[d]) BY <1>1, <2>1, StepEffect
  <2>3. CASE label = "commit"
    <3>1. pc'[d] = "commit" /\ mem'[d] = mem[d] /\ pc[d] = "evaluate"
      BY <1>8, <2>2, <2>3 DEF Settled, Save
    <3>2. kind(d)' = kind(d) /\ control' = control /\ kind(d) \in Evaluating
      BY <1>1, <1>2, <1>8, <3>1 DEF kind, Save, Placed
    <3>3. form[q].batch \in Requests BY <1>1, <3>1 DEF IInv, Form, Served, Settled, kind
    <3>4. kind(d) = "approve" => prepared'[form[q].batch] = prepared[form[q].batch]
      BY <1>1, <3>1, <3>3, PreparedStable DEF Projected
    <3> QED BY <1>1, <1>2, <3>1, <3>2, <3>4 DEF Fresh, Evaluating, Declares, Unread
  <2> QED BY <1>3, <2>2, <2>3
<1>9. CASE Compare(d)
  <2>1. PICK label \in {"commit", "rejected"} :
          /\ Step(d, label, mem[d])
          /\ label = "commit" => inputs[Watched(kind(d))] = form[q].declared
    BY <1>9 DEF Compare, Goto
  <2>2. pc'[d] = label /\ (label \notin Settled => mem'[d] = mem[d]) BY <1>1, <2>1, StepEffect
  <2>3. CASE label = "commit"
    <3>1. pc'[d] = "commit" /\ mem'[d] = mem[d] BY <2>2, <2>3 DEF Settled
    <3>2. kind(d)' = kind(d) /\ Declares(kind(d)) BY <1>1, <1>2, <1>9, <3>1 DEF kind, Compare, Placed
    <3> QED BY <1>2, <2>1, <2>3, <3>1, <3>2 DEF Fresh, Evaluating, Declares
  <2> QED BY <1>3, <2>2, <2>3
<1>10. CASE Project(d)
  <2> DEFINE m == [mem[d] EXCEPT !.state = control, !.seen = Nothing]
  <2>1. PICK label \in {"rejected", "project_read", "view_read"} : Step(d, label, m)
    BY <1>10 DEF Project
  <2>2. pc'[d] = label /\ (label \notin Settled => mem'[d] = m) BY <1>1, <2>1, StepEffect
  <2>3. m.seen = Nothing /\ \A i \in Inputs : Nothing[i] = Unread BY <1>1 DEF Memories, Nothing
  <2>4. CASE label # "rejected"
    <3>1. mem'[d] = m BY <2>2, <2>4 DEF Settled
    <3> QED BY <2>2, <2>3, <2>4, <3>1 DEF Fresh, Unread
  <2> QED BY <1>3, <2>2, <2>4
<1>11. CASE ProjectEnd(d)
  <2> DEFINE m == [mem[d] EXCEPT !.seen = Nothing]
             b == form[q].batch
  <2>1. CASE pc[d] = "project_read" /\ Approvable(d, b)
    <3>1. Step(d, "evaluate", m) BY <1>11, <2>1 DEF ProjectEnd
    <3>2. pc'[d] = "evaluate" /\ mem'[d] = m BY <1>1, <3>1, StepEffect DEF Settled
    <3>3. m.req = q /\ m.state = mem[d].state /\ m.seen = Nothing BY <1>1 DEF Memories
    <3>4. prepared' = prepared /\ AllRead(d) BY <1>11 DEF ProjectEnd
    <3>5. /\ mem[d].seen = prepared[b].seen /\ control = mem[d].state
          /\ mem[d].state.mutations = {}
      BY <2>1 DEF Approvable, Valid
    <3>6. \A i \in Inputs : mem[d].seen[i] = inputs[i]
      BY <1>1, <2>1, <3>4, <3>5 DEF Fresh, AllRead
    <3>7. mem[d].seen = inputs BY <1>1, <3>6 DEF Memories, TypeOK
    <3>8. \A i \in Inputs : Nothing[i] = Unread BY DEF Nothing
    <3> QED BY <1>2, <3>2, <3>3, <3>4, <3>5, <3>7, <3>8 DEF Fresh, Unread
  <2>2. CASE ~(pc[d] = "project_read" /\ Approvable(d, b))
    <3>1. PICK label \in {"rejected", "done"} : \E n : Step(d, label, n)
      BY <1>11, <2>2 DEF ProjectEnd, Goto
    <3> QED BY <1>1, <1>3, <3>1, StepEffect
  <2> QED BY <2>1, <2>2
<1> QED BY <1>4, <1>5, <1>6, <1>7, <1>8, <1>9, <1>10, <1>11 DEF Handle

LEMMA FreshStep ==
  ASSUME IInv, TypeOK', [Next]_vars, NEW d \in Deliveries
  PROVE  Fresh(d)'
<1>1. TypeOK BY DEF IInv
<1>2. ASSUME NEW e \in Deliveries, Deliver(e) \/ Handle(e), e # d PROVE Fresh(d)'
  <2>1. pc'[d] = pc[d] /\ mem'[d] = mem[d]
    BY <1>1, <1>2, StepEffect
       DEF Deliver, Handle, Load, Reload, Read, ReadInput, Save, Compare, Commit, Conflict, Project,
           ProjectEnd, StorageFails, Goto
  <2> QED BY <2>1, FreshKept
<1>3. CASE Crash
  <2>1. pc'[d] \in Settled BY <1>3 DEF Crash, Settled
  <2> QED BY <2>1 DEF Fresh, Settled
<1>4. CASE UNCHANGED <<pc, mem, told>>
  <2>1. pc'[d] = pc[d] /\ mem'[d] = mem[d] BY <1>4
  <2> QED BY <2>1, FreshKept
<1> QED BY <1>2, <1>3, <1>4, StepKinds, FreshMoved

-------------------------------------------------------------------------------
(* Histories and what they refer to *)

\* What a commit adds to the document.
LEMMA Additions ==
  ASSUME IInv, NEW d \in Deliveries, Commit(d)
  PROVE  LET q == mem[d].req
             k == kind(d)
             p == [batch |-> q, revision |-> control.revision]
             e == [request |-> q, batch |-> form[q].batch, revision |-> control.revision]
         IN  /\ control'.published = IF k = "propose" THEN control.published \cup {p}
                                     ELSE control.published
             /\ control'.approvals = IF k = "approve" THEN control.approvals \cup {e}
                                     ELSE control.approvals
             /\ control'.events = IF k \in {"cancel", "deactivate", "reconcile"}
                                  THEN control.events \cup {q} ELSE control.events
             /\ control'.policies = IF k = "confirm" THEN control.policies \cup {q}
                                    ELSE control.policies
             /\ control'.current = Pointer(control, q)
<1> DEFINE q == mem[d].req
           k == kind(d)
<1>1. control' = Successor(control, q) BY Swaps
<1>2. /\ control'.published = Adding(control.published,
                                    [batch |-> q, revision |-> control.revision], k = "propose")
      /\ control'.approvals = Adding(control.approvals,
           [request |-> q, batch |-> form[q].batch, revision |-> control.revision], k = "approve")
      /\ control'.events = Adding(control.events, q, k \in {"cancel", "deactivate", "reconcile"})
      /\ control'.policies = Adding(control.policies, q, k = "confirm")
      /\ control'.current = Pointer(control, q)
  BY <1>1, Zenon DEF Successor, kind
<1> QED BY <1>2 DEF Adding

LEMMA CurrentKept ==
  ASSUME TypeOK, NEW w \in Writers, Announce(w) \/ Finish(w)
  PROVE  /\ control'.published = control.published /\ control'.approvals = control.approvals
         /\ control'.events = control.events /\ control'.policies = control.policies
         /\ control'.current = control.current
<1>1. control \in Controls BY DEF TypeOK
<1> QED BY <1>1 DEF Announce, Finish, Controls

\* The other steps of the program leave what the histories are about alone.
LEMMA HistoriesKept ==
  ASSUME TypeOK, [Next]_vars, ~ \E d \in Deliveries : Commit(d)
  PROVE  /\ control'.published = control.published /\ control'.approvals = control.approvals
         /\ control'.events = control.events /\ control'.policies = control.policies
         /\ control'.current = control.current
<1>1. CASE Writes BY <1>1, CurrentKept DEF Writes
<1>2. CASE ~Writes BY <1>2, OthersKeepControl
<1> QED BY <1>1, <1>2

\* The histories grow.
LEMMA HistoriesGrow ==
  ASSUME IInv, [Next]_vars
  PROVE  /\ control.published \subseteq control'.published
         /\ control.approvals \subseteq control'.approvals
         /\ control.events \subseteq control'.events
         /\ control.policies \subseteq control'.policies
<1>1. ASSUME NEW d \in Deliveries, Commit(d)
      PROVE  /\ control.published \subseteq control'.published
             /\ control.approvals \subseteq control'.approvals
             /\ control.events \subseteq control'.events
             /\ control.policies \subseteq control'.policies
  BY <1>1, Additions
<1> QED BY <1>1, HistoriesKept DEF IInv

LEMMA UncommittedStep ==
  ASSUME IInv, [Next]_vars, NEW d \in Deliveries
  PROVE  Uncommitted(d)'
<1> DEFINE q == mem[d].req
<1>1. TypeOK /\ mem[d] \in Memories /\ Served(d) /\ Placed(d) /\ Stored(d) /\ Uncommitted(d)
  BY DEF IInv, TypeOK, Memories
<1>2. CASE pc'[d] # "commit" BY <1>2 DEF Uncommitted
<1>3. CASE pc'[d] = "commit" /\ pc[d] = "commit" /\ mem'[d] = mem[d]
  <2>1. q \in Requests /\ form[q].kind # "none" BY <1>1, <1>3 DEF Served, Settled, kind
  <2>2. kind(d)' = kind(d) BY <1>1, <1>3, <2>1, FormStable DEF kind
  <2>3. CASE ~ \E e \in Deliveries : Commit(e)
    BY <1>1, <1>3, <2>2, <2>3, HistoriesKept DEF Uncommitted, Batches
  <2>4. ASSUME NEW e \in Deliveries, Commit(e) PROVE Uncommitted(d)'
    <3>1. pc'[e] # "commit"
      <4>1. PICK label \in {"view", "done", "rejected"} : Step(e, label, mem[e])
        BY <2>4 DEF Commit, Goto, Respond
      <4> QED BY <1>1, <4>1, StepEffect
    <3>2. e # d BY <1>3, <3>1
    <3>3. kind(d) \in Evaluating => prepared[q].by = d BY <1>1, <1>3 DEF Stored
    <3>4. kind(e) \in Evaluating => prepared[mem[e].req].by = e
      BY <2>4 DEF IInv, Stored, Commit
    <3>5. kind(d) \in Evaluating /\ kind(e) \in Evaluating => mem[e].req # q
      BY <3>2, <3>3, <3>4
    <3>6. /\ control'.published = IF kind(e) = "propose"
               THEN control.published \cup {[batch |-> mem[e].req, revision |-> control.revision]}
               ELSE control.published
          /\ control'.approvals = IF kind(e) = "approve"
               THEN control.approvals \cup
                      {[request |-> mem[e].req, batch |-> form[mem[e].req].batch,
                        revision |-> control.revision]}
               ELSE control.approvals
      BY <2>4, Additions
    <3>7. kind(d) = "propose" => q \notin Batches(control)'
      BY <1>1, <1>3, <3>5, <3>6 DEF Uncommitted, Batches, Evaluating
    <3>8. kind(d) = "approve" => \A r \in control'.approvals : r.request # q
      BY <1>1, <1>3, <3>5, <3>6 DEF Uncommitted, Evaluating
    <3> QED BY <1>3, <2>2, <3>7, <3>8 DEF Uncommitted, Batches
  <2> QED BY <2>3, <2>4
<1>4. CASE pc'[d] = "commit" /\ ~(pc[d] = "commit" /\ mem'[d] = mem[d])
  <2>1. Deliver(d) \/ Handle(d)
    <3>1. ASSUME NEW e \in Deliveries, Deliver(e) \/ Handle(e), e # d
          PROVE  pc'[d] = pc[d] /\ mem'[d] = mem[d]
      BY <1>1, <3>1, StepEffect
         DEF Deliver, Handle, Load, Reload, Read, ReadInput, Save, Compare, Commit, Conflict, Project,
             ProjectEnd, StorageFails, Goto
    <3>2. Crash => pc'[d] # "commit" BY <1>1 DEF Crash, TypeOK, Settled
    <3> QED BY <1>4, <3>1, <3>2, StepKinds
  <2>2. form' = form /\ (~Commit(d) => control' = control)
    BY <2>1 DEF Deliver, Handle, Load, Reload, Read, ReadInput, Save, Compare, Commit, Conflict, Project,
       ProjectEnd, StorageFails
  <2>3. CASE Save(d)
    <3>1. pc[d] = "evaluate" /\ q \in Requests /\ kind(d) \in Evaluating
      BY <1>1, <2>3 DEF Save, Served, Placed, Settled
    <3>2. prepared[q] = NoDocument /\ mem'[d] = mem[d]
      <4>1. PICK label \in {"commit", "rejected"} :
              /\ Step(d, label, mem[d])
              /\ prepared[q] # NoDocument => label = "rejected"
        BY <2>3 DEF Save, Goto
      <4>2. pc'[d] = label BY <1>1, <4>1, StepEffect
      <4>3. label = "commit" BY <1>4, <4>2
      <4> QED BY <1>1, <4>1, <4>3, StepEffect DEF Settled
    <3>3. q \notin Batches(control) BY <3>2 DEF IInv, Publications, Batches
    <3>4. \A e \in control.approvals : e.request # q BY <3>2 DEF IInv, Approvals
    <3>5. control' = control BY <2>3 DEF Save
    <3> QED BY <2>2, <3>2, <3>3, <3>4, <3>5 DEF Uncommitted, kind, Batches
  <2>4. CASE Compare(d)
    <3>1. Declares(kind(d)) /\ mem'[d] = mem[d]
      <4>1. PICK label \in {"commit", "rejected"} : Step(d, label, mem[d]) BY <2>4 DEF Compare, Goto
      <4> QED BY <1>1, <1>4, <2>4, <4>1, StepEffect DEF Compare, Placed, Settled
    <3> QED BY <2>2, <3>1 DEF Uncommitted, kind, Declares
  <2>5. CASE Read(d)
    <3> DEFINE m == [mem[d] EXCEPT !.snap = control, !.seen = Nothing]
    <3>1. PICK label \in {Respond(kind(d)), Proceed(kind(d)), "rejected"} :
            /\ Step(d, label, m)
            /\ label \in {Respond(kind(d)), "rejected"} \/ label = Proceed(kind(d))
      BY <2>5 DEF Read
    <3>2. pc'[d] = label BY <1>1, <3>1, StepEffect
    <3>3. label = "commit" /\ Proceed(kind(d)) = "commit" BY <1>4, <3>1, <3>2 DEF Respond
    <3>4. kind(d) \notin Evaluating BY <3>3 DEF Proceed, Evaluating
    <3>5. mem'[d] = m /\ m.req = q BY <1>1, <3>1, <3>3, StepEffect DEF Settled, Memories
    <3> QED BY <2>2, <3>4, <3>5 DEF Uncommitted, kind, Evaluating
  <2>6. CASE ~(Save(d) \/ Compare(d) \/ Read(d))
    <3>1. PICK label \in Labels \ {"commit"} : \E m : Step(d, label, m)
      BY <2>1, <2>6 DEF Deliver, Handle, Load, Reload, ReadInput, Commit, Conflict, Project,
         ProjectEnd, StorageFails, Goto, Labels, Settled, Respond
    <3> QED BY <1>1, <1>4, <3>1, StepEffect
  <2> QED BY <2>3, <2>4, <2>5, <2>6
<1> QED BY <1>2, <1>3, <1>4

\* What is about to be committed was stored by its own delivery; for an approval,
\* nothing but the approval has happened to the document since it was projected.
LEMMA CommittedEvaluation ==
  ASSUME IInv, NEW d \in Deliveries, Commit(d), kind(d) \in Evaluating
  PROVE  LET q == mem[d].req
             b == form[q].batch
         IN  /\ q \in Requests /\ b \in Requests
             /\ prepared[q] # NoDocument /\ prepared[q].by = d /\ prepared[q].seen = inputs
             /\ kind(d) = "propose" => b = q /\ q \notin Batches(control)
             /\ kind(d) = "approve" =>
                  /\ [batch |-> b, revision |-> control.revision] \in control.published
                  /\ control.current.batch = b /\ control.current.state = "published"
                  /\ prepared[b].seen = inputs
<1> DEFINE q == mem[d].req
           b == form[q].batch
           s == mem[d].state
<1>1. mem[d].snap = control /\ q \in Requests /\ kind(d) \notin {"none", "view"} BY Swaps
<1>2. pc[d] = "commit" /\ mem[d] \in Memories /\ TypeOK BY DEF Commit, IInv, TypeOK, Memories
<1>3. b \in Requests /\ (kind(d) = "propose" => b = q) BY <1>1 DEF IInv, Form, kind
<1>4. prepared[q].by = d /\ prepared[q].seen = mem[d].seen /\ AllRead(d)
  BY <1>2 DEF IInv, Stored
<1>5. prepared[q] # NoDocument BY <1>4, AbsentAssumption DEF NoDocument
<1>6. mem[d].seen = inputs
  <2>1. \A i \in Inputs : mem[d].seen[i] = inputs[i]
    BY <1>1, <1>2, <1>4 DEF IInv, Fresh, AllRead
  <2> QED BY <1>2, <2>1 DEF Memories, TypeOK
<1>7. kind(d) = "propose" => q \notin Batches(control) BY <1>2 DEF IInv, Uncommitted
<1>8. ASSUME kind(d) = "approve"
      PROVE  /\ [batch |-> b, revision |-> control.revision] \in control.published
             /\ control.current.batch = b /\ control.current.state = "published"
             /\ prepared[b].seen = inputs
  <2>1. /\ control.revision =< s.revision /\ control.generation =< s.generation
        /\ s.revision =< control.revision /\ s.generation =< control.generation
    BY <1>1, <1>2, <1>8 DEF IInv, Projected, Remembers, Past
  <2>2. s.revision = control.revision /\ s.generation = control.generation
    <3>1. s \in Controls /\ control \in Controls BY <1>2 DEF TypeOK, Memories
    <3>2. /\ s.revision \in Nat /\ s.generation \in Nat
          /\ control.revision \in Nat /\ control.generation \in Nat
      BY <3>1 DEF Controls
    <3> HIDE DEF s
    <3> QED BY <2>1, <3>2
  <2>3. s = control BY <2>2 DEF IInv, Remembers, Past
  <2>4. /\ [batch |-> b, revision |-> s.revision] \in s.published
        /\ s.current.batch = b /\ s.current.state = "published"
    BY <1>2, <1>8 DEF IInv, Projected
  <2>5. prepared[b].seen = inputs BY <1>2, <1>8, <2>2 DEF IInv, Fresh
  <2> QED BY <2>3, <2>4, <2>5
<1> QED BY <1>1, <1>3, <1>4, <1>5, <1>6, <1>7, <1>8

LEMMA RecordsStep ==
  ASSUME IInv, [Next]_vars
  PROVE  Publications' /\ Approvals' /\ ApprovalMatchesBatch'
<1>1. /\ TypeOK /\ Publications /\ Approvals /\ ApprovalMatchesBatch
      /\ control \in Controls
  BY DEF IInv, TypeOK
<1>2. \A q \in Requests : prepared[q] # NoDocument => prepared'[q] = prepared[q]
  BY <1>1, PreparedStable
<1>3. \A p \in control.published : p.batch \in Requests /\ prepared'[p.batch] = prepared[p.batch]
  BY <1>1, <1>2 DEF Controls, Publications
<1>4. \A e \in control.approvals :
        /\ e.request \in Requests /\ e.batch \in Requests
        /\ prepared'[e.request] = prepared[e.request] /\ prepared'[e.batch] = prepared[e.batch]
        /\ e.batch \in Batches(control)
  <2>1. \A e \in control.approvals : e.request \in Requests /\ e.batch \in Requests
    BY <1>1 DEF Controls
  <2>2. \A e \in control.approvals : [batch |-> e.batch, revision |-> e.revision] \in control.published
    BY <1>1 DEF ApprovalMatchesBatch
  <2>3. \A p \in control.published : p.batch \in Batches(control) BY DEF Batches
  <2>4. \A e \in control.approvals :
          e.batch \in Batches(control) /\ prepared'[e.batch] = prepared[e.batch]
    BY <1>3, <2>2, <2>3
  <2>5. \A e \in control.approvals : prepared'[e.request] = prepared[e.request]
    BY <1>1, <1>2, <2>1 DEF Approvals
  <2> QED BY <2>1, <2>4, <2>5
<1>5. CASE ~ \E d \in Deliveries : Commit(d)
  <2>1. /\ control'.published = control.published /\ control'.approvals = control.approvals
        /\ control'.current = control.current
    BY <1>1, <1>5, HistoriesKept
  <2>2. Publications' BY <1>1, <1>3, <2>1 DEF Publications, NoDocument
  <2>3. Approvals' BY <1>1, <1>4, <2>1 DEF Approvals, NoDocument
  <2>4. ApprovalMatchesBatch' BY <1>1, <1>4, <2>1 DEF ApprovalMatchesBatch
  <2> QED BY <2>2, <2>3, <2>4
<1>6. ASSUME NEW d \in Deliveries, Commit(d)
      PROVE  Publications' /\ Approvals' /\ ApprovalMatchesBatch'
  <2> DEFINE q == mem[d].req
             b == form[q].batch
             p == [batch |-> q, revision |-> control.revision]
             a == [request |-> q, batch |-> b, revision |-> control.revision]
  <2>1. prepared' = prepared BY <1>6 DEF Commit
  <2>2. /\ control'.published = IF kind(d) = "propose" THEN control.published \cup {p}
                                ELSE control.published
        /\ control'.approvals = IF kind(d) = "approve" THEN control.approvals \cup {a}
                                ELSE control.approvals
        /\ control'.current = Pointer(control, q)
    BY <1>6, Additions
  <2>3. kind(d) \in Evaluating =>
          /\ prepared[q] # NoDocument /\ prepared[q].seen = inputs
          /\ kind(d) = "propose" => b = q /\ q \notin Batches(control)
          /\ kind(d) = "approve" =>
               /\ [batch |-> b, revision |-> control.revision] \in control.published
               /\ control.current.batch = b /\ control.current.state = "published"
               /\ prepared[b].seen = inputs
    BY <1>6, CommittedEvaluation
  <2>4. Publications' 
    <3>1. \A x \in control'.published : x \in control.published \/ (kind(d) = "propose" /\ x = p)
      BY <2>2
    <3>2. kind(d) = "propose" => prepared[q] # NoDocument BY <2>3 DEF Evaluating
    <3>3. \A x \in control'.published : prepared[x.batch] # NoDocument
      BY <1>1, <3>1, <3>2 DEF Publications
    <3> QED BY <2>1, <3>3 DEF Publications
  <2>5. CASE kind(d) = "propose"
    <3>1. control'.current = [batch |-> q, state |-> "published"]
      BY <2>2, <2>5 DEF Pointer, kind
    <3>2. control'.approvals = control.approvals /\ control.published \subseteq control'.published
      BY <2>2, <2>5
    <3>3. \A e \in control.approvals : e.batch # q BY <1>4, <2>3, <2>5 DEF Evaluating
    <3>4. Approvals' BY <1>1, <2>1, <3>1, <3>2, <3>3 DEF Approvals
    <3>5. ApprovalMatchesBatch' BY <1>1, <2>1, <3>2 DEF ApprovalMatchesBatch
    <3> QED BY <2>4, <3>4, <3>5
  <2>6. CASE kind(d) = "approve"
    <3>1. control'.current.state = "approved"
      <4>1. control'.current = [control.current EXCEPT !.state = "approved"]
        BY <2>2, <2>6 DEF Pointer, kind
      <4> QED BY <1>1, <4>1 DEF Controls
    <3>2. control'.approvals = control.approvals \cup {a} /\ control'.published = control.published
      BY <2>2, <2>6
    <3>3. \A e \in control.approvals : e.batch # b
      BY <1>1, <2>3, <2>6 DEF Approvals, Evaluating
    <3>4. Approvals' 
      <4>1. a.request = q /\ prepared[q] # NoDocument BY <2>3, <2>6 DEF Evaluating
      <4> HIDE DEF a
      <4> QED BY <1>1, <2>1, <3>1, <3>2, <4>1 DEF Approvals
    <3>5. ApprovalMatchesBatch'
      <4>1. /\ [batch |-> b, revision |-> control.revision] \in control.published
            /\ prepared[q].seen = prepared[b].seen
        BY <2>3, <2>6 DEF Evaluating
      <4>2. a.batch = b /\ a.revision = control.revision /\ a.request = q OBVIOUS
      <4> HIDE DEF a
      <4>3. ASSUME NEW e \in control'.approvals
            PROVE  /\ [batch |-> e.batch, revision |-> e.revision] \in control'.published
                   /\ prepared'[e.request].seen = prepared'[e.batch].seen
                   /\ \A f \in control'.approvals : f.batch = e.batch => f = e
        <5>1. CASE e = a BY <2>1, <3>2, <3>3, <4>1, <4>2, <5>1
        <5>2. CASE e \in control.approvals
          BY <1>1, <2>1, <3>2, <3>3, <4>2, <5>2 DEF ApprovalMatchesBatch
        <5> QED BY <3>2, <5>1, <5>2
      <4> QED BY <4>3 DEF ApprovalMatchesBatch
    <3> QED BY <2>4, <3>4, <3>5
  <2>7. CASE kind(d) \notin Evaluating
    <3>1. control'.published = control.published /\ control'.approvals = control.approvals
      BY <2>2, <2>7 DEF Evaluating
    <3>2. \/ control'.current = control.current
          \/ control'.current = [control.current EXCEPT !.state = "cancelled"]
      BY <2>2, <2>7 DEF Pointer, kind, Evaluating
    <3>3. control'.current.batch = control.current.batch
          /\ (control'.current.state = "published" => control.current.state = "published")
      BY <1>1, <3>2 DEF Controls
    <3>4. Approvals' BY <1>1, <2>1, <3>1, <3>3 DEF Approvals, NoDocument
    <3>5. ApprovalMatchesBatch' BY <1>1, <2>1, <3>1 DEF ApprovalMatchesBatch
    <3> QED BY <2>4, <3>4, <3>5
  <2> QED BY <2>5, <2>6, <2>7 DEF Evaluating
<1> QED BY <1>5, <1>6

LEMMA OnceStep ==
  ASSUME IInv, [Next]_vars, NEW q \in Requests
  PROVE  Once(q)'
<1>1. TypeOK /\ Once(q) BY DEF IInv
<1>2. form[q].kind # "none" => form'[q].kind = form[q].kind BY <1>1, FormStable
<1>3. Recorded(control, q) /\ form[q].kind # "none" => Recorded(control, q)'
  BY <1>2, HistoriesGrow DEF Recorded, Batches
<1>4. CASE commits'[q] = commits[q] BY <1>1, <1>2, <1>3, <1>4 DEF Once
<1>5. CASE commits'[q] # commits[q]
  <2>1. PICK d \in Deliveries : Commit(d)
    BY <1>5 DEF Next, Handle, Announce, Write, EndBody, Finish, FinishFails, Compose, Inspect, Expire,
       Deliver, Load, Reload, Read, ReadInput, Save, Compare, Conflict, Project, ProjectEnd,
       StorageFails, Crash, vars, history
  <2>2. mem[d].req = q /\ commits'[q] = commits[q] + 1 /\ form' = form
    BY <1>1, <1>5, <2>1 DEF Commit, TypeOK
  <2>3. kind(d) = form[q].kind /\ form[q].kind \notin {"none", "view"}
    BY <2>1, <2>2, Swaps DEF kind
  <2>4. ~Replayed(control, q) BY <2>1, <2>2, Swaps
  <2>5. kind(d) = "propose" => q \notin Batches(control)
    BY <2>1, <2>2, CommittedEvaluation DEF Evaluating
  <2>6. ~Recorded(control, q) BY <2>3, <2>4, <2>5 DEF Recorded, Replayed
  <2>7. commits[q] = 0 BY <1>1, <2>6 DEF Once, TypeOK
  <2>8. form[q].kind \in ReviewKinds \cup {"none"} BY <1>1 DEF TypeOK
  <2>9. /\ form[q].kind = "propose" =>
             [batch |-> q, revision |-> control.revision] \in control'.published
        /\ form[q].kind = "approve" =>
             [request |-> q, batch |-> form[q].batch, revision |-> control.revision]
               \in control'.approvals
        /\ form[q].kind = "confirm" => q \in control'.policies
        /\ form[q].kind \notin {"propose", "approve", "confirm"} => q \in control'.events
    BY <2>1, <2>2, <2>3, <2>8, Additions DEF ReviewKinds
  <2>10. Recorded(control, q)' BY <2>2, <2>9 DEF Recorded, Batches
  <2> QED BY <2>2, <2>3, <2>7, <2>10 DEF Once
<1> QED BY <1>4, <1>5

LEMMA BudgetStep ==
  ASSUME IInv, [Next]_vars
  PROVE  Finite' /\ HistoriesAreBounded'
<1>1. TypeOK /\ Finite /\ HistoriesAreBounded BY DEF IInv
<1>2. CASE ~ \E d \in Deliveries : Commit(d)
  BY <1>1, <1>2, HistoriesKept DEF Finite, HistoriesAreBounded
<1>3. ASSUME NEW d \in Deliveries, Commit(d) PROVE Finite' /\ HistoriesAreBounded'
  <2> DEFINE q == mem[d].req
             h == HistoryOf(control, kind(d))
  <2>1. WithinBudget(control, kind(d)) /\ kind(d) \notin {"none", "view"}
    BY <1>3, Swaps DEF Admitted, kind
  <2>2. IsFiniteSet(h) BY <1>1 DEF Finite, HistoryOf
  <2>3. Cardinality(h) \in Nat /\ Cardinality(h) < HistoryBudget
    BY <2>1, <2>2, FS_CardinalityType DEF WithinBudget
  <2>4. \A x : IsFiniteSet(h \cup {x}) /\ Cardinality(h \cup {x}) =< HistoryBudget
    <3>1. ASSUME NEW x PROVE IsFiniteSet(h \cup {x}) /\ Cardinality(h \cup {x}) =< HistoryBudget
      <4>1. /\ IsFiniteSet(h \cup {x})
            /\ \/ Cardinality(h \cup {x}) = Cardinality(h)
               \/ Cardinality(h \cup {x}) = Cardinality(h) + 1
        BY <2>2, FS_AddElement
      <4> QED BY <2>3, <4>1, BudgetAssumption
    <3> QED BY <3>1
  <2>5. kind(d) \in ReviewKinds \cup {"none"}
    BY <1>1, <1>3, Swaps DEF TypeOK, kind
  <2>6. /\ \/ control'.published = control.published
           \/ h = control.published /\ \E x : control'.published = h \cup {x}
        /\ \/ control'.approvals = control.approvals
           \/ h = control.approvals /\ \E x : control'.approvals = h \cup {x}
        /\ \/ control'.events = control.events
           \/ h = control.events /\ \E x : control'.events = h \cup {x}
        /\ \/ control'.policies = control.policies
           \/ h = control.policies /\ \E x : control'.policies = h \cup {x}
    BY <1>3, Additions DEF HistoryOf
  <2> HIDE DEF h
  <2>7. \A g \in {control'.published, control'.approvals, control'.events, control'.policies} :
          IsFiniteSet(g) /\ Cardinality(g) =< HistoryBudget
    <3>1. \A g \in {control.published, control.approvals, control.events, control.policies} :
            IsFiniteSet(g) /\ Cardinality(g) =< HistoryBudget
      BY <1>1 DEF Finite, HistoriesAreBounded
    <3>2. IsFiniteSet(control'.published) /\ Cardinality(control'.published) =< HistoryBudget
      BY <2>4, <2>6, <3>1
    <3>3. IsFiniteSet(control'.approvals) /\ Cardinality(control'.approvals) =< HistoryBudget
      BY <2>4, <2>6, <3>1
    <3>4. IsFiniteSet(control'.events) /\ Cardinality(control'.events) =< HistoryBudget
      BY <2>4, <2>6, <3>1
    <3>5. IsFiniteSet(control'.policies) /\ Cardinality(control'.policies) =< HistoryBudget
      BY <2>4, <2>6, <3>1
    <3> QED BY <3>2, <3>3, <3>4, <3>5
  <2> QED BY <2>7 DEF Finite, HistoriesAreBounded
<1> QED BY <1>2, <1>3

-------------------------------------------------------------------------------
(* The invariant *)

LEMMA Initially == ASSUME Init PROVE IInv
<1>1. TypeOK
  <2>1. Memories = [req : Requests \cup {NoRequest}, snap : Controls, state : Controls,
                    seen : [Inputs -> Values]]
    BY DEF Memories
  <2>2. mem \in [Deliveries -> Memories] BY Constants DEF Init
  <2>3. NoDocument \in [by : Deliveries \cup {NoDelivery}, seen : [Inputs -> Values],
                        ready : BOOLEAN, policy : Requests \cup {NoRequest}]
    BY Constants DEF NoDocument
  <2>4. NoForm \in [kind : ReviewKinds \cup {"none"}, batch : Requests \cup {NoRequest},
                    revision : Nat, generation : Nat, declared : Values]
    BY Constants DEF NoForm
  <2>5. \A q \in Requests :
          [NoForm EXCEPT !.kind = "confirm", !.batch = q, !.declared = Original]
            \in [kind : ReviewKinds \cup {"none"}, batch : Requests \cup {NoRequest},
                revision : Nat, generation : Nat, declared : Values]
    BY <2>4, Constants DEF ReviewKinds
  <2>6. form \in [Requests -> [kind : ReviewKinds \cup {"none"}, batch : Requests \cup {NoRequest},
                               revision : Nat, generation : Nat, declared : Values]]
    BY <2>4, <2>5 DEF Init
  <2>7. inputs \in [Inputs -> Values] BY Constants DEF Init
  <2>8. /\ wpc \in [Writers -> {"new", "writing", "closing", "failing", "done", "failed", "stuck"}]
        /\ target \in [Writers -> Inputs] /\ written \in [Writers -> 0..MaxWrites]
    <3>1. "account" \in Inputs /\ 0 \in 0..MaxWrites BY BudgetAssumption DEF Inputs
    <3> QED BY <3>1 DEF Init
  <2>9. pc \in [Deliveries -> Labels] /\ told \in [Deliveries -> BOOLEAN]
    BY DEF Init, Labels, Settled
  <2>10. commits \in [Requests -> Nat] /\ reconciled \subseteq Writers /\ expired \subseteq Requests
    BY DEF Init
  <2>11. prepared \in [Requests -> [by : Deliveries \cup {NoDelivery}, seen : [Inputs -> Values],
                                    ready : BOOLEAN, policy : Requests \cup {NoRequest}]]
    BY <2>3 DEF Init
  <2>12. control \in Controls BY Constants DEF Init
  <2> QED BY <2>1, <2>2, <2>6, <2>7, <2>8, <2>9, <2>10, <2>11, <2>12 DEF TypeOK
<1>2. ASSUME NEW q \in Requests PROVE Form(q) /\ Once(q)
  <2>1. CASE q = InitialPolicy
    <3>1. form[q].kind = "confirm" /\ form[q].batch = q /\ commits[q] = 1
      BY <2>1 DEF Init, NoForm
    <3>2. q # NoRequest BY AbsentAssumption
    <3>3. q \in control.policies BY <2>1, <3>2 DEF Init, InitialControl
    <3> QED BY <3>1, <3>3 DEF Form, Once, Recorded
  <2>2. CASE q # InitialPolicy BY <2>2 DEF Init, NoForm, Form, Once
  <2> QED BY <2>1, <2>2
<1>3. control = InitialControl /\ control \in Controls BY Constants DEF Init
<1>4. Past(InitialControl) BY <1>3 DEF Past, Controls
<1>5. ASSUME NEW d \in Deliveries
      PROVE  /\ Remembers(d) /\ Served(d) /\ Placed(d) /\ AdmittedOnce(d)
             /\ Stored(d) /\ Projected(d) /\ Fresh(d) /\ Uncommitted(d)
  <2>1. pc[d] = "new" /\ mem[d].snap = InitialControl /\ mem[d].state = InitialControl
    BY DEF Init, NoMemory
  <2> QED BY <1>4, <2>1
     DEF Remembers, Served, Placed, AdmittedOnce, Stored, Projected, Fresh, Uncommitted,
         Settled, Admission
<1>6. \A w \in Writers : Ticket(w) 
  <2>1. \A w \in Writers : wpc[w] = "new" /\ written[w] = 0 BY DEF Init
  <2> QED BY <2>1 DEF Ticket
<1>7. \A i \in Inputs : inputs[i] # Unread BY Constants DEF Init
<1>8. /\ control.published = {} /\ control.approvals = {} /\ control.events = {}
      /\ control.policies = InitialControl.policies
  BY <1>3 DEF InitialControl
<1>9. Publications /\ Approvals /\ ApprovalMatchesBatch
  BY <1>8 DEF Publications, Approvals, ApprovalMatchesBatch
<1>10. Finite /\ HistoriesAreBounded
  <2>1. 0 =< HistoryBudget /\ 1 =< HistoryBudget BY BudgetAssumption
  <2>2. \A h \in {{}, InitialControl.policies} : IsFiniteSet(h) /\ Cardinality(h) =< HistoryBudget
    <3>1. Cardinality(InitialControl.policies) \in Nat BY Constants, FS_CardinalityType
    <3> QED BY <2>1, <3>1, Constants, FS_EmptySet, BudgetAssumption
  <2> QED BY <1>8, <2>2 DEF Finite, HistoriesAreBounded
<1> QED BY <1>1, <1>2, <1>4, <1>5, <1>6, <1>7, <1>9, <1>10 DEF IInv

LEMMA Inductive == ASSUME IInv, [Next]_vars PROVE IInv'
<1>1. TypeOK' BY TypeStep DEF IInv
<1>2. \A q \in Requests : Form(q)' /\ Once(q)' BY FormStable, OnceStep DEF IInv
<1>3. Past(InitialControl)' /\ \A d \in Deliveries : Remembers(d)' BY <1>1, PastStep
<1>4. \A d \in Deliveries : Fits(d)' /\ Fresh(d)' /\ Uncommitted(d)'
  BY <1>1, FitsStep, FreshStep, UncommittedStep
<1>5. (\A w \in Writers : Ticket(w)') /\ (\A i \in Inputs : inputs'[i] # Unread)
  BY TicketStep, InputsRead
<1>6. Publications' /\ Approvals' /\ ApprovalMatchesBatch' /\ Finite' /\ HistoriesAreBounded'
  BY RecordsStep, BudgetStep
<1> QED BY <1>1, <1>2, <1>3, <1>4, <1>5, <1>6 DEF IInv, Fits, Unread

LEMMA Invariance == Spec => []IInv
<1>1. Init => IInv BY Initially
<1>2. IInv /\ [Next]_vars => IInv' BY Inductive
<1> QED BY <1>1, <1>2, PTL DEF Spec

-------------------------------------------------------------------------------
(* State properties *)

\* Every variable of the reviews keeps its type.
THEOREM TypeCorrect == Spec => []TypeOK
<1>1. IInv => TypeOK BY DEF IInv
<1> QED BY <1>1, Invariance, PTL

\* An approval (service.approve) was evaluated on the inputs and at the revision of its
\* published batch, and no batch is approved twice.
THEOREM ApprovalMatchesBatchHolds == Spec => []ApprovalMatchesBatch
<1>1. IInv => ApprovalMatchesBatch BY DEF IInv
<1> QED BY <1>1, Invariance, PTL

\* However often a request is delivered, control.commit succeeds for it once.
THEOREM OncePerRequestHolds == Spec => []OncePerRequest
<1>1. IInv => OncePerRequest BY DEF IInv, TypeOK, Once, OncePerRequest
<1> QED BY <1>1, Invariance, PTL

\* The histories of the review_control document stay within their budgets.
THEOREM HistoriesAreBoundedHolds == Spec => []HistoriesAreBounded
<1>1. IInv => HistoriesAreBounded BY DEF IInv
<1> QED BY <1>1, Invariance, PTL

-------------------------------------------------------------------------------
(* Properties of steps *)

\* A new evaluation in the document comes from a commit.
LEMMA CommittedBy ==
  ASSUME IInv, [Next]_vars, NEW q \in Requests, Committed(q)
  PROVE  \E d \in Deliveries : Commit(d) /\ mem[d].req = q /\ kind(d) \in Evaluating
<1>1. PICK d \in Deliveries : Commit(d)
  BY HistoriesKept DEF IInv, Committed, Evaluations, Batches
<1> DEFINE p == [batch |-> mem[d].req, revision |-> control.revision]
           a == [request |-> mem[d].req, batch |-> form[mem[d].req].batch,
                 revision |-> control.revision]
<1>2. /\ control'.published = IF kind(d) = "propose" THEN control.published \cup {p}
                              ELSE control.published
      /\ control'.approvals = IF kind(d) = "approve" THEN control.approvals \cup {a}
                              ELSE control.approvals
  BY <1>1, Additions
<1>3. p.batch = mem[d].req /\ a.request = mem[d].req OBVIOUS
<1> HIDE DEF p, a
<1>4. CASE \E r \in control'.published \ control.published : r.batch = q
  BY <1>1, <1>2, <1>3, <1>4 DEF Evaluating
<1>5. CASE \E r \in control'.approvals \ control.approvals : r.request = q
  BY <1>1, <1>2, <1>3, <1>5 DEF Evaluating
<1> QED BY <1>4, <1>5 DEF Committed, Evaluations, Batches

\* What review_service publishes or approves was evaluated on the inputs of that moment.
THEOREM EvaluatedAsCommittedHolds == Spec => EvaluatedAsCommitted
<1>1. ASSUME IInv, [Next]_vars, NEW q \in Requests, Committed(q) PROVE prepared[q].seen = inputs
  <2>1. PICK d \in Deliveries : Commit(d) /\ mem[d].req = q /\ kind(d) \in Evaluating
    BY <1>1, CommittedBy
  <2>2. prepared[mem[d].req].seen = inputs BY <1>1, <2>1, CommittedEvaluation
  <2> QED BY <2>1, <2>2
<1>2. IInv /\ [Next]_vars =>
        [\A q \in Requests : Committed(q) => prepared[q].seen = inputs]_vars
  BY <1>1
<1> QED BY <1>2, Invariance, PTL DEF Spec, EvaluatedAsCommitted

\* Nothing is published or approved on top of unfinished, dead or unreconciled mutations.
THEOREM SettledInputsHolds == Spec => SettledInputs
<1>1. ASSUME IInv, [Next]_vars, NEW q \in Requests, Committed(q),
             NEW w \in Writers, written[w] > 0
      PROVE  wpc[w] = "done" \/ w \in reconciled
  <2>1. PICK d \in Deliveries : Commit(d) /\ mem[d].req = q /\ kind(d) \in Evaluating
    BY <1>1, CommittedBy
  <2>2. control.mutations = {} /\ ~control.uncertain
    BY <1>1, <2>1, Swaps DEF Admitted, Checked, Evaluating, kind
  <2>3. wpc[w] \in {"new", "writing", "closing", "failing", "done", "failed", "stuck"}
    BY <1>1 DEF IInv, TypeOK
  <2> QED BY <1>1, <2>2, <2>3 DEF IInv, Ticket
<1>2. IInv /\ [Next]_vars =>
        [\A q \in Requests : Committed(q) =>
           \A w \in Writers : written[w] > 0 => wpc[w] = "done" \/ w \in reconciled]_vars
  BY <1>1
<1> QED BY <1>2, Invariance, PTL DEF Spec, SettledInputs

\* A superseded or cancelled batch never becomes current again.
THEOREM NoResurrectionHolds == Spec => NoResurrection
<1> DEFINE Forward == control'.current # control.current =>
             \/ control'.current.batch \notin Batches(control)
             \/ /\ control'.current.batch = control.current.batch
                /\ control.current.state = "cancelled" => control'.current.state = "cancelled"
<1>1. ASSUME IInv, [Next]_vars, control'.current # control.current PROVE Forward
  <2>1. PICK d \in Deliveries : Commit(d) BY <1>1, HistoriesKept DEF IInv
  <2>2. control'.current = Pointer(control, mem[d].req) BY <1>1, <2>1, Additions
  <2>3. control.current \in [batch : Requests \cup {NoRequest},
                             state : {"none", "published", "approved", "cancelled"}]
    BY <1>1 DEF IInv, TypeOK, Controls
  <2>4. CASE kind(d) = "propose"
    <3>1. control'.current.batch = mem[d].req BY <2>2, <2>4 DEF Pointer, kind
    <3>2. mem[d].req \notin Batches(control)
      BY <1>1, <2>1, <2>4, CommittedEvaluation DEF Evaluating
    <3> QED BY <3>1, <3>2
  <2>5. CASE kind(d) = "approve"
    <3>1. control'.current = [control.current EXCEPT !.state = "approved"]
      BY <2>2, <2>5 DEF Pointer, kind
    <3>2. control.current.state = "published"
      BY <1>1, <2>1, <2>5, CommittedEvaluation DEF Evaluating
    <3> QED BY <2>3, <3>1, <3>2
  <2>6. CASE kind(d) \notin {"propose", "approve"}
    <3>1. control'.current = [control.current EXCEPT !.state = "cancelled"]
      BY <1>1, <2>2, <2>6 DEF Pointer, kind
    <3> QED BY <2>3, <3>1
  <2> QED BY <2>4, <2>5, <2>6
<1>2. IInv /\ [Next]_vars => [Forward]_vars BY <1>1
<1> QED BY <1>2, Invariance, PTL DEF Spec, NoResurrection

\* Histories only grow, and a ticket leaves only with its mutation's end.
THEOREM HistoryIsKeptHolds == Spec => HistoryIsKept
<1>1. ASSUME IInv, [Next]_vars, NEW w \in control.mutations \ control'.mutations
      PROVE  wpc'[w] \in {"done", "failed"}
  <2>1. control \in Controls BY <1>1 DEF IInv, TypeOK
  <2>2. PICK v \in Writers : Announce(v) \/ Finish(v)
    <3>1. ASSUME NEW d \in Deliveries, Commit(d) PROVE FALSE BY <1>1, <3>1, Swaps
    <3> QED BY <1>1, <3>1, OthersKeepControl DEF Writes
  <2>3. CASE Announce(v)
    <3>1. control'.mutations = control.mutations \cup {v} BY <2>1, <2>3 DEF Announce, Controls
    <3> QED BY <1>1, <3>1
  <2>4. CASE Finish(v)
    <3>1. control'.mutations = control.mutations \ {v} BY <2>1, <2>4 DEF Finish, Controls
    <3>2. w = v BY <1>1, <3>1
    <3> QED BY <1>1, <2>4, <3>2 DEF Finish, IInv, TypeOK
  <2> QED BY <2>2, <2>3, <2>4
<1>2. IInv /\ [Next]_vars =>
        [/\ control.published \subseteq control'.published
         /\ control.approvals \subseteq control'.approvals
         /\ control.events \subseteq control'.events
         /\ control.policies \subseteq control'.policies
         /\ \A w \in control.mutations \ control'.mutations : wpc'[w] \in {"done", "failed"}]_vars
  BY <1>1, HistoriesGrow
<1> QED BY <1>2, Invariance, PTL DEF Spec, HistoryIsKept

\* policies.confirm and reconcile commit on the state that their user had inspected.
THEOREM ComparedAsCommittedHolds == Spec => ComparedAsCommitted
<1>1. ASSUME IInv, [Next]_vars, NEW q \in Requests, commits'[q] # commits[q],
             Declares(form[q].kind)
      PROVE  form[q].declared = inputs[Watched(form[q].kind)]
  <2>1. PICK d \in Deliveries : Commit(d)
    BY <1>1 DEF Next, Handle, Announce, Write, EndBody, Finish, FinishFails, Compose, Inspect, Expire,
       Deliver, Load, Reload, Read, ReadInput, Save, Compare, Conflict, Project, ProjectEnd,
       StorageFails, Crash, vars, history
  <2>2. mem[d].req = q BY <1>1, <2>1 DEF Commit, IInv, TypeOK
  <2>3. pc[d] = "commit" /\ mem[d].snap = control BY <1>1, <2>1, Swaps DEF Commit
  <2> QED BY <1>1, <2>2, <2>3 DEF IInv, Fresh, kind
<1>2. IInv /\ [Next]_vars =>
        [\A q \in Requests :
           commits'[q] # commits[q] /\ Declares(form[q].kind) =>
             form[q].declared = inputs[Watched(form[q].kind)]]_vars
  BY <1>1
<1> QED BY <1>2, Invariance, PTL DEF Spec, ComparedAsCommitted

\* The deadline is part of the swap: no approval of an expired batch or receipt.
THEOREM NoLateApprovalHolds == Spec => NoLateApproval
<1>1. ASSUME IInv, [Next]_vars, NEW e \in control'.approvals \ control.approvals
      PROVE  {e.request, e.batch} \cap expired = {}
  <2>1. PICK d \in Deliveries : Commit(d) BY <1>1, HistoriesKept DEF IInv
  <2> DEFINE a == [request |-> mem[d].req, batch |-> form[mem[d].req].batch,
                   revision |-> control.revision]
  <2>2. control'.approvals = IF kind(d) = "approve" THEN control.approvals \cup {a}
                             ELSE control.approvals
    BY <1>1, <2>1, Additions
  <2>3. kind(d) = "approve" /\ e = a BY <1>1, <2>2
  <2>4. e.request = mem[d].req /\ e.batch = form[mem[d].req].batch BY <2>3
  <2> QED BY <2>1, <2>3, <2>4 DEF Commit, InTime, kind
<1>2. IInv /\ [Next]_vars =>
        [\A e \in control'.approvals \ control.approvals : {e.request, e.batch} \cap expired = {}]_vars
  BY <1>1
<1> QED BY <1>2, Invariance, PTL DEF Spec, NoLateApproval

\* A response that calls an approval current speaks of the inputs as they are.
THEOREM ViewIsTrueHolds == Spec => ViewIsTrue
<1>1. ASSUME IInv, [Next]_vars, NEW d \in Deliveries, told'[d], ~told[d]
      PROVE  /\ prepared[form[mem[d].req].batch].seen = inputs
             /\ control.mutations = {} /\ ~control.uncertain
  <2>1. PICK e \in Deliveries : ProjectEnd(e) /\ told' # told
    BY <1>1 DEF Next, Handle, Announce, Write, EndBody, Finish, FinishFails, Compose, Inspect, Expire,
       Deliver, Load, Reload, Read, ReadInput, Save, Compare, Commit, Conflict, Project,
       StorageFails, Crash, vars, delivery
  <2> DEFINE b == form[mem[d].req].batch
  <2>2. e = d /\ pc[d] = "view_read" /\ AllRead(d) /\ ApprovalCurrent(d, b)
    BY <1>1, <2>1 DEF ProjectEnd, IInv, TypeOK
  <2>3. /\ control = mem[d].state /\ control.mutations = {} /\ ~control.uncertain
        /\ mem[d].seen = prepared[b].seen
    BY <2>2 DEF ApprovalCurrent, Valid
  <2>4. \A i \in Inputs : mem[d].seen[i] = inputs[i]
    BY <1>1, <2>2, <2>3 DEF IInv, Fresh, AllRead
  <2>5. mem[d].seen = inputs BY <1>1, <2>4 DEF IInv, TypeOK
  <2> QED BY <2>3, <2>5
<1>2. IInv /\ [Next]_vars =>
        [\A d \in Deliveries : told'[d] /\ ~told[d] =>
           /\ prepared[form[mem[d].req].batch].seen = inputs
           /\ control.mutations = {} /\ ~control.uncertain]_vars
  BY <1>1
<1> QED BY <1>2, Invariance, PTL DEF Spec, ViewIsTrue

-------------------------------------------------------------------------------
(* The compare-and-swap makes the reviews atomic *)

quietNow == control.mutations = {} /\ ~control.uncertain

evaluatedNow == [q \in Batches(control) |-> prepared[q].seen]

approvedNow == {e.batch : e \in control.approvals}

LEMMA EvaluationsKept ==
  ASSUME IInv, [Next]_vars
  PROVE  \A q \in Batches(control) : q \in Requests /\ prepared'[q] = prepared[q]
<1>1. TypeOK /\ control \in Controls BY DEF IInv, TypeOK
<1>2. \A q \in Batches(control) : q \in Requests /\ prepared[q] # NoDocument
  BY <1>1 DEF IInv, Publications, Batches, Controls
<1> QED BY <1>1, <1>2, PreparedStable

LEMMA CommitIsAtomic ==
  ASSUME IInv, [Next]_vars, NEW d \in Deliveries, Commit(d)
  PROVE  Atomic!Next
<1> DEFINE q == mem[d].req
           b == form[q].batch
<1>1. /\ TypeOK /\ control \in Controls /\ q \in Requests
      /\ control.mutations = {} /\ Admitted(control, q)
      /\ kind(d) \notin {"none", "view"}
  BY Swaps DEF IInv, TypeOK
<1>2. /\ control' = Successor(control, q) /\ inputs' = inputs /\ prepared' = prepared
      /\ control'.mutations = {}
      /\ control'.uncertain = (control.uncertain /\ kind(d) # "reconcile")
  <2>1. control' = Successor(control, q) BY Swaps
  <2>2. /\ control'.mutations = control.mutations
        /\ control'.uncertain = (control.uncertain /\ kind(d) # "reconcile")
    BY <2>1, Zenon DEF Successor, kind
  <2> QED BY <1>1, <2>1, <2>2 DEF Commit
<1>3. control.current \in [batch : Requests \cup {NoRequest},
                           state : {"none", "published", "approved", "cancelled"}]
  BY <1>1 DEF Controls
<1>4. CASE kind(d) = "propose"
  <2>1. quietNow /\ quietNow' BY <1>1, <1>2, <1>4 DEF quietNow, Admitted, Checked, kind
  <2>2. prepared[q].seen = inputs /\ q \notin Batches(control)
    BY <1>4, CommittedEvaluation DEF Evaluating
  <2>3. /\ control'.current = [batch |-> q, state |-> "published"]
        /\ control'.approvals = control.approvals
        /\ control'.published = control.published \cup {[batch |-> q, revision |-> control.revision]}
    BY <1>4, Additions DEF Pointer, kind
  <2>4. Batches(control)' = Batches(control) \cup {q}
    <3> DEFINE p == [batch |-> q, revision |-> control.revision]
    <3>1. p.batch = q /\ control'.published = control.published \cup {p} BY <2>3
    <3> HIDE DEF p
    <3> QED BY <3>1 DEF Batches
  <2>5. evaluatedNow' = [r \in Batches(control) \cup {q} |->
                           IF r = q THEN inputs ELSE evaluatedNow[r]]
    BY <1>2, <2>2, <2>4 DEF evaluatedNow
  <2>6. DOMAIN evaluatedNow = Batches(control) BY DEF evaluatedNow
  <2>7. approvedNow' = approvedNow BY <2>3 DEF approvedNow
  <2>8. PICK r \in Requests : r = q BY <1>1
  <2>9. Atomic!Publish(r)
    BY <1>2, <2>1, <2>2, <2>3, <2>5, <2>6, <2>7, <2>8
       DEF Atomic!Publish, quietNow, evaluatedNow, approvedNow
  <2> QED BY <2>9 DEF Atomic!Next
<1>5. CASE kind(d) = "approve"
  <2>1. quietNow /\ quietNow' BY <1>1, <1>2, <1>5 DEF quietNow, Admitted, Checked, kind
  <2>2. /\ [batch |-> b, revision |-> control.revision] \in control.published
        /\ control.current.batch = b /\ control.current.state = "published"
        /\ prepared[b].seen = inputs
    BY <1>5, CommittedEvaluation DEF Evaluating
  <2>3. /\ control'.current = [control.current EXCEPT !.state = "approved"]
        /\ control'.published = control.published
        /\ control'.approvals = control.approvals \cup
             {[request |-> q, batch |-> b, revision |-> control.revision]}
    BY <1>5, Additions DEF Pointer, kind
  <2>4. Batches(control)' = Batches(control) BY <2>3 DEF Batches
  <2>5. b \in Batches(control) BY <2>2 DEF Batches
  <2>6. evaluatedNow' = evaluatedNow BY <1>2, <2>4 DEF evaluatedNow
  <2>7. evaluatedNow[b] = inputs BY <2>2, <2>5 DEF evaluatedNow
  <2>8. b \notin approvedNow BY <2>2 DEF IInv, Approvals, approvedNow
  <2>9. approvedNow' = approvedNow \cup {b}
    <3> DEFINE a == [request |-> q, batch |-> b, revision |-> control.revision]
    <3>1. a.batch = b /\ control'.approvals = control.approvals \cup {a} BY <2>3
    <3> HIDE DEF a
    <3> QED BY <3>1 DEF approvedNow
  <2>10. Atomic!Approve
    BY <1>2, <2>1, <2>2, <2>3, <2>6, <2>7, <2>8, <2>9
       DEF Atomic!Approve, quietNow, evaluatedNow, approvedNow
  <2> QED BY <2>10 DEF Atomic!Next
<1>6. CASE kind(d) \notin Evaluating
  <2>1. /\ control'.published = control.published /\ control'.approvals = control.approvals
        /\ control'.current = Pointer(control, q)
    BY <1>6, Additions DEF Evaluating
  <2>2. Batches(control)' = Batches(control) BY <2>1 DEF Batches
  <2>3. evaluatedNow' = evaluatedNow /\ approvedNow' = approvedNow
    BY <1>2, <2>1, <2>2 DEF evaluatedNow, approvedNow
  <2>4. CASE kind(d) = "cancel"
    <3>1. control'.current = [control.current EXCEPT !.state = "cancelled"]
      BY <2>1, <2>4 DEF Pointer, kind
    <3>2. control.current.batch # NoRequest
      <4>1. control.current.batch = b /\ b \in Requests
        BY <1>1, <2>4 DEF Admitted, IInv, Form, kind
      <4> QED BY <4>1, AbsentAssumption
    <3>3. quietNow' = quietNow BY <1>1, <1>2, <2>4 DEF quietNow
    <3>4. Atomic!Cancel
      BY <1>2, <2>3, <3>1, <3>2, <3>3 DEF Atomic!Cancel, quietNow, evaluatedNow, approvedNow
    <3> QED BY <3>4 DEF Atomic!Next
  <2>5. CASE kind(d) # "cancel"
    <3>1. control'.current = control.current
      BY <1>6, <2>1, <2>5 DEF Pointer, kind, Evaluating
    <3>2. Atomic!Change
      BY <1>2, <2>3, <3>1 DEF Atomic!Change, Atomic!reviews, evaluatedNow, approvedNow
    <3> QED BY <3>2 DEF Atomic!Next
  <2> QED BY <2>4, <2>5
<1> QED BY <1>4, <1>5, <1>6 DEF Evaluating

\* The reviews implement AtomicReview: a proposal or an approval, which reads its inputs
\* one by one and takes many steps, takes effect in one, while nobody changes them.
THEOREM Refinement == Spec => RefinesAtomicReview
<1>1. ASSUME Init PROVE Atomic!Init
  <2>1. control.mutations = {} /\ ~control.uncertain BY <1>1 DEF Init, InitialControl
  <2>2. control.published = {} /\ control.approvals = {}
        /\ control.current = [batch |-> NoRequest, state |-> "none"]
    BY <1>1 DEF Init, InitialControl
  <2>3. Batches(control) = {} BY <2>2 DEF Batches
  <2>4. [q \in Batches(control) |-> prepared[q].seen] = [q \in {} |-> inputs] BY <2>3
  <2>5. {e.batch : e \in control.approvals} = {} BY <2>2
  <2> QED BY <2>1, <2>2, <2>4, <2>5 DEF Atomic!Init
<1>2. ASSUME IInv, [Next]_vars, ~ \E d \in Deliveries : Commit(d) PROVE Atomic!Change
  <2>1. /\ control'.published = control.published /\ control'.approvals = control.approvals
        /\ control'.current = control.current
    BY <1>2, HistoriesKept DEF IInv
  <2>2. Batches(control)' = Batches(control) BY <2>1 DEF Batches
  <2>3. evaluatedNow' = evaluatedNow
    <3>1. \A q \in Batches(control) : prepared'[q] = prepared[q] BY <1>2, EvaluationsKept
    <3> QED BY <2>2, <3>1 DEF evaluatedNow
  <2>4. approvedNow' = approvedNow BY <2>1 DEF approvedNow
  <2>5. ASSUME quietNow PROVE inputs' = inputs
    <3>1. ASSUME NEW w \in Writers, Write(w) PROVE FALSE
      <4>1. w \in control.mutations BY <1>2, <3>1 DEF Write, IInv, Ticket
      <4> QED BY <2>5, <4>1 DEF quietNow
    <3> QED BY <1>2, <3>1, InputsWritten DEF IInv
  <2> QED BY <2>1, <2>3, <2>4, <2>5
        DEF Atomic!Change, Atomic!reviews, quietNow, evaluatedNow, approvedNow
<1>3. IInv /\ [Next]_vars => Atomic!Next
  BY <1>2, CommitIsAtomic DEF Atomic!Next
<1>4. IInv /\ [Next]_vars => [Atomic!Next]_(Atomic!vars) BY <1>3
<1> QED BY <1>1, <1>4, Invariance, PTL DEF Spec, RefinesAtomicReview, Atomic!Spec

===============================================================================
