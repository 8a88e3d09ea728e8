-------------------------- MODULE ModelDecisionProofs --------------------------
(***************************************************************************)
(* Proofs about ModelDecision for any number of deliveries and names.      *)
(***************************************************************************)
EXTENDS ModelDecision, FiniteSetTheorems, TLAPS

-------------------------------------------------------------------------------
(* The inductive invariant *)

\* Labels of a delivery that never claimed the decision so far.
Unclaimed == {"idle", "read", "lookup", "eligible", "claim", "takeover", "fetch"}

\* Labels of a delivery that claimed it and has not come back.
Working == {"prompt", "call", "finish", "fail"}

\* Labels of a delivery that knows how the decision was settled.
Informed == {"publish", "base", "evaluate", "commit", "review", "answered"}

Running == record.status = "running"

\* The record is claimed by a delivery, which holds the answer once there is one.
Owned ==
  /\ record.status = "none" => record = NoRecord /\ ~lapsed
  /\ record.status # "none" =>
       /\ record.owner \in Deliveries /\ pc[record.owner] \notin Unclaimed
       /\ record.policy \in 1..control.version
  /\ record.answer = IF record.status = "completed" THEN record.owner ELSE NoDelivery

\* The active policy was confirmed at some version.
Active == control.policy \in 0..control.version

\* Whoever works under a claim that it still holds finds the record as it left it.
Attended(d) ==
  pc[d] \in Working =>
    /\ mem[d].mine.status = "running" /\ mem[d].mine.owner = d
    /\ mem[d].mine.answer = NoDelivery
    /\ mem[d].mine.policy \in 1..control.version
    /\ record.status # "none"
    /\ record.owner = d => record = mem[d].mine

\* The policy to be asked under was active once.
Prompted(d) ==
  pc[d] \in {"claim", "takeover", "prompt"} => mem[d].policy \in 1..control.version

\* The owner whose claim is taken over has lost its lease, or the claim.
Rivalled(d) ==
  pc[d] = "takeover" =>
    /\ record.status # "none"
    /\ mem[d].rival \in Deliveries /\ pc[mem[d].rival] \notin Unclaimed
    /\ Running /\ record.owner = mem[d].rival => lapsed

Settled(d) ==
  pc[d] \in Informed => record.status = "completed" /\ mem[d].mine = record

\* A snapshot of the review control with its version is the review control.
Based(d) ==
  pc[d] \in {"evaluate", "commit"} =>
    /\ mem[d].seen.version =< control.version
    /\ mem[d].seen.version = control.version => mem[d].seen.policy = control.policy
    /\ mem[d].expected = mem[d].seen.version

\* A delivery that is about to commit saved the preparation of its name itself.
Saved(d) ==
  pc[d] = "commit" =>
    LET batch == batches[mem[d].name]
    IN  /\ batch.answer = mem[d].mine.answer /\ batch.expected = mem[d].expected
        /\ batch.ready => mem[d].mine.policy = mem[d].seen.policy
        /\ ~IsPublished(mem[d].name)
        /\ \A e \in Deliveries \ {d} : pc[e] = "commit" => mem[e].name # mem[d].name

Told(d) == pc[d] = "answered" /\ mem[d].review => published # <<>>

Fact(d) ==
  Attended(d) /\ Prompted(d) /\ Rivalled(d) /\ Settled(d) /\ Based(d) /\ Saved(d) /\ Told(d)

\* What is published was prepared.
Kept == \A i \in DOMAIN published : batches[published[i]] # NoBatch

\* Deliveries that called the model, or are free to.
Callers == {d \in Deliveries : asked[d] # NoPolicy \/ pc[d] = "prompt"}

Allowed ==
  IF record.status = "none" THEN 0 ELSE IF Running /\ lapsed THEN expiries ELSE 1 + expiries

Counted == IsFiniteSet(Callers) /\ Cardinality(Callers) =< Allowed

IInv == TypeOK /\ Owned /\ Active /\ Kept /\ Counted /\ \A d \in Deliveries : Fact(d)

-------------------------------------------------------------------------------
(* Lemmas *)

LEMMA Blank == NoMemory \in Memories /\ NoRecord \in Records /\ NoBatch \in Batches
BY NamesAssumption DEF NoMemory, Memories, NoRecord, Records, NoBatch, Batches, Controls,
   Statuses, NoPolicy

\* What a view leaves of a request.
LEMMA Views ==
  ASSUME NEW r \in Records, NEW review \in BOOLEAN
  PROVE  LET m == [NoMemory EXCEPT !.answer = r.answer, !.review = review, !.mine = r]
         IN  m \in Memories /\ m.mine = r /\ m.review = review
BY Blank DEF Memories, Records, NoMemory

\* A label and a memory are written together.
LEMMA StepFacts ==
  ASSUME TypeOK, NEW d \in Deliveries, NEW label \in Labels, NEW m \in Memories,
         Step(d, label, m)
  PROVE  /\ pc' \in [Deliveries -> Labels] /\ pc'[d] = label
         /\ mem' \in [Deliveries -> Memories] /\ mem'[d] = m
         /\ \A e \in Deliveries \ {d} : pc'[e] = pc[e] /\ mem'[e] = mem[e]
BY DEF Step, TypeOK

LEMMA AllowedIsNatural == TypeOK => Allowed \in Nat
<1> SUFFICES ASSUME TypeOK PROVE Allowed \in Nat
  OBVIOUS
<1>1. expiries \in Nat /\ 1 + expiries \in Nat
  BY DEF TypeOK
<1>2. CASE Running /\ lapsed
  BY <1>1, <1>2 DEF Allowed
<1>3. CASE ~(Running /\ lapsed)
  BY <1>1, <1>3 DEF Allowed
<1> QED BY <1>2, <1>3

LEMMA AllowedStaysNatural == TypeOK' => Allowed' \in Nat
<1> SUFFICES ASSUME TypeOK' PROVE Allowed' \in Nat
  OBVIOUS
<1>0. expiries' \in Nat
  BY DEF TypeOK
<1>1. 1 + expiries' \in Nat
  <2> \A n \in Nat : 1 + n \in Nat
    OBVIOUS
  <2> QED BY <1>0
<1>2. CASE (Running /\ lapsed)'
  BY <1>0, <1>2 DEF Allowed
<1>3. CASE ~(Running /\ lapsed)'
  BY <1>1, <1>3 DEF Allowed
<1> QED BY <1>2, <1>3

\* Nobody joins the callers.
LEMMA CountStays ==
  ASSUME Counted, TypeOK, TypeOK', Callers' \subseteq Callers, Allowed =< Allowed'
  PROVE  Counted'
<1>1. IsFiniteSet(Callers') /\ Cardinality(Callers') =< Cardinality(Callers)
  BY FS_Subset DEF Counted
<1>2. Cardinality(Callers) \in Nat /\ Cardinality(Callers') \in Nat
  BY <1>1, FS_CardinalityType DEF Counted
<1>3. Allowed \in Nat /\ Allowed' \in Nat
  BY AllowedIsNatural, AllowedStaysNatural
<1> QED BY <1>1, <1>2, <1>3 DEF Counted

\* One joins them, and is allowed to.
LEMMA CountGrows ==
  ASSUME Counted, TypeOK, TypeOK', NEW d \in Deliveries,
         Callers' \subseteq Callers \cup {d}, Allowed + 1 =< Allowed'
  PROVE  Counted'
<1>1. /\ IsFiniteSet(Callers \cup {d})
      /\ Cardinality(Callers \cup {d}) =< Cardinality(Callers) + 1
  <2>1. IsFiniteSet(Callers) /\ Cardinality(Callers) \in Nat
    BY FS_CardinalityType DEF Counted
  <2> HIDE DEF Callers
  <2>2. /\ IsFiniteSet(Callers \cup {d})
        /\ Cardinality(Callers \cup {d}) =
             IF d \in Callers THEN Cardinality(Callers) ELSE Cardinality(Callers) + 1
    BY <2>1, FS_AddElement
  <2> QED BY <2>1, <2>2
<1>2. IsFiniteSet(Callers') /\ Cardinality(Callers') =< Cardinality(Callers \cup {d})
  BY <1>1, FS_Subset
<1>3. /\ Cardinality(Callers) \in Nat /\ Cardinality(Callers') \in Nat
      /\ Cardinality(Callers \cup {d}) \in Nat
  BY <1>1, <1>2, FS_CardinalityType DEF Counted
<1>4. Allowed \in Nat /\ Allowed' \in Nat
  BY AllowedIsNatural, AllowedStaysNatural
<1> QED BY <1>1, <1>2, <1>3, <1>4 DEF Counted

-------------------------------------------------------------------------------
(* Every action preserves the invariant *)

LEMMA Initially == Init => IInv
<1> SUFFICES ASSUME Init PROVE IInv
  OBVIOUS
<1>1. TypeOK
  <2>1. control \in Controls /\ expiries \in Nat
    BY DEF Init, Controls
  <2>4. published \in Seq(Names)
    BY DEF Init
  <2>5. lapsed \in BOOLEAN
    BY DEF Init
  <2>2. pc \in [Deliveries -> Labels] /\ asked \in [Deliveries -> Nat]
    BY DEF Init, Labels, NoPolicy
  <2>3. record \in Records /\ batches \in [Names -> Batches] /\ mem \in [Deliveries -> Memories]
    BY Blank DEF Init
  <2> QED BY <2>1, <2>2, <2>3, <2>4, <2>5 DEF TypeOK
<1>2. Owned /\ Active /\ Kept
  BY DEF Init, Owned, Active, Kept, NoRecord
<1>3. Callers = {}
  BY DEF Init, Callers, NoPolicy
<1>4. Counted
  BY <1>3, FS_EmptySet DEF Init, Counted, Allowed, NoRecord
<1>5. ASSUME NEW d \in Deliveries PROVE Fact(d)
  BY DEF Init, Fact, Attended, Prompted, Rivalled, Settled, Based, Saved, Told, Working, Informed
<1> QED BY <1>1, <1>2, <1>4, <1>5 DEF IInv

\* A step that only moves its delivery has to look after that delivery.
LEMMA Moves ==
  ASSUME IInv, NEW d \in Deliveries, NEW label \in Labels, NEW m \in Memories,
         Step(d, label, m), UNCHANGED <<claiming, reviewing, asked>>,
         label \notin {"prompt", "commit"},
         pc[d] \notin Unclaimed => label \notin Unclaimed,
         Fact(d)'
  PROVE  IInv'
<1>1. TypeOK /\ TypeOK'
  BY StepFacts DEF IInv, TypeOK, claiming, reviewing
<1>2. \A e \in Deliveries : pc[e] \notin Unclaimed => pc'[e] \notin Unclaimed
  BY <1>1, StepFacts
<1>3. Owned' /\ Active' /\ Kept'
  BY <1>1, <1>2 DEF IInv, Owned, Active, Kept, claiming, reviewing
<1>4. Counted'
  <2>1. Callers' \subseteq Callers
    BY <1>1, StepFacts DEF Callers
  <2>2. Allowed' = Allowed
    BY DEF Allowed, Running, claiming
  <2>3. Allowed \in Nat
    BY <1>1 DEF Allowed, TypeOK
  <2> QED BY <1>1, <2>1, <2>2, <2>3, CountStays DEF IInv
<1>5. ASSUME NEW e \in Deliveries PROVE Fact(e)'
  <2>1. CASE e = d
    BY <2>1
  <2>2. CASE e # d
    <3>1. pc'[e] = pc[e] /\ mem'[e] = mem[e] /\ Fact(e)
      BY <1>1, <2>2, StepFacts DEF IInv
    <3>2. Attended(e)' /\ Prompted(e)' /\ Settled(e)' /\ Based(e)' /\ Told(e)'
      BY <3>1 DEF Fact, Attended, Prompted, Settled, Based, Told, claiming, reviewing
    <3>3. Rivalled(e)'
      BY <1>2, <3>1 DEF Fact, Rivalled, Running, claiming
    <3>4. Saved(e)'
      BY <1>1, <3>1, StepFacts DEF Fact, Saved, IsPublished, reviewing
    <3> QED BY <3>2, <3>3, <3>4 DEF Fact
  <2> QED BY <2>1, <2>2
<1> QED BY <1>1, <1>3, <1>4, <1>5 DEF IInv

\* Whoever is refused knows nothing and holds nothing back.
LEMMA Refuses ==
  ASSUME IInv, NEW d \in Deliveries, Refuse(d), UNCHANGED <<claiming, reviewing, asked>>
  PROVE  IInv'
<1>1. TypeOK /\ "refused" \in Labels
  BY DEF IInv, Labels, Ended
<1>2. pc'[d] = "refused"
  BY <1>1, Blank, StepFacts DEF Refuse
<1>3. Fact(d)'
  BY <1>2 DEF Fact, Attended, Prompted, Rivalled, Settled, Based, Saved, Told, Working, Informed
<1> QED BY <1>1, <1>3, Blank, Moves DEF Refuse, Unclaimed

\* Whoever knows the decision answers with it.
LEMMA Responds ==
  ASSUME IInv, NEW d \in Deliveries, pc[d] \in Informed, NEW review \in BOOLEAN,
         Respond(d, mem[d].mine, review), UNCHANGED <<claiming, reviewing, asked>>,
         review => published # <<>>
  PROVE  IInv'
<1> DEFINE m == [NoMemory EXCEPT !.answer = mem[d].mine.answer, !.review = review,
                                 !.mine = mem[d].mine]
<1>1. TypeOK /\ "answered" \in Labels /\ mem[d].mine \in Records
  BY DEF IInv, Labels, Ended, TypeOK, Memories
<1>2. m \in Memories /\ m.mine = mem[d].mine /\ m.review = review
  BY <1>1, Views
<1>3. Step(d, "answered", m)
  BY DEF Respond
<1> HIDE DEF m
<1>4. pc'[d] = "answered" /\ mem'[d] = m
  BY <1>1, <1>2, <1>3, StepFacts
<1>5. record.status = "completed" /\ mem[d].mine = record
  BY DEF IInv, Fact, Settled
<1>6. Fact(d)'
  BY <1>2, <1>4, <1>5 DEF Fact, Attended, Prompted, Rivalled, Settled, Based, Saved, Told,
     Working, Informed, claiming, reviewing
<1> QED BY <1>1, <1>2, <1>3, <1>6, Moves DEF Unclaimed

\* Before it claims or knows anything, a delivery is free to go on.
LEMMA Begins ==
  ASSUME IInv, NEW d \in Deliveries, pc[d] \in Unclaimed,
         NEW label \in {"read", "lookup", "eligible", "fetch"}, NEW m \in Memories,
         Step(d, label, m), UNCHANGED <<claiming, reviewing, asked>>
  PROVE  IInv'
<1>1. TypeOK /\ label \in Labels
  BY DEF IInv, Labels
<1>2. pc'[d] = label
  BY <1>1, StepFacts
<1>3. Fact(d)'
  BY <1>2 DEF Fact, Attended, Prompted, Rivalled, Settled, Based, Saved, Told, Working, Informed
<1> QED BY <1>1, <1>3, Moves

\* A delivery learns how the decision was settled.
LEMMA Learns ==
  ASSUME IInv, NEW d \in Deliveries, NEW label \in {"publish", "review"}, NEW m \in Memories,
         Step(d, label, m), UNCHANGED <<claiming, reviewing, asked>>,
         record.status = "completed", m.mine = record
  PROVE  IInv'
<1>1. TypeOK /\ label \in Labels
  BY DEF IInv, Labels
<1>2. pc'[d] = label /\ mem'[d] = m
  BY <1>1, StepFacts
<1>3. Fact(d)'
  BY <1>2 DEF Fact, Attended, Prompted, Rivalled, Settled, Based, Saved, Told, Working,
     Informed, claiming
<1> QED BY <1>1, <1>3, Moves DEF Unclaimed

LEMMA Arrives ==
  ASSUME IInv, NEW d \in Deliveries, Arrive(d)
  PROVE  IInv'
<1>1. control.version \in Nat
  BY DEF IInv, TypeOK, Controls
<1>2. PICK v \in 1..control.version :
        \/ Step(d, "read", [NoMemory EXCEPT !.expected = v])
        \/ \E name \in Names :
             Step(d, "fetch", [NoMemory EXCEPT !.expected = v, !.name = name])
  BY DEF Arrive
<1>8. v \in Nat
  BY <1>1
<1>3. [NoMemory EXCEPT !.expected = v] \in Memories
  BY <1>8, Blank DEF Memories
<1>4. ASSUME NEW name \in Names
      PROVE  [NoMemory EXCEPT !.expected = v, !.name = name] \in Memories
  BY <1>8, Blank DEF Memories
<1>5. pc[d] \in Unclaimed /\ UNCHANGED <<claiming, reviewing, asked>>
  BY DEF Arrive, Unclaimed
<1>6. CASE Step(d, "read", [NoMemory EXCEPT !.expected = v])
  BY <1>3, <1>5, <1>6, Begins
<1>7. ASSUME NEW name \in Names,
             Step(d, "fetch", [NoMemory EXCEPT !.expected = v, !.name = name])
      PROVE  IInv'
  BY <1>4, <1>5, <1>7, Begins
<1> QED BY <1>2, <1>6, <1>7

LEMMA Reads ==
  ASSUME IInv, NEW d \in Deliveries, ReadControl(d)
  PROVE  IInv'
<1>1. [mem[d] EXCEPT !.seen = control] \in Memories
  BY DEF IInv, TypeOK, Memories
<1> QED BY <1>1, Begins DEF ReadControl, Unclaimed

LEMMA LooksUp ==
  ASSUME IInv, NEW d \in Deliveries, Lookup(d)
  PROVE  IInv'
<1>1. mem[d] \in Memories /\ record \in Records /\ pc[d] \in Unclaimed
      /\ UNCHANGED <<claiming, reviewing, asked>>
  BY DEF Lookup, IInv, TypeOK, Unclaimed
<1>2. CASE Refuse(d)
  BY <1>1, <1>2, Refuses
<1>3. CASE record.status = "completed" /\ Step(d, "review", [NoMemory EXCEPT !.mine = record])
  <2>1. [NoMemory EXCEPT !.mine = record] \in Memories
        /\ [NoMemory EXCEPT !.mine = record].mine = record
    BY <1>1, Blank DEF Memories
  <2> QED BY <1>1, <1>3, <2>1, Learns
<1>4. CASE Step(d, "eligible", [NoMemory EXCEPT !.expected = mem[d].expected])
  <2>1. [NoMemory EXCEPT !.expected = mem[d].expected] \in Memories
    BY <1>1, Blank DEF Memories
  <2> QED BY <1>1, <1>4, <2>1, Begins
<1> QED BY <1>2, <1>3, <1>4 DEF Lookup

LEMMA IsEligible ==
  ASSUME IInv, NEW d \in Deliveries, Eligible(d)
  PROVE  IInv'
<1> DEFINE m == [mem[d] EXCEPT !.policy = control.policy]
<1>1. TypeOK /\ "claim" \in Labels /\ UNCHANGED <<claiming, reviewing, asked>>
  BY DEF Eligible, IInv, Labels
<1>2. CASE Refuse(d)
  BY <1>1, <1>2, Refuses
<1>3. CASE control.policy # NoPolicy /\ Step(d, "claim", m)
  <2>1. m \in Memories /\ m.policy = control.policy
    BY <1>1 DEF TypeOK, Memories, Controls
  <2>2. control.policy \in 1..control.version
    <3>1. control.policy \in 0..control.version /\ control.version \in Nat
    BY <1>1 DEF IInv, Active, TypeOK, Controls
  <3> QED BY <1>3, <3>1 DEF NoPolicy
  <2> HIDE DEF m
  <2>3. pc'[d] = "claim" /\ mem'[d] = m
    BY <1>1, <1>3, <2>1, StepFacts
  <2>4. Fact(d)'
    BY <1>1, <2>1, <2>2, <2>3 DEF Fact, Attended, Prompted, Rivalled, Settled, Based, Saved,
       Told, Working, Informed, reviewing
  <2> QED BY <1>1, <1>3, <2>1, <2>4, Moves DEF Eligible, Unclaimed
<1> QED BY <1>2, <1>3 DEF Eligible

LEMMA FindsClaim ==
  ASSUME IInv, NEW d \in Deliveries, ClaimFound(d)
  PROVE  IInv'
<1> DEFINE m == [mem[d] EXCEPT !.rival = record.owner]
<1>1. TypeOK /\ "takeover" \in Labels /\ record \in Records /\ mem[d] \in Memories
      /\ UNCHANGED <<claiming, reviewing, asked>>
  BY DEF ClaimFound, IInv, Labels, TypeOK
<1>2. CASE Refuse(d)
  BY <1>1, <1>2, Refuses
<1>3. CASE record.status = "completed" /\ Step(d, "review", [NoMemory EXCEPT !.mine = record])
  <2>1. [NoMemory EXCEPT !.mine = record] \in Memories
        /\ [NoMemory EXCEPT !.mine = record].mine = record
    BY <1>1, Blank DEF Memories
  <2> QED BY <1>1, <1>3, <2>1, Learns
<1>4. CASE record.status = "running" /\ lapsed /\ Step(d, "takeover", m)
  <2>1. m \in Memories /\ m.rival = record.owner /\ m.policy = mem[d].policy
    BY <1>1 DEF Memories, Records
  <2>2. mem[d].policy \in 1..control.version
    BY DEF IInv, Fact, Prompted, ClaimFound
  <2>3. record.owner \in Deliveries /\ pc[record.owner] \notin Unclaimed
    BY <1>4 DEF IInv, Owned
  <2>4. d # record.owner
    BY <2>3 DEF ClaimFound, Unclaimed
  <2> HIDE DEF m
  <2>5. pc'[d] = "takeover" /\ mem'[d] = m /\ pc'[record.owner] = pc[record.owner]
    BY <1>1, <1>4, <2>1, <2>3, <2>4, StepFacts
  <2>6. Fact(d)'
    BY <1>1, <1>4, <2>1, <2>2, <2>3, <2>5 DEF Fact, Attended, Prompted, Rivalled, Settled,
       Based, Saved, Told, Working, Informed, Running, claiming, reviewing
  <2> QED BY <1>1, <1>4, <2>1, <2>6, Moves DEF ClaimFound, Unclaimed
<1> QED BY <1>2, <1>3, <1>4 DEF ClaimFound, Expired

\* A refused delivery, whatever else its last step changed.
LEMMA Refusal ==
  ASSUME TypeOK, NEW d \in Deliveries, Refuse(d)
  PROVE  /\ pc' \in [Deliveries -> Labels] /\ pc'[d] = "refused"
         /\ mem' \in [Deliveries -> Memories]
         /\ \A e \in Deliveries \ {d} : pc'[e] = pc[e] /\ mem'[e] = mem[e]
         /\ Fact(d)'
<1>1. "refused" \in Labels
  BY DEF Labels, Ended
<1>2. /\ pc' \in [Deliveries -> Labels] /\ pc'[d] = "refused"
      /\ mem' \in [Deliveries -> Memories]
      /\ \A e \in Deliveries \ {d} : pc'[e] = pc[e] /\ mem'[e] = mem[e]
  BY <1>1, Blank, StepFacts DEF Refuse
<1>3. Fact(d)'
  BY <1>2 DEF Fact, Attended, Prompted, Rivalled, Settled, Based, Saved, Told, Working, Informed
<1> QED BY <1>2, <1>3

\* What a claim does to the deliveries that it does not move.
LEMMA ClaimedElsewhere ==
  ASSUME IInv, NEW d \in Deliveries, NEW e \in Deliveries, e # d,
         pc[d] \in Unclaimed, pc'[d] \notin Unclaimed, pc'[d] # "commit",
         \A f \in Deliveries \ {d} : pc'[f] = pc[f] /\ mem'[f] = mem[f],
         UNCHANGED reviewing,
         record.status \in {"none", "running"}, record'.status = "running", record'.owner = d
  PROVE  Fact(e)'
<1>1. Fact(e) /\ pc'[e] = pc[e] /\ mem'[e] = mem[e]
  BY DEF IInv
<1>2. Attended(e)' /\ Prompted(e)' /\ Settled(e)' /\ Based(e)' /\ Told(e)'
  BY <1>1 DEF Fact, Attended, Prompted, Settled, Based, Told, reviewing
<1>3. Rivalled(e)'
  BY <1>1 DEF Fact, Rivalled, Running
<1>4. Saved(e)'
  BY <1>1 DEF Fact, Saved, IsPublished, reviewing
<1> QED BY <1>2, <1>3, <1>4 DEF Fact

LEMMA ClaimsFresh ==
  ASSUME IInv, NEW d \in Deliveries, ClaimFresh(d)
  PROVE  IInv'
<1> DEFINE r == [status |-> "running", owner |-> d, policy |-> mem[d].policy,
                 answer |-> NoDelivery]
           m == [mem[d] EXCEPT !.mine = r]
<1>1. TypeOK /\ "prompt" \in Labels /\ mem[d] \in Memories /\ control.version \in Nat
  BY DEF IInv, Labels, TypeOK, Controls
<1>2. record' = r /\ UNCHANGED <<lapsed, expiries, reviewing, asked>> /\ record.status = "none"
      /\ pc[d] = "claim"
  BY DEF ClaimFresh
<1>3. mem[d].policy \in 1..control.version
  BY <1>2 DEF IInv, Fact, Prompted
<1>4. r \in Records
  BY <1>1, <1>3 DEF Records, Statuses
<1>5. m \in Memories /\ m.mine = r /\ m.policy = mem[d].policy
  BY <1>1, <1>4 DEF Memories
<1>6. r.status = "running" /\ r.owner = d /\ r.policy = mem[d].policy /\ r.answer = NoDelivery
  OBVIOUS
<1>7. Step(d, "prompt", m) \/ Refuse(d)
  BY <1>2 DEF ClaimFresh
<1> HIDE DEF r, m
<1>8. /\ pc' \in [Deliveries -> Labels] /\ mem' \in [Deliveries -> Memories]
      /\ \A e \in Deliveries \ {d} : pc'[e] = pc[e] /\ mem'[e] = mem[e]
      /\ (pc'[d] = "prompt" /\ mem'[d] = m) \/ (pc'[d] = "refused" /\ Fact(d)')
  BY <1>1, <1>5, <1>7, StepFacts, Refusal
<1>9. TypeOK'
  BY <1>1, <1>2, <1>4, <1>8 DEF TypeOK, reviewing
<1>10. Owned' /\ Active' /\ Kept'
  BY <1>2, <1>3, <1>6, <1>8 DEF IInv, Owned, Active, Kept, reviewing, Unclaimed
<1>11. Counted'
  <2>1. Callers' \subseteq Callers \cup {d}
    BY <1>2, <1>8 DEF Callers
  <2>2. Allowed = 0 /\ Allowed' = 1 + expiries /\ expiries \in Nat
    BY <1>1, <1>2, <1>6 DEF IInv, Owned, Allowed, Running, TypeOK
  <2> QED BY <1>1, <1>9, <2>1, <2>2, CountGrows DEF IInv
<1>12. Fact(d)'
  BY <1>2, <1>3, <1>5, <1>6, <1>8 DEF Fact, Attended, Prompted, Rivalled, Settled, Based,
     Saved, Told, Working, Informed, reviewing
<1>13. ASSUME NEW e \in Deliveries PROVE Fact(e)'
  <2>1. pc[d] \in Unclaimed /\ pc'[d] \notin Unclaimed /\ pc'[d] # "commit"
    BY <1>2, <1>8 DEF Unclaimed
  <2> QED BY <1>2, <1>6, <1>8, <1>12, <2>1, ClaimedElsewhere
<1> QED BY <1>9, <1>10, <1>11, <1>13 DEF IInv

LEMMA TakesOver ==
  ASSUME IInv, NEW d \in Deliveries, TakeOver(d)
  PROVE  IInv'
<1> DEFINE r == [record EXCEPT !.status = "running", !.owner = d]
           m == [mem[d] EXCEPT !.mine = r]
<1>1. TypeOK /\ "prompt" \in Labels /\ mem[d] \in Memories /\ record \in Records
  BY DEF IInv, Labels, TypeOK
<1>2. /\ record' = r /\ lapsed' = FALSE /\ UNCHANGED <<expiries, reviewing, asked>>
      /\ pc[d] = "takeover" /\ record.status = "running" /\ record.owner = mem[d].rival
  BY DEF TakeOver, Takeable
<1>3. lapsed /\ mem[d].policy \in 1..control.version /\ record.policy \in 1..control.version
      /\ record.answer = NoDelivery
  BY <1>2 DEF IInv, Fact, Prompted, Rivalled, Running, Owned
<1>4. r \in Records
  BY <1>1 DEF Records, Statuses
<1>5. m \in Memories /\ m.mine = r /\ m.policy = mem[d].policy
  BY <1>1, <1>4 DEF Memories
<1>6. r.status = "running" /\ r.owner = d /\ r.policy = record.policy /\ r.answer = NoDelivery
  BY <1>1, <1>3 DEF Records
<1>7. Step(d, "prompt", m) \/ Refuse(d)
  BY <1>2 DEF TakeOver
<1> HIDE DEF r, m
<1>8. /\ pc' \in [Deliveries -> Labels] /\ mem' \in [Deliveries -> Memories]
      /\ \A e \in Deliveries \ {d} : pc'[e] = pc[e] /\ mem'[e] = mem[e]
      /\ (pc'[d] = "prompt" /\ mem'[d] = m) \/ (pc'[d] = "refused" /\ Fact(d)')
  BY <1>1, <1>5, <1>7, StepFacts, Refusal
<1>9. TypeOK'
  BY <1>1, <1>2, <1>4, <1>8 DEF TypeOK, reviewing
<1>10. Owned' /\ Active' /\ Kept'
  BY <1>2, <1>3, <1>6, <1>8 DEF IInv, Owned, Active, Kept, reviewing, Unclaimed
<1>11. Counted'
  <2>1. Callers' \subseteq Callers \cup {d}
    BY <1>2, <1>8 DEF Callers
  <2>2. Allowed = expiries /\ Allowed' = 1 + expiries /\ expiries \in Nat
    BY <1>1, <1>2, <1>3, <1>6 DEF Allowed, Running, TypeOK
  <2> QED BY <1>1, <1>9, <2>1, <2>2, CountGrows DEF IInv
<1>12. Fact(d)'
  BY <1>2, <1>3, <1>5, <1>6, <1>8 DEF Fact, Attended, Prompted, Rivalled, Settled, Based,
     Saved, Told, Working, Informed, reviewing
<1>13. ASSUME NEW e \in Deliveries PROVE Fact(e)'
  <2>1. pc[d] \in Unclaimed /\ pc'[d] \notin Unclaimed /\ pc'[d] # "commit"
    BY <1>2, <1>8 DEF Unclaimed
  <2> QED BY <1>2, <1>6, <1>8, <1>12, <2>1, ClaimedElsewhere
<1> QED BY <1>9, <1>10, <1>11, <1>13 DEF IInv

\* Between the claim and the end of the call a delivery is on its own.
LEMMA Works ==
  ASSUME IInv, NEW d \in Deliveries, pc[d] \in Working,
         NEW label \in Working \ {"prompt"}, NEW m \in Memories, m.mine = mem[d].mine,
         Step(d, label, m), UNCHANGED <<claiming, reviewing, asked>>
  PROVE  IInv'
<1>1. TypeOK /\ label \in Labels
  BY DEF IInv, Labels, Working
<1>2. pc'[d] = label /\ mem'[d] = m
  BY <1>1, StepFacts
<1>3. Attended(d)'
  BY <1>2 DEF IInv, Fact, Attended, claiming, reviewing
<1>4. Fact(d)'
  BY <1>2, <1>3 DEF Fact, Prompted, Rivalled, Settled, Based, Saved, Told, Working, Informed
<1> QED BY <1>1, <1>4, Moves DEF Working, Unclaimed

LEMMA HasNoAgent ==
  ASSUME IInv, NEW d \in Deliveries, NoAgent(d)
  PROVE  IInv'
<1> DEFINE m == [mem[d] EXCEPT !.policy = NoPolicy, !.rival = NoDelivery]
<1>1. m \in Memories /\ m.mine = mem[d].mine
  BY DEF IInv, TypeOK, Memories, NoPolicy
<1> HIDE DEF m
<1>2. Step(d, "fail", m) /\ pc[d] \in Working /\ UNCHANGED <<claiming, reviewing, asked>>
  BY DEF NoAgent, m, Working
<1>3. "fail" \in Working \ {"prompt"}
  BY DEF Working
<1> QED BY <1>1, <1>2, <1>3, Works

LEMMA Returns ==
  ASSUME IInv, NEW d \in Deliveries, Return(d)
  PROVE  IInv'
<1>1. mem[d] \in Memories /\ pc[d] \in Working /\ {"finish", "fail"} \subseteq Working \ {"prompt"}
  BY DEF IInv, TypeOK, Return, Working
<1> QED BY <1>1, Works DEF Return, Goto

LEMMA Calls ==
  ASSUME IInv, NEW d \in Deliveries, Call(d)
  PROVE  IInv'
<1> DEFINE m == [mem[d] EXCEPT !.policy = NoPolicy, !.rival = NoDelivery]
<1>1. TypeOK /\ "call" \in Labels /\ mem[d].policy \in Nat
  BY DEF IInv, Labels, TypeOK, Memories
<1>2. m \in Memories /\ m.mine = mem[d].mine
  BY DEF IInv, TypeOK, Memories, NoPolicy
<1> HIDE DEF m
<1>3. /\ Step(d, "call", m) /\ pc[d] = "prompt" /\ UNCHANGED <<claiming, reviewing>>
      /\ asked' = [asked EXCEPT ![d] = mem[d].policy]
  BY DEF Call, m
<1>4. /\ pc' \in [Deliveries -> Labels] /\ mem' \in [Deliveries -> Memories]
      /\ pc'[d] = "call" /\ mem'[d] = m
      /\ \A e \in Deliveries \ {d} : pc'[e] = pc[e] /\ mem'[e] = mem[e]
  BY <1>1, <1>2, <1>3, StepFacts
<1>5. TypeOK'
  BY <1>1, <1>3, <1>4 DEF TypeOK, claiming, reviewing
<1>6. Owned' /\ Active' /\ Kept'
  BY <1>3, <1>4 DEF IInv, Owned, Active, Kept, claiming, reviewing, Unclaimed
<1>7. Counted'
  <2>1. Callers' \subseteq Callers
    BY <1>1, <1>3, <1>4 DEF Callers, TypeOK
  <2>2. Allowed' = Allowed
    BY <1>3 DEF Allowed, Running, claiming
  <2>3. Allowed \in Nat
    BY <1>1, AllowedIsNatural
  <2> QED BY <1>1, <1>5, <2>1, <2>2, <2>3, CountStays DEF IInv
<1>8. Fact(d)'
  <2>1. Attended(d)'
    BY <1>2, <1>3, <1>4 DEF IInv, Fact, Attended, claiming, reviewing, Working
  <2> QED BY <1>4, <2>1 DEF Fact, Prompted, Rivalled, Settled, Based, Saved, Told, Informed
<1>9. ASSUME NEW e \in Deliveries, e # d PROVE Fact(e)'
  <2>1. pc'[e] = pc[e] /\ mem'[e] = mem[e] /\ Fact(e)
    BY <1>4, <1>9 DEF IInv
  <2>2. Attended(e)' /\ Prompted(e)' /\ Settled(e)' /\ Based(e)' /\ Told(e)'
    BY <1>3, <2>1 DEF Fact, Attended, Prompted, Settled, Based, Told, claiming, reviewing
  <2>3. Rivalled(e)'
    BY <1>3, <1>4, <2>1 DEF Fact, Rivalled, Running, claiming, Unclaimed
  <2>4. Saved(e)'
    BY <1>3, <1>4, <2>1 DEF Fact, Saved, IsPublished, reviewing
  <2> QED BY <2>2, <2>3, <2>4 DEF Fact
<1> QED BY <1>5, <1>6, <1>7, <1>8, <1>9 DEF IInv

\* A claim that is settled by its owner.
LEMMA Settles ==
  ASSUME IInv, NEW d \in Deliveries, pc[d] \in Working, Holds(d),
         NEW r \in Records, record' = r, r.status \in {"completed", "failed"}, r.owner = d,
         r.policy = mem[d].mine.policy,
         r.answer = IF r.status = "completed" THEN d ELSE NoDelivery,
         UNCHANGED <<lapsed, expiries, reviewing, asked>>,
         pc' \in [Deliveries -> Labels], mem' \in [Deliveries -> Memories],
         \A e \in Deliveries \ {d} : pc'[e] = pc[e] /\ mem'[e] = mem[e],
         pc'[d] \notin Unclaimed \cup {"prompt", "commit"}, Fact(d)'
  PROVE  IInv'
<1>1. TypeOK /\ TypeOK' /\ mem[d].mine.policy \in 1..control.version
  BY DEF IInv, TypeOK, reviewing, Fact, Attended
<1>2. Owned' /\ Active' /\ Kept'
  BY <1>1 DEF IInv, Owned, Active, Kept, reviewing
<1>3. Counted'
  <2>1. Callers' \subseteq Callers
    BY DEF Callers
  <2>2. Allowed \in {expiries, 1 + expiries} /\ Allowed' = 1 + expiries /\ expiries \in Nat
    BY <1>1 DEF Allowed, Running, TypeOK, Holds
  <2> QED BY <1>1, <2>1, <2>2, CountStays DEF IInv
<1>4. ASSUME NEW e \in Deliveries, e # d PROVE Fact(e)'
  <2>1. pc'[e] = pc[e] /\ mem'[e] = mem[e] /\ Fact(e)
    BY <1>4 DEF IInv
  <2>2. Attended(e)' /\ Prompted(e)' /\ Based(e)' /\ Told(e)'
    BY <1>4, <2>1 DEF Fact, Attended, Prompted, Based, Told, reviewing
  <2>3. Settled(e)'
    BY <2>1 DEF Fact, Settled, Holds
  <2>4. Rivalled(e)'
    BY <2>1 DEF Fact, Rivalled, Running, Unclaimed
  <2>5. Saved(e)'
    BY <2>1 DEF Fact, Saved, IsPublished, reviewing
  <2> QED BY <2>2, <2>3, <2>4, <2>5 DEF Fact
<1> QED BY <1>1, <1>2, <1>3, <1>4 DEF IInv

LEMMA Finishes ==
  ASSUME IInv, NEW d \in Deliveries, Finish(d)
  PROVE  IInv'
<1> DEFINE r == [mem[d].mine EXCEPT !.status = "completed", !.answer = d]
           m == [mem[d] EXCEPT !.mine = r]
<1>1. TypeOK /\ "publish" \in Labels /\ mem[d] \in Memories /\ mem[d].mine \in Records
  BY DEF IInv, Labels, TypeOK, Memories
<1>2. /\ pc[d] \in Working /\ Holds(d) /\ record' = r
      /\ UNCHANGED <<lapsed, expiries, reviewing, asked>>
      /\ Step(d, "publish", m) \/ Refuse(d)
  BY DEF Finish, Working
<1>3. mem[d].mine.owner = d
  BY <1>2 DEF IInv, Fact, Attended
<1>4. /\ r \in Records /\ r.status = "completed" /\ r.owner = d /\ r.answer = d
      /\ r.policy = mem[d].mine.policy
  BY <1>1, <1>3 DEF Records, Statuses
<1>5. m \in Memories /\ m.mine = r
  BY <1>1, <1>4 DEF Memories
<1> HIDE DEF r, m
<1>6. /\ pc' \in [Deliveries -> Labels] /\ mem' \in [Deliveries -> Memories]
      /\ \A e \in Deliveries \ {d} : pc'[e] = pc[e] /\ mem'[e] = mem[e]
      /\ (pc'[d] = "publish" /\ mem'[d] = m) \/ (pc'[d] = "refused" /\ Fact(d)')
  BY <1>1, <1>2, <1>5, StepFacts, Refusal
<1>7. Fact(d)'
  BY <1>2, <1>4, <1>5, <1>6 DEF Fact, Attended, Prompted, Rivalled, Settled, Based, Saved,
     Told, Working, Informed
<1>8. pc'[d] \notin Unclaimed \cup {"prompt", "commit"}
  BY <1>6 DEF Unclaimed
<1> QED BY <1>2, <1>4, <1>6, <1>7, <1>8, Settles

LEMMA RecordsFailure ==
  ASSUME IInv, NEW d \in Deliveries, RecordFailure(d)
  PROVE  IInv'
<1> DEFINE r == [mem[d].mine EXCEPT !.status = "failed"]
<1>1. TypeOK /\ mem[d].mine \in Records
  BY DEF IInv, TypeOK, Memories
<1>2. /\ pc[d] \in Working /\ Holds(d) /\ record' = r /\ Refuse(d)
      /\ UNCHANGED <<lapsed, expiries, reviewing, asked>>
  BY DEF RecordFailure, Working
<1>3. mem[d].mine.owner = d /\ mem[d].mine.answer = NoDelivery
  BY <1>2 DEF IInv, Fact, Attended
<1>4. /\ r \in Records /\ r.status = "failed" /\ r.owner = d /\ r.answer = NoDelivery
      /\ r.policy = mem[d].mine.policy
  BY <1>1, <1>3 DEF Records, Statuses
<1> HIDE DEF r
<1>5. pc'[d] = "refused" /\ pc'[d] \notin Unclaimed \cup {"prompt", "commit"}
  BY <1>1, <1>2, Refusal DEF Unclaimed
<1> QED BY <1>1, <1>2, <1>4, <1>5, Refusal, Settles

LEMMA Fetches ==
  ASSUME IInv, NEW d \in Deliveries, Fetch(d)
  PROVE  IInv'
<1> DEFINE m == [mem[d] EXCEPT !.mine = record]
<1>1. m \in Memories /\ m.mine = record
  BY DEF IInv, TypeOK, Memories
<1> HIDE DEF m
<1>2. UNCHANGED <<claiming, reviewing, asked>>
  BY DEF Fetch
<1>3. (record.status = "completed" /\ Step(d, "publish", m)) \/ Refuse(d)
  BY DEF Fetch, m
<1> QED BY <1>1, <1>2, <1>3, Learns, Refuses

LEMMA Publishes ==
  ASSUME IInv, NEW d \in Deliveries, Publish(d)
  PROVE  IInv'
<1> DEFINE m == [mem[d] EXCEPT !.existing = batches[mem[d].name]]
<1>1. TypeOK /\ "base" \in Labels /\ pc[d] \in Informed /\ mem[d].name \in Names
      /\ pc[d] = "publish" /\ UNCHANGED <<claiming, reviewing, asked>>
  BY DEF IInv, Labels, Publish, Informed, TypeOK, Memories
<1>2. CASE Respond(d, mem[d].mine, FALSE)
  BY <1>1, <1>2, Responds
<1>3. CASE Step(d, "base", m)
  <2>1. m \in Memories /\ m.mine = mem[d].mine
    BY <1>1 DEF TypeOK, Memories
  <2> HIDE DEF m
  <2>2. pc'[d] = "base" /\ mem'[d] = m
    BY <1>1, <1>3, <2>1, StepFacts
  <2>3. Fact(d)'
    BY <1>1, <2>1, <2>2 DEF IInv, Fact, Attended, Prompted, Rivalled, Settled, Based, Saved,
       Told, Working, Informed, claiming
  <2> QED BY <1>1, <1>3, <2>1, <2>3, Moves DEF Unclaimed
<1> QED BY <1>2, <1>3 DEF Publish

LEMMA Bases ==
  ASSUME IInv, NEW d \in Deliveries, Base(d)
  PROVE  IInv'
<1> DEFINE m == [mem[d] EXCEPT !.seen = control]
           replayed == mem[d].existing.expected = mem[d].expected /\ IsPublished(mem[d].name)
<1>1. TypeOK /\ "evaluate" \in Labels /\ pc[d] \in Informed /\ pc[d] = "base"
      /\ UNCHANGED <<claiming, reviewing, asked>>
  BY DEF IInv, Labels, Base, Informed
<1>2. CASE Respond(d, mem[d].mine, FALSE)
  BY <1>1, <1>2, Responds
<1>3. CASE Respond(d, mem[d].mine, replayed)
  <2>1. replayed \in BOOLEAN /\ (replayed => published # <<>>)
    <3>1. published \in Seq(Names)
      BY <1>1 DEF TypeOK
    <3> QED BY <3>1 DEF IsPublished
  <2> HIDE DEF replayed
  <2> QED BY <1>1, <1>3, <2>1, Responds
<1>4. CASE mem[d].expected = control.version /\ Step(d, "evaluate", m)
  <2>1. m \in Memories /\ m.mine = mem[d].mine /\ m.seen = control /\ m.expected = mem[d].expected
        /\ control.version \in Nat
    BY <1>1 DEF TypeOK, Memories, Controls
  <2> HIDE DEF m
  <2>2. pc'[d] = "evaluate" /\ mem'[d] = m
    BY <1>1, <1>4, <2>1, StepFacts
  <2>3. Fact(d)'
    BY <1>1, <1>4, <2>1, <2>2 DEF IInv, Fact, Attended, Prompted, Rivalled, Settled, Based,
       Saved, Told, Working, Informed, claiming, reviewing
  <2> QED BY <1>1, <1>4, <2>1, <2>3, Moves DEF Unclaimed
<1> QED BY <1>2, <1>3, <1>4 DEF Base

\* What is known of a completed decision.
LEMMA Answered ==
  ASSUME IInv, NEW d \in Deliveries, pc[d] \in Informed
  PROVE  /\ record.status = "completed" /\ mem[d].mine = record
         /\ record.answer \in Deliveries /\ record.answer # NoDelivery
         /\ record.policy \in 1..control.version
BY DeliveriesAssumption DEF IInv, Fact, Settled, Owned

LEMMA Prepares ==
  ASSUME IInv, NEW d \in Deliveries, Prepare(d)
  PROVE  IInv'
<1>1. TypeOK /\ "commit" \in Labels /\ pc[d] \in Informed /\ pc[d] = "evaluate"
      /\ UNCHANGED <<claiming, control, published, asked>>
      /\ mem[d] \in Memories /\ mem[d].name \in Names
  BY DEF IInv, Labels, Prepare, Informed, TypeOK, Memories
<1>2. CASE Respond(d, mem[d].mine, FALSE) /\ UNCHANGED batches
  BY <1>1, <1>2, Responds DEF reviewing
<1>3. CASE batches[mem[d].name] = NoBatch /\ ~(Respond(d, mem[d].mine, FALSE) /\ UNCHANGED batches)
  <2> DEFINE name == mem[d].name
  <2>1. PICK ready \in Gates(mem[d]) :
          batches' = [batches EXCEPT ![name] =
            [answer |-> mem[d].mine.answer, expected |-> mem[d].expected, ready |-> ready]]
    BY <1>3 DEF Prepare
  <2>2. ready \in BOOLEAN /\ (ready => mem[d].mine.policy = mem[d].seen.policy)
    BY DEF Gates
  <2>3. [answer |-> mem[d].mine.answer, expected |-> mem[d].expected, ready |-> ready] \in Batches
    BY <1>1, <2>2 DEF Memories, Records, Batches
  <2>4. /\ batches' \in [Names -> Batches]
        /\ batches'[name] =
             [answer |-> mem[d].mine.answer, expected |-> mem[d].expected, ready |-> ready]
        /\ \A other \in Names \ {name} : batches'[other] = batches[other]
    BY <1>1, <2>1, <2>3 DEF TypeOK
  <2>5. Step(d, "commit", mem[d]) \/ Refuse(d)
    BY <1>3 DEF Prepare, Goto
  <2>6. /\ pc' \in [Deliveries -> Labels] /\ mem' \in [Deliveries -> Memories]
        /\ \A e \in Deliveries \ {d} : pc'[e] = pc[e] /\ mem'[e] = mem[e]
        /\ (pc'[d] = "commit" /\ mem'[d] = mem[d]) \/ (pc'[d] = "refused" /\ Fact(d)')
    BY <1>1, <2>5, StepFacts, Refusal
  <2>7. TypeOK'
    BY <1>1, <2>4, <2>6 DEF TypeOK, claiming
  <2>8. Kept'
    <3>1. \A i \in DOMAIN published : published[i] \in Names
      BY <1>1 DEF TypeOK
    <3> QED BY <1>1, <1>3, <2>4, <3>1 DEF IInv, Kept
  <2>9. Owned' /\ Active'
    BY <1>1, <2>6 DEF IInv, Owned, Active, claiming, Unclaimed
  <2>10. Counted'
    <3>1. Callers' \subseteq Callers
      BY <1>1, <2>6 DEF Callers
    <3>2. Allowed' = Allowed
      BY <1>1 DEF Allowed, Running, claiming
    <3> QED BY <1>1, <2>7, <3>1, <3>2, AllowedIsNatural, CountStays DEF IInv
  <2>11. ~IsPublished(name)
    BY <1>3 DEF IInv, Kept, IsPublished
  <2>12. \A e \in Deliveries : pc[e] = "commit" => mem[e].name # name
    <3> SUFFICES ASSUME NEW e \in Deliveries, pc[e] = "commit" PROVE mem[e].name # name
      OBVIOUS
    <3>1. batches[mem[e].name].answer = record.answer /\ record.answer # NoDelivery
      BY Answered DEF IInv, Fact, Saved, Informed
    <3> QED BY <1>3, <3>1 DEF NoBatch
  <2>13. Fact(d)'
    <3>1. CASE pc'[d] = "commit" /\ mem'[d] = mem[d]
      <4>1. Settled(d)' /\ Based(d)'
        BY <1>1, <3>1 DEF IInv, Fact, Settled, Based, Informed, claiming
      <4>2. Saved(d)'
        BY <1>1, <2>2, <2>4, <2>6, <2>11, <2>12, <3>1 DEF Saved, IsPublished
      <4> QED BY <3>1, <4>1, <4>2 DEF Fact, Attended, Prompted, Rivalled, Told, Working
    <3> QED BY <2>6, <3>1
  <2>14. ASSUME NEW e \in Deliveries, e # d PROVE Fact(e)'
    <3>1. pc'[e] = pc[e] /\ mem'[e] = mem[e] /\ Fact(e) /\ mem[e].name \in Names
      BY <1>1, <2>6, <2>14 DEF IInv, TypeOK, Memories
    <3>2. Attended(e)' /\ Prompted(e)' /\ Settled(e)' /\ Based(e)' /\ Told(e)'
      BY <1>1, <3>1 DEF Fact, Attended, Prompted, Settled, Based, Told, claiming
    <3>3. Rivalled(e)'
      BY <1>1, <2>6, <3>1 DEF Fact, Rivalled, Running, claiming, Unclaimed
    <3>4. Saved(e)'
      <4> SUFFICES ASSUME pc[e] = "commit" PROVE Saved(e)'
        BY <3>1 DEF Saved
      <4>1. mem[e].name # name /\ Saved(e)
        BY <2>12, <3>1 DEF Fact
      <4>2. batches'[mem[e].name] = batches[mem[e].name] /\ published' = published
        BY <1>1, <2>4, <3>1, <4>1
      <4>3. \A f \in Deliveries \ {e} : pc'[f] = "commit" => mem'[f].name # mem[e].name
        BY <2>6, <2>14, <4>1 DEF Saved
      <4> QED BY <3>1, <4>1, <4>2, <4>3 DEF Saved, IsPublished
    <3> QED BY <3>2, <3>3, <3>4 DEF Fact
  <2> QED BY <2>7, <2>8, <2>9, <2>10, <2>13, <2>14 DEF IInv
<1> QED BY <1>2, <1>3 DEF Prepare

\* The published names once a delivery commits.
LEMMA Appended ==
  ASSUME TypeOK, NEW name \in Names, published' = Append(published, name)
  PROVE  /\ published' \in Seq(Names) /\ published' # <<>>
         /\ DOMAIN published' = DOMAIN published \cup {Len(published) + 1}
         /\ \A i \in DOMAIN published : published'[i] = published[i]
         /\ published'[Len(published) + 1] = name
         /\ Len(published) + 1 \notin DOMAIN published
<1>1. published \in Seq(Names) /\ Len(published) \in Nat /\ DOMAIN published = 1..Len(published)
  BY DEF TypeOK
<1>2. /\ published' \in Seq(Names) /\ Len(published') = Len(published) + 1
      /\ DOMAIN published' = 1..(Len(published) + 1)
      /\ \A i \in 1..Len(published) : published'[i] = published[i]
      /\ published'[Len(published) + 1] = name
  BY <1>1
<1>3. published' # <<>>
  BY <1>1, <1>2
<1>4. 1..(Len(published) + 1) = (1..Len(published)) \cup {Len(published) + 1}
      /\ Len(published) + 1 \notin 1..Len(published)
  BY <1>1
<1> QED BY <1>1, <1>2, <1>3, <1>4

LEMMA Commits ==
  ASSUME IInv, NEW d \in Deliveries, Commit(d)
  PROVE  IInv'
<1> DEFINE name == mem[d].name
           m == [NoMemory EXCEPT !.answer = mem[d].mine.answer, !.review = TRUE,
                                 !.mine = mem[d].mine]
<1>1. TypeOK /\ "answered" \in Labels /\ pc[d] = "commit" /\ name \in Names
      /\ mem[d].mine \in Records /\ control.version \in Nat /\ control.policy \in Nat
  BY DEF IInv, Labels, Ended, Commit, TypeOK, Memories, Controls
<1>2. /\ control' = [control EXCEPT !.version = @ + 1] /\ published' = Append(published, name)
      /\ UNCHANGED <<claiming, batches, asked>>
      /\ Step(d, "answered", m) \/ Refuse(d)
  BY DEF Commit, Respond
<1>3. m \in Memories /\ m.mine = mem[d].mine
  BY <1>1, Views
<1> HIDE DEF m
<1>4. /\ pc' \in [Deliveries -> Labels] /\ mem' \in [Deliveries -> Memories]
      /\ \A e \in Deliveries \ {d} : pc'[e] = pc[e] /\ mem'[e] = mem[e]
      /\ (pc'[d] = "answered" /\ mem'[d] = m) \/ (pc'[d] = "refused" /\ Fact(d)')
  BY <1>1, <1>2, <1>3, StepFacts, Refusal
<1>5. control'.version = control.version + 1 /\ control'.policy = control.policy
      /\ control' \in Controls
  <2>1. control \in [version : Nat, policy : Nat]
    BY <1>1 DEF TypeOK, Controls
  <2>2. control.version + 1 \in Nat
    BY <1>1
  <2> QED BY <1>2, <2>1, <2>2 DEF Controls
<1>6. /\ published' \in Seq(Names) /\ published' # <<>>
      /\ DOMAIN published' = DOMAIN published \cup {Len(published) + 1}
      /\ \A i \in DOMAIN published : published'[i] = published[i]
      /\ published'[Len(published) + 1] = name
  BY <1>1, <1>2, Appended
<1>7. record.status = "completed" /\ mem[d].mine = record /\ record.answer # NoDelivery
  BY <1>1, Answered DEF Informed
<1>8. Saved(d)
  BY DEF IInv, Fact
<1>9. TypeOK'
  BY <1>1, <1>2, <1>4, <1>5, <1>6 DEF TypeOK, claiming
<1>10. Kept'
  <2>1. batches[name] # NoBatch
    BY <1>1, <1>7, <1>8 DEF Saved, NoBatch
  <2> QED BY <1>2, <1>6, <2>1 DEF IInv, Kept
<1>11. \A n : n \in 0..control.version => n \in 0..control'.version
  BY <1>1, <1>5
<1>12. \A n : n \in 1..control.version => n \in 1..control'.version
  BY <1>1, <1>5
<1>13. Owned' /\ Active'
  BY <1>1, <1>2, <1>4, <1>5, <1>11, <1>12 DEF IInv, Owned, Active, claiming, Unclaimed
<1>14. Counted'
  <2>1. Callers' \subseteq Callers
    BY <1>2, <1>4 DEF Callers
  <2>2. Allowed' = Allowed
    BY <1>2 DEF Allowed, Running, claiming
  <2>3. Allowed \in Nat
    BY <1>1, AllowedIsNatural
  <2> QED BY <1>1, <1>9, <2>1, <2>2, <2>3, CountStays DEF IInv
<1>15. Fact(d)'
  <2>1. CASE pc'[d] = "answered" /\ mem'[d] = m
    BY <1>2, <1>3, <1>6, <1>7, <2>1 DEF Fact, Attended, Prompted, Rivalled, Settled, Based,
       Saved, Told, Working, Informed, claiming
  <2> QED BY <1>4, <2>1
<1>16. ASSUME NEW e \in Deliveries, e # d PROVE Fact(e)'
  <2>1. pc'[e] = pc[e] /\ mem'[e] = mem[e] /\ Fact(e)
    BY <1>4, <1>16 DEF IInv
  <2>2. mem[e].seen.version \in Nat
    BY <1>1 DEF TypeOK, Memories, Controls
  <2>3. Attended(e)' /\ Prompted(e)' /\ Settled(e)'
    BY <1>2, <1>12, <2>1 DEF Fact, Attended, Prompted, Settled, claiming
  <2>4. Based(e)'
    BY <1>1, <1>5, <2>1, <2>2 DEF Fact, Based
  <2>5. Told(e)'
    BY <1>6, <2>1 DEF Told
  <2>6. Rivalled(e)'
    BY <1>1, <1>2, <1>4, <2>1 DEF Fact, Rivalled, Running, claiming, Unclaimed
  <2>7. Saved(e)'
    <3> SUFFICES ASSUME pc[e] = "commit" PROVE Saved(e)'
      BY <2>1 DEF Saved
    <3>1. Saved(e) /\ mem[e].name # name
      BY <1>1, <1>8, <1>16, <2>1 DEF Fact, Saved
    <3>2. ~IsPublished(mem[e].name)'
      BY <1>6, <2>1, <3>1 DEF Saved, IsPublished
    <3>3. \A f \in Deliveries \ {e} : pc'[f] = "commit" => mem'[f].name # mem[e].name
      BY <1>4, <3>1 DEF Saved
    <3> QED BY <1>2, <2>1, <3>1, <3>2, <3>3 DEF Saved
  <2> QED BY <2>1, <2>3, <2>4, <2>5, <2>6, <2>7 DEF Fact
<1> QED BY <1>9, <1>10, <1>13, <1>14, <1>15, <1>16 DEF IInv

\* What keeps the claim, the reviews and the calls, and moves nobody to a new place.
LEMMA Dies ==
  ASSUME IInv, Crash
  PROVE  IInv'
<1>1. /\ UNCHANGED <<claiming, reviewing, asked>>
      /\ pc' = [d \in Deliveries |-> IF InFlight(d) THEN "refused" ELSE pc[d]]
      /\ mem' = [d \in Deliveries |-> IF InFlight(d) THEN NoMemory ELSE mem[d]]
  BY DEF Crash
<1>2. TypeOK'
  BY <1>1, Blank DEF IInv, TypeOK, claiming, reviewing, Labels, Ended
<1>3. ASSUME NEW d \in Deliveries
      PROVE  (pc'[d] = pc[d] /\ mem'[d] = mem[d]) \/ pc'[d] = "refused"
  BY <1>1
<1>4. \A d \in Deliveries : pc[d] \notin Unclaimed => pc'[d] \notin Unclaimed
  BY <1>3 DEF Unclaimed
<1>5. Owned' /\ Active' /\ Kept'
  BY <1>1, <1>4 DEF IInv, Owned, Active, Kept, claiming, reviewing
<1>6. Counted'
  <2>1. Callers' \subseteq Callers
    BY <1>1, <1>3 DEF Callers
  <2>2. Allowed' = Allowed
    BY <1>1 DEF Allowed, Running, claiming
  <2>3. Allowed \in Nat
    BY AllowedIsNatural DEF IInv
  <2> QED BY <1>2, <2>1, <2>2, <2>3, CountStays DEF IInv
<1>7. ASSUME NEW d \in Deliveries PROVE Fact(d)'
  <2>1. CASE pc'[d] = "refused"
    BY <2>1 DEF Fact, Attended, Prompted, Rivalled, Settled, Based, Saved, Told, Working, Informed
  <2>2. CASE pc'[d] = pc[d] /\ mem'[d] = mem[d]
    <3>1. Fact(d)
      BY DEF IInv
    <3>2. Attended(d)' /\ Prompted(d)' /\ Settled(d)' /\ Based(d)' /\ Told(d)'
      BY <1>1, <2>2, <3>1 DEF Fact, Attended, Prompted, Settled, Based, Told, claiming, reviewing
    <3>3. Rivalled(d)'
      BY <1>1, <1>4, <2>2, <3>1 DEF Fact, Rivalled, Running, claiming
    <3>4. Saved(d)'
      BY <1>1, <1>3, <2>2, <3>1 DEF Fact, Saved, IsPublished, reviewing
    <3> QED BY <3>2, <3>3, <3>4 DEF Fact
  <2> QED BY <1>3, <2>1, <2>2
<1> QED BY <1>2, <1>5, <1>6, <1>7 DEF IInv

LEMMA Expires ==
  ASSUME IInv, LeaseExpires
  PROVE  IInv'
<1>1. /\ record.status = "running" /\ ~lapsed /\ lapsed' = TRUE /\ expiries' = expiries + 1
      /\ UNCHANGED <<record, reviewing, pc, mem, asked>>
  BY DEF LeaseExpires
<1>2. TypeOK /\ TypeOK'
  BY <1>1 DEF IInv, TypeOK, reviewing
<1>3. Owned' /\ Active' /\ Kept'
  BY <1>1 DEF IInv, Owned, Active, Kept, reviewing
<1>4. Counted'
  <2>1. Callers' = Callers
    BY <1>1 DEF Callers
  <2>2. Allowed = 1 + expiries /\ Allowed' = expiries' /\ expiries \in Nat
    BY <1>1, <1>2 DEF Allowed, Running, TypeOK
  <2> QED BY <1>1, <1>2, <2>1, <2>2, CountStays DEF IInv
<1>5. ASSUME NEW d \in Deliveries PROVE Fact(d)'
  <2>1. Fact(d)
    BY DEF IInv
  <2>2. Attended(d)' /\ Prompted(d)' /\ Rivalled(d)' /\ Settled(d)' /\ Based(d)' /\ Told(d)'
    BY <1>1, <2>1 DEF Fact, Attended, Prompted, Rivalled, Settled, Based, Told, Running, reviewing
  <2>3. Saved(d)'
    BY <1>1, <2>1 DEF Fact, Saved, IsPublished, reviewing
  <2> QED BY <2>2, <2>3 DEF Fact
<1> QED BY <1>2, <1>3, <1>4, <1>5 DEF IInv

LEMMA Changes ==
  ASSUME IInv, Change
  PROVE  IInv'
<1>1. TypeOK /\ control.version \in Nat /\ control.policy \in Nat
  BY DEF IInv, TypeOK, Controls
<1>2. /\ control'.version = control.version + 1
      /\ control'.policy \in {control.policy, control.version + 1, NoPolicy}
      /\ control' \in Controls
      /\ UNCHANGED <<claiming, batches, published, pc, mem, asked>>
  BY <1>1 DEF Change, Controls, NoPolicy
<1>3. \A n : n \in 1..control.version => n \in 1..control'.version
  BY <1>1, <1>2
<1>4. TypeOK'
  BY <1>1, <1>2 DEF TypeOK, claiming
<1>5. Active'
  BY <1>1, <1>2 DEF IInv, Active, NoPolicy
<1>6. Owned' /\ Kept'
  BY <1>2, <1>3 DEF IInv, Owned, Kept, claiming
<1>7. Counted'
  <2>1. Callers' = Callers
    BY <1>2 DEF Callers
  <2>2. Allowed' = Allowed
    BY <1>2 DEF Allowed, Running, claiming
  <2>3. Allowed \in Nat
    BY <1>1, AllowedIsNatural
  <2> QED BY <1>1, <1>4, <2>1, <2>2, <2>3, CountStays DEF IInv
<1>8. ASSUME NEW d \in Deliveries PROVE Fact(d)'
  <2>1. Fact(d) /\ mem[d].seen.version \in Nat
    BY <1>1 DEF IInv, TypeOK, Memories, Controls
  <2>2. Attended(d)' /\ Prompted(d)' /\ Rivalled(d)' /\ Settled(d)' /\ Told(d)'
    BY <1>2, <1>3, <2>1 DEF Fact, Attended, Prompted, Rivalled, Settled, Told, Running, claiming
  <2>3. Based(d)'
    BY <1>1, <1>2, <2>1 DEF Fact, Based
  <2>4. Saved(d)'
    BY <1>2, <2>1 DEF Fact, Saved, IsPublished
  <2> QED BY <2>2, <2>3, <2>4 DEF Fact
<1> QED BY <1>4, <1>5, <1>6, <1>7, <1>8 DEF IInv

LEMMA Stutters ==
  ASSUME IInv, UNCHANGED vars
  PROVE  IInv'
<1>1. UNCHANGED <<record, lapsed, control, batches, published, pc, mem, asked, expiries>>
  BY DEF vars
<1>2. TypeOK' /\ Owned' /\ Active' /\ Kept'
  BY <1>1 DEF IInv, TypeOK, Owned, Active, Kept
<1>3. Counted'
  BY <1>1 DEF IInv, Counted, Callers, Allowed, Running
<1>4. ASSUME NEW d \in Deliveries PROVE Fact(d)'
  BY <1>1 DEF IInv, Fact, Attended, Prompted, Rivalled, Settled, Based, Saved, Told, Running,
     IsPublished
<1> QED BY <1>2, <1>3, <1>4 DEF IInv

\* IInv is inductive.
LEMMA Preserves == IInv /\ [Next]_vars => IInv'
<1> SUFFICES ASSUME IInv, [Next]_vars PROVE IInv'
  OBVIOUS
<1>1. ASSUME NEW d \in Deliveries, Handle(d) PROVE IInv'
  <2>1. CASE \/ Arrive(d) \/ ReadControl(d) \/ Lookup(d) \/ Eligible(d)
             \/ ClaimFresh(d) \/ ClaimFound(d) \/ TakeOver(d)
    BY <2>1, Arrives, Reads, LooksUp, IsEligible, ClaimsFresh, FindsClaim, TakesOver
  <2>2. CASE TakeOverMisses(d) \/ Fenced(d) \/ Raise(d)
    BY <2>2, Refuses DEF TakeOverMisses, Fenced, Raise
  <2>3. CASE \/ Call(d) \/ NoAgent(d) \/ Return(d) \/ Finish(d) \/ RecordFailure(d)
             \/ Fetch(d) \/ Publish(d) \/ Base(d) \/ Prepare(d) \/ Commit(d)
    BY <2>3, Calls, HasNoAgent, Returns, Finishes, RecordsFailure, Fetches, Publishes, Bases,
       Prepares, Commits
  <2>4. CASE CommitMisses(d)
    BY <2>4, Responds DEF CommitMisses, Informed
  <2>5. CASE Review(d)
    BY <2>5, Responds DEF Review, Informed
  <2> QED BY <1>1, <2>1, <2>2, <2>3, <2>4, <2>5 DEF Handle
<1> QED BY <1>1, Dies, Expires, Changes, Stutters DEF Next

-------------------------------------------------------------------------------
(* Theorems *)

\* The strengthening that everything below rests on.
THEOREM Inductive == Spec => []IInv
BY Initially, Preserves, PTL DEF Spec

\* Records, reviews and what deliveries remember keep their types.
THEOREM TypeCorrect == Spec => []TypeOK
<1>1. IInv => TypeOK
  BY DEF IInv
<1> QED BY <1>1, Inductive, PTL

\* However many deliveries overlap, retry, crash or lose their acknowledgement, a request
\* costs one call of the model, and one more for every lease that ended before its claim
\* was settled.
THEOREM PaidCallsHold == Spec => []PaidCallsAreLeased
<1>1. IInv => PaidCallsAreLeased
  <2> SUFFICES ASSUME IInv PROVE PaidCallsAreLeased
    OBVIOUS
  <2>1. Paid \subseteq Callers
    BY DEF Paid, Callers
  <2>2. /\ IsFiniteSet(Callers) /\ Cardinality(Callers) \in Nat /\ Cardinality(Paid) \in Nat
        /\ Cardinality(Paid) =< Cardinality(Callers)
    BY <2>1, FS_Subset, FS_CardinalityType DEF IInv, Counted
  <2>3. Allowed =< 1 + expiries /\ expiries \in Nat
    BY DEF Allowed, IInv, TypeOK
  <2>4. Allowed \in Nat
    BY AllowedIsNatural DEF IInv
  <2> QED BY <2>2, <2>3, <2>4 DEF IInv, Counted, PaidCallsAreLeased
<1> QED BY <1>1, Inductive, PTL

\* A delivery whose claim was taken over settles nothing: what is stored is the answer,
\* or the failure, of the owner.
THEOREM SettledByItsOwnerHolds == Spec => SettledByItsOwner
<1> DEFINE Kind == record.status = "running" /\ record'.status # "running" =>
             /\ record'.owner = record.owner /\ record'.policy = record.policy
             /\ record'.answer = IF record'.status = "completed" THEN record.owner
                                                                 ELSE NoDelivery
<1>1. IInv /\ [Next]_vars => [Kind]_vars
  <2> SUFFICES ASSUME IInv, Next, record.status = "running", record'.status # "running"
               PROVE  Kind
    OBVIOUS
  <2>1. record' # record
    OBVIOUS
  <2>2. PICK d \in Deliveries : Handle(d)
    BY <2>1 DEF Next, Crash, LeaseExpires, Change, claiming
  <2>3. CASE ClaimFresh(d) \/ TakeOver(d)
    <3>1. record \in Records
      BY DEF IInv, TypeOK
    <3> QED BY <2>3, <3>1 DEF ClaimFresh, TakeOver, Records
  <2>4. ASSUME NEW e \in Deliveries, Holds(e), pc[e] \in {"finish", "fail"}
        PROVE  record = mem[e].mine /\ record \in Records /\ record.owner = e
               /\ record.answer = NoDelivery
    BY <2>4 DEF IInv, TypeOK, Fact, Attended, Working, Holds
  <2>5. CASE Finish(d)
    <3>1. record' = [record EXCEPT !.status = "completed", !.answer = d]
          /\ record \in Records /\ record.owner = d
      BY <2>4, <2>5 DEF Finish
    <3> QED BY <3>1 DEF Records
  <2>6. CASE RecordFailure(d)
    <3>1. record' = [record EXCEPT !.status = "failed"] /\ record \in Records
          /\ record.answer = NoDelivery
      BY <2>4, <2>6 DEF RecordFailure
    <3> QED BY <3>1 DEF Records
  <2>7. CASE UNCHANGED record
    BY <2>1, <2>7
  <2>8. CASE \/ Arrive(d) \/ ReadControl(d) \/ Lookup(d) \/ Eligible(d) \/ ClaimFound(d)
             \/ TakeOverMisses(d) \/ Call(d) \/ NoAgent(d) \/ Return(d) \/ Fenced(d)
    BY <2>7, <2>8 DEF Arrive, ReadControl, Lookup, Eligible, ClaimFound, TakeOverMisses, Call,
       NoAgent, Return, Fenced, claiming
  <2>9. CASE \/ Fetch(d) \/ Publish(d) \/ Base(d) \/ Prepare(d) \/ Commit(d)
             \/ CommitMisses(d) \/ Review(d) \/ Raise(d)
    BY <2>7, <2>9 DEF Fetch, Publish, Base, Prepare, Commit, CommitMisses, Review, Raise, claiming
  <2> QED BY <2>2, <2>3, <2>5, <2>6, <2>8, <2>9 DEF Handle
<1> QED BY <1>1, Inductive, PTL DEF Spec, SettledByItsOwner

\* Every answer shows the stored decision, and a review only once one was published.
THEOREM AnswersAgreeHold == Spec => []AnswersAgree
<1>1. IInv => AnswersAgree
  BY DEF IInv, Fact, Settled, Told, Informed, AnswersAgree
<1> QED BY <1>1, Inductive, PTL

-------------------------------------------------------------------------------
(* Refinement *)

decisionOf ==
  [status |-> record.status, policy |-> record.policy, answer |-> record.answer]

reviewOf(i) ==
  [name |-> published[i], answer |-> batches[published[i]].answer,
   expected |-> batches[published[i]].expected, ready |-> batches[published[i]].ready]

reviewsOf == {reviewOf(i) : i \in DOMAIN published}

Abstract == <<decisionOf, control, reviewsOf>>

LEMMA Idles ==
  ASSUME UNCHANGED Abstract
  PROVE  UNCHANGED Decision!vars
BY DEF Abstract, decisionOf, reviewsOf, reviewOf, Decision!vars

\* Only preparations that nobody published appear.
LEMMA ReviewsStay ==
  ASSUME IInv, NEW d \in Deliveries, Prepare(d)
  PROVE  reviewsOf' = reviewsOf
<1>1. published' = published
  BY DEF Prepare
<1>2. ASSUME NEW i \in DOMAIN published
      PROVE  batches'[published[i]] = batches[published[i]]
  <2>1. batches \in [Names -> Batches] /\ published[i] \in Names /\ batches[published[i]] # NoBatch
    BY DEF IInv, TypeOK, Kept
  <2>2. CASE batches[mem[d].name] = NoBatch
    <3>1. PICK ready \in Gates(mem[d]) :
            batches' = [batches EXCEPT ![mem[d].name] =
              [answer |-> mem[d].mine.answer, expected |-> mem[d].expected, ready |-> ready]]
      BY <2>2 DEF Prepare
    <3> QED BY <2>1, <2>2, <3>1
  <2>3. CASE batches[mem[d].name] # NoBatch
    BY <2>3 DEF Prepare
  <2> QED BY <2>2, <2>3
<1> QED BY <1>1, <1>2 DEF reviewsOf, reviewOf

\* Two fields of the view that are replaced together.
LEMMA Replaced ==
  ASSUME NEW s, NEW p, NEW a
  PROVE  /\ [decisionOf EXCEPT !.status = s, !.policy = p]
              = [status |-> s, policy |-> p, answer |-> record.answer]
         /\ [decisionOf EXCEPT !.status = s, !.answer = a]
              = [status |-> s, policy |-> record.policy, answer |-> a]
<1> DEFINE r == decisionOf
           R == [status : {record.status, s}, policy : {record.policy, p},
                 answer : {record.answer, a}]
           x == [r EXCEPT !.status = s, !.policy = p]
           y == [r EXCEPT !.status = s, !.answer = a]
<1>1. r \in R /\ r.policy = record.policy /\ r.answer = record.answer
  BY DEF decisionOf
<1>2. x \in R /\ x.status = s /\ x.policy = p /\ x.answer = record.answer
  BY <1>1
<1>3. y \in R /\ y.status = s /\ y.policy = record.policy /\ y.answer = a
  BY <1>1
<1> HIDE DEF x, y
<1>4. \A z \in R : z = [status |-> z.status, policy |-> z.policy, answer |-> z.answer]
  OBVIOUS
<1>5. x = [status |-> s, policy |-> p, answer |-> record.answer]
  BY <1>2, <1>4
<1>6. y = [status |-> s, policy |-> record.policy, answer |-> a]
  BY <1>3, <1>4
<1> QED BY <1>5, <1>6 DEF x, y

LEMMA ClaimMaps ==
  ASSUME IInv, NEW d \in Deliveries, ClaimFresh(d)
  PROVE  Decision!Claim
<1>1. record.status = "none" /\ record = NoRecord
  BY DEF IInv, Owned, ClaimFresh
<1>2. mem[d].policy \in 1..control.version
  BY DEF IInv, Fact, Prompted, ClaimFresh
<1>3. /\ record' = [status |-> "running", owner |-> d, policy |-> mem[d].policy,
                    answer |-> NoDelivery]
      /\ UNCHANGED <<control, batches, published>>
  BY DEF ClaimFresh, reviewing
<1>4. /\ record'.status = "running" /\ record'.policy = mem[d].policy
      /\ record'.answer = NoDelivery /\ record.answer = NoDelivery
  BY <1>1, <1>3 DEF NoRecord
<1>5. decisionOf' = [decisionOf EXCEPT !.status = "running", !.policy = mem[d].policy]
  <2>1. decisionOf' = [status |-> "running", policy |-> mem[d].policy, answer |-> record.answer]
    BY <1>4 DEF decisionOf
  <2>2. [decisionOf EXCEPT !.status = "running", !.policy = mem[d].policy]
          = [status |-> "running", policy |-> mem[d].policy, answer |-> record.answer]
    BY Replaced
  <2> QED BY <2>1, <2>2
<1>6. UNCHANGED <<control, reviewsOf>>
  BY <1>3 DEF reviewsOf, reviewOf
<1>7. decisionOf.status = "none"
  BY <1>1 DEF decisionOf
<1> QED BY <1>2, <1>5, <1>6, <1>7 DEF Decision!Claim, decisionOf, reviewsOf, reviewOf

LEMMA FinishMaps ==
  ASSUME IInv, NEW d \in Deliveries, Finish(d)
  PROVE  Decision!Complete(d)
<1>1. record.status = "running" /\ mem[d].mine = record /\ record \in Records
  BY DEF IInv, TypeOK, Fact, Attended, Working, Finish, Holds
<1>2. record' = [record EXCEPT !.status = "completed", !.answer = d]
      /\ UNCHANGED <<control, batches, published>>
  BY <1>1 DEF Finish, reviewing
<1>4. record'.status = "completed" /\ record'.answer = d /\ record'.policy = record.policy
  BY <1>1, <1>2 DEF Records
<1>3. decisionOf' = [decisionOf EXCEPT !.status = "completed", !.answer = d]
  <2>1. decisionOf' = [status |-> "completed", policy |-> record.policy, answer |-> d]
    BY <1>4 DEF decisionOf
  <2>2. [decisionOf EXCEPT !.status = "completed", !.answer = d]
          = [status |-> "completed", policy |-> record.policy, answer |-> d]
    BY Replaced
  <2> QED BY <2>1, <2>2
<1> QED BY <1>1, <1>2, <1>3 DEF Decision!Complete, decisionOf

LEMMA FailureMaps ==
  ASSUME IInv, NEW d \in Deliveries, RecordFailure(d)
  PROVE  Decision!Fail
<1>1. record.status = "running" /\ mem[d].mine = record /\ record \in Records
  BY DEF IInv, TypeOK, Fact, Attended, Working, RecordFailure, Holds
<1>2. record' = [record EXCEPT !.status = "failed"] /\ UNCHANGED <<control, batches, published>>
  BY <1>1 DEF RecordFailure, reviewing
<1>4. record'.status = "failed" /\ UNCHANGED <<record.answer, record.policy>>
  BY <1>1, <1>2 DEF Records
<1>3. decisionOf' = [decisionOf EXCEPT !.status = "failed"]
  BY <1>4 DEF decisionOf
<1> QED BY <1>1, <1>2, <1>3 DEF Decision!Fail, decisionOf

LEMMA CommitMaps ==
  ASSUME IInv, NEW d \in Deliveries, Commit(d), NEW name \in Names, name = mem[d].name,
         NEW ready \in BOOLEAN, ready = batches[name].ready
  PROVE  Decision!Publish(name, ready)
<1> DEFINE review == [name |-> name, answer |-> record.answer, expected |-> control.version,
                      ready |-> ready]
<1>1. TypeOK /\ name \in Names /\ control.version = mem[d].seen.version /\ pc[d] = "commit"
      /\ UNCHANGED <<record, batches>> /\ published' = Append(published, name)
      /\ control' = [control EXCEPT !.version = @ + 1]
  BY DEF IInv, TypeOK, Memories, Commit, Current, claiming
<1>2. record.status = "completed" /\ mem[d].mine = record
  BY <1>1, Answered DEF Informed
<1>3. Based(d) /\ Saved(d)
  BY DEF IInv, Fact
<1>4. batches[name].answer = record.answer /\ batches[name].expected = control.version
      /\ (ready => record.policy = control.policy)
  BY <1>1, <1>2, <1>3 DEF Based, Saved
<1>5. \A i \in DOMAIN published : published[i] # name
  BY <1>1, <1>3 DEF Saved, IsPublished
<1>6. reviewsOf' = reviewsOf \cup {review}
  <2>1. PICK n : /\ DOMAIN published' = DOMAIN published \cup {n}
                 /\ \A i \in DOMAIN published : published'[i] = published[i]
                 /\ published'[n] = name
    BY <1>1, Appended
  <2>2. \A i \in DOMAIN published : reviewOf(i)' = reviewOf(i)
    BY <1>1, <2>1 DEF reviewOf
  <2>3. reviewOf(n)' = review
    BY <1>1, <1>4, <2>1 DEF reviewOf
  <2> QED BY <2>1, <2>2, <2>3 DEF reviewsOf
<1>7. \A r \in reviewsOf : r.name # name
  BY <1>5 DEF reviewsOf, reviewOf
<1> QED BY <1>1, <1>2, <1>4, <1>6, <1>7 DEF Decision!Publish, decisionOf, reviewsOf, reviewOf

\* Every step of ModelDecision is a step of AtomicDecision or none.
LEMMA StepMaps ==
  ASSUME IInv, [Next]_vars
  PROVE  [Decision!Next]_Decision!vars
<1>1. ASSUME NEW d \in Deliveries, Handle(d) PROVE Decision!Next \/ UNCHANGED Abstract
  <2>1. CASE ClaimFresh(d)
    BY <2>1, ClaimMaps DEF Decision!Next
  <2>2. CASE Finish(d)
    BY <2>2, FinishMaps DEF Decision!Next
  <2>3. CASE RecordFailure(d)
    BY <2>3, FailureMaps DEF Decision!Next
  <2>4. CASE Commit(d)
    <3>1. PICK name \in Names : name = mem[d].name
      BY DEF IInv, TypeOK, Memories
    <3>2. PICK ready \in BOOLEAN : ready = batches[name].ready
      BY DEF IInv, TypeOK, Batches
    <3>3. Decision!Publish(name, ready)
      BY <2>4, <3>1, <3>2, CommitMaps
    <3> QED BY <3>3 DEF Decision!Next
  <2>5. CASE Prepare(d)
    BY <2>5, ReviewsStay DEF Prepare, Abstract, decisionOf, claiming
  <2>6. CASE TakeOver(d)
    <3>1. record \in Records /\ record.status = "running"
          /\ record' = [record EXCEPT !.status = "running", !.owner = d]
          /\ UNCHANGED <<control, batches, published>>
      BY <2>6 DEF IInv, TypeOK, TakeOver, Takeable, reviewing
    <3>2. UNCHANGED <<record.status, record.policy, record.answer>>
      BY <3>1 DEF Records
    <3> QED BY <3>1, <3>2 DEF Abstract, decisionOf, reviewsOf, reviewOf
  <2>7. CASE UNCHANGED <<record, control, batches, published>>
    BY <2>7 DEF Abstract, decisionOf, reviewsOf, reviewOf
  <2>8. CASE \/ Arrive(d) \/ ReadControl(d) \/ Lookup(d) \/ Eligible(d) \/ ClaimFound(d)
             \/ TakeOverMisses(d) \/ Call(d) \/ NoAgent(d) \/ Return(d) \/ Fenced(d)
    BY <2>7, <2>8 DEF Arrive, ReadControl, Lookup, Eligible, ClaimFound, TakeOverMisses, Call,
       NoAgent, Return, Fenced, claiming, reviewing
  <2>9. CASE \/ Fetch(d) \/ Publish(d) \/ Base(d) \/ CommitMisses(d) \/ Review(d) \/ Raise(d)
    BY <2>7, <2>9 DEF Fetch, Publish, Base, CommitMisses, Review, Raise, claiming, reviewing
  <2> QED BY <1>1, <2>1, <2>2, <2>3, <2>4, <2>5, <2>6, <2>8, <2>9 DEF Handle
<1>2. ASSUME Crash \/ LeaseExpires \/ UNCHANGED vars PROVE UNCHANGED Abstract
  BY <1>2 DEF Crash, LeaseExpires, vars, claiming, reviewing, Abstract, decisionOf, reviewsOf,
     reviewOf
<1>3. CASE Change
  <2>1. control'.version = control.version + 1 /\ UNCHANGED <<record, batches, published>>
    BY <1>3 DEF Change, claiming
  <2> QED BY <2>1 DEF Decision!Next, Decision!Change
<1> QED BY <1>1, <1>2, <1>3, Idles DEF Next

\* Claims, take-overs, late answers, replays and lost acknowledgements look like one
\* decision that is recorded once and published on the inputs of the moment.
THEOREM Refinement == Spec => RefinesAtomicDecision
<1>1. Init => Decision!Init
  BY DEF Init, NoRecord, NoPolicy, Decision!Init
<1>2. IInv /\ [Next]_vars => [Decision!Next]_Decision!vars
  BY StepMaps
<1> QED BY <1>1, <1>2, Inductive, PTL DEF Spec, RefinesAtomicDecision, Decision!Spec

===============================================================================
