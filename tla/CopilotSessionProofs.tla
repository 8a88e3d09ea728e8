-------------------------- MODULE CopilotSessionProofs --------------------------
(***************************************************************************)
(* Proofs about CopilotSession for any requests, models and numbers of     *)
(* arrivals and logouts.                                                   *)
(***************************************************************************)
EXTENDS CopilotSession, TLAPS

-------------------------------------------------------------------------------
(* The inductive invariant *)

\* A row's tokens belong to its generation, and an attempt is made by who has none.
Sound(state) ==
  /\ state.github \in {NoToken, state.generation}
  /\ state.access \in {NoToken, state.github}
  /\ state.device = "pending" => state.github = NoToken

\* The places where a request has the lock.
Holding == Waiting \ {"answer"}

\* Who has the lock has the row in hand, unless the user logged out since.
Holds(r) ==
  /\ lock = r
  /\ Sound(mem[r].hand)
  /\ mem[r].hand.generation =< store.generation
  /\ \/ mem[r].hand = store
     \/ mem[r].hand.revision < store.revision /\ store.github = NoToken

\* A revision that was seen is the current one only with what was seen beside it.
Sighted(r) ==
  mem[r].kind \in {"select", "route"} =>
    /\ mem[r].saw.routing.revision =< store.routing.revision
    /\ mem[r].saw.routing.revision = store.routing.revision =>
         mem[r].saw = [generation |-> store.generation, routing |-> store.routing]

\* The row's token may be exchanged.
Exchangeable == store.access = NoToken \/ Token(store) \in refusals \cup {aged}

Refreshing(r) ==
  pc[r] = "token" =>
    /\ mem[r].stage # "begin"
    /\ mem[r].hand.github # NoToken
    /\ mem[r].hand = store => Exchangeable

\* A stream saw its session current, then a catalog, then its session current again.
Streaming(r) ==
  /\ mem[r].bound =< store.generation
  /\ mem[r].rejected # NoToken => <<mem[r].bound, mem[r].rejected>> \in refusals
  /\ pc[r] = "send" =>
       /\ mem[r].bound =< mem[r].listed.generation
       /\ mem[r].listed.generation =< store.generation
  /\ pc[r] = "token" /\ mem[r].stage = "send" =>
       mem[r].hand.generation = mem[r].bound /\ mem[r].listed.generation = mem[r].bound
  /\ pc[r] = "answer" =>
       /\ mem[r].hand.generation = mem[r].bound /\ mem[r].listed.generation = mem[r].bound
       /\ mem[r].hand.access = mem[r].bound

Request(r) ==
  /\ pc[r] \in Holding => Holds(r)
  /\ pc[r] = "code" => mem[r].hand.github = NoToken
  /\ pc[r] = "grant" => mem[r].hand.device = "pending"
  /\ pc[r] = "catalog" => mem[r].stage \in {"models", "again"}
  /\ Sighted(r) /\ Refreshing(r) /\ Streaming(r)

IInv ==
  /\ TypeOK
  /\ Sound(store)
  /\ \A r \in Requests : Request(r)

-------------------------------------------------------------------------------
(* Lemmas about rows and steps *)

\* The numbers of a row are numbers.
LEMMA RecordFacts ==
  ASSUME NEW state \in Records
  PROVE  /\ state.revision \in Nat /\ state.generation \in Nat /\ state.tokens \in Nat
         /\ state.github \in Nat \cup {NoToken} /\ state.access \in Nat \cup {NoToken}
         /\ state.routing.revision \in Nat
         /\ Token(state) \in Nat \X Nat
BY DEF Records, Token

\* A new generation has nothing of the old one, and a higher routing revision.
LEMMA ReplacementFacts ==
  ASSUME NEW state \in Records
  PROVE  /\ Replacement(state) \in Records
         /\ Sound(Replacement(state))
         /\ Replacement(state).github = NoToken
         /\ Replacement(state).device = "none"
         /\ Replacement(state).revision = state.revision
         /\ Replacement(state).generation = state.generation + 1
         /\ Replacement(state).routing = [revision |-> state.routing.revision + 1, choice |-> NoChoice]
BY RecordFacts DEF Replacement, Emptied, Records, Choices, NoChoice, Sound

\* What a request remembers of the start is of its type.
LEMMA CopyFacts == NoCopy \in Records /\ NoSight \in [generation : Nat, routing : [revision : Nat, choice : Choices]]
BY DEF NoCopy, NoSight, Emptied, Records, Choices, NoChoice

LEMMA MemoryFacts ==
  ASSUME NEW kind \in Kinds, NEW state \in Records
  PROVE  Remembered(kind, state) \in Memories
<1>1. NoCatalog \in [generation : Nat \cup {NoToken}, ids : SUBSET Models]
  BY DEF NoCatalog
<1>2. [generation |-> state.generation, routing |-> state.routing]
        \in [generation : Nat, routing : [revision : Nat, choice : Choices]]
  BY DEF Records
<1> QED BY <1>1, <1>2, CopyFacts DEF Remembered, Memories, Records

LEMMA NoMemoryFacts ==
  /\ NoMemory \in Memories /\ NoMemory.kind = "models" /\ NoMemory.bound = 0 /\ NoMemory.rejected = NoToken
<1>1. NoMemory \in Memories
  BY MemoryFacts, CopyFacts DEF NoMemory, Kinds
<1> QED BY <1>1 DEF NoMemory, Remembered

\* A row that was saved is the row in hand with the next revision.
LEMMA SaveFacts ==
  ASSUME NEW state \in Records, Saves(state), store \in Records
  PROVE  /\ store' \in Records
         /\ store' = [state EXCEPT !.revision = state.revision + 1]
         /\ store'.revision = store.revision + 1
         /\ store'.generation = state.generation /\ store'.github = state.github
         /\ store'.access = state.access /\ store'.tokens = state.tokens
         /\ store'.routing = state.routing /\ store'.device = state.device
         /\ Token(store') = Token(state)
         /\ Sound(state) => Sound(store')
BY DEF Saves, Records, Sound, Token

\* One request moves, and the others stay.
LEMMA GotoFacts ==
  ASSUME TypeOK, NEW r \in Requests, NEW label \in Labels, NEW m \in Memories, Goto(r, label, m)
  PROVE  /\ pc' \in [Requests -> Labels] /\ mem' \in [Requests -> Memories]
         /\ pc'[r] = label /\ mem'[r] = m
         /\ \A q \in Requests \ {r} : pc'[q] = pc[q] /\ mem'[q] = mem[q]
BY DEF Goto, TypeOK

-------------------------------------------------------------------------------
(* What a step may do to the row *)

\* The row is written: its revision grows, and the routing only with a revision of its own.
Written ==
  /\ store' \in Records /\ Sound(store')
  /\ store'.revision = store.revision + 1
  /\ store'.generation >= store.generation
  /\ \/ store'.generation = store.generation /\ store'.routing = store.routing
     \/ store'.routing.revision > store.routing.revision

Moved == store' = store \/ Written

\* What a step leaves behind for the requests that it is not about.
Leaves(q) ==
  /\ pc'[q] = pc[q] /\ mem'[q] = mem[q]
  /\ pc[q] \in Holding => lock' = lock /\ (store' = store \/ store'.github = NoToken)
  /\ refusals \subseteq refusals'
  /\ aged' = aged \/ aged' = Token(store)

\* A request that a step is not about keeps all that was known of it.
LEMMA Undisturbed ==
  ASSUME IInv, NEW q \in Requests, Leaves(q), Moved
  PROVE  Request(q)'
<1>1. store \in Records /\ mem[q] \in Memories /\ mem[q].hand \in Records
  BY DEF IInv, TypeOK, Memories
<1>2. /\ store.revision \in Nat /\ store.generation \in Nat /\ store.routing.revision \in Nat
      /\ mem[q].hand.revision \in Nat /\ mem[q].hand.generation \in Nat
      /\ mem[q].saw.routing.revision \in Nat /\ mem[q].bound \in Nat
      /\ mem[q].listed.generation \in Int
  BY <1>1, RecordFacts DEF Memories, NoToken
<1>3. /\ store'.revision \in Nat /\ store'.generation \in Nat /\ store'.routing.revision \in Nat
      /\ store'.generation >= store.generation
      /\ store'.routing.revision >= store.routing.revision
      /\ store'.routing.revision = store.routing.revision =>
           store'.generation = store.generation /\ store'.routing = store.routing
      /\ store' = store \/ store'.revision > store.revision
  <2>1. CASE store' = store
    BY <1>2, <2>1
  <2>2. CASE Written
    BY <1>2, <2>2, RecordFacts DEF Written
  <2> QED BY <2>1, <2>2 DEF Moved
<1>4. Request(q) /\ pc'[q] = pc[q] /\ mem'[q] = mem[q]
  BY DEF IInv, Leaves
<1>5. pc[q] \in Holding => Holds(q)'
  <2> SUFFICES ASSUME pc[q] \in Holding PROVE Holds(q)'
    OBVIOUS
  <2>1. Holds(q) /\ lock' = q /\ (store' = store \/ store'.github = NoToken)
    BY <1>4 DEF Request, Holds, Leaves
  <2>2. CASE store' = store
    BY <1>4, <2>1, <2>2 DEF Holds
  <2>3. CASE store' # store
    <3>1. mem[q].hand.revision < store'.revision
      BY <1>2, <1>3, <2>1, <2>3 DEF Holds
    <3> QED BY <1>2, <1>3, <1>4, <2>1, <2>3, <3>1 DEF Holds, Sound
  <2> QED BY <2>2, <2>3
<1>6. Sighted(q)'
  BY <1>2, <1>3, <1>4 DEF Request, Sighted
<1>7. Refreshing(q)'
  <2> SUFFICES ASSUME pc[q] = "token", mem[q].hand = store' PROVE Exchangeable'
    BY <1>4 DEF Request, Refreshing
  <2>1. Holds(q)
    BY <1>4 DEF Request, Holding, Waiting
  <2>2. store' = store
    BY <1>2, <1>3, <2>1 DEF Holds
  <2>3. Exchangeable
    BY <1>4, <2>2 DEF Request, Refreshing
  <2> QED BY <2>2, <2>3 DEF Exchangeable, Leaves, Token
<1>8. Streaming(q)'
  BY <1>2, <1>3, <1>4 DEF Request, Streaming, Leaves
<1> QED BY <1>4, <1>5, <1>6, <1>7, <1>8 DEF Request

\* A save of a sound row of the same session, or of a new one, is a write.
LEMMA SavesWrite ==
  ASSUME IInv, NEW state \in Records, Saves(state),
         \/ /\ Sound(state) /\ state.generation = store.generation
            /\ state.routing = store.routing \/ state.routing.revision > store.routing.revision
         \/ state = Replacement(store)
  PROVE  Written
<1>1. store \in Records
  BY DEF IInv, TypeOK
<1>2. store.generation \in Nat /\ store.routing.revision \in Nat
  BY <1>1, RecordFacts
<1>3. CASE state = Replacement(store)
  <2>1. /\ Sound(state) /\ state.generation = store.generation + 1
        /\ state.routing.revision = store.routing.revision + 1
    <3>1. /\ Sound(Replacement(store)) /\ Replacement(store).generation = store.generation + 1
          /\ Replacement(store).routing = [revision |-> store.routing.revision + 1, choice |-> NoChoice]
      BY <1>1, ReplacementFacts
    <3> QED BY <1>3, <3>1
  <2>2. /\ store' \in Records /\ Sound(store') /\ store'.revision = store.revision + 1
        /\ store'.generation = state.generation /\ store'.routing = state.routing
    BY <1>1, <2>1, SaveFacts
  <2> QED BY <1>2, <2>1, <2>2 DEF Written
<1>4. CASE Sound(state) /\ state.generation = store.generation
  <2>1. /\ store' \in Records /\ Sound(store') /\ store'.revision = store.revision + 1
        /\ store'.generation = state.generation /\ store'.routing = state.routing
    BY <1>1, <1>4, SaveFacts
  <2> QED BY <1>2, <1>3, <1>4, <2>1 DEF Written
<1> QED BY <1>3, <1>4

\* What a request that moves leaves as it was, or remembers as rejected.
Quiet(r) ==
  /\ aged' = aged /\ bounds' = bounds
  /\ refusals' \in {refusals, refusals \cup {Token(mem[r].hand)}}

\* What was seen stays seen while the request is served.
LEMMA StillSighted ==
  ASSUME IInv, NEW r \in Requests, Moved,
         mem'[r].kind = mem[r].kind, mem'[r].saw = mem[r].saw, mem'[r].bound = mem[r].bound,
         mem'[r].rejected = mem[r].rejected, Quiet(r)
  PROVE  /\ Sighted(r)'
         /\ mem'[r].bound =< store'.generation
         /\ mem'[r].rejected # NoToken => <<mem'[r].bound, mem'[r].rejected>> \in refusals'
<1>1. store \in Records /\ mem[r] \in Memories
  BY DEF IInv, TypeOK
<1>2. /\ store.generation \in Nat /\ store.routing.revision \in Nat
      /\ mem[r].saw.routing.revision \in Nat /\ mem[r].bound \in Nat
  BY <1>1, RecordFacts DEF Memories
<1>3. /\ Sighted(r) /\ mem[r].bound =< store.generation
      /\ mem[r].rejected # NoToken => <<mem[r].bound, mem[r].rejected>> \in refusals'
  BY DEF IInv, Request, Streaming, Quiet
<1>4. CASE store' = store
  BY <1>2, <1>3, <1>4 DEF Sighted
<1>5. CASE Written
  <2>1. store'.generation \in Nat /\ store'.routing.revision \in Nat
    BY <1>5, RecordFacts DEF Written
  <2> QED BY <1>2, <1>3, <1>5, <2>1 DEF Sighted, Written
<1> QED BY <1>4, <1>5 DEF Moved

\* A step of one request has to account for that request only.
LEMMA StepPreserves ==
  ASSUME IInv, NEW r \in Requests, NEW label \in Labels, NEW m \in Memories, Goto(r, label, m),
         lock' \in Requests \cup {Free}, Moved,
         lock \in {Free, r} \/ UNCHANGED <<store, lock>>,
         refusals' \in {refusals, refusals \cup {Token(mem[r].hand)}}, aged' = aged,
         arrivals' \in 0..MaxArrivals, logouts' = logouts,
         Request(r)'
  PROVE  IInv'
<1>1. TypeOK /\ store \in Records /\ mem[r].hand \in Records
  BY DEF IInv, TypeOK, Memories
<1>2. Token(mem[r].hand) \in Nat \X Nat
  BY <1>1, RecordFacts
<1>3. store' \in Records /\ Sound(store')
  BY <1>1 DEF Moved, Written, IInv
<1>4. TypeOK'
  BY <1>1, <1>2, <1>3, GotoFacts DEF TypeOK
<1>5. ASSUME NEW q \in Requests PROVE Request(q)'
  <2>1. CASE q # r
    <3>1. pc[q] \in Holding => lock = q
      BY DEF IInv, Request, Holds
    <3>2. lock \in {Free, r} => pc[q] \notin Holding
      BY <2>1, <3>1, FreeAssumption
    <3>3. Leaves(q)
      BY <1>1, <2>1, <3>2, GotoFacts DEF Leaves
    <3> QED BY <3>3, Undisturbed
  <2>2. CASE q = r
    BY <2>2
  <2> QED BY <2>1, <2>2
<1> QED BY <1>3, <1>4, <1>5 DEF IInv

\* A request that ends knows nothing any more.
LEMMA Ends ==
  ASSUME IInv, NEW r \in Requests, End(r), Moved, Quiet(r),
         lock \in {Free, r} \/ UNCHANGED store
  PROVE  IInv'
<1>1. "idle" \in Labels /\ NoMemory \in Memories
  BY NoMemoryFacts DEF Labels
<1>2. TypeOK
  BY DEF IInv
<1>3. pc'[r] = "idle" /\ mem'[r] = NoMemory
  BY <1>1, <1>2, GotoFacts DEF End
<1>4. store'.generation \in Nat
  BY <1>2, RecordFacts DEF Moved, Written, TypeOK
<1>5. Request(r)'
  BY <1>3, <1>4, NoMemoryFacts DEF Request, Holding, Waiting, Sighted, Refreshing, Streaming
<1>6. lock' \in Requests \cup {Free} /\ (lock \in {Free, r} \/ UNCHANGED <<store, lock>>)
  BY <1>2 DEF End, TypeOK
<1> QED BY <1>1, <1>2, <1>5, <1>6, StepPreserves DEF End, Quiet, bounds, TypeOK

\* A save that ends a request.
LEMMA SavesAndEnds ==
  ASSUME IInv, NEW r \in Requests, NEW state \in Records, SaveAndEnd(r, state), Quiet(r),
         lock \in {Free, r},
         \/ /\ Sound(state) /\ state.generation = store.generation
            /\ state.routing = store.routing \/ state.routing.revision > store.routing.revision
         \/ state = Replacement(store)
         \/ ~Saves(state)
  PROVE  IInv'
<1>1. CASE Saves(state)
  BY <1>1, SavesWrite, Ends DEF SaveAndEnd, Moved
<1>2. CASE ~Saves(state)
  BY <1>2, Ends DEF SaveAndEnd, Unsaved, Moved
<1> QED BY <1>1, <1>2

\* A request that waits has the row in hand.
LEMMA Awaits ==
  ASSUME IInv, NEW r \in Requests, NEW label \in Holding,
         NEW stage \in {"begin", "login", "authorize", "models", "again", "send"},
         NEW state, state = store', Await(r, label, stage, state), Moved, Quiet(r), lock \in {Free, r},
         label = "code" => store'.github = NoToken,
         label = "grant" => store'.device = "pending",
         label = "catalog" => stage \in {"models", "again"},
         label = "token" => stage # "begin" /\ store'.github # NoToken /\ Exchangeable',
         label = "token" /\ stage = "send" =>
           store'.generation = mem[r].bound /\ mem[r].listed.generation = mem[r].bound
  PROVE  IInv'
<1> DEFINE m == [mem[r] EXCEPT !.stage = stage, !.hand = state]
<1>1. TypeOK /\ mem[r] \in Memories /\ store' \in Records /\ Sound(store')
  BY DEF IInv, TypeOK, Moved, Written
<1>2. label \in Labels /\ m \in Memories
  BY <1>1 DEF Holding, Labels, Memories
<1>3. Goto(r, label, m) /\ lock' = r
  BY DEF Await
<1>4. pc'[r] = label /\ mem'[r] = m
  BY <1>1, <1>2, <1>3, GotoFacts
<1>5. /\ m.hand = state /\ m.stage = stage /\ m.kind = mem[r].kind /\ m.saw = mem[r].saw
      /\ m.bound = mem[r].bound /\ m.listed = mem[r].listed /\ m.rejected = mem[r].rejected
  BY <1>1 DEF Memories
<1>6. /\ Sighted(r)' /\ mem[r].bound =< store'.generation
      /\ mem'[r].rejected # NoToken => <<mem'[r].bound, mem'[r].rejected>> \in refusals'
  BY <1>4, <1>5, StillSighted
<1>7. Holds(r)'
  BY <1>1, <1>3, <1>4, <1>5, RecordFacts DEF Holds
<1>8. Refreshing(r)'
  BY <1>4, <1>5 DEF Refreshing
<1>9. Streaming(r)'
  BY <1>4, <1>5, <1>6 DEF Streaming, Holding, Waiting
<1>10. Request(r)'
  BY <1>4, <1>5, <1>6, <1>7, <1>8, <1>9 DEF Request
<1> QED BY <1>1, <1>2, <1>3, <1>10, StepPreserves DEF Quiet, bounds, TypeOK


-------------------------------------------------------------------------------
(* Every action preserves the invariant *)

LEMMA Initially == Init => IInv
<1> SUFFICES ASSUME Init PROVE IInv
  OBVIOUS
<1>1. NoCopy \in Records /\ Sound(NoCopy) /\ Token(NoCopy) \in Nat \X Nat
  BY CopyFacts, RecordFacts DEF NoCopy, Emptied, Sound
<1>2. store \in Records /\ Sound(store)
  <2>1. CASE store = NoCopy
    BY <1>1, <2>1
  <2> DEFINE found == [revision |-> 1, generation |-> 0, github |-> 0, access |-> 0, tokens |-> 1,
                       routing |-> [revision |-> 1, choice |-> NoChoice],
                       fetched |-> TRUE, catalog |-> Models, device |-> "none"]
  <2>2. CASE store # NoCopy
    <3>1. store = found
      BY <2>2 DEF Init, Stored, Emptied
    <3>2. found \in Records /\ Sound(found)
      BY DEF Records, Choices, NoChoice, Sound
    <3> QED BY <3>1, <3>2
  <2> QED BY <2>1, <2>2
<1>3. TypeOK
  BY <1>1, <1>2, NoMemoryFacts, BoundAssumption DEF Init, TypeOK, Labels
<1>4. ASSUME NEW r \in Requests PROVE Request(r)
  <2>1. pc[r] = "idle" /\ mem[r] = NoMemory
    BY DEF Init
  <2>2. store.generation \in Nat
    BY <1>2, RecordFacts
  <2> QED BY <2>1, <2>2, NoMemoryFacts DEF Request, Holding, Waiting, Sighted, Refreshing, Streaming
<1> QED BY <1>2, <1>3, <1>4 DEF IInv

LEMMA Arrives ==
  ASSUME IInv, NEW r \in Requests, Arrive(r)
  PROVE  IInv'
<1>1. TypeOK /\ store \in Records
  BY DEF IInv, TypeOK
<1>2. PICK kind \in Kinds, g \in 0..store.generation :
        LET label == CASE kind \in {"start", "poll"} -> kind
                       [] kind = "stream" -> "authorize"
                       [] OTHER -> "models"
            m == Remembered(kind, store)
        IN  Goto(r, label, m) \/ Goto(r, label, [m EXCEPT !.bound = g])
  <2>1. 0 \in 0..store.generation
    BY <1>1, RecordFacts
  <2> QED BY <2>1 DEF Arrive
<1> DEFINE label == CASE kind \in {"start", "poll"} -> kind
                      [] kind = "stream" -> "authorize"
                      [] OTHER -> "models"
           m0 == Remembered(kind, store)
<1>3. label \in {"start", "poll", "authorize", "models"}
  OBVIOUS
<1>4. PICK m \in {m0, [m0 EXCEPT !.bound = g]} : Goto(r, label, m)
  BY <1>2
<1>5. m0 \in Memories /\ store.generation \in Nat /\ store.routing.revision \in Nat
  BY <1>1, MemoryFacts, RecordFacts
<1>6. m \in Memories /\ m.kind = kind /\ m.saw = m0.saw /\ m.bound =< store.generation
  <2>1. m0.bound =< store.generation /\ m0.kind = kind
    BY <1>5 DEF Remembered
  <2> QED BY <1>5, <2>1 DEF Memories
<1>7. /\ m.rejected = NoToken
      /\ kind \in {"select", "route"} => m.saw = [generation |-> store.generation, routing |-> store.routing]
  BY <1>6 DEF Remembered
<1>8. label \in Labels
  BY <1>3 DEF Labels
<1>9. pc'[r] = label /\ mem'[r] = m /\ store' = store
  BY <1>1, <1>4, <1>6, <1>8, GotoFacts DEF Arrive
<1>10. Request(r)'
  BY <1>3, <1>5, <1>6, <1>7, <1>9 DEF Request, Holding, Waiting, Sighted, Refreshing, Streaming
<1>11. arrivals' \in 0..MaxArrivals /\ lock' \in Requests \cup {Free}
  BY <1>1, BoundAssumption DEF Arrive, TypeOK
<1> QED BY <1>4, <1>6, <1>8, <1>10, <1>11, StepPreserves DEF Arrive, clock, Moved

LEMMA LogsOut ==
  ASSUME IInv, Logout
  PROVE  IInv'
<1>1. TypeOK /\ store \in Records /\ Replacement(store) \in Records
  BY ReplacementFacts DEF IInv, TypeOK
<1>2. Written /\ store'.github = NoToken
  BY <1>1, SavesWrite, SaveFacts, ReplacementFacts DEF Logout
<1>3. TypeOK'
  BY <1>1, <1>2, BoundAssumption DEF Logout, TypeOK, Written, clock
<1>4. ASSUME NEW q \in Requests PROVE Request(q)'
  BY <1>2, Undisturbed DEF Logout, Leaves, Moved, clock
<1> QED BY <1>2, <1>3, <1>4 DEF IInv, Written

LEMMA Ages ==
  ASSUME IInv, TokenAges
  PROVE  IInv'
<1>1. TypeOK'
  BY RecordFacts DEF IInv, TypeOK, TokenAges, bounds
<1>2. ASSUME NEW q \in Requests PROVE Request(q)'
  BY Undisturbed DEF TokenAges, Leaves, Moved
<1> QED BY <1>1, <1>2 DEF IInv, TokenAges, Sound

LEMMA Crashes ==
  ASSUME IInv, Crash
  PROVE  IInv'
<1>1. TypeOK' /\ store \in Records
  BY NoMemoryFacts DEF IInv, TypeOK, Crash, clock, bounds, Labels
<1>2. ASSUME NEW r \in Requests PROVE Request(r)'
  <2>1. pc'[r] = "idle" /\ mem'[r] = NoMemory /\ store' = store
    BY DEF Crash
  <2>2. store'.generation \in Nat
    BY <1>1, <2>1, RecordFacts
  <2> QED BY <2>1, <2>2, NoMemoryFacts DEF Request, Holding, Waiting, Sighted, Refreshing, Streaming
<1> QED BY <1>1, <1>2 DEF IInv, Crash, Sound

LEMMA Fails ==
  ASSUME IInv, NEW r \in Requests, Fail(r)
  PROVE  IInv'
BY Ends DEF Fail, Quiet, Moved, clock

\* A catalog is handed to the caller of models.
LEMMA Lists ==
  ASSUME IInv, NEW r \in Requests, NEW state \in Records, Listed(r, state), Moved, Quiet(r),
         lock \in {Free, r}, state.generation = store'.generation, mem[r].bound =< state.generation
  PROVE  IInv'
<1> DEFINE listed == [generation |-> state.generation, ids |-> state.catalog]
           m == [mem[r] EXCEPT !.stage = "begin", !.hand = NoCopy, !.listed = listed]
           label == IF mem[r].kind = "stream" THEN "send" ELSE "commit"
<1>1. TypeOK /\ mem[r] \in Memories
  BY DEF IInv, TypeOK
<1>2. CASE End(r)
  BY <1>2, Ends
<1>3. CASE Goto(r, label, m) /\ lock' = Free
  <2>1. listed \in [generation : Nat \cup {NoToken}, ids : SUBSET Models]
    BY DEF Records
  <2>2. m \in Memories /\ label \in Labels
    BY <1>1, <2>1, CopyFacts DEF Memories, Labels
  <2>3. pc'[r] = label /\ mem'[r] = m
    BY <1>1, <1>3, <2>2, GotoFacts
  <2>4. /\ m.kind = mem[r].kind /\ m.saw = mem[r].saw /\ m.bound = mem[r].bound
        /\ m.rejected = mem[r].rejected /\ m.listed = listed
    BY <1>1 DEF Memories
  <2>5. /\ Sighted(r)' /\ mem[r].bound =< store'.generation
        /\ mem'[r].rejected # NoToken => <<mem'[r].bound, mem'[r].rejected>> \in refusals'
    BY <2>3, <2>4, StillSighted
  <2>6. state.generation \in Nat /\ refusals \subseteq refusals'
    BY RecordFacts DEF Quiet
  <2>7. Streaming(r)'
    BY <2>3, <2>4, <2>5, <2>6 DEF Streaming
  <2>8. Request(r)'
    BY <2>3, <2>5, <2>7 DEF Request, Holding, Waiting, Refreshing
  <2> QED BY <1>1, <1>3, <2>2, <2>8, StepPreserves DEF Quiet, bounds, TypeOK
<1>4. Listed(r, state) => End(r) \/ (Goto(r, label, m) /\ lock' = Free)
  BY DEF Listed
<1> QED BY <1>2, <1>3, <1>4

\* What the stages of a request ask for.
Staged(r, stage) ==
  /\ stage \in {"login", "authorize", "models", "again", "send"}
  /\ stage = "send" => store.generation = mem[r].bound /\ mem[r].listed.generation = mem[r].bound

\* Whatever follows a token, with the row in hand.
LEMMA Continues ==
  ASSUME IInv, NEW r \in Requests, NEW stage, Staged(r, stage),
         NEW state, state = store', Authorized(r, stage, state), Moved, Quiet(r), lock \in {Free, r},
         store'.access # NoToken, store'.generation = store.generation
  PROVE  IInv'
<1>1. TypeOK /\ mem[r] \in Memories /\ store \in Records /\ store' \in Records /\ Sound(store')
  BY DEF IInv, TypeOK, Moved, Written
<1>2. store'.access = store'.generation /\ store'.generation \in Nat
  BY <1>1, RecordFacts DEF Sound
<1>3. mem[r].bound =< store'.generation /\ mem[r].bound \in Nat
  BY <1>1 DEF IInv, Request, Streaming, Memories
<1>4. CASE stage = "login"
  BY <1>4, Ends DEF Authorized
<1>5. CASE stage = "authorize"
  <2> DEFINE m == [mem[r] EXCEPT !.stage = "begin", !.hand = NoCopy]
  <2>1. Goto(r, "models", m) /\ lock' = Free
    BY <1>5 DEF Authorized
  <2>2. m \in Memories /\ "models" \in Labels
    BY <1>1, CopyFacts DEF Memories, Labels
  <2>3. pc'[r] = "models" /\ mem'[r] = m
    BY <1>1, <2>1, <2>2, GotoFacts
  <2>4. /\ m.kind = mem[r].kind /\ m.saw = mem[r].saw /\ m.bound = mem[r].bound
        /\ m.rejected = mem[r].rejected
    BY <1>1 DEF Memories
  <2>5. /\ Sighted(r)' /\ mem'[r].bound =< store'.generation
        /\ mem'[r].rejected # NoToken => <<mem'[r].bound, mem'[r].rejected>> \in refusals'
    BY <2>3, <2>4, StillSighted
  <2>6. Request(r)'
    BY <2>3, <2>5 DEF Request, Holding, Waiting, Refreshing, Streaming
  <2> QED BY <1>1, <2>1, <2>2, <2>6, StepPreserves DEF Quiet, bounds, TypeOK
<1>6. CASE stage = "models"
  <2>1. CASE Listed(r, state)
    BY <1>1, <1>3, <2>1, Lists DEF Staged
  <2>2. CASE Await(r, "catalog", stage, state)
    BY <1>6, <2>2, Awaits DEF Holding, Waiting
  <2> QED BY <1>6, <2>1, <2>2 DEF Authorized
<1>7. CASE stage = "again"
  BY <1>7, Awaits DEF Authorized, Holding, Waiting
<1>8. CASE stage = "send"
  <2> DEFINE m == [mem[r] EXCEPT !.stage = "begin", !.hand = state]
  <2>1. Goto(r, "answer", m) /\ lock' = Free
    BY <1>8 DEF Authorized
  <2>2. m \in Memories /\ "answer" \in Labels
    BY <1>1 DEF Memories, Labels, Waiting
  <2>3. pc'[r] = "answer" /\ mem'[r] = m
    BY <1>1, <2>1, <2>2, GotoFacts
  <2>4. /\ m.kind = mem[r].kind /\ m.saw = mem[r].saw /\ m.bound = mem[r].bound
        /\ m.listed = mem[r].listed /\ m.hand = state /\ m.rejected = mem[r].rejected
    BY <1>1 DEF Memories
  <2>5. /\ Sighted(r)' /\ mem'[r].bound =< store'.generation
        /\ mem'[r].rejected # NoToken => <<mem'[r].bound, mem'[r].rejected>> \in refusals'
    BY <2>3, <2>4, StillSighted
  <2>6. Streaming(r)'
    BY <1>2, <1>8, <2>3, <2>4, <2>5 DEF Streaming, Staged
  <2>7. Request(r)'
    BY <2>3, <2>5, <2>6 DEF Request, Holding, Waiting, Refreshing
  <2> QED BY <1>1, <2>1, <2>2, <2>7, StepPreserves DEF Quiet, bounds, TypeOK
<1> QED BY <1>4, <1>5, <1>6, <1>7, <1>8 DEF Staged

\* The row in hand is authorized: nobody else has the lock, and forcing needs a cause.
LEMMA Authorizes ==
  ASSUME IInv, NEW r \in Requests, NEW stage, NEW force \in BOOLEAN, Staged(r, stage),
         Authorize(r, stage, force), Quiet(r), lock \in {Free, r},
         force => store.github = NoToken \/ Token(store) \in refusals'
  PROVE  IInv'
<1>1. store' = store /\ Moved
  BY DEF Authorize, Moved
<1>2. CASE ~force /\ ~NeedsToken(store)
  <2>1. Authorized(r, stage, store)
    BY <1>2 DEF Authorize
  <2>2. store'.access # NoToken
    BY <1>1, <1>2 DEF NeedsToken
  <2> QED BY <1>1, <2>1, <2>2, Continues
<1>3. CASE ~(~force /\ ~NeedsToken(store)) /\ store.github = NoToken
  BY <1>1, <1>3, Ends DEF Authorize
<1>4. CASE ~(~force /\ ~NeedsToken(store)) /\ store.github # NoToken
  <2>1. Await(r, "token", stage, store)
    BY <1>4 DEF Authorize
  <2>2. Exchangeable'
    BY <1>1, <1>4 DEF Exchangeable, NeedsToken, Quiet, Token
  <2> QED BY <1>1, <1>4, <2>1, <2>2, Awaits DEF Holding, Waiting, Staged
<1> QED BY <1>2, <1>3, <1>4

\* What a request that has the lock can tell from the revision.
LEMMA HeldFacts ==
  ASSUME IInv, NEW r \in Requests, pc[r] \in Holding
  PROVE  /\ lock = r /\ mem[r].hand \in Records /\ store \in Records /\ Sound(mem[r].hand)
         /\ mem[r].hand.revision = store.revision => mem[r].hand = store
         /\ mem[r].hand = store \/ store.github = NoToken
<1>1. mem[r].hand \in Records /\ store \in Records
  BY DEF IInv, TypeOK, Memories
<1>2. Holds(r)
  BY DEF IInv, Request
<1> QED BY <1>1, <1>2, RecordFacts DEF Holds

LEMMA Starts ==
  ASSUME IInv, NEW r \in Requests, StartLogin(r)
  PROVE  IInv'
<1>1. lock \in {Free, r} /\ Quiet(r) /\ store \in Records /\ Replacement(store) \in Records
  BY ReplacementFacts DEF StartLogin, Quiet, clock, IInv, TypeOK
<1>2. CASE End(r) /\ UNCHANGED store
  BY <1>1, <1>2, Ends DEF Moved
<1>3. CASE Saves(Replacement(store)) /\ Await(r, "code", "begin", store')
  <2>1. Written /\ store'.github = NoToken
    BY <1>1, <1>3, SavesWrite, SaveFacts, ReplacementFacts
  <2> QED BY <1>1, <1>3, <2>1, Awaits DEF Holding, Waiting, Moved
<1> QED BY <1>2, <1>3 DEF StartLogin, Unsaved

LEMMA Codes ==
  ASSUME IInv, NEW r \in Requests, DeviceCode(r)
  PROVE  IInv'
<1> DEFINE hand == mem[r].hand
           new == [hand EXCEPT !.device = "pending"]
<1>1. pc[r] \in Holding /\ hand.github = NoToken /\ Quiet(r)
  BY DEF DeviceCode, Holding, Waiting, IInv, Request, Quiet, clock
<1>2. /\ lock = r /\ hand \in Records /\ Sound(hand)
      /\ hand.revision = store.revision => hand = store
  BY <1>1, HeldFacts
<1>3. /\ new \in Records /\ new.revision = hand.revision /\ new.generation = hand.generation
      /\ new.routing = hand.routing /\ Sound(new)
  BY <1>1, <1>2 DEF Records, Sound
<1>4. SaveAndEnd(r, new)
  BY DEF DeviceCode
<1>5. Saves(new) => hand = store
  BY <1>2, <1>3 DEF Saves
<1> QED BY <1>1, <1>2, <1>3, <1>4, <1>5, SavesAndEnds

LEMMA Polls ==
  ASSUME IInv, NEW r \in Requests, Poll(r)
  PROVE  IInv'
<1> DEFINE new == [store EXCEPT !.device = "over"]
<1>1. lock \in {Free, r} /\ Quiet(r) /\ store \in Records /\ Sound(store)
  BY DEF Poll, Quiet, clock, IInv, TypeOK
<1>2. CASE End(r) /\ UNCHANGED store
  BY <1>1, <1>2, Ends DEF Moved
<1>3. CASE SaveAndEnd(r, new)
  <2>1. new \in Records /\ Sound(new) /\ new.generation = store.generation /\ new.routing = store.routing
    BY <1>1 DEF Records, Sound
  <2> QED BY <1>1, <1>3, <2>1, SavesAndEnds
<1>4. CASE store.device = "pending" /\ Saves(store) /\ Await(r, "grant", "begin", store')
  <2>1. Written /\ store'.device = "pending"
    BY <1>1, <1>4, SavesWrite, SaveFacts
  <2> QED BY <1>1, <1>4, <2>1, Awaits DEF Holding, Waiting, Moved
<1> QED BY <1>2, <1>3, <1>4 DEF Poll, Unsaved

LEMMA Grants ==
  ASSUME IInv, NEW r \in Requests, Granted(r)
  PROVE  IInv'
<1> DEFINE hand == mem[r].hand
           over == [hand EXCEPT !.device = "over"]
           granted == [hand EXCEPT !.github = hand.generation, !.device = "none"]
<1>1. pc[r] \in Holding /\ hand.device = "pending" /\ Quiet(r)
  BY DEF Granted, Holding, Waiting, IInv, Request, Quiet, clock
<1>2. /\ lock = r /\ hand \in Records /\ Sound(hand) /\ hand.generation \in Nat
      /\ hand.revision = store.revision => hand = store
  BY <1>1, HeldFacts, RecordFacts
<1>3. hand.github = NoToken /\ hand.access = NoToken
  BY <1>1, <1>2 DEF Sound
<1>4. /\ over \in Records /\ over.revision = hand.revision /\ over.generation = hand.generation
      /\ over.routing = hand.routing /\ Sound(over)
  BY <1>2 DEF Records, Sound
<1>5. /\ granted \in Records /\ granted.revision = hand.revision
      /\ granted.generation = hand.generation /\ granted.routing = hand.routing
      /\ granted.github = hand.generation /\ granted.access = NoToken /\ Sound(granted)
  BY <1>2, <1>3 DEF Records, Sound
<1>6. CASE SaveAndEnd(r, hand)
  BY <1>1, <1>2, <1>6, SavesAndEnds DEF Saves
<1>7. CASE SaveAndEnd(r, over)
  <2>1. Saves(over) => hand = store
    BY <1>2, <1>4 DEF Saves
  <2> QED BY <1>1, <1>2, <1>4, <1>7, <2>1, SavesAndEnds
<1>8. CASE Saves(granted) /\ Await(r, "token", "login", store')
  <2>1. hand = store /\ store \in Records
    BY <1>2, <1>5, <1>8 DEF Saves
  <2>2. Written
    BY <1>5, <1>8, <2>1, SavesWrite
  <2>3. store'.github = granted.github /\ store'.access = granted.access
    BY <1>5, <1>8, <2>1, SaveFacts
  <2>4. Exchangeable' /\ store'.github # NoToken
    BY <1>2, <1>5, <2>3 DEF Exchangeable, NoToken
  <2> QED BY <1>1, <1>2, <1>8, <2>2, <2>4, Awaits DEF Holding, Waiting, Moved
<1>9. CASE Unsaved(granted) /\ End(r)
  BY <1>1, <1>2, <1>9, Ends DEF Unsaved, Moved
<1> QED BY <1>6, <1>7, <1>8, <1>9 DEF Granted

LEMMA Refreshes ==
  ASSUME IInv, NEW r \in Requests, Refresh(r)
  PROVE  IInv'
<1> DEFINE hand == mem[r].hand
           renewed == [hand EXCEPT !.access = hand.github, !.tokens = @ + 1]
<1>1. /\ pc[r] = "token" /\ pc[r] \in Holding /\ Quiet(r)
      /\ mem[r].stage # "begin" /\ hand.github # NoToken
      /\ mem[r].stage \in {"begin", "login", "authorize", "models", "again", "send"}
  BY DEF Refresh, Holding, Waiting, IInv, Request, Refreshing, Quiet, clock, TypeOK, Memories
<1>2. /\ lock = r /\ hand \in Records /\ Sound(hand) /\ store \in Records
      /\ hand.revision = store.revision => hand = store
  BY <1>1, HeldFacts
<1>3. /\ renewed \in Records /\ renewed.revision = hand.revision
      /\ renewed.generation = hand.generation /\ renewed.routing = hand.routing
      /\ renewed.access = hand.github /\ renewed.github = hand.github
      /\ renewed.device = hand.device
  <2>1. hand.github \in Nat \cup {NoToken} /\ hand.tokens + 1 \in Nat
    BY <1>2, RecordFacts
  <2>2. ASSUME NEW access \in Nat \cup {NoToken}, NEW tokens \in Nat
        PROVE  LET new == [hand EXCEPT !.access = access, !.tokens = tokens]
               IN  /\ new \in Records /\ new.revision = hand.revision
                   /\ new.generation = hand.generation /\ new.routing = hand.routing
                   /\ new.access = access /\ new.github = hand.github
                   /\ new.device = hand.device
    BY <1>2 DEF Records
  <2>3. renewed = [hand EXCEPT !.access = hand.github, !.tokens = hand.tokens + 1]
    BY <1>2 DEF Records
  <2> QED BY <2>1, <2>2, <2>3
<1>9. Sound(renewed)
  BY <1>2, <1>3 DEF Sound
<1>4. CASE Saves(renewed) /\ Authorized(r, mem[r].stage, store')
  <2>1. hand = store
    BY <1>2, <1>3, <1>4 DEF Saves
  <2>2. Written /\ store'.access = hand.github /\ store'.generation = store.generation
    BY <1>2, <1>3, <1>9, <1>4, <2>1, SavesWrite, SaveFacts
  <2>3. Staged(r, mem[r].stage)
    BY <1>1, <2>1 DEF Staged, IInv, Request, Streaming
  <2> QED BY <1>1, <1>2, <1>4, <2>2, <2>3, Continues DEF Moved
<1>5. CASE Unsaved(renewed) /\ End(r)
  BY <1>1, <1>2, <1>5, Ends DEF Unsaved, Moved
<1>6. CASE SaveAndEnd(r, Replacement(store))
  BY <1>1, <1>2, <1>6, ReplacementFacts, SavesAndEnds
<1>7. CASE End(r) /\ UNCHANGED store
  BY <1>1, <1>2, <1>7, Ends DEF Moved
<1> QED BY <1>4, <1>5, <1>6, <1>7 DEF Refresh

LEMMA Asks ==
  ASSUME IInv, NEW r \in Requests, Catalogs(r)
  PROVE  IInv'
<1>1. Staged(r, "models") /\ Quiet(r) /\ lock \in {Free, r}
  BY DEF Staged, Catalogs, Quiet, clock
<1> QED BY <1>1, Authorizes DEF Catalogs

LEMMA Fills ==
  ASSUME IInv, NEW r \in Requests, Catalog(r)
  PROVE  IInv'
<1> DEFINE hand == mem[r].hand
<1>1. /\ pc[r] \in Holding /\ Quiet(r) /\ mem[r].stage \in {"models", "again"}
      /\ mem[r].bound =< store.generation
  BY DEF Catalog, Holding, Waiting, IInv, Request, Streaming, Quiet
<1>2. /\ lock = r /\ hand \in Records /\ Sound(hand) /\ store \in Records
      /\ hand.revision = store.revision => hand = store
      /\ hand = store \/ store.github = NoToken
  BY <1>1, HeldFacts
<1>3. ASSUME NEW ids \in SUBSET Models,
             LET filled == [hand EXCEPT !.catalog = ids, !.fetched = TRUE]
             IN  \/ Saves(filled) /\ Listed(r, filled)
                 \/ Unsaved(filled) /\ End(r)
      PROVE  IInv'
  <2> DEFINE filled == [hand EXCEPT !.catalog = ids, !.fetched = TRUE]
  <2>1. /\ filled \in Records /\ filled.revision = hand.revision
        /\ filled.generation = hand.generation /\ filled.routing = hand.routing /\ Sound(filled)
    BY <1>2 DEF Records, Sound
  <2>2. CASE Saves(filled) /\ Listed(r, filled)
    <3>1. hand = store
      BY <1>2, <2>1, <2>2 DEF Saves
    <3>2. Written /\ store'.generation = filled.generation
      BY <1>2, <2>1, <2>2, <3>1, SavesWrite, SaveFacts
    <3> QED BY <1>1, <1>2, <2>1, <2>2, <3>1, <3>2, Lists DEF Moved
  <2>3. CASE Unsaved(filled) /\ End(r)
    BY <1>1, <1>2, <2>3, Ends DEF Unsaved, Moved
  <2> QED BY <1>3, <2>2, <2>3
<1>4. ASSUME refusals' = refusals \cup {Token(hand)}, Authorize(r, "again", TRUE)
      PROVE  IInv'
  <2>1. store.github = NoToken \/ Token(store) \in refusals'
    BY <1>2, <1>4
  <2>2. Staged(r, "again")
    BY DEF Staged
  <2> QED BY <1>1, <1>2, <1>4, <2>1, <2>2, Authorizes
<1>5. CASE End(r) /\ UNCHANGED store
  BY <1>1, <1>2, <1>5, Ends DEF Moved
<1> QED BY <1>3, <1>4, <1>5 DEF Catalog

LEMMA Chooses ==
  ASSUME IInv, NEW r \in Requests, Commit(r)
  PROVE  IInv'
<1>1. /\ lock \in {Free, r} /\ Quiet(r) /\ store \in Records /\ Sound(store)
      /\ mem[r].listed.ids \subseteq Models
  BY DEF Commit, Quiet, clock, IInv, TypeOK, Memories
<1>2. store.routing \in [revision : Nat, choice : Choices]
  BY <1>1 DEF Records
<1>3. CASE Select(r)
  <2>1. PICK m \in Models : SaveAndEnd(r, [store EXCEPT !.routing = Selected(m)])
    BY <1>1, <1>3 DEF Select
  <2> DEFINE new == [store EXCEPT !.routing = Selected(m)]
  <2>2. /\ Selected(m) \in [revision : Nat, choice : Choices]
        /\ Selected(m) = store.routing \/ Selected(m).revision > store.routing.revision
    BY <1>2 DEF Selected, Routed, Choices
  <2>3. /\ new \in Records /\ Sound(new) /\ new.generation = store.generation
        /\ new.routing = Selected(m)
    BY <1>1, <2>2 DEF Records, Sound
  <2> QED BY <1>1, <2>1, <2>2, <2>3, SavesAndEnds
<1>4. CASE UpdateRouting(r)
  <2>1. PICK m \in Models \cup {NoModel} :
          SaveAndEnd(r, [store EXCEPT !.routing = Routed([store.routing.choice EXCEPT !.role = m])])
    BY <1>1, <1>4 DEF UpdateRouting
  <2> DEFINE routing == Routed([store.routing.choice EXCEPT !.role = m])
             new == [store EXCEPT !.routing = routing]
  <2>9. routing \in [revision : Nat, choice : Choices] /\ routing.revision > store.routing.revision
    BY <1>2 DEF Routed, Choices
  <2>2. /\ new \in Records /\ Sound(new) /\ new.generation = store.generation
        /\ new.routing.revision > store.routing.revision
    BY <1>1, <2>9 DEF Records, Sound
  <2> QED BY <1>1, <2>1, <2>2, SavesAndEnds
<1>5. CASE End(r) /\ UNCHANGED store
  BY <1>1, <1>5, Ends DEF Moved
<1> QED BY <1>3, <1>4, <1>5 DEF Commit

LEMMA Begins ==
  ASSUME IInv, NEW r \in Requests, AuthorizeStream(r)
  PROVE  IInv'
<1>1. Staged(r, "authorize") /\ Quiet(r) /\ lock \in {Free, r}
  BY DEF Staged, AuthorizeStream, Quiet, clock
<1>2. CASE End(r) /\ UNCHANGED store
  BY <1>1, <1>2, Ends DEF Moved
<1>3. CASE Authorize(r, "authorize", FALSE)
  BY <1>1, <1>3, Authorizes
<1> QED BY <1>2, <1>3 DEF AuthorizeStream

LEMMA Sends ==
  ASSUME IInv, NEW r \in Requests, SendStream(r)
  PROVE  IInv'
<1>1. Quiet(r) /\ lock \in {Free, r}
  BY DEF SendStream, Quiet, clock
<1>2. CASE End(r) /\ UNCHANGED store
  BY <1>1, <1>2, Ends DEF Moved
<1>3. CASE Bound(r) /\ Authorize(r, "send", Rejected(r))
  <2>1. store \in Records /\ mem[r] \in Memories
    BY DEF IInv, TypeOK
  <2>2. store.generation = mem[r].bound /\ mem[r].listed.generation = mem[r].bound
    <3>1. /\ mem[r].bound =< mem[r].listed.generation
          /\ mem[r].listed.generation =< store.generation
      BY DEF SendStream, IInv, Request, Streaming
    <3> QED BY <1>3, <2>1, <3>1, RecordFacts DEF Bound, Memories, NoToken
  <2>3. Rejected(r) => Token(store) \in refusals'
    BY <1>1, <2>2 DEF Rejected, Token, IInv, Request, Streaming, Quiet
  <2>4. Staged(r, "send")
    BY <2>2 DEF Staged
  <2>5. Rejected(r) \in BOOLEAN
    BY DEF Rejected
  <2> QED BY <1>1, <1>3, <2>3, <2>4, <2>5, Authorizes
<1> QED BY <1>2, <1>3 DEF SendStream

LEMMA Answers ==
  ASSUME IInv, NEW r \in Requests, Answer(r)
  PROVE  IInv'
<1>1. Quiet(r) /\ Moved /\ UNCHANGED store
  BY DEF Answer, Quiet, Moved
<1>2. CASE End(r)
  BY <1>1, <1>2, Ends
<1> DEFINE hand == mem[r].hand
           m == [mem[r] EXCEPT !.hand = NoCopy, !.rejected = hand.tokens]
<1>3. CASE refusals' = refusals \cup {Token(hand)} /\ Goto(r, "send", m) /\ UNCHANGED lock
  <2>1. TypeOK /\ mem[r] \in Memories /\ hand \in Records /\ store \in Records
    BY DEF IInv, TypeOK, Memories
  <2>2. m \in Memories /\ "send" \in Labels
    BY <2>1, CopyFacts, RecordFacts DEF Memories, Labels
  <2>3. pc'[r] = "send" /\ mem'[r] = m
    BY <1>3, <2>1, <2>2, GotoFacts
  <2>4. /\ m.kind = mem[r].kind /\ m.saw = mem[r].saw /\ m.bound = mem[r].bound
        /\ m.listed = mem[r].listed /\ m.rejected = hand.tokens
    BY <2>1 DEF Memories
  <2>5. /\ Sighted(r) /\ mem[r].bound =< store.generation
        /\ hand.generation = mem[r].bound /\ mem[r].listed.generation = mem[r].bound
    BY DEF Answer, IInv, Request, Streaming
  <2>6. Sighted(r)'
    BY <1>1, <2>3, <2>4, <2>5 DEF Sighted
  <2>7. Streaming(r)'
    <3>1. mem[r].bound \in Nat
      BY <2>1 DEF Memories
    <3> QED BY <1>1, <1>3, <2>3, <2>4, <2>5, <3>1 DEF Streaming, Token
  <2>8. Request(r)'
    BY <2>3, <2>6, <2>7 DEF Request, Holding, Waiting, Refreshing
  <2> QED BY <1>1, <1>3, <2>1, <2>2, <2>8, StepPreserves DEF Quiet, bounds, TypeOK
<1> QED BY <1>2, <1>3 DEF Answer

LEMMA NextPreserves == IInv /\ [Next]_vars => IInv'
<1> SUFFICES ASSUME IInv, [Next]_vars PROVE IInv'
  OBVIOUS
<1>1. CASE UNCHANGED vars
  BY <1>1 DEF vars, bounds, clock, IInv, TypeOK, Sound, Request, Holds, Sighted, Refreshing,
     Exchangeable, Streaming, Token
<1>2. ASSUME NEW r \in Requests, Arrive(r) \/ Handle(r) \/ Fail(r)
      PROVE  IInv'
  BY <1>2, Arrives, Fails, Starts, Codes, Polls, Grants, Refreshes, Asks, Fills, Chooses,
     Begins, Sends, Answers DEF Handle
<1> QED BY <1>1, <1>2, LogsOut, Ages, Crashes DEF Next

LEMMA Invariant == Spec => []IInv
BY Initially, NextPreserves, PTL DEF Spec

-------------------------------------------------------------------------------
(* What a step does to the row *)

Replaced ==
  /\ store'.generation = store.generation + 1
  /\ store'.github = NoToken
  /\ store'.routing = [revision |-> store.routing.revision + 1, choice |-> NoChoice]

Unreplaced == store'.generation = store.generation

Given ==
  /\ Unreplaced /\ store'.routing = store.routing /\ store'.tokens = store.tokens
  /\ store.github = NoToken /\ store'.github # NoToken

Rerouted ==
  /\ Unreplaced /\ store'.tokens = store.tokens
  /\ store.github # NoToken /\ store'.github = store.github
  /\ \E choice \in Choices : store'.routing = Routed(choice)

Kept ==
  /\ Unreplaced /\ store'.routing = store.routing /\ store'.github = store.github
  /\ store'.tokens = store.tokens \/ Exchangeable

RowStep == Replaced \/ Given \/ Rerouted \/ Kept

\* A save of a new generation.
LEMMA SavesReplace ==
  ASSUME IInv, Saves(Replacement(store))
  PROVE  Replaced
<1>1. store \in Records /\ Replacement(store) \in Records
  BY ReplacementFacts DEF IInv, TypeOK
<1>2. /\ Replacement(store).generation = store.generation + 1
      /\ Replacement(store).github = NoToken
      /\ Replacement(store).routing = [revision |-> store.routing.revision + 1, choice |-> NoChoice]
  BY <1>1, ReplacementFacts
<1> QED BY <1>1, <1>2, SaveFacts DEF Replaced

\* A save that changes nothing the users of the account can tell.
LEMMA SavesKeep ==
  ASSUME IInv, NEW state \in Records, Saves(state),
         state.generation = store.generation, state.routing = store.routing,
         state.github = store.github, state.tokens = store.tokens \/ Exchangeable
  PROVE  Kept
BY SaveFacts DEF IInv, TypeOK, Kept, Unreplaced

LEMMA HandlersStep ==
  ASSUME IInv, NEW r \in Requests, Handle(r)
  PROVE  RowStep
<1> DEFINE hand == mem[r].hand
<1>1. store \in Records /\ hand \in Records
  BY DEF IInv, TypeOK, Memories
<1>2. CASE UNCHANGED store
  BY <1>2 DEF RowStep, Kept, Unreplaced
<1>3. CASE StartLogin(r)
  BY <1>2, <1>3, SavesReplace DEF StartLogin, Unsaved, RowStep
<1>4. ASSUME NEW state, pc[r] \in Holding, Saves(state), state.revision = hand.revision
      PROVE  hand = store
  BY <1>4, HeldFacts DEF Saves
<1>5. CASE DeviceCode(r)
  <2> DEFINE new == [hand EXCEPT !.device = "pending"]
  <2>1. CASE Saves(new)
    <3>1. /\ new \in Records /\ new.revision = hand.revision /\ new.generation = hand.generation
          /\ new.routing = hand.routing /\ new.github = hand.github /\ new.tokens = hand.tokens
      BY <1>1 DEF Records
    <3>2. hand = store
      BY <1>4, <1>5, <2>1, <3>1 DEF DeviceCode, Holding, Waiting
    <3> QED BY <2>1, <3>1, <3>2, SavesKeep DEF RowStep
  <2> QED BY <1>2, <1>5, <2>1 DEF DeviceCode, SaveAndEnd, Unsaved
<1>6. CASE Poll(r)
  <2> DEFINE new == [store EXCEPT !.device = "over"]
  <2>1. CASE Saves(new)
    <3>1. /\ new \in Records /\ new.generation = store.generation
          /\ new.routing = store.routing /\ new.github = store.github /\ new.tokens = store.tokens
      BY <1>1 DEF Records
    <3> QED BY <2>1, <3>1, SavesKeep DEF RowStep
  <2>2. CASE Saves(store)
    BY <1>1, <2>2, SavesKeep DEF RowStep
  <2> QED BY <1>2, <1>6, <2>1, <2>2 DEF Poll, SaveAndEnd, Unsaved
<1>7. CASE Granted(r)
  <2> DEFINE over == [hand EXCEPT !.device = "over"]
             granted == [hand EXCEPT !.github = hand.generation, !.device = "none"]
  <2>1. pc[r] \in Holding /\ hand.device = "pending" /\ Sound(hand)
    BY <1>7, HeldFacts DEF Granted, Holding, Waiting, IInv, Request
  <2>2. CASE Saves(hand)
    BY <1>1, <1>4, <2>1, <2>2, SavesKeep DEF RowStep
  <2>3. CASE Saves(over)
    <3>1. /\ over \in Records /\ over.revision = hand.revision /\ over.generation = hand.generation
          /\ over.routing = hand.routing /\ over.github = hand.github /\ over.tokens = hand.tokens
      BY <1>1 DEF Records
    <3>2. hand = store
      BY <1>4, <2>1, <2>3, <3>1
    <3> QED BY <2>3, <3>1, <3>2, SavesKeep DEF RowStep
  <2>4. CASE Saves(granted)
    <3>1. /\ granted \in Records /\ granted.revision = hand.revision
          /\ granted.generation = hand.generation /\ granted.routing = hand.routing
          /\ granted.github = hand.generation /\ granted.tokens = hand.tokens
      BY <1>1 DEF Records
    <3>2. hand = store
      BY <1>4, <2>1, <2>4, <3>1
    <3>3. /\ store'.generation = granted.generation /\ store'.routing = granted.routing
          /\ store'.github = granted.github /\ store'.tokens = granted.tokens
      BY <1>1, <2>4, <3>1, SaveFacts
    <3>4. hand.generation # NoToken
      BY <1>1, RecordFacts DEF NoToken
    <3>5. Given
      BY <2>1, <3>1, <3>2, <3>3, <3>4 DEF Given, Unreplaced, Sound
    <3> QED BY <3>5 DEF RowStep
  <2> QED BY <1>2, <1>7, <2>2, <2>3, <2>4 DEF Granted, SaveAndEnd, Unsaved
<1>8. CASE Refresh(r)
  <2> DEFINE renewed == [hand EXCEPT !.access = hand.github, !.tokens = @ + 1]
  <2>1. CASE Saves(renewed)
    <3>1. hand.github \in Nat \cup {NoToken} /\ hand.tokens + 1 \in Nat
      BY <1>1, RecordFacts
    <3>2. ASSUME NEW access \in Nat \cup {NoToken}, NEW tokens \in Nat
          PROVE  LET new == [hand EXCEPT !.access = access, !.tokens = tokens]
                 IN  /\ new \in Records /\ new.revision = hand.revision
                     /\ new.generation = hand.generation /\ new.routing = hand.routing
                     /\ new.github = hand.github
      BY <1>1 DEF Records
    <3>3. renewed = [hand EXCEPT !.access = hand.github, !.tokens = hand.tokens + 1]
      BY <1>1 DEF Records
    <3>4. /\ renewed \in Records /\ renewed.revision = hand.revision
          /\ renewed.generation = hand.generation /\ renewed.routing = hand.routing
          /\ renewed.github = hand.github
      BY <3>1, <3>2, <3>3
    <3>5. hand = store
      BY <1>4, <1>8, <2>1, <3>4 DEF Refresh, Holding, Waiting
    <3>6. Exchangeable
      BY <1>8, <3>5 DEF Refresh, IInv, Request, Refreshing
    <3> QED BY <2>1, <3>4, <3>5, <3>6, SavesKeep DEF RowStep
  <2>2. CASE Saves(Replacement(store))
    BY <2>2, SavesReplace DEF RowStep
  <2> QED BY <1>2, <1>8, <2>1, <2>2 DEF Refresh, SaveAndEnd, Unsaved
<1>9. CASE Catalogs(r)
  BY <1>2, <1>9 DEF Catalogs, Authorize
<1>10. CASE Catalog(r)
  <2>1. ASSUME NEW ids \in SUBSET Models, Saves([hand EXCEPT !.catalog = ids, !.fetched = TRUE])
        PROVE  RowStep
    <3> DEFINE new == [hand EXCEPT !.catalog = ids, !.fetched = TRUE]
    <3>1. /\ new \in Records /\ new.revision = hand.revision /\ new.generation = hand.generation
          /\ new.routing = hand.routing /\ new.github = hand.github /\ new.tokens = hand.tokens
      BY <1>1 DEF Records
    <3>2. hand = store
      BY <1>4, <1>10, <2>1, <3>1 DEF Catalog, Holding, Waiting
    <3> QED BY <2>1, <3>1, <3>2, SavesKeep DEF RowStep
  <2> QED BY <1>2, <1>10, <2>1 DEF Catalog, Authorize, Unsaved
<1>11. CASE Commit(r)
  <2>1. /\ store.routing \in [revision : Nat, choice : Choices]
        /\ mem[r].listed.ids \subseteq Models
    BY <1>1 DEF Records, IInv, TypeOK, Memories
  <2>2. ASSUME NEW routing \in [revision : Nat, choice : Choices], store.github # NoToken,
               Saves([store EXCEPT !.routing = routing]),
               routing = store.routing \/ \E choice \in Choices : routing = Routed(choice)
        PROVE  RowStep
    <3> DEFINE new == [store EXCEPT !.routing = routing]
    <3>1. /\ new \in Records /\ new.generation = store.generation
          /\ new.routing = routing /\ new.github = store.github /\ new.tokens = store.tokens
      BY <1>1, <2>2 DEF Records
    <3>2. /\ store'.generation = new.generation /\ store'.routing = new.routing
          /\ store'.github = new.github /\ store'.tokens = new.tokens
      BY <1>1, <2>2, <3>1, SaveFacts
    <3> QED BY <2>2, <3>1, <3>2 DEF RowStep, Rerouted, Kept, Unreplaced
  <2>3. CASE Select(r)
    <3>1. PICK m \in Models : SaveAndEnd(r, [store EXCEPT !.routing = Selected(m)])
      BY <2>1, <2>3 DEF Select
    <3>2. CASE store.routing.choice.default = m
      BY <1>2, <2>1, <2>2, <2>3, <3>1, <3>2 DEF Select, Selected, SaveAndEnd, Unsaved
    <3>3. CASE store.routing.choice.default # m
      <4> DEFINE choice == [store.routing.choice EXCEPT !.default = m]
      <4>1. choice \in Choices /\ Routed(choice) \in [revision : Nat, choice : Choices]
        BY <2>1 DEF Routed, Choices
      <4>2. Selected(m) = Routed(choice)
        BY <3>3 DEF Selected
      <4> QED BY <1>2, <2>2, <2>3, <3>1, <4>1, <4>2 DEF Select, SaveAndEnd, Unsaved
    <3> QED BY <3>2, <3>3
  <2>4. CASE UpdateRouting(r)
    <3>1. PICK m \in Models \cup {NoModel} :
            SaveAndEnd(r, [store EXCEPT !.routing = Routed([store.routing.choice EXCEPT !.role = m])])
      BY <2>1, <2>4 DEF UpdateRouting
    <3> DEFINE choice == [store.routing.choice EXCEPT !.role = m]
    <3>2. choice \in Choices /\ Routed(choice) \in [revision : Nat, choice : Choices]
      BY <2>1 DEF Routed, Choices
    <3> QED BY <1>2, <2>2, <2>4, <3>1, <3>2 DEF UpdateRouting, SaveAndEnd, Unsaved
  <2> QED BY <1>2, <1>11, <2>3, <2>4 DEF Commit
<1>12. CASE AuthorizeStream(r) \/ SendStream(r) \/ Answer(r)
  BY <1>2, <1>12 DEF AuthorizeStream, SendStream, Answer, Authorize
<1> QED BY <1>3, <1>5, <1>6, <1>7, <1>8, <1>9, <1>10, <1>11, <1>12 DEF Handle

LEMMA NextSteps ==
  ASSUME IInv, [Next]_vars
  PROVE  RowStep
<1>1. CASE UNCHANGED store
  BY <1>1 DEF RowStep, Kept, Unreplaced
<1>2. CASE Logout
  BY <1>2, SavesReplace DEF Logout, RowStep
<1> QED BY <1>1, <1>2, HandlersStep DEF Next, vars, Arrive, Fail, TokenAges, Crash

-------------------------------------------------------------------------------
(* Theorems *)

\* The row, the lock and the requests have their types.
THEOREM TypeCorrect == Spec => []TypeOK
BY Invariant, PTL DEF IInv

\* What is stored of GitHub and of Copilot was granted to the session stored with it.
THEOREM TokensBelong == Spec => []TokensBelongToSession
<1>1. IInv => TokensBelongToSession
  BY DEF IInv, Sound, TokensBelongToSession
<1> QED BY <1>1, Invariant, PTL

\* A client that names the routing revision it saw means the session and models it saw.
THEOREM RevisionsName == Spec => []RevisionNamesRouting
<1>1. ASSUME IInv PROVE RevisionNamesRouting
  <2>1. ASSUME NEW r \in Requests, mem[r].kind \in {"select", "route"},
               mem[r].saw.routing.revision = store.routing.revision
        PROVE  mem[r].saw.generation = store.generation /\ mem[r].saw.routing = store.routing
    BY <1>1, <2>1 DEF IInv, Request, Sighted
  <2> QED BY <2>1 DEF RevisionNamesRouting
<1> QED BY <1>1, Invariant, PTL

\* A stream is sent with the token, and after the catalog, of the session it is bound to.
THEOREM StreamsKeep == Spec => []StreamsKeepTheirSession
<1>1. IInv => StreamsKeepTheirSession
  BY DEF IInv, Request, Streaming, StreamsKeepTheirSession
<1> QED BY <1>1, Invariant, PTL

\* A subscription token is exchanged only when its time is up or it was rejected.
THEOREM RefreshesHaveCause == Spec => RefreshNeedsCause
<1>1. ASSUME IInv, [Next]_vars
      PROVE  store'.generation = store.generation /\ store'.tokens # store.tokens =>
               store.access = NoToken \/ Token(store) \in refusals \cup {aged}
  <2>1. RowStep /\ store \in Records
    BY <1>1, NextSteps DEF IInv, TypeOK
  <2> QED BY <2>1, RecordFacts DEF RowStep, Replaced, Given, Rerouted, Kept, Exchangeable
<1> QED BY <1>1, Invariant, PTL DEF Spec, RefreshNeedsCause

\* The row goes through sessions as CopilotAccount promises.
THEOREM Refinement == Spec => RefinesCopilotAccount
<1>1. Init => Account!Init
  <2> SUFFICES ASSUME Init PROVE Account!Init
    OBVIOUS
  <2>1. store \in Records
    BY Initially DEF IInv, TypeOK
  <2>2. store.generation = 0
    <3>1. CASE store = NoCopy
      BY <3>1 DEF NoCopy, Emptied
    <3>2. CASE store # NoCopy
      <4>1. store = [Emptied(0, 1, 1) EXCEPT !.github = 0, !.access = 0, !.tokens = 1,
                                             !.fetched = TRUE, !.catalog = Models]
        BY <3>2 DEF Init, Stored
      <4> QED BY <4>1 DEF Emptied
    <3> QED BY <3>1, <3>2
  <2>3. store.routing.choice \in Choices
    BY <2>1 DEF Records
  <2> QED BY <2>2, <2>3 DEF Account!Init
<1>2. ASSUME IInv, [Next]_vars
      PROVE  [Account!Next]_Account!vars
  <2>1. RowStep /\ store \in Records /\ store.generation \in Nat
    BY <1>2, NextSteps, RecordFacts DEF IInv, TypeOK
  <2>2. CASE Replaced
    <3>1. /\ store'.generation \in Nat \ (0..(store.generation - 1) \cup {store.generation})
          /\ 0..(store'.generation - 1) = 0..(store.generation - 1) \cup {store.generation}
      BY <2>1, <2>2 DEF Replaced
    <3>2. Account!Replace
      BY <2>2, <3>1 DEF Replaced, Account!Replace, Account!Revised
    <3> QED BY <3>2 DEF Account!Next
  <2>3. CASE Given
    BY <2>3 DEF Given, Unreplaced, Account!Next, Account!Grant
  <2>4. CASE Rerouted
    BY <2>4 DEF Rerouted, Unreplaced, Routed, Account!Next, Account!Route, Account!Revised
  <2>5. CASE Kept
    BY <2>5 DEF Kept, Unreplaced, Account!vars
  <2> QED BY <2>1, <2>2, <2>3, <2>4, <2>5 DEF RowStep
<1> QED BY <1>1, <1>2, Invariant, PTL DEF Spec, RefinesCopilotAccount, Account!Spec

===============================================================================
