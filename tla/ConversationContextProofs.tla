----------------------- MODULE ConversationContextProofs -----------------------
(***************************************************************************)
(* For any number of turns, of messages in a tail and in a page: nothing   *)
(* that was said is lost unseen, and an engine is told all that its turn   *)
(* could read.                                                             *)
(*                                                                         *)
(* The heart of the argument is Covered: from the moment a turn stored its *)
(* summary until it deletes what that tells, everything it is about to     *)
(* delete is told by a message at least as young as that summary.  Another *)
(* turn may delete the summary, but only after it stored one that is       *)
(* younger still; and what a trim deletes tells nothing but itself.        *)
(***************************************************************************)
EXTENDS ConversationContext, TLAPS

\* A message tells what is not younger than itself.
Sensible(m) ==
  /\ m.id \in Nat /\ m.id < next
  /\ \A i \in m.tells : i \in Nat /\ i <= m.id
  /\ ~m.summary => m.tells = {m.id}

Shaped(m) == DOMAIN m = DOMAIN NoMemory

\* What a turn remembers of a message is what the message is.
Remembers(r) ==
  /\ mem[r].own \in Int /\ mem[r].own < next
  /\ \A m \in messages : m.id = mem[r].own => m.tells = {m.id}
  /\ \A n \in mem[r].page : Sensible(n) /\ \A m \in messages : m.id = n.id => m = n

\* What somebody at least as young as the message with number k tells.
Lately(k) == {i \in Nat : \E m \in messages : m.id >= k /\ i \in m.tells}

Covered(r) ==
  pc[r] = "delete" =>
    /\ mem[r].made \in Nat /\ mem[r].made < next
    /\ \A n \in Body(mem[r].page) : n.id < mem[r].made
    /\ Told(Body(mem[r].page)) \subseteq Lately(mem[r].made) \cup forgotten

Informed(r) ==
  /\ pc[r] = "summarise" => mem[r].before \subseteq Told(Heard(mem[r].page))
  /\ pc[r] \in {"delete", "keep", "trim", "engine"} =>
       mem[r].before \subseteq Told(mem[r].context) \cup mem[r].untold

Tables ==
  /\ pc = [r \in Turns |-> pc[r]]
  /\ mem = [r \in Turns |-> mem[r]] /\ \A r \in Turns : Shaped(mem[r])

Collection ==
  /\ next \in Nat
  /\ \A m \in messages : Sensible(m)
  /\ \A m, n \in messages : m.id = n.id => m = n

Turn(r) == Remembers(r) /\ Covered(r) /\ Informed(r)

IInv == Tables /\ Collection /\ NothingIsLost /\ \A r \in Turns : Turn(r)

-------------------------------------------------------------------------------

\* What every step does to the collection, as far as the turns are concerned.
Moderate ==
  /\ next' \in Nat /\ next <= next' /\ forgotten \subseteq forgotten'
  /\ \A m \in messages' : m \in messages \/ (m.id = next /\ next < next')
  /\ \A k \in Nat : \A i \in Lately(k) : i < k => i \in Lately(k)' \cup forgotten'

\* A turn that does not move keeps what it has.
LEMMA Undisturbed ==
  ASSUME IInv, Moderate, NEW r \in Turns, pc'[r] = pc[r], mem'[r] = mem[r]
  PROVE  Turn(r)'
<1>1. Remembers(r)'
  BY DEF IInv, Collection, Turn, Remembers, Moderate, Sensible
<1>2. Covered(r)'
  <2> SUFFICES ASSUME pc[r] = "delete"
               PROVE  /\ mem[r].made \in Nat /\ mem[r].made < next'
                      /\ \A n \in Body(mem[r].page) : n.id < mem[r].made
                      /\ Told(Body(mem[r].page)) \subseteq Lately(mem[r].made)' \cup forgotten'
    BY DEF Covered, Lately
  <2>1. Covered(r) /\ Remembers(r)
    BY DEF IInv, Turn
  <2>2. mem[r].made \in Nat /\ mem[r].made < next'
    BY <2>1 DEF Covered, Moderate, IInv, Collection
  <2>3. ASSUME NEW i \in Told(Body(mem[r].page))
        PROVE  i \in Lately(mem[r].made)' \cup forgotten'
    <3>1. PICK n \in Body(mem[r].page) : i \in n.tells
      BY <2>3 DEF Told
    <3>2. i < mem[r].made
      BY <2>1, <2>2, <3>1 DEF Covered, Remembers, Body, Sensible
    <3> QED BY <2>1, <2>2, <3>2 DEF Covered, Moderate
  <2> QED BY <2>1, <2>2, <2>3 DEF Covered
<1>3. Informed(r)'
  BY DEF IInv, Turn, Informed, Moderate
<1> QED BY <1>1, <1>2, <1>3 DEF Turn

\* Moving one turn leaves the tables tables.
LEMMA Moves ==
  ASSUME Tables, NEW r \in Turns, NEW label, NEW m, Goto(r, label, m), Shaped(m)
  PROVE  /\ Tables' /\ pc'[r] = label /\ mem'[r] = m
         /\ \A s \in Turns : s # r => pc'[s] = pc[s] /\ mem'[s] = mem[s]
BY DEF Tables, Goto, Shaped

LEMMA Blank == Shaped(NoMemory)
BY DEF Shaped

\* What a turn is in that holds nothing.
LEMMA Empty ==
  ASSUME NEW r \in Turns, pc[r] \in {"idle", "load"}, next \in Nat,
         mem[r].page = {}, mem[r].own \in Int, mem[r].own < next,
         \A m \in messages : m.id = mem[r].own => m.tells = {m.id}
  PROVE  Turn(r)
BY DEF Turn, Remembers, Covered, Informed

\* A step that inserts a message.
LEMMA Inserts ==
  ASSUME IInv, NEW m, m.id = next, next' = next + 1, messages' = messages \cup {m},
         forgotten \subseteq forgotten', \A i \in m.tells : i \in Nat /\ i <= next,
         ~m.summary => m.tells = {next}, said' \subseteq said \cup m.tells
  PROVE  Moderate /\ Collection' /\ NothingIsLost'
<1>1. Collection'
  BY DEF IInv, Collection, Sensible
<1>2. Moderate
  BY DEF IInv, Collection, Moderate, Lately
<1>3. NothingIsLost'
  BY DEF IInv, NothingIsLost, Told
<1> QED BY <1>1, <1>2, <1>3

\* A step that touches the turn only.
LEMMA Leaves ==
  ASSUME IInv, UNCHANGED <<messages, next, said, forgotten>>
  PROVE  Moderate /\ Collection' /\ NothingIsLost'
<1>1. messages' = messages /\ next' = next
  OBVIOUS
<1>2. ASSUME NEW m \in messages PROVE Sensible(m)'
  <2>1. Sensible(m)
    BY DEF IInv, Collection
  <2> QED BY <1>1, <2>1 DEF Sensible
<1>3. Collection'
  BY <1>1, <1>2 DEF IInv, Collection
<1>4. Moderate
  <2>1. \A k \in Nat : Lately(k)' = Lately(k)
    BY <1>1, Zenon DEF Lately
  <2> QED BY <1>1, <2>1 DEF IInv, Collection, Moderate
<1>5. NothingIsLost'
  BY DEF IInv, NothingIsLost, Told
<1> QED BY <1>3, <1>4, <1>5

\* Once a turn moves, and the collection is in order, so is everything.
LEMMA Settles ==
  ASSUME IInv, Moderate, Collection', NothingIsLost', NEW r \in Turns, Tables', Turn(r)',
         \A s \in Turns : s # r => pc'[s] = pc[s] /\ mem'[s] = mem[s]
  PROVE  IInv'
<1>1. ASSUME NEW s \in Turns PROVE Turn(s)'
  BY <1>1, Undisturbed
<1> QED BY <1>1 DEF IInv

-------------------------------------------------------------------------------

LEMMA Initially == Init => IInv
<1> SUFFICES ASSUME Init PROVE IInv
  OBVIOUS
<1>1. Tables
  BY Blank DEF Init, Tables
<1>2. PICK n \in InitialSizes :
        /\ messages = {[id |-> i, at |-> i, less |-> 0, role |-> "user", summary |-> FALSE,
                        tells |-> {i}] : i \in 0..(n - 1)}
        /\ next = n /\ said = 0..(n - 1)
  BY DEF Init
<1>3. n \in Nat
  BY SizeAssumption
<1>4. Collection
  <2>1. ASSUME NEW m \in messages
        PROVE  Sensible(m) /\ m = [id |-> m.id, at |-> m.id, less |-> 0, role |-> "user",
                                   summary |-> FALSE, tells |-> {m.id}]
    <3>1. PICK i \in 0..(n - 1) :
            m = [id |-> i, at |-> i, less |-> 0, role |-> "user", summary |-> FALSE,
                 tells |-> {i}]
      BY <1>2
    <3> QED BY <1>2, <1>3, <3>1 DEF Sensible
  <2>2. ASSUME NEW m \in messages, NEW k \in messages, m.id = k.id PROVE m = k
    BY <2>1, <2>2
  <2> QED BY <1>2, <1>3, <2>1, <2>2 DEF Collection
<1>5. NothingIsLost
  <2>1. ASSUME NEW i \in said PROVE i \in Told(messages)
    <3> DEFINE m == [id |-> i, at |-> i, less |-> 0, role |-> "user", summary |-> FALSE,
                     tells |-> {i}]
    <3>1. m \in messages /\ i \in m.tells
      BY <1>2, <2>1
    <3> QED BY <3>1 DEF Told
  <2> QED BY <2>1 DEF NothingIsLost
<1>6. ASSUME NEW r \in Turns PROVE Turn(r)
  <2>1. pc[r] = "idle" /\ mem[r] = NoMemory
    BY DEF Init
  <2>2. mem[r].page = {} /\ mem[r].own = -1
    BY <2>1 DEF NoMemory
  <2>3. \A m \in messages : m.id # -1
    BY <1>4 DEF Collection, Sensible
  <2> QED BY <1>2, <1>3, <2>1, <2>2, <2>3, Empty
<1> QED BY <1>1, <1>4, <1>5, <1>6 DEF IInv

\* Ending a turn, whatever happened to the collection.
LEMMA Ends ==
  ASSUME IInv, Moderate, Collection', NothingIsLost', NEW r \in Turns, End(r)
  PROVE  IInv'
<1>1. /\ Tables' /\ pc'[r] = "idle" /\ mem'[r] = NoMemory
      /\ \A s \in Turns : s # r => pc'[s] = pc[s] /\ mem'[s] = mem[s]
  BY Blank, Moves DEF End, IInv
<1>2. Turn(r)'
  BY <1>1 DEF NoMemory, Turn, Remembers, Covered, Informed, Collection, Sensible
<1> QED BY <1>1, <1>2, Settles

LEMMA PostStep ==
  ASSUME IInv, NEW r \in Turns, Post(r)
  PROVE  IInv'
<1>1. PICK role \in Roles :
        /\ Insert(role)
        /\ \/ role = "user" /\ Goto(r, "load", [NoMemory EXCEPT !.own = next])
           \/ UNCHANGED <<pc, mem>>
  BY DEF Post
<1>2. next \in Nat
  BY DEF IInv, Collection
<1>3. Moderate /\ Collection' /\ NothingIsLost'
  <2>1. Plain(role).id = next /\ Plain(role).tells = {next}
    BY DEF Plain
  <2> QED BY <1>1, <1>2, <2>1, Inserts DEF Insert, Post
<1>4. CASE UNCHANGED <<pc, mem>>
  <2>1. Tables'
    BY <1>4 DEF IInv, Tables, Shaped
  <2>2. ASSUME NEW s \in Turns PROVE Turn(s)'
    BY <1>3, <1>4, Undisturbed
  <2> QED BY <1>3, <2>1, <2>2 DEF IInv
<1>5. CASE Goto(r, "load", [NoMemory EXCEPT !.own = next])
  <2> DEFINE m == [NoMemory EXCEPT !.own = next]
  <2>1. Shaped(m) /\ m.own = next /\ m.page = {}
    BY DEF Shaped, NoMemory
  <2> HIDE DEF m
  <2>2. /\ Tables' /\ pc'[r] = "load" /\ mem'[r] = m
        /\ \A s \in Turns : s # r => pc'[s] = pc[s] /\ mem'[s] = mem[s]
    BY <1>5, <2>1, Moves DEF m, IInv
  <2>3. ASSUME NEW k \in messages', k.id = next PROVE k.tells = {k.id}
    <3>1. k \notin messages
      BY <1>2, <2>3 DEF IInv, Collection, Sensible
    <3>2. k = Plain(role)
      BY <1>1, <3>1 DEF Insert
    <3> QED BY <2>3, <3>2 DEF Plain
  <2>4. Turn(r)'
    BY <1>1, <1>2, <2>1, <2>2, <2>3 DEF Insert, Turn, Remembers, Covered, Informed
  <2> QED BY <1>3, <2>2, <2>4, Settles
<1> QED BY <1>1, <1>4, <1>5

LEMMA BeginStep ==
  ASSUME IInv, NEW r \in Turns, NEW kind, BeginTurn(r, kind)
  PROVE  IInv'
<1> DEFINE m == [NoMemory EXCEPT !.kind = kind]
<1>1. Shaped(m) /\ m.own = -1 /\ m.page = {}
  BY DEF Shaped, NoMemory
<1> HIDE DEF m
<1>2. /\ Tables' /\ pc'[r] = "load" /\ mem'[r] = m
      /\ \A s \in Turns : s # r => pc'[s] = pc[s] /\ mem'[s] = mem[s]
  BY <1>1, Moves DEF m, IInv, BeginTurn
<1>3. Moderate /\ Collection' /\ NothingIsLost'
  BY Leaves DEF BeginTurn
<1>4. \A k \in messages' : k.id # -1
  BY <1>3 DEF Collection, Sensible
<1>5. next' \in Nat
  BY <1>3 DEF Collection
<1>6. Turn(r)'
  BY <1>1, <1>2, <1>4, <1>5 DEF Turn, Remembers, Covered, Informed
<1> QED BY <1>2, <1>3, <1>6, Settles

\* A turn that keeps its page remembers it.
LEMMA Retains ==
  ASSUME IInv, Moderate, NEW r \in Turns, mem'[r].own = mem[r].own, mem'[r].page = mem[r].page
  PROVE  Remembers(r)'
BY DEF IInv, Collection, Turn, Remembers, Moderate, Sensible

LEMMA LoadStep ==
  ASSUME IInv, NEW r \in Turns, Load(r)
  PROVE  IInv'
<1> DEFINE page == {m \in Oldest(messages) : m.id # mem[r].own}
           read == [mem[r] EXCEPT !.page = page, !.context = Heard(page), !.before = said \ Unheard(r)]
<1>1. PICK label \in {"engine", "summarise"} : Goto(r, label, read)
  BY DEF Load
<1>2. Shaped(mem[r])
  BY DEF IInv, Tables
<1>3. /\ Shaped(read) /\ read.page = page /\ read.context = Heard(page)
      /\ read.own = mem[r].own /\ read.before = said \ Unheard(r)
  BY <1>2 DEF Shaped, NoMemory
<1>4. page \subseteq messages
  BY DEF Oldest
<1>5. ASSUME NEW i \in said \ Unheard(r)
      PROVE  i \in Told(Heard(page))
  <2>1. i \in Told(messages)
    BY <1>5 DEF IInv, NothingIsLost, Unheard
  <2>2. Heard(page) = {m \in Heard(Oldest(messages)) : m.id # mem[r].own}
    BY DEF Heard
  <2> QED BY <1>5, <2>1, <2>2 DEF Unheard
<1> HIDE DEF read, page
<1>6. /\ Tables' /\ pc'[r] = label /\ mem'[r] = read
      /\ \A s \in Turns : s # r => pc'[s] = pc[s] /\ mem'[s] = mem[s]
  BY <1>1, <1>3, Moves DEF IInv
<1>7. UNCHANGED <<messages, next, said, forgotten>>
  BY DEF Load
<1>8. Moderate /\ Collection' /\ NothingIsLost'
  BY <1>7, Leaves
<1>9. Remembers(r)'
  <2>1. mem[r].own \in Int /\ mem[r].own < next
        /\ \A m \in messages : m.id = mem[r].own => m.tells = {m.id}
    BY DEF IInv, Turn, Remembers
  <2>2. \A n \in page : n \in messages' /\ Sensible(n)'
    BY <1>4, <1>7, <1>8 DEF Collection
  <2>3. \A n \in page : \A m \in messages' : m.id = n.id => m = n
    BY <1>8, <2>2 DEF Collection
  <2> QED BY <1>3, <1>6, <1>7, <2>1, <2>2, <2>3 DEF Remembers
<1>10. Covered(r)'
  BY <1>6 DEF Covered
<1>11. Informed(r)'
  BY <1>3, <1>5, <1>6, <1>7 DEF Informed
<1> QED BY <1>6, <1>8, <1>9, <1>10, <1>11, Settles DEF Turn

\* What a turn tells its engine in place of a body tells, with what is noted to be
\* untold, all that its page told.
LEMMA Condenses ==
  ASSUME IInv, NEW r \in Turns, pc[r] = "summarise", NEW recap, recap.role = "assistant"
  PROVE  LET m == Condensed(r, recap)
         IN  /\ Shaped(m) /\ m.page = mem[r].page /\ m.own = mem[r].own /\ m.made = recap.id
             /\ m.before \subseteq Told(m.context) \cup m.untold
<1> DEFINE m == Condensed(r, recap)
<1>1. Shaped(mem[r])
  BY DEF IInv, Tables
<1>2. /\ Shaped(m) /\ m.page = mem[r].page /\ m.own = mem[r].own /\ m.made = recap.id
      /\ m.before = mem[r].before
      /\ m.context = Heard(Head(mem[r].page) \cup {recap} \cup Tail(mem[r].page))
      /\ m.untold = Told(Body(mem[r].page)) \ recap.tells
  BY <1>1 DEF Shaped, NoMemory, Condensed
<1> HIDE DEF m
<1>3. ASSUME NEW i \in m.before
      PROVE  i \in Told(m.context) \cup m.untold
  <2>1. PICK n \in Heard(mem[r].page) : i \in n.tells
    BY <1>2, <1>3 DEF IInv, Turn, Informed, Told
  <2>2. CASE n \in Head(mem[r].page) \cup Tail(mem[r].page)
    BY <1>2, <2>1, <2>2 DEF Told, Heard
  <2>3. CASE n \in Body(mem[r].page)
    <3>1. i \in Told(Body(mem[r].page))
      BY <2>1, <2>3 DEF Told
    <3>2. recap \in m.context
      BY <1>2 DEF Heard
    <3> QED BY <1>2, <3>1, <3>2 DEF Told
  <2> QED BY <2>1, <2>2, <2>3 DEF Body, Heard
<1> QED BY <1>2, <1>3 DEF m

\* A turn that stores a summary, and then goes where the label says.
LEMMA StoreStep ==
  ASSUME IInv, NEW r \in Turns, pc[r] = "summarise", NEW recap, NEW label,
         recap.id = next, recap.summary = TRUE, recap.role = "assistant",
         recap.tells \subseteq Told(Body(mem[r].page)),
         Store(r, recap), said' = said, Goto(r, label, Condensed(r, recap)),
         label \in {"delete", "keep"}
  PROVE  IInv'
<1> DEFINE m == Condensed(r, recap)
           body == Body(mem[r].page)
<1>1. /\ Shaped(m) /\ m.page = mem[r].page /\ m.own = mem[r].own /\ m.made = next
      /\ m.before \subseteq Told(m.context) \cup m.untold
  BY Condenses
<1> HIDE DEF m
<1>2. /\ Tables' /\ pc'[r] = label /\ mem'[r] = m
      /\ \A s \in Turns : s # r => pc'[s] = pc[s] /\ mem'[s] = mem[s]
  BY <1>1, Moves DEF m, IInv
<1>3. \A n \in body : Sensible(n)
  BY DEF IInv, Turn, Remembers, Body
<1>4. next \in Nat
  BY DEF IInv, Collection
<1>5. ASSUME NEW i \in Told(body) PROVE i \in Nat /\ i <= next
  <2>1. PICK n \in body : i \in n.tells
    BY <1>5 DEF Told
  <2> QED BY <1>3, <1>4, <2>1 DEF Sensible
<1>6. Moderate /\ Collection' /\ NothingIsLost'
  <2>1. /\ messages' = messages \cup {recap} /\ next' = next + 1
        /\ forgotten \subseteq forgotten'
    BY DEF Store
  <2>2. \A i \in recap.tells : i \in Nat /\ i <= next
    BY <1>5
  <2> QED BY <2>1, <2>2, Inserts
<1>7. Covered(r)'
  <2>1. PICK k \in Nat : k = next /\ k < next'
    BY <1>4 DEF Store
  <2>2. \A n \in body : n.id < k
    BY <1>3, <2>1 DEF Sensible
  <2>3. ASSUME NEW i \in Told(body) PROVE i \in Lately(k)' \cup forgotten'
    <3>1. CASE i \in recap.tells
      <4>1. recap \in messages' /\ recap.id >= k
        BY <2>1 DEF Store
      <4> QED BY <1>5, <2>3, <3>1, <4>1 DEF Lately
    <3>2. CASE i \notin recap.tells
      BY <2>3, <3>2 DEF Store
    <3> QED BY <3>1, <3>2
  <2>4. mem'[r].made = k /\ Body(mem'[r].page) = body
    BY <1>1, <1>2, <2>1
  <2>5. Lately(mem[r].made)' = Lately(k)'
    BY <2>4, Zenon DEF Lately
  <2> HIDE DEF body
  <2> QED BY <2>1, <2>2, <2>3, <2>4, <2>5 DEF Covered
<1>8. Informed(r)'
  BY <1>1, <1>2, <1>6 DEF Informed, Moderate
<1>9. Remembers(r)'
  BY <1>1, <1>2, <1>6, Retains
<1> QED BY <1>2, <1>6, <1>7, <1>8, <1>9, Settles DEF Turn

LEMMA CompactStep ==
  ASSUME IInv, NEW r \in Turns, Compact(r)
  PROVE  IInv'
<1>1. PICK tells \in Texts(r) :
        LET recap == InPlace(r, Recap(tells))
        IN  Store(r, recap) /\ Goto(r, "delete", Condensed(r, recap))
  BY DEF Compact
<1> DEFINE recap == InPlace(r, Recap(tells))
<1>2. /\ recap.id = next /\ recap.summary = TRUE /\ recap.role = "assistant"
      /\ recap.tells = tells
  BY DEF InPlace, Recap
<1>3. tells \subseteq Told(Body(mem[r].page))
  BY DEF Texts
<1>4. Store(r, recap) /\ Goto(r, "delete", Condensed(r, recap))
  BY <1>1
<1> HIDE DEF recap
<1> QED BY <1>2, <1>3, <1>4, StoreStep DEF Compact

\* A turn whose summary only its engine is given.
LEMMA SpareStep ==
  ASSUME IInv, NEW r \in Turns, pc[r] = "summarise", NEW recap, recap.role = "assistant",
         Goto(r, "engine", Condensed(r, recap)), UNCHANGED <<messages, next, said, forgotten>>
  PROVE  IInv'
<1> DEFINE m == Condensed(r, recap)
<1>1. /\ Shaped(m) /\ m.page = mem[r].page /\ m.own = mem[r].own
      /\ m.before \subseteq Told(m.context) \cup m.untold
  BY Condenses
<1> HIDE DEF m
<1>2. /\ Tables' /\ pc'[r] = "engine" /\ mem'[r] = m
      /\ \A s \in Turns : s # r => pc'[s] = pc[s] /\ mem'[s] = mem[s]
  BY <1>1, Moves DEF m, IInv
<1>3. Moderate /\ Collection' /\ NothingIsLost'
  BY Leaves
<1>4. Remembers(r)'
  BY <1>1, <1>2, <1>3, Retains
<1>5. Covered(r)' /\ Informed(r)'
  BY <1>1, <1>2 DEF Covered, Informed
<1> QED BY <1>2, <1>3, <1>4, <1>5, Settles DEF Turn

LEMMA CompactAnalysisStep ==
  ASSUME IInv, NEW r \in Turns, CompactAnalysis(r)
  PROVE  IInv'
<1>1. CASE \E tells \in Texts(r) :
             Store(r, Recap(tells)) /\ Goto(r, "keep", Condensed(r, Recap(tells)))
  <2>1. PICK tells \in Texts(r) :
          Store(r, Recap(tells)) /\ Goto(r, "keep", Condensed(r, Recap(tells)))
    BY <1>1
  <2>2. /\ Recap(tells).id = next /\ Recap(tells).summary = TRUE
        /\ Recap(tells).role = "assistant" /\ Recap(tells).tells = tells
    BY DEF Recap
  <2>3. tells \subseteq Told(Body(mem[r].page))
    BY DEF Texts
  <2> QED BY <2>1, <2>2, <2>3, StoreStep DEF CompactAnalysis
<1>2. CASE Goto(r, "engine", Condensed(r, Recap({}))) /\ UNCHANGED <<messages, next, forgotten>>
  BY <1>2, SpareStep DEF CompactAnalysis, Recap
<1> QED BY <1>1, <1>2 DEF CompactAnalysis

LEMMA CompactResearchStep ==
  ASSUME IInv, NEW r \in Turns, CompactResearch(r)
  PROVE  IInv'
<1>1. PICK tells \in Texts(r) : Goto(r, "engine", Condensed(r, Recap(tells)))
  BY DEF CompactResearch
<1> QED BY <1>1, SpareStep DEF CompactResearch, Recap

\* Whoever tells what is deleted is younger than what was to be deleted, and stays.
LEMMA DeleteStep ==
  ASSUME IInv, NEW r \in Turns, Delete(r)
  PROVE  IInv'
<1> DEFINE body == Body(mem[r].page)
<1>1. /\ messages' = {m \in messages : \A n \in body : m.id # n.id}
      /\ UNCHANGED <<next, said, forgotten>> /\ Goto(r, "engine", mem[r]) /\ pc[r] = "delete"
  BY DEF Delete
<1>2. Collection /\ Remembers(r) /\ Covered(r) /\ Informed(r)
  BY DEF IInv, Turn
<1>3. ASSUME NEW m \in messages, NEW i \in m.tells, i \notin forgotten
      PROVE  \E p \in messages' : p.id >= m.id /\ i \in p.tells
  <2>1. CASE \A n \in body : m.id # n.id
    <3>1. m.id \in Nat
      BY <1>2 DEF Collection, Sensible
    <3> QED BY <1>1, <1>3, <2>1, <3>1
  <2>2. CASE \E n \in body : m.id = n.id
    <3>1. m \in body
      BY <1>2, <2>2 DEF Remembers, Body
    <3>2. i \in Told(body) /\ m.id < mem[r].made
      BY <1>1, <1>2, <1>3, <3>1 DEF Told, Covered
    <3>3. PICK p \in messages : p.id >= mem[r].made /\ i \in p.tells
      BY <1>1, <1>2, <1>3, <3>2 DEF Covered, Lately
    <3>4. p.id \in Nat /\ m.id \in Nat /\ mem[r].made \in Nat
      BY <1>1, <1>2 DEF Collection, Sensible, Covered
    <3>5. ASSUME NEW n \in body PROVE p.id # n.id
      <4>1. n.id < mem[r].made /\ n.id \in Nat
        BY <1>1, <1>2 DEF Covered, Remembers, Body, Sensible
      <4> QED BY <3>3, <3>4, <4>1
    <3> QED BY <1>1, <3>2, <3>3, <3>4, <3>5
  <2> QED BY <2>1, <2>2
<1>4. Moderate
  <2>1. ASSUME NEW k \in Nat, NEW i \in Lately(k), i \notin forgotten
        PROVE  i \in Lately(k)'
    <3>1. PICK m \in messages : m.id >= k /\ i \in m.tells
      BY DEF Lately
    <3>2. PICK p \in messages' : p.id >= m.id /\ i \in p.tells
      BY <1>3, <2>1, <3>1
    <3>3. p.id \in Nat /\ m.id \in Nat
      BY <1>1, <1>2 DEF Collection, Sensible
    <3>4. p.id >= k
      BY <3>1, <3>2, <3>3
    <3> QED BY <3>2, <3>4 DEF Lately
  <2> QED BY <1>1, <1>2, <2>1 DEF Moderate, Collection
<1>5. Collection'
  BY <1>1, <1>2 DEF Collection, Sensible
<1>6. NothingIsLost'
  <2>1. ASSUME NEW i \in said', i \notin forgotten PROVE i \in Told(messages')
    <3>1. PICK m \in messages : i \in m.tells
      BY <1>1, <2>1 DEF IInv, NothingIsLost, Told
    <3>2. PICK p \in messages' : i \in p.tells
      BY <1>3, <2>1, <3>1
    <3> QED BY <3>2 DEF Told
  <2> QED BY <1>1, <2>1 DEF NothingIsLost, Told
<1>7. /\ Tables' /\ pc'[r] = "engine" /\ mem'[r] = mem[r]
      /\ \A s \in Turns : s # r => pc'[s] = pc[s] /\ mem'[s] = mem[s]
  BY <1>1, Moves DEF IInv, Tables
<1>8. Remembers(r)'
  BY <1>4, <1>7, Retains
<1>9. Covered(r)' /\ Informed(r)'
  BY <1>1, <1>2, <1>7 DEF Covered, Informed
<1> QED BY <1>4, <1>5, <1>6, <1>7, <1>8, <1>9, Settles DEF Turn

LEMMA KeepStep ==
  ASSUME IInv, NEW r \in Turns, Keep(r)
  PROVE  IInv'
<1> DEFINE m == [mem[r] EXCEPT !.kept = {k.id : k \in Newest(messages)}]
<1>1. Shaped(mem[r])
  BY DEF IInv, Tables
<1>2. /\ Shaped(m) /\ m.page = mem[r].page /\ m.own = mem[r].own
      /\ m.before = mem[r].before /\ m.context = mem[r].context /\ m.untold = mem[r].untold
  BY <1>1 DEF Shaped, NoMemory
<1>3. Goto(r, "trim", m) /\ pc[r] = "keep" /\ UNCHANGED <<messages, next, said, forgotten>>
  BY DEF Keep
<1> HIDE DEF m
<1>4. /\ Tables' /\ pc'[r] = "trim" /\ mem'[r] = m
      /\ \A s \in Turns : s # r => pc'[s] = pc[s] /\ mem'[s] = mem[s]
  BY <1>2, <1>3, Moves DEF IInv
<1>5. Moderate /\ Collection' /\ NothingIsLost'
  BY <1>3, Leaves
<1>6. Remembers(r)'
  BY <1>2, <1>4, <1>5, Retains
<1>7. Covered(r)' /\ Informed(r)'
  BY <1>2, <1>3, <1>4 DEF IInv, Turn, Covered, Informed
<1> QED BY <1>4, <1>5, <1>6, <1>7, Settles DEF Turn

\* What is trimmed tells nothing but itself.
LEMMA TrimStep ==
  ASSUME IInv, NEW r \in Turns, Trim(r)
  PROVE  IInv'
<1> DEFINE kept == {m \in messages : m.id \in mem[r].kept \/ m.summary}
<1>1. /\ messages' = kept /\ UNCHANGED <<next, said>> /\ Goto(r, "engine", mem[r])
      /\ forgotten' = forgotten \cup (Told(messages) \ Told(kept)) /\ pc[r] = "trim"
  BY DEF Trim
<1>2. Collection /\ Remembers(r) /\ Informed(r)
  BY DEF IInv, Turn
<1>3. ASSUME NEW m \in messages, m \notin kept PROVE m.tells = {m.id} /\ m.id \in Nat
  BY <1>2, <1>3 DEF Collection, Sensible
<1>4. Moderate
  <2>1. ASSUME NEW k \in Nat, NEW i \in Lately(k), i < k PROVE i \in Lately(k)'
    <3>1. PICK m \in messages : m.id >= k /\ i \in m.tells
      BY DEF Lately
    <3>2. m \in kept
      BY <1>3, <2>1, <3>1
    <3> HIDE DEF kept
    <3> QED BY <1>1, <3>1, <3>2 DEF Lately
  <2> QED BY <1>1, <1>2, <2>1 DEF Moderate, Collection
<1>5. Collection'
  BY <1>1, <1>2 DEF Collection, Sensible
<1>6. NothingIsLost'
  <2> HIDE DEF kept
  <2> QED BY <1>1 DEF IInv, NothingIsLost
<1>7. /\ Tables' /\ pc'[r] = "engine" /\ mem'[r] = mem[r]
      /\ \A s \in Turns : s # r => pc'[s] = pc[s] /\ mem'[s] = mem[s]
  BY <1>1, Moves DEF IInv, Tables
<1>8. Remembers(r)'
  BY <1>4, <1>7, Retains
<1>9. Covered(r)' /\ Informed(r)'
  <2> HIDE DEF kept
  <2> QED BY <1>1, <1>2, <1>7 DEF Covered, Informed
<1> QED BY <1>4, <1>5, <1>6, <1>7, <1>8, <1>9, Settles DEF Turn

LEMMA AnswerStep ==
  ASSUME IInv, NEW r \in Turns, Answer(r)
  PROVE  IInv'
<1>1. Insert("assistant") /\ End(r) /\ forgotten' = forgotten
  BY DEF Answer
<1>2. Plain("assistant").id = next /\ Plain("assistant").tells = {next} /\ next \in Nat
  BY DEF Plain, IInv, Collection
<1>3. Moderate /\ Collection' /\ NothingIsLost'
  BY <1>1, <1>2, Inserts DEF Insert
<1> QED BY <1>1, <1>3, Ends

LEMMA FailStep ==
  ASSUME IInv, NEW r \in Turns, Fail(r)
  PROVE  IInv'
<1>1. End(r) /\ UNCHANGED <<messages, next, said, forgotten>>
  BY DEF Fail
<1> QED BY <1>1, Leaves, Ends

LEMMA Stutters ==
  ASSUME IInv, UNCHANGED vars
  PROVE  IInv'
<1>1. Moderate /\ Collection' /\ NothingIsLost'
  BY Leaves DEF vars
<1>2. Tables'
  BY DEF IInv, Tables, Shaped, vars
<1>3. ASSUME NEW r \in Turns PROVE Turn(r)'
  BY <1>1, Undisturbed DEF vars
<1> QED BY <1>1, <1>2, <1>3 DEF IInv

LEMMA Invariant == Spec => []IInv
<1>1. Init => IInv
  BY Initially
<1>2. IInv /\ [Next]_vars => IInv'
  <2> SUFFICES ASSUME IInv, [Next]_vars PROVE IInv'
    OBVIOUS
  <2>1. ASSUME NEW r \in Turns, Post(r) PROVE IInv'
    BY <2>1, PostStep
  <2>2. ASSUME NEW r \in Turns, BeginAnalysis(r) PROVE IInv'
    BY <2>2, BeginStep DEF BeginAnalysis
  <2>3. ASSUME NEW r \in Turns, BeginResearch(r) PROVE IInv'
    BY <2>3, BeginStep DEF BeginResearch
  <2>4. ASSUME NEW r \in Turns, Load(r) PROVE IInv'
    BY <2>4, LoadStep
  <2>5. ASSUME NEW r \in Turns, Compact(r) PROVE IInv'
    BY <2>5, CompactStep
  <2>6. ASSUME NEW r \in Turns, CompactAnalysis(r) PROVE IInv'
    BY <2>6, CompactAnalysisStep
  <2>7. ASSUME NEW r \in Turns, CompactResearch(r) PROVE IInv'
    BY <2>7, CompactResearchStep
  <2>8. ASSUME NEW r \in Turns, Delete(r) PROVE IInv'
    BY <2>8, DeleteStep
  <2>9. ASSUME NEW r \in Turns, Keep(r) PROVE IInv'
    BY <2>9, KeepStep
  <2>10. ASSUME NEW r \in Turns, Trim(r) PROVE IInv'
    BY <2>10, TrimStep
  <2>11. ASSUME NEW r \in Turns, Answer(r) PROVE IInv'
    BY <2>11, AnswerStep
  <2>12. ASSUME NEW r \in Turns, Fail(r) PROVE IInv'
    BY <2>12, FailStep
  <2>13. CASE UNCHANGED vars
    BY <2>13, Stutters
  <2> QED BY <2>1, <2>2, <2>3, <2>4, <2>5, <2>6, <2>7, <2>8, <2>9, <2>10, <2>11, <2>12, <2>13
          DEF Next
<1> QED BY <1>1, <1>2, PTL DEF Spec

-------------------------------------------------------------------------------

\* Compactions of one chat that overlap, fail half-way, summarise each other's summaries or
\* delete them lose nothing that was said, however many there are.
THEOREM NothingGetsLost == Spec => []NothingIsLost
<1>1. IInv => NothingIsLost
  BY DEF IInv
<1> QED BY <1>1, Invariant, PTL

\* Whatever the other turns summarise, delete or trim meanwhile, an engine is told all
\* that its page told, or its summary failed to tell, and no page misses a thing that was
\* said: what it need not be told is what Unheard names when its turn reads.
THEOREM EnginesKnowAll == Spec => []ContextIsWhole
<1>1. IInv => ContextIsWhole
  BY DEF IInv, Turn, Informed, ContextIsWhole
<1> QED BY <1>1, Invariant, PTL

===============================================================================
