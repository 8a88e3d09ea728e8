--------------------------- MODULE MarketDataProofs ---------------------------
(***************************************************************************)
(* For any number of callers and whatever goes wrong, how often it may:    *)
(* the locks bound how many ask the providers at once, and a quote that is *)
(* older than an invalidation was under way when that happened.            *)
(*                                                                         *)
(* Both follow from what is true of every thread at its place (Sound).     *)
(* The first rests on a count: of those who believe to hold the lock of a  *)
(* kind there is at most one more than of the times it expired, and if it  *)
(* is free there are no more than those (Bounded).  The second rests on    *)
(* what is cached: were it not cached in time, it was still under way.     *)
(***************************************************************************)
EXTENDS MarketData, FiniteSetTheorems, TLAPS

Shaped(m) == DOMAIN m = DOMAIN Blank /\ m.kind \in AllKinds /\ m.held \in BOOLEAN

\* Whatever was asked for in epoch b was under way at every invalidation before epoch n.
Whole(b, n, told) == b \in Nat /\ \A e \in b .. n - 1 : <<b, e>> \in told

\* What is true of a thread at a place, with what it remembers, as of an epoch and what
\* straddled those before.
Sound(t, label, m, now, told) ==
  /\ Shaped(m)
  /\ m.since \in Nat /\ m.since <= now
  /\ label \in {"check", "release"} => m.held
  /\ label = "join" => m.kind = "ratio"
  /\ m.kind = "ratio" => t[2] = "call"
  /\ m.kind = "quote" =>
       /\ label \in {"fetch", "store"} => Whole(m.begun, now, told)
       /\ label = "store" => m.got.born = m.begun
       /\ label \in {"release", "done"} /\ Found(m.got) => Whole(m.got.born, m.since, told)

Steady(t) == Sound(t, pc[t], mem[t], epoch, straddled)

Placed == pc = [t \in Threads |-> pc[t]] /\ mem = [t \in Threads |-> mem[t]]

Tables ==
  /\ Placed
  /\ cache = [k \in AllKinds |-> cache[k]]
  /\ lock \in [AllKinds -> BOOLEAN] /\ expired \in [AllKinds -> Nat] /\ epoch \in Nat

Cached == Found(cache["quote"]) => Whole(cache["quote"].born, epoch, straddled)

\* Who believes to hold the lock of a kind.
Holders(k) == {t \in Threads : mem[t].held /\ Key(t) = k}

Taken(k) == IF lock[k] THEN 1 ELSE 0

Bounded == \A k \in AllKinds : Cardinality(Holders(k)) <= Taken(k) + expired[k]

IInv == Tables /\ (\A t \in Threads : Steady(t)) /\ Cached /\ Bounded

-------------------------------------------------------------------------------
(* Steps of one thread *)

\* What a thread takes along to its next place.
Modest(t, label, m) ==
  Sound(t, label, m, epoch, straddled) /\ (m.held => mem[t].held /\ m.kind = Key(t))

\* No clock and no history moves.
Timeless == epoch' = epoch /\ straddled' = straddled

\* A step of one thread that takes no lock.
Plain(t) == \E label, m : Moved(t, label, m) /\ Modest(t, label, m)

\* One that leaves a thread without a lock.
Parting(t) == \E label, m : Moved(t, label, m) /\ Modest(t, label, m) /\ ~m.held

LEMMA ThreadsAreFinite == IsFiniteSet(Threads)
<1>1. IsFiniteSet({} \cup {"call"} \cup {"quote"} \cup {"options"})
  BY FS_EmptySet, FS_AddElement
<1>2. {} \cup {"call"} \cup {"quote"} \cup {"options"} = {"call", "quote", "options"}
  OBVIOUS
<1> QED
  BY <1>1, <1>2, CallersAssumption, FS_Product DEF Threads

LEMMA BlankIsShaped == Shaped(Blank) /\ ~Blank.held /\ Blank.kind = "bars" /\ Blank.since = 0
  BY DEF Shaped, Blank, AllKinds

LEMMA HoldersAreFewer ==
  ASSUME NEW k \in AllKinds, Holders(k)' \subseteq Holders(k)
  PROVE  IsFiniteSet(Holders(k)) /\ IsFiniteSet(Holders(k)')
         /\ Cardinality(Holders(k)') <= Cardinality(Holders(k))
         /\ Cardinality(Holders(k)) \in Nat /\ Cardinality(Holders(k)') \in Nat
<1>1. IsFiniteSet(Holders(k))
  BY ThreadsAreFinite, FS_Subset DEF Holders
<1> QED
  BY <1>1, FS_Subset, FS_CardinalityType

\* If nobody comes to hold a lock, and locks are freed by their expiry only, the count stays.
LEMMA CountStays ==
  ASSUME Tables, Bounded, Tables',
         \A k \in AllKinds : Holders(k)' \subseteq Holders(k),
         \A k \in AllKinds : Taken(k) + expired[k] <= Taken(k)' + expired'[k]
  PROVE  Bounded'
<1> SUFFICES ASSUME NEW k \in AllKinds
             PROVE  Cardinality(Holders(k)') <= Taken(k)' + expired'[k]
  BY DEF Bounded
<1>1. Cardinality(Holders(k)) <= Taken(k) + expired[k]
  BY DEF Bounded
<1>2. Taken(k) + expired[k] \in Nat /\ Taken(k)' + expired'[k] \in Nat
  BY DEF Tables, Taken
<1> QED
  BY <1>1, <1>2, HoldersAreFewer

\* A step of one thread keeps what is true of the others.
LEMMA OneThread ==
  ASSUME IInv, Timeless, NEW t \in Threads, NEW label, NEW m,
         Moved(t, label, m), Sound(t, label, m, epoch, straddled)
  PROVE  /\ Placed' /\ (\A u \in Threads : Steady(u)') /\ mem'[t] = m
         /\ \A u \in Threads : u # t => mem'[u] = mem[u]
<1>1. /\ Placed' /\ pc'[t] = label /\ mem'[t] = m
      /\ \A u \in Threads : u # t => pc'[u] = pc[u] /\ mem'[u] = mem[u]
  BY DEF Moved, IInv, Tables, Placed
<1>2. ASSUME NEW u \in Threads PROVE Steady(u)'
  <2>1. CASE u = t
    BY <1>1, <2>1 DEF Steady, Timeless
  <2>2. CASE u # t
    BY <1>1, <2>2 DEF Steady, Timeless, IInv
  <2> QED
    BY <2>1, <2>2
<1> QED
  BY <1>1, <1>2

LEMMA PlainStep ==
  ASSUME IInv, Timeless, NEW t \in Threads, Plain(t), Cached',
         cache' = [k \in AllKinds |-> cache'[k]], lock' = lock, expired' = expired
  PROVE  IInv'
<1>1. PICK label, m : Moved(t, label, m) /\ Modest(t, label, m)
  BY DEF Plain
<1>2. /\ Placed' /\ (\A u \in Threads : Steady(u)') /\ mem'[t] = m
      /\ \A u \in Threads : u # t => mem'[u] = mem[u]
  BY <1>1, OneThread DEF Modest
<1>3. Tables'
  BY <1>2 DEF Tables, IInv, Timeless
<1>4. \A k \in AllKinds : Holders(k)' \subseteq Holders(k)
  BY <1>1, <1>2 DEF Modest, Holders, Key
<1>5. \A k \in AllKinds : Taken(k) + expired[k] <= Taken(k)' + expired'[k]
  BY DEF Taken, IInv, Tables
<1>6. Bounded'
  BY <1>3, <1>4, <1>5, CountStays DEF IInv
<1> QED
  BY <1>2, <1>3, <1>6 DEF IInv

-------------------------------------------------------------------------------
(* What the steps are made of *)

\* What a thread may have found: a quote that was under way at every invalidation between.
Fitting(t, r) ==
  Key(t) = "quote" /\ Found(r) => Whole(r.born, mem[t].since, straddled)

LEMMA SettlePlain ==
  ASSUME NEW t \in Threads, NEW m, Settle(t, m), Modest(t, "ended", m), ~m.held, epoch \in Nat
  PROVE  Parting(t)
<1>1. CASE t[2] = "call"
  <2>1. Moved(t, "idle", Blank)
    BY <1>1 DEF Settle
  <2>2. Modest(t, "idle", Blank)
    BY BlankIsShaped DEF Modest, Sound
  <2> QED
    BY <2>1, <2>2, BlankIsShaped DEF Parting
<1>2. CASE t[2] # "call"
  BY <1>2 DEF Settle, Parting
<1> QED
  BY <1>1, <1>2

LEMMA FinishPlain ==
  ASSUME IInv, NEW t \in Threads, NEW r, Finish(t, r), Fitting(t, r)
  PROVE  Parting(t)
<1>1. Steady(t) /\ epoch \in Nat
  BY DEF IInv, Tables
<1>2. CASE Key(t) = "quote"
  <2> DEFINE m == [Blank EXCEPT !.kind = "quote", !.since = mem[t].since, !.got = r]
  <2>1. Moved(t, "done", m)
    BY <1>2 DEF Finish
  <2>2. /\ Shaped(m) /\ ~m.held /\ m.since = mem[t].since /\ m.kind = "quote" /\ m.got = r
    BY DEF Shaped, Blank, AllKinds
  <2>3. Modest(t, "done", m)
    BY <1>1, <1>2, <2>2 DEF Modest, Sound, Steady, Fitting
  <2> QED
    BY <2>1, <2>2, <2>3 DEF Parting
<1>3. CASE Key(t) = "extended"
  <2> DEFINE m == [Blank EXCEPT !.kind = "quote", !.got = IF r = Error THEN r ELSE mem[t].price]
  <2>1. Settle(t, m)
    BY <1>3 DEF Finish
  <2>2. Shaped(m) /\ ~m.held /\ m.since = 0 /\ m.kind = "quote"
    BY DEF Shaped, Blank, AllKinds
  <2>3. Modest(t, "ended", m)
    BY <1>1, <2>2 DEF Modest, Sound
  <2> QED
    BY <1>1, <2>1, <2>2, <2>3, SettlePlain
<1>4. CASE Key(t) # "quote" /\ Key(t) # "extended"
  <2> DEFINE m == [Blank EXCEPT !.kind = Key(t), !.got = r]
  <2>1. Settle(t, m)
    BY <1>4 DEF Finish
  <2>2. Shaped(m) /\ ~m.held /\ m.since = 0 /\ m.kind = Key(t)
    BY <1>1 DEF Shaped, Blank, Steady, Sound, Key
  <2>3. Modest(t, "ended", m)
    BY <1>1, <1>4, <2>2 DEF Modest, Sound, Steady, Key
  <2> QED
    BY <1>1, <2>1, <2>2, <2>3, SettlePlain
<1> QED
  BY <1>2, <1>3, <1>4

LEMMA LeavePlain ==
  ASSUME IInv, NEW t \in Threads, NEW r, Leave(t, r), Fitting(t, r)
  PROVE  Plain(t)
<1>1. CASE mem[t].held
  <2> DEFINE m == [mem[t] EXCEPT !.got = r]
  <2>1. Moved(t, "release", m)
    BY <1>1 DEF Leave
  <2>2. Steady(t)
    BY DEF IInv
  <2>3. /\ Shaped(m) /\ m.held = mem[t].held /\ m.kind = Key(t) /\ m.since = mem[t].since
        /\ m.got = r
    BY <2>2 DEF Shaped, Blank, Steady, Sound, Key
  <2>4. Modest(t, "release", m)
    BY <1>1, <2>2, <2>3 DEF Modest, Sound, Steady, Fitting, Key
  <2> QED
    BY <2>1, <2>4 DEF Plain
<1>2. CASE ~mem[t].held
  BY <1>2, FinishPlain DEF Leave, Parting, Plain
<1> QED
  BY <1>1, <1>2

\* What is cached now is as recent as whatever a call may ask for.
LEMMA CachedFits ==
  ASSUME IInv, NEW t \in Threads PROVE Fitting(t, cache[Key(t)])
<1>1. Steady(t) /\ epoch \in Nat /\ Cached
  BY DEF IInv, Tables
<1>2. SUFFICES ASSUME Key(t) = "quote", Found(cache["quote"])
               PROVE  Whole(cache["quote"].born, mem[t].since, straddled)
  BY DEF Fitting
<1>3. Whole(cache["quote"].born, epoch, straddled) /\ mem[t].since \in Nat /\ mem[t].since <= epoch
  BY <1>1, <1>2 DEF Cached, Steady, Sound
<1> QED
  BY <1>1, <1>3 DEF Whole

LEMMA FetchPlain ==
  ASSUME IInv, NEW t \in Threads, NEW held \in BOOLEAN, held => mem[t].held,
         Fetch(t, held), Key(t) # "ratio"
  PROVE  Plain(t)
<1>1. PICK session \in {"pre", "regular"} :
        Moved(t, "fetch",
              [mem[t] EXCEPT !.held = held, !.begun = Now(Key(t)),
                 !.left = SelectSeq(Providers(Key(t), session), LAMBDA p : p \in Configured)])
  BY DEF Fetch
<1> DEFINE left == SelectSeq(Providers(Key(t), session), LAMBDA p : p \in Configured)
           m == [mem[t] EXCEPT !.held = held, !.begun = Now(Key(t)), !.left = left]
<1> HIDE DEF left
<1>2. Steady(t) /\ epoch \in Nat
  BY DEF IInv, Tables
<1>3. /\ Shaped(m) /\ m.held = held /\ m.kind = Key(t) /\ m.since = mem[t].since
      /\ m.begun = Now(Key(t))
  BY <1>2 DEF Shaped, Blank, Steady, Sound, Key
<1>4. Key(t) = "quote" => Whole(m.begun, epoch, straddled)
  BY <1>2, <1>3 DEF Whole, Now
<1>5. Modest(t, "fetch", m)
  BY <1>2, <1>3, <1>4 DEF Modest, Sound, Steady, Key
<1> QED
  BY <1>1, <1>5 DEF Plain, left

\* A step of one thread that touches neither the cache nor a lock.
LEMMA QuietStep ==
  ASSUME IInv, Timeless, NEW t \in Threads, Plain(t), UNCHANGED <<cache, lock, expired>>
  PROVE  IInv'
<1>1. Cached' /\ cache' = [k \in AllKinds |-> cache'[k]]
  BY DEF IInv, Tables, Cached, Timeless
<1> QED
  BY <1>1, PlainStep

\* The call for a ratio, and the two it makes.
LEMMA RatioStep ==
  ASSUME IInv, Timeless, UNCHANGED <<cache, lock, expired>>, NEW t \in Threads,
         Key(t) = "ratio", NEW a, NEW b, NEW d, NEW m, NEW n, NEW o,
         pc' = [pc EXCEPT ![t] = a, ![<<t[1], "quote">>] = b, ![<<t[1], "options">>] = d],
         mem' = [mem EXCEPT ![t] = m, ![<<t[1], "quote">>] = n, ![<<t[1], "options">>] = o],
         Modest(t, a, m), ~n.held, ~o.held,
         Sound(<<t[1], "quote">>, b, n, epoch, straddled),
         Sound(<<t[1], "options">>, d, o, epoch, straddled)
  PROVE  IInv'
<1> DEFINE q == <<t[1], "quote">>
           p == <<t[1], "options">>
<1>1. t[2] = "call" /\ t = <<t[1], t[2]>> /\ q \in Threads /\ p \in Threads
  BY DEF IInv, Steady, Sound, Key, Threads
<1>2. t # q /\ t # p /\ q # p
  BY <1>1
<1> HIDE DEF q, p
<1>3. /\ pc' = [pc EXCEPT ![t] = a, ![q] = b, ![p] = d]
      /\ mem' = [mem EXCEPT ![t] = m, ![q] = n, ![p] = o]
  BY DEF q, p
<1>4. /\ Placed' /\ pc'[t] = a /\ mem'[t] = m /\ pc'[q] = b /\ mem'[q] = n
      /\ pc'[p] = d /\ mem'[p] = o
      /\ \A u \in Threads \ {t, q, p} : pc'[u] = pc[u] /\ mem'[u] = mem[u]
  BY <1>1, <1>2, <1>3 DEF IInv, Tables, Placed
<1>5. ASSUME NEW u \in Threads PROVE Steady(u)'
  <2>1. CASE u = t
    BY <1>4, <2>1 DEF Steady, Timeless, Modest
  <2>2. CASE u = q
    BY <1>4, <2>2 DEF Steady, Timeless, q
  <2>3. CASE u = p
    BY <1>4, <2>3 DEF Steady, Timeless, p
  <2>4. CASE u \in Threads \ {t, q, p}
    BY <1>4, <2>4 DEF Steady, Timeless, IInv
  <2> QED
    BY <2>1, <2>2, <2>3, <2>4
<1>6. Tables' /\ Cached'
  BY <1>4 DEF Tables, IInv, Timeless, Cached
<1>7. ASSUME NEW k \in AllKinds, NEW u \in Threads, mem'[u].held, mem'[u].kind = k
      PROVE  mem[u].held /\ mem[u].kind = k
  <2>1. u # q /\ u # p
    BY <1>4, <1>7
  <2>2. CASE u = t
    BY <1>4, <1>7, <2>2 DEF Modest, Key
  <2>3. CASE u # t
    BY <1>4, <1>7, <2>1, <2>3
  <2> QED
    BY <2>2, <2>3
<1>8. \A k \in AllKinds : Taken(k) + expired[k] <= Taken(k)' + expired'[k]
  BY DEF Taken, IInv, Tables
<1>9. \A k \in AllKinds : Holders(k)' \subseteq Holders(k)
  BY <1>7 DEF Holders, Key
<1>10. Bounded'
  BY <1>6, <1>8, <1>9, CountStays DEF IInv
<1> QED
  BY <1>5, <1>6, <1>10 DEF IInv

LEMMA FetchStep ==
  ASSUME IInv, Timeless, UNCHANGED <<cache, lock, expired>>, NEW t \in Threads,
         NEW held \in BOOLEAN, held => mem[t].held, Fetch(t, held)
  PROVE  IInv'
<1>1. CASE Key(t) # "ratio"
  BY <1>1, FetchPlain, QuietStep
<1>2. CASE Key(t) = "ratio"
  <2> DEFINE m == [mem[t] EXCEPT !.held = held]
             n == [Blank EXCEPT !.kind = "quote", !.since = epoch]
             o == [Blank EXCEPT !.kind = "options"]
  <2>1. Steady(t) /\ epoch \in Nat /\ Placed
    BY DEF IInv, Tables
  <2>2. /\ pc' = [pc EXCEPT ![t] = "join", ![<<t[1], "quote">>] = "look",
                            ![<<t[1], "options">>] = "look"]
        /\ mem' = [mem EXCEPT ![t].held = held, ![<<t[1], "quote">>] = n,
                              ![<<t[1], "options">>] = o]
    BY <1>2 DEF Fetch
  <2>3. mem' = [mem EXCEPT ![t] = m, ![<<t[1], "quote">>] = n, ![<<t[1], "options">>] = o]
    BY <2>2
  <2>4. /\ Shaped(m) /\ m.held = held /\ m.kind = "ratio" /\ m.since = mem[t].since
        /\ Shaped(n) /\ ~n.held /\ n.kind = "quote" /\ n.since = epoch
        /\ Shaped(o) /\ ~o.held /\ o.kind = "options" /\ o.since = 0
    BY <1>2, <2>1 DEF Shaped, Blank, AllKinds, Steady, Sound, Key
  <2>5. /\ Modest(t, "join", m)
        /\ Sound(<<t[1], "quote">>, "look", n, epoch, straddled)
        /\ Sound(<<t[1], "options">>, "look", o, epoch, straddled)
    BY <1>2, <2>1, <2>4 DEF Modest, Sound, Steady, Key
  <2> HIDE DEF m, n, o
  <2> QED
    BY <1>2, <2>2, <2>3, <2>4, <2>5, RatioStep
<1> QED
  BY <1>1, <1>2

-------------------------------------------------------------------------------
(* The steps *)

LEMMA CallStep ==
  ASSUME IInv, NEW c \in Callers, Call(c) PROVE IInv'
<1>1. PICK kind \in Wants[c] :
        LET m == [Blank EXCEPT !.kind = kind, !.since = Now(kind)]
        IN  \/ kind = "quote" /\ Moved(Main(c), "invalidate", m)
            \/ Moved(Main(c), IF kind = "intraday" THEN "bypass" ELSE "look", m)
  BY DEF Call
<1> DEFINE m == [Blank EXCEPT !.kind = kind, !.since = Now(kind)]
<1>2. PICK label \in {"invalidate", "bypass", "look"} : Moved(Main(c), label, m)
  BY <1>1
<1>3. kind \in AllKinds /\ epoch \in Nat /\ Main(c) \in Threads /\ Main(c)[2] = "call"
  BY WantsAssumption DEF IInv, Tables, Main, Threads
<1>4. Shaped(m) /\ ~m.held /\ m.kind = kind /\ m.since \in {0, epoch}
  BY <1>3 DEF Shaped, Blank, Now
<1>5. Modest(Main(c), label, m)
  BY <1>3, <1>4 DEF Modest, Sound
<1>6. Plain(Main(c))
  BY <1>2, <1>5 DEF Plain
<1>7. Timeless /\ UNCHANGED <<cache, lock, expired>>
  BY DEF Call, Timeless
<1> QED
  BY <1>3, <1>6, <1>7, QuietStep

\* A thread that only moves on takes along what it has.
LEMMA Onward ==
  ASSUME IInv, NEW t \in Threads, NEW label, Moved(t, label, mem[t]),
         label \in {"look", "acquire", "wait"}
  PROVE  Plain(t)
<1>1. Steady(t)
  BY DEF IInv
<1>2. Modest(t, label, mem[t])
  BY <1>1 DEF Modest, Steady, Sound, Key
<1> QED
  BY <1>2 DEF Plain

LEMMA LookStep ==
  ASSUME IInv, NEW t \in Threads, Look(t) \/ Poll(t) \/ Bypass(t) \/ GiveUp(t)
  PROVE  IInv'
<1>1. Timeless /\ UNCHANGED <<cache, lock, expired>>
  BY DEF Look, Poll, Bypass, GiveUp, Timeless
<1>2. CASE Finish(t, cache[Key(t)])
  BY <1>1, <1>2, CachedFits, FinishPlain, QuietStep DEF Parting, Plain
<1>3. CASE Moved(t, "acquire", mem[t])
  BY <1>1, <1>3, Onward, QuietStep
<1>4. CASE Fetch(t, FALSE)
  BY <1>1, <1>4, FetchStep
<1> QED
  BY <1>2, <1>3, <1>4 DEF Look, Poll, Bypass, GiveUp

LEMMA CheckStep ==
  ASSUME IInv, NEW t \in Threads, Check(t)
  PROVE  IInv'
<1>1. Timeless /\ UNCHANGED <<cache, lock, expired>>
  BY DEF Check, Timeless
<1>2. CASE Leave(t, cache[Key(t)])
  BY <1>1, <1>2, CachedFits, LeavePlain, QuietStep
<1>3. CASE Fetch(t, TRUE)
  <2>1. mem[t].held
    BY DEF Check, IInv, Steady, Sound
  <2> QED
    BY <1>1, <1>3, <2>1, FetchStep
<1> QED
  BY <1>2, <1>3 DEF Check

LEMMA AskStep ==
  ASSUME IInv, NEW t \in Threads, Ask(t)
  PROVE  IInv'
<1>1. Timeless /\ UNCHANGED <<cache, lock, expired>> /\ pc[t] = "fetch"
  BY DEF Ask, Timeless
<1>2. Steady(t)
  BY DEF IInv
<1>3. PICK what \in Outcomes(Key(t)) :
       \/ Key(t) = "intraday" /\ Finish(t, [what |-> what, born |-> 0])
       \/ Moved(t, "store", [mem[t] EXCEPT !.got = [what |-> what, born |-> mem[t].begun],
                                            !.left = <<>>])
       \/ Moved(t, "fetch", [mem[t] EXCEPT !.left = Tail(mem[t].left)])
       \/ Leave(t, Error)
  BY DEF Ask
<1>4. CASE Key(t) = "intraday" /\ Finish(t, [what |-> what, born |-> 0])
  <2>1. Fitting(t, [what |-> what, born |-> 0])
    BY <1>4 DEF Fitting
  <2> QED
    BY <1>1, <1>4, <2>1, FinishPlain, QuietStep DEF Parting, Plain
<1>5. CASE Moved(t, "store", [mem[t] EXCEPT !.got = [what |-> what, born |-> mem[t].begun],
                                            !.left = <<>>])
  <2> DEFINE m == [mem[t] EXCEPT !.got = [what |-> what, born |-> mem[t].begun], !.left = <<>>]
  <2>1. /\ Shaped(m) /\ m.held = mem[t].held /\ m.kind = Key(t) /\ m.since = mem[t].since
        /\ m.begun = mem[t].begun /\ m.got.born = mem[t].begun
    BY <1>2 DEF Shaped, Blank, Steady, Sound, Key
  <2>2. Modest(t, "store", m)
    BY <1>1, <1>2, <2>1 DEF Modest, Sound, Steady, Key
  <2> QED
    BY <1>1, <1>5, <2>2, QuietStep DEF Plain
<1>6. CASE Moved(t, "fetch", [mem[t] EXCEPT !.left = Tail(mem[t].left)])
  <2> DEFINE m == [mem[t] EXCEPT !.left = Tail(mem[t].left)]
  <2>1. /\ Shaped(m) /\ m.held = mem[t].held /\ m.kind = Key(t) /\ m.since = mem[t].since
        /\ m.begun = mem[t].begun
    BY <1>2 DEF Shaped, Blank, Steady, Sound, Key
  <2>2. Modest(t, "fetch", m)
    BY <1>1, <1>2, <2>1 DEF Modest, Sound, Steady, Key
  <2> QED
    BY <1>1, <1>6, <2>2, QuietStep DEF Plain
<1>7. CASE Leave(t, Error)
  <2>1. Fitting(t, Error)
    BY DEF Fitting, Found, Error
  <2> QED
    BY <1>1, <1>7, <2>1, LeavePlain, QuietStep
<1> QED
  BY <1>3, <1>4, <1>5, <1>6, <1>7

LEMMA JoinStep ==
  ASSUME IInv, NEW t \in Threads, Join(t)
  PROVE  IInv'
<1>1. /\ Timeless /\ UNCHANGED <<cache, lock, expired>> /\ pc[t] = "join"
      /\ Steady(t) /\ Key(t) = "ratio"
  BY DEF Join, Timeless, IInv, Steady, Sound, Key
<1>2. PICK r :
       LET label == IF Found(r) THEN "store" ELSE IF mem[t].held THEN "release" ELSE "idle"
           m == IF label = "idle" THEN Blank ELSE [mem[t] EXCEPT !.got = r]
       IN  /\ pc' = [pc EXCEPT ![t] = label, ![<<t[1], "quote">>] = "idle",
                               ![<<t[1], "options">>] = "idle"]
           /\ mem' = [mem EXCEPT ![t] = m, ![<<t[1], "quote">>] = Blank,
                                 ![<<t[1], "options">>] = Blank]
  BY DEF Join
<1> DEFINE label == IF Found(r) THEN "store" ELSE IF mem[t].held THEN "release" ELSE "idle"
           m == IF label = "idle" THEN Blank ELSE [mem[t] EXCEPT !.got = r]
<1>3. ASSUME label = "idle" PROVE Modest(t, label, m)
  <2>1. m = Blank
    BY <1>3
  <2>2. Modest(t, "idle", Blank)
    BY <1>1, BlankIsShaped DEF Modest, Sound, IInv, Tables
  <2> HIDE DEF label, m
  <2> QED
    BY <1>3, <2>1, <2>2
<1>4. ASSUME label # "idle" PROVE Modest(t, label, m)
  <2>1. /\ Shaped(m) /\ m.held = mem[t].held /\ m.kind = "ratio" /\ m.since = mem[t].since
        /\ label \in {"store", "release"} /\ (label = "release" => mem[t].held)
    BY <1>1, <1>4 DEF Shaped, Blank, Steady, Sound, Key
  <2> HIDE DEF label, m
  <2> QED
    BY <1>1, <2>1 DEF Modest, Sound, Steady, Key
<1>5. Modest(t, label, m)
  BY <1>3, <1>4
<1>6. Sound(<<t[1], "quote">>, "idle", Blank, epoch, straddled)
      /\ Sound(<<t[1], "options">>, "idle", Blank, epoch, straddled)
  BY BlankIsShaped DEF Sound, IInv, Tables
<1>7. /\ pc' = [pc EXCEPT ![t] = label, ![<<t[1], "quote">>] = "idle",
                         ![<<t[1], "options">>] = "idle"]
      /\ mem' = [mem EXCEPT ![t] = m, ![<<t[1], "quote">>] = Blank,
                           ![<<t[1], "options">>] = Blank]
  BY <1>2
<1> HIDE DEF label, m
<1> QED
  BY <1>1, <1>5, <1>6, <1>7, BlankIsShaped, RatioStep

LEMMA StoreStep ==
  ASSUME IInv, NEW t \in Threads, Store(t)
  PROVE  IInv'
<1>1. /\ Timeless /\ UNCHANGED <<lock, expired>> /\ pc[t] = "store" /\ Steady(t)
      /\ Tables /\ Cached /\ Leave(t, mem[t].got)
      /\ cache' = cache \/ cache' = [cache EXCEPT ![Key(t)] = mem[t].got]
  BY DEF Store, Timeless, IInv
<1>2. Key(t) = "quote" => /\ Whole(mem[t].got.born, epoch, straddled)
                          /\ mem[t].since \in Nat /\ mem[t].since <= epoch /\ epoch \in Nat
  BY <1>1 DEF Steady, Sound, Key, Tables
<1>3. Fitting(t, mem[t].got)
  BY <1>2 DEF Fitting, Whole
<1>4. cache' = [k \in AllKinds |-> cache'[k]]
  BY <1>1 DEF Tables
<1>5. Cached'
  <2>1. CASE Key(t) = "quote" /\ cache'["quote"] = mem[t].got
    BY <1>1, <1>2, <2>1 DEF Cached, Timeless
  <2>2. CASE cache'["quote"] = cache["quote"]
    BY <1>1, <2>2 DEF Cached, Timeless
  <2>3. "quote" \in AllKinds
    BY DEF AllKinds
  <2> QED
    BY <1>1, <2>1, <2>2, <2>3 DEF Tables
<1>6. Plain(t)
  BY <1>1, <1>3, LeavePlain
<1> QED
  BY <1>1, <1>4, <1>5, <1>6, PlainStep

LEMMA ReturnStep ==
  ASSUME IInv, NEW t \in Threads, Return(t)
  PROVE  IInv'
<1>1. Timeless /\ UNCHANGED <<cache, lock, expired>> /\ epoch \in Nat
  BY DEF Return, Timeless, IInv, Tables
<1> DEFINE m == [Blank EXCEPT !.kind = "extended", !.price = mem[t].got]
           n == [Blank EXCEPT !.kind = "quote", !.got = mem[t].got]
<1>2. /\ Shaped(m) /\ ~m.held /\ m.kind = "extended" /\ m.since = 0
      /\ Shaped(n) /\ ~n.held /\ n.kind = "quote" /\ n.since = 0
  BY DEF Shaped, Blank, AllKinds
<1>3. Modest(t, "look", m) /\ Modest(t, "ended", n)
  BY <1>1, <1>2 DEF Modest, Sound
<1>4. Moved(t, "look", m) \/ Settle(t, n)
  BY DEF Return
<1>5. Plain(t)
  BY <1>1, <1>2, <1>3, <1>4, SettlePlain DEF Plain, Parting
<1> QED
  BY <1>1, <1>5, QuietStep

\* Whoever takes a lock is one more; those of the other kinds are not.
LEMMA AcquireStep ==
  ASSUME IInv, NEW t \in Threads, Acquire(t)
  PROVE  IInv'
<1>1. Timeless /\ UNCHANGED <<cache, expired>> /\ Steady(t) /\ Tables /\ Bounded /\ Cached
  BY DEF Acquire, Timeless, IInv
<1>2. CASE Moved(t, "wait", mem[t]) /\ UNCHANGED lock
  BY <1>1, <1>2, Onward, QuietStep
<1>3. CASE /\ ~lock[Key(t)] /\ lock' = [lock EXCEPT ![Key(t)] = TRUE]
           /\ Moved(t, "check", [mem[t] EXCEPT !.held = TRUE])
  <2> DEFINE m == [mem[t] EXCEPT !.held = TRUE]
  <2>1. Shaped(m) /\ m.held /\ m.kind = Key(t) /\ m.since = mem[t].since /\ Key(t) \in AllKinds
    BY <1>1 DEF Shaped, Blank, Steady, Sound, Key
  <2>2. Sound(t, "check", m, epoch, straddled)
    BY <1>1, <2>1 DEF Sound, Steady, Key
  <2>3. /\ Placed' /\ (\A u \in Threads : Steady(u)') /\ mem'[t] = m
        /\ \A u \in Threads : u # t => mem'[u] = mem[u]
    BY <1>1, <1>3, <2>2, OneThread
  <2>4. Tables' /\ Cached'
    BY <1>1, <1>3, <2>3 DEF Tables, Cached, Timeless
  <2> HIDE DEF m
  <2>5. ASSUME NEW k \in AllKinds
        PROVE  Cardinality(Holders(k)') <= Taken(k)' + expired'[k]
    <3>1. /\ Cardinality(Holders(k)) <= Taken(k) + expired[k] /\ expired[k] \in Nat
          /\ lock[k] \in BOOLEAN /\ expired'[k] = expired[k]
      BY <1>1 DEF Bounded, Tables
    <3>2. CASE k # Key(t)
      <4>1. Holders(k)' \subseteq Holders(k)
        BY <2>1, <2>3, <3>2 DEF Holders, Key
      <4>2. lock'[k] = lock[k]
        BY <1>1, <1>3, <3>2 DEF Tables
      <4>3. Taken(k)' = Taken(k) /\ Taken(k) \in Nat
        BY <4>2 DEF Taken
      <4> QED
        BY <3>1, <4>1, <4>3, HoldersAreFewer
    <3>3. CASE k = Key(t)
      <4>1. Holders(k)' \subseteq Holders(k) \cup {t}
        BY <2>3 DEF Holders, Key
      <4>2. Taken(k)' = 1 /\ Taken(k) = 0
        BY <1>1, <1>3, <2>1, <3>3 DEF Taken, Tables
      <4>3. IsFiniteSet(Holders(k)) /\ Cardinality(Holders(k)) \in Nat
        BY ThreadsAreFinite, FS_Subset, FS_CardinalityType DEF Holders
      <4>4. /\ IsFiniteSet(Holders(k) \cup {t})
            /\ Cardinality(Holders(k) \cup {t}) <= Cardinality(Holders(k)) + 1
            /\ Cardinality(Holders(k) \cup {t}) \in Nat
        <5>1. /\ IsFiniteSet(Holders(k) \cup {t})
              /\ Cardinality(Holders(k) \cup {t}) =
                   IF t \in Holders(k) THEN Cardinality(Holders(k)) ELSE Cardinality(Holders(k)) + 1
          BY <4>3, FS_AddElement
        <5> QED
          BY <4>3, <5>1
      <4>5. /\ Cardinality(Holders(k)') <= Cardinality(Holders(k) \cup {t})
            /\ Cardinality(Holders(k)') \in Nat
        BY <4>1, <4>4, FS_Subset, FS_CardinalityType
      <4> QED
        BY <3>1, <4>2, <4>3, <4>4, <4>5
    <3> QED
      BY <3>2, <3>3
  <2> QED
    BY <2>3, <2>4, <2>5 DEF IInv, Bounded
<1> QED
  BY <1>2, <1>3 DEF Acquire

\* Who releases a lock no longer holds one, and nobody comes to.
LEMMA ReleaseStep ==
  ASSUME IInv, NEW t \in Threads, Release(t)
  PROVE  IInv'
<1>1. /\ Timeless /\ UNCHANGED <<cache, expired>> /\ Steady(t) /\ Tables /\ Bounded /\ Cached
      /\ Finish(t, mem[t].got) /\ pc[t] = "release"
      /\ lock' = lock \/ lock' = [lock EXCEPT ![Key(t)] = FALSE]
  BY DEF Release, Timeless, IInv
<1>2. Fitting(t, mem[t].got) /\ mem[t].held /\ Key(t) \in AllKinds
  BY <1>1 DEF Fitting, Steady, Sound, Key, Shaped
<1>3. PICK label, m : Moved(t, label, m) /\ Modest(t, label, m) /\ ~m.held
  BY <1>1, <1>2, FinishPlain DEF Parting
<1>4. /\ Placed' /\ (\A u \in Threads : Steady(u)') /\ mem'[t] = m
      /\ \A u \in Threads : u # t => mem'[u] = mem[u]
  BY <1>1, <1>3, OneThread DEF Modest
<1>5. Tables' /\ Cached'
  BY <1>1, <1>4 DEF Tables, Cached, Timeless
<1>6. \A k \in AllKinds : Holders(k)' \subseteq Holders(k) \ {t}
  BY <1>3, <1>4 DEF Holders, Key
<1>7. ASSUME NEW k \in AllKinds
      PROVE  Cardinality(Holders(k)') <= Taken(k)' + expired'[k]
  <2>1. /\ Cardinality(Holders(k)) <= Taken(k) + expired[k] /\ expired[k] \in Nat
        /\ lock[k] \in BOOLEAN /\ expired'[k] = expired[k] /\ lock'[k] \in BOOLEAN
    BY <1>1, <1>5 DEF Bounded, Tables
  <2>2. CASE lock'[k] = lock[k]
    BY <1>6, <2>1, <2>2, HoldersAreFewer DEF Taken
  <2>3. CASE lock'[k] # lock[k]
    <3>1. k = Key(t) /\ Taken(k) <= 1 /\ Taken(k)' = 0 /\ Taken(k) \in Nat
      BY <1>1, <1>2, <2>1, <2>3 DEF Taken, Tables
    <3>2. t \in Holders(k)
      BY <1>2, <3>1 DEF Holders
    <3>3. IsFiniteSet(Holders(k)) /\ Cardinality(Holders(k)) \in Nat
      BY ThreadsAreFinite, FS_Subset, FS_CardinalityType DEF Holders
    <3>4. /\ IsFiniteSet(Holders(k) \ {t})
          /\ Cardinality(Holders(k) \ {t}) = Cardinality(Holders(k)) - 1
      BY <3>2, <3>3, FS_RemoveElement
    <3>5. /\ Cardinality(Holders(k)') <= Cardinality(Holders(k) \ {t})
          /\ Cardinality(Holders(k)') \in Nat
      BY <1>6, <3>4, FS_Subset, FS_CardinalityType
    <3> QED
      BY <2>1, <3>1, <3>3, <3>4, <3>5
  <2> QED
    BY <2>2, <2>3
<1> QED
  BY <1>4, <1>5, <1>7 DEF IInv, Bounded

\* invalidate_quote: whoever asks for a quote now straddles the end of this epoch.
LEMMA InvalidateStep ==
  ASSUME IInv, NEW t \in Threads, Invalidate(t)
  PROVE  IInv'
<1> DEFINE m == [mem[t] EXCEPT !.since = epoch']
<1>1. /\ UNCHANGED <<lock, expired>> /\ pc[t] = "invalidate" /\ Steady(t)
      /\ Tables /\ Bounded /\ Cached /\ epoch \in Nat /\ Moved(t, "look", m)
  BY DEF Invalidate, IInv, Tables
<1>2. \/ /\ cache' = [cache EXCEPT !["quote"] = Nothing] /\ epoch' = epoch + 1
         /\ straddled' = straddled \cup {<<mem[u].begun, epoch>> : u \in UnderWay}
      \/ UNCHANGED <<cache, epoch, straddled>>
  BY DEF Invalidate
<1>3. epoch' \in Nat /\ epoch <= epoch' /\ straddled \subseteq straddled'
  BY <1>1, <1>2
<1>4. Shaped(m) /\ m.held = mem[t].held /\ m.kind = Key(t) /\ m.since = epoch'
  BY <1>1 DEF Shaped, Blank, Steady, Sound, Key
<1>5. Sound(t, "look", m, epoch', straddled')
  BY <1>1, <1>3, <1>4 DEF Sound, Steady, Key
<1>6. /\ Placed' /\ pc'[t] = "look" /\ mem'[t] = m
      /\ \A u \in Threads : u # t => pc'[u] = pc[u] /\ mem'[u] = mem[u]
  BY <1>1 DEF Moved, Tables, Placed
<1>7. ASSUME NEW b, NEW n, Whole(b, n, straddled) PROVE Whole(b, n, straddled')
  BY <1>3, <1>7 DEF Whole
<1>8. ASSUME NEW u \in Threads, Key(u) = "quote", pc[u] \in {"fetch", "store"}
      PROVE  Whole(mem[u].begun, epoch', straddled')
  <2>1. Whole(mem[u].begun, epoch, straddled)
    BY <1>8 DEF IInv, Steady, Sound, Key
  <2>2. epoch' # epoch => <<mem[u].begun, epoch>> \in straddled'
    BY <1>2, <1>8 DEF UnderWay
  <2> QED
    BY <1>1, <1>2, <1>3, <2>1, <2>2 DEF Whole
<1>9. ASSUME NEW u \in Threads PROVE Steady(u)'
  <2>1. CASE u = t
    BY <1>5, <1>6, <2>1 DEF Steady
  <2>2. CASE u # t
    <3>1. Sound(u, pc[u], mem[u], epoch, straddled)
      BY DEF IInv, Steady
    <3>2. Sound(u, pc[u], mem[u], epoch', straddled')
      BY <1>1, <1>3, <1>7, <1>8, <3>1 DEF Sound, Key
    <3> QED
      BY <1>6, <2>2, <3>2 DEF Steady
  <2> QED
    BY <2>1, <2>2
<1>10. Tables' /\ Cached'
  BY <1>1, <1>2, <1>3, <1>6, <1>7 DEF Tables, Cached, Found, Nothing, AllKinds
<1>11. \A k \in AllKinds : Holders(k)' \subseteq Holders(k)
  BY <1>4, <1>6 DEF Holders, Key
<1>12. \A k \in AllKinds : Taken(k) + expired[k] <= Taken(k)' + expired'[k]
  BY <1>1 DEF Taken, Tables
<1> QED
  BY <1>1, <1>9, <1>10, <1>11, <1>12, CountStays DEF IInv

\* A call that is given up releases its locks first, and leaves none but one it never knew of.
LEMMA GivenUp ==
  ASSUME IInv, NEW c \in Callers, Cancel(c) \/ Crash(c)
  PROVE  IInv'
<1>1. /\ Timeless /\ UNCHANGED <<cache, expired>> /\ Tables /\ Bounded /\ Cached
      /\ Placed' /\ lock' \in [AllKinds -> BOOLEAN] /\ epoch \in Nat
      /\ \A k \in AllKinds : lock[k] => lock'[k]
  BY DEF Cancel, Crash, Timeless, IInv, Tables, Placed
<1>2. ASSUME NEW u \in Threads
      PROVE  \/ pc'[u] = pc[u] /\ mem'[u] = mem[u]
             \/ pc'[u] = "idle" /\ mem'[u] = Blank
             \/ /\ pc'[u] = "ended" /\ mem'[u] = [Blank EXCEPT !.kind = Key(u), !.got = Error]
                /\ u[2] # "call"
             \/ /\ pc'[u] = "release" /\ mem[u].held
                /\ mem'[u] = [mem[u] EXCEPT !.got = Error, !.left = <<>>]
  BY DEF Cancel, Crash
<1>3. ASSUME NEW u \in Threads
      PROVE  /\ Sound(u, pc'[u], mem'[u], epoch, straddled)
             /\ mem'[u].held => mem[u].held /\ mem'[u].kind = mem[u].kind
  <2>1. Sound(u, pc[u], mem[u], epoch, straddled)
    BY DEF IInv, Steady
  <2>2. CASE pc'[u] = pc[u] /\ mem'[u] = mem[u]
    BY <2>1, <2>2
  <2>3. CASE pc'[u] = "idle" /\ mem'[u] = Blank
    BY <1>1, <2>3, BlankIsShaped DEF Sound
  <2>4. CASE /\ pc'[u] = "ended" /\ mem'[u] = [Blank EXCEPT !.kind = Key(u), !.got = Error]
             /\ u[2] # "call"
    <3>1. Shaped(mem'[u]) /\ ~mem'[u].held /\ mem'[u].kind = mem[u].kind /\ mem'[u].since = 0
      BY <2>1, <2>4 DEF Sound, Shaped, Blank, Key
    <3> QED
      BY <1>1, <2>1, <2>4, <3>1 DEF Sound
  <2>5. CASE /\ pc'[u] = "release" /\ mem[u].held
             /\ mem'[u] = [mem[u] EXCEPT !.got = Error, !.left = <<>>]
    <3>1. /\ Shaped(mem'[u]) /\ mem'[u].held /\ mem'[u].kind = mem[u].kind
          /\ mem'[u].since = mem[u].since /\ mem'[u].got = Error
      BY <2>1, <2>5 DEF Sound, Shaped, Blank
    <3> QED
      BY <2>1, <2>5, <3>1 DEF Sound, Found, Error
  <2> QED
    BY <1>2, <2>2, <2>3, <2>4, <2>5
<1>4. (\A u \in Threads : Steady(u)') /\ Tables' /\ Cached'
  BY <1>1, <1>3 DEF Steady, Timeless, Tables, Cached
<1>5. \A k \in AllKinds : Holders(k)' \subseteq Holders(k)
  BY <1>3 DEF Holders, Key
<1>6. \A k \in AllKinds : Taken(k) + expired[k] <= Taken(k)' + expired'[k]
  BY <1>1 DEF Taken, Tables
<1> QED
  BY <1>1, <1>4, <1>5, <1>6, CountStays DEF IInv

LEMMA ExpiryStep ==
  ASSUME IInv, NEW k \in AllKinds, CacheExpires(k) \/ LockExpires(k)
  PROVE  IInv'
<1>1. /\ Timeless /\ UNCHANGED <<pc, mem>> /\ Tables /\ Bounded /\ Cached
      /\ \A t \in Threads : Steady(t)
  BY DEF CacheExpires, LockExpires, Timeless, IInv
<1>2. \A t \in Threads : Steady(t)'
  BY <1>1 DEF Steady, Timeless
<1>3. Tables' /\ Cached'
  <2>1. CASE CacheExpires(k)
    <3>1. cache' = [cache EXCEPT ![k] = Nothing] /\ UNCHANGED <<lock, expired>>
      BY <2>1 DEF CacheExpires
    <3>2. cache'["quote"] = cache["quote"] \/ cache'["quote"] = Nothing
      BY <1>1, <3>1 DEF Tables
    <3> QED
      BY <1>1, <3>1, <3>2 DEF Tables, Placed, Timeless, Cached, Found, Nothing
  <2>2. CASE LockExpires(k)
    <3>1. /\ lock' = [lock EXCEPT ![k] = FALSE] /\ expired' = [expired EXCEPT ![k] = @ + 1]
          /\ cache' = cache
      BY <2>2 DEF LockExpires
    <3> QED
      BY <1>1, <3>1 DEF Tables, Placed, Timeless, Cached
  <2> QED
    BY <2>1, <2>2
<1>5. \A j \in AllKinds : Holders(j)' \subseteq Holders(j)
  BY <1>1 DEF Holders, Key
<1>6. ASSUME NEW j \in AllKinds PROVE Taken(j) + expired[j] <= Taken(j)' + expired'[j]
  <2>1. expired[j] \in Nat /\ lock[j] \in BOOLEAN
    BY <1>1 DEF Tables
  <2>2. CASE lock'[j] = lock[j] /\ expired'[j] = expired[j]
    BY <2>1, <2>2 DEF Taken
  <2>3. CASE lock'[j] = FALSE /\ expired'[j] = expired[j] + 1
    BY <2>1, <2>3 DEF Taken
  <2> QED
    BY <1>1, <2>2, <2>3 DEF Tables, CacheExpires, LockExpires
<1> QED
  BY <1>1, <1>2, <1>3, <1>5, <1>6, CountStays DEF IInv

LEMMA InitIInv == Init => IInv
<1> SUFFICES ASSUME Init PROVE IInv
  OBVIOUS
<1>1. Tables
  BY DEF Init, Tables, Placed
<1>2. ASSUME NEW t \in Threads PROVE Steady(t)
  BY <1>2, BlankIsShaped DEF Init, Steady, Sound
<1>3. Cached
  BY DEF Init, Cached, Found, Nothing, AllKinds
<1>4. ASSUME NEW k \in AllKinds PROVE Cardinality(Holders(k)) <= Taken(k) + expired[k]
  <2>1. Holders(k) = {}
    BY BlankIsShaped DEF Init, Holders
  <2> QED
    BY <2>1, FS_EmptySet DEF Init, Taken
<1> QED
  BY <1>1, <1>2, <1>3, <1>4 DEF IInv, Bounded

LEMMA NextIInv == IInv /\ [Next]_vars => IInv'
<1> SUFFICES ASSUME IInv, [Next]_vars PROVE IInv'
  OBVIOUS
<1>1. CASE \E c \in Callers : Call(c) \/ Cancel(c) \/ Crash(c)
  BY <1>1, CallStep, GivenUp
<1>2. CASE \E t \in Threads : Step(t)
  BY <1>2, InvalidateStep, LookStep, AcquireStep, CheckStep, AskStep, JoinStep, StoreStep,
     ReleaseStep, ReturnStep DEF Step
<1>3. CASE \E k \in AllKinds : CacheExpires(k) \/ LockExpires(k)
  BY <1>3, ExpiryStep
<1>4. CASE UNCHANGED vars
  <2>1. /\ Timeless /\ UNCHANGED <<pc, mem, cache, lock, expired>> /\ Tables /\ Cached /\ Bounded
        /\ \A t \in Threads : Steady(t)
    BY <1>4 DEF vars, Timeless, IInv
  <2>2. Tables' /\ Cached' /\ \A t \in Threads : Steady(t)'
    BY <2>1 DEF Tables, Placed, Cached, Steady, Timeless
  <2>3. \A k \in AllKinds : Holders(k)' \subseteq Holders(k)
    BY <2>1 DEF Holders, Key
  <2>4. \A k \in AllKinds : Taken(k) + expired[k] <= Taken(k)' + expired'[k]
    BY <2>1 DEF Taken, Tables
  <2> QED
    BY <2>1, <2>2, <2>3, <2>4, CountStays DEF IInv
<1> QED
  BY <1>1, <1>2, <1>3, <1>4 DEF Next

LEMMA Invariant == Spec => []IInv
  BY InitIInv, NextIInv, PTL DEF Spec

-------------------------------------------------------------------------------
(* The theorems *)

\* However the locks of the cache expire, are deleted by others or never heard of again, each
\* expiry lets at most one more call ask the providers under a lock (get_with_dedup).
THEOREM FewAsk == Spec => []StampedeIsBounded
<1>1. IInv => StampedeIsBounded
  <2> SUFFICES ASSUME IInv, NEW k \in AllKinds
               PROVE  Cardinality(Fetching(k)) <= 1 + expired[k]
    BY DEF StampedeIsBounded
  <2>1. /\ Cardinality(Holders(k)) <= Taken(k) + expired[k] /\ Taken(k) \in {0, 1}
        /\ expired[k] \in Nat
    BY DEF IInv, Bounded, Tables, Taken
  <2>2. Fetching(k) \subseteq Holders(k)
    BY DEF Fetching, Holders
  <2>3. IsFiniteSet(Holders(k)) /\ Cardinality(Holders(k)) \in Nat
    BY ThreadsAreFinite, FS_Subset, FS_CardinalityType DEF Holders
  <2>4. Cardinality(Fetching(k)) <= Cardinality(Holders(k)) /\ Cardinality(Fetching(k)) \in Nat
    BY <2>2, <2>3, FS_Subset, FS_CardinalityType
  <2> QED
    BY <2>1, <2>3, <2>4
<1> QED
  BY <1>1, Invariant, PTL

\* A quote that a call returns is no older than the last invalidation before the call, unless
\* it was under way at that one, and at all since it was asked for (invalidate_quote).
THEOREM QuotesAreFresh == Spec => []FreshAfterInvalidation
<1>1. IInv => FreshAfterInvalidation
  <2> SUFFICES ASSUME IInv, NEW t \in Threads, pc[t] = "done", Key(t) = "quote", Found(mem[t].got)
               PROVE  \A e \in mem[t].got.born .. mem[t].since - 1 :
                        <<mem[t].got.born, e>> \in straddled
    BY DEF FreshAfterInvalidation
  <2>1. Whole(mem[t].got.born, mem[t].since, straddled)
    BY DEF IInv, Steady, Sound, Key
  <2> QED
    BY <2>1 DEF Whole
<1> QED
  BY <1>1, Invariant, PTL

===============================================================================
