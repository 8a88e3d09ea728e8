------------------------------ MODULE MarketData ------------------------------
(***************************************************************************)
(* The data manager (data_manager/manager.py) and its cache                *)
(* (data_manager/cache.py, database/redis.py), for one symbol.             *)
(*                                                                         *)
(* A call looks in the cache.  On a miss one call takes the lock of the    *)
(* key, looks again, asks the providers of this kind of data one after     *)
(* another and stores what it got; others wait for that, and ask the       *)
(* providers themselves when they waited long enough.  The lock has no     *)
(* owner: it expires by itself, and whoever took it deletes it, his own    *)
(* or not.  A call may be cancelled (a client hangs up, wait_for gives     *)
(* up), the process may die, and Redis may fail, which none of them is     *)
(* told.                                                                   *)
(*                                                                         *)
(* The ratio of puts and calls is computed from the answers of two calls   *)
(* that run beside each other; a quote is completed by a second look-up.   *)
(***************************************************************************)
EXTENDS Integers, Sequences, FiniteSets, SequencesExt

CONSTANTS
  Callers,
  Wants,         \* the kinds of data a caller asks for
  Configured,    \* the providers there is a key for
  MaxMishaps,    \* bound: how often Redis fails, what is in it expires, or a call is given up
  MaxCalls       \* bound: how many calls arrive

ASSUME CallersAssumption == IsFiniteSet(Callers)
ASSUME MarketBounds == MaxCalls \in Nat /\ MaxMishaps \in Nat

AllKinds == {"bars", "intraday", "treasury", "ipo", "sentiment", "quote", "extended",
             "news", "insider", "options", "ratio"}

\* Alpha Vantage is always there, and yfinance needs no key.
ASSUME ConfiguredAssumption == {"yfinance", "alphavantage"} \subseteq Configured

ASSUME WantsAssumption == Wants \in [Callers -> SUBSET AllKinds]

\* A call, and the two calls that one for a ratio makes.
Threads == Callers \X {"call", "quote", "options"}

Main(c) == <<c, "call">>

VARIABLES
  cache,         \* per kind: what is cached, or Nothing
  lock,          \* per kind: whether the lock is taken
  epoch,         \* how often the quote was invalidated
  pc, mem,       \* a thread: its place; what it looks for, since when, and what it has
  calls,         \* how many calls arrived
  mishaps,       \* how much went wrong
  expired,       \* history: how often the lock of a kind expired
  straddled      \* history: <<b, e>> when a quote asked for in epoch b was under way as e ended

vars == <<cache, lock, epoch, pc, mem, calls, mishaps, expired, straddled>>

Nothing == [what |-> "nothing", born |-> 0]

Error == [what |-> "error", born |-> 0]

Found(r) == r.what \in {"data", "empty"}

Blank == [kind |-> "bars", since |-> 0, left |-> <<>>, begun |-> 0, held |-> FALSE,
          got |-> Nothing, price |-> Nothing]

Mishap == mishaps < MaxMishaps /\ mishaps' = mishaps + 1

Smooth == mishaps' = mishaps

Now(kind) == IF kind = "quote" THEN epoch ELSE 0

-------------------------------------------------------------------------------
(* The providers of each kind, in the order in which they are asked *)

BarsProviders == <<"yfinance", "alphavantage">>

TreasuryProviders == <<"fred", "alphavantage">>

\* Before and after hours yfinance goes first.
QuoteProviders(session) ==
  IF session \in {"pre", "post"} THEN <<"yfinance", "finnhub", "alphavantage">>
                                 ELSE <<"finnhub", "yfinance", "alphavantage">>

NewsProviders == <<"finnhub", "yfinance", "alphavantage">>

InsiderProviders == <<"finnhub", "alphavantage", "yfinance">>

Providers(kind, session) ==
  CASE kind \in {"bars", "intraday"}            -> BarsProviders
    [] kind = "treasury"                        -> TreasuryProviders
    [] kind = "quote"                           -> QuoteProviders(session)
    [] kind = "extended"                        -> <<"yfinance">>
    [] kind = "news"                            -> NewsProviders
    [] kind = "insider"                         -> InsiderProviders
    [] kind \in {"ipo", "sentiment", "options"} -> <<"alphavantage">>

\* What asking one comes to: data, of which only options are told apart from none, or a
\* failure, which moves on to the next.  The calendar comes as a list, which is then asked
\* for a data frame's attribute.  The extended hours of a quote are {} when yfinance fails.
Outcomes(kind) ==
  CASE kind = "ipo"      -> {"failure"}
    [] kind = "extended" -> {"data"}
    [] kind = "options"  -> {"data", "empty", "failure"}
    [] OTHER             -> {"data", "failure"}

-------------------------------------------------------------------------------
(* Steps *)

Moved(t, label, m) == pc' = [pc EXCEPT ![t] = label] /\ mem' = [mem EXCEPT ![t] = m]

Key(t) == mem[t].kind

\* A call returns; one of the two that one for a ratio made waits for the other.
Settle(t, m) == IF t[2] = "call" THEN Moved(t, "idle", Blank) ELSE Moved(t, "ended", m)

\* A thread has what it looked for, or an error.  It may yet have to complete a quote.
Finish(t, r) ==
  CASE Key(t) = "quote"    ->
         Moved(t, "done", [Blank EXCEPT !.kind = "quote", !.since = mem[t].since, !.got = r])
    [] Key(t) = "extended" ->
         Settle(t, [Blank EXCEPT !.kind = "quote",
                                 !.got = IF r = Error THEN r ELSE mem[t].price])
    [] OTHER               -> Settle(t, [Blank EXCEPT !.kind = Key(t), !.got = r])

\* After a fetch under the lock the lock is released, whatever it came to.
Leave(t, r) ==
  IF mem[t].held THEN Moved(t, "release", [mem[t] EXCEPT !.got = r]) ELSE Finish(t, r)

\* fetch_func: the providers are asked or, for a ratio, a quote and options.
Fetch(t, held) ==
  IF Key(t) = "ratio"
  THEN LET c == t[1]
       IN  /\ pc' = [pc EXCEPT ![t] = "join", ![<<c, "quote">>] = "look",
                               ![<<c, "options">>] = "look"]
           /\ mem' = [mem EXCEPT ![t].held = held,
                        ![<<c, "quote">>] = [Blank EXCEPT !.kind = "quote", !.since = epoch],
                        ![<<c, "options">>] = [Blank EXCEPT !.kind = "options"]]
  ELSE \E session \in {"pre", "regular"} :
         Moved(t, "fetch",
               [mem[t] EXCEPT !.held = held, !.begun = Now(Key(t)),
                  !.left = SelectSeq(Providers(Key(t), session),
                                     LAMBDA p : p \in Configured)])

Call(c) ==
  /\ pc[Main(c)] = "idle" /\ calls < MaxCalls /\ calls' = calls + 1
  /\ Smooth
  /\ \E kind \in Wants[c] :
       LET m == [Blank EXCEPT !.kind = kind, !.since = Now(kind)]
       IN  \/ kind = "quote" /\ Moved(Main(c), "invalidate", m)
           \/ Moved(Main(c), IF kind = "intraday" THEN "bypass" ELSE "look", m)
  /\ UNCHANGED <<cache, lock, epoch, expired, straddled>>

\* Whoever is asking for a quote, or about to store one.
UnderWay == {u \in Threads : Key(u) = "quote" /\ pc[u] \in {"fetch", "store"}}

\* Mutant: another key is deleted.
InvalidateBars(t) ==
  /\ pc[t] = "invalidate" /\ Smooth
  /\ cache' = [cache EXCEPT !["bars"] = Nothing] /\ epoch' = epoch + 1
  /\ straddled' = straddled \cup {<<mem[u].begun, epoch>> : u \in UnderWay}
  /\ Moved(t, "look", [mem[t] EXCEPT !.since = epoch'])
  /\ UNCHANGED <<lock, calls, expired>>

\* invalidate_quote, before a price is refreshed.  It does not say whether it failed.
Invalidate(t) ==
  /\ pc[t] = "invalidate"
  /\ \/ /\ cache' = [cache EXCEPT !["quote"] = Nothing] /\ epoch' = epoch + 1
        /\ straddled' = straddled \cup {<<mem[u].begun, epoch>> : u \in UnderWay}
        /\ Smooth
     \/ Mishap /\ UNCHANGED <<cache, epoch, straddled>>
  /\ Moved(t, "look", [mem[t] EXCEPT !.since = epoch'])
  /\ UNCHANGED <<lock, calls, expired>>

\* Bars of less than half an hour are not cached.
Bypass(t) ==
  /\ pc[t] = "bypass" /\ Fetch(t, FALSE) /\ Smooth
  /\ UNCHANGED <<cache, lock, epoch, calls, expired, straddled>>

\* There is nothing in the cache, or Redis fails.
Missed(t) == IF Found(cache[Key(t)]) THEN Mishap ELSE Smooth

\* get_with_fetch and get_with_dedup both look; a failure is a miss.
Look(t) ==
  /\ pc[t] = "look"
  /\ \/ Found(cache[Key(t)]) /\ Finish(t, cache[Key(t)]) /\ Smooth
     \/ Missed(t) /\ Moved(t, "acquire", mem[t])
  /\ UNCHANGED <<cache, lock, epoch, calls, expired, straddled>>

\* Mutant: SET without NX.
AcquireAnyway(t) ==
  /\ pc[t] = "acquire"
  /\ lock' = [lock EXCEPT ![Key(t)] = TRUE]
  /\ Moved(t, "check", [mem[t] EXCEPT !.held = TRUE]) /\ Smooth
  /\ UNCHANGED <<cache, epoch, calls, expired, straddled>>

\* acquire_lock; a failure is a lock that is taken.
Acquire(t) ==
  /\ pc[t] = "acquire"
  /\ \/ /\ ~lock[Key(t)] /\ lock' = [lock EXCEPT ![Key(t)] = TRUE] /\ Smooth
        /\ Moved(t, "check", [mem[t] EXCEPT !.held = TRUE])
     \/ /\ IF lock[Key(t)] THEN Smooth ELSE Mishap
        /\ Moved(t, "wait", mem[t]) /\ UNCHANGED lock
  /\ UNCHANGED <<cache, epoch, calls, expired, straddled>>

\* Somebody may have stored it before the lock was taken.
Check(t) ==
  /\ pc[t] = "check"
  /\ \/ Found(cache[Key(t)]) /\ Leave(t, cache[Key(t)]) /\ Smooth
     \/ Missed(t) /\ Fetch(t, TRUE)
  /\ UNCHANGED <<cache, lock, epoch, calls, expired, straddled>>

\* The next provider answers, or fails and the one after is asked.
Ask(t) ==
  /\ pc[t] = "fetch" /\ Smooth
  /\ \E what \in Outcomes(Key(t)) :
       \/ what # "failure"
          /\ IF Key(t) = "intraday"
             THEN Finish(t, [what |-> what, born |-> 0])
             ELSE Moved(t, "store", [mem[t] EXCEPT !.got = [what |-> what, born |-> mem[t].begun],
                                                   !.left = <<>>])
       \/ what = "failure" /\ Len(mem[t].left) > 1
          /\ Moved(t, "fetch", [mem[t] EXCEPT !.left = Tail(mem[t].left)])
       \/ what = "failure" /\ Len(mem[t].left) = 1 /\ Leave(t, Error)
  /\ UNCHANGED <<cache, lock, epoch, calls, expired, straddled>>

\* _calculate_symbol_pcr: nothing, unless there are a quote and options that suffice.
Join(t) ==
  LET quote == <<t[1], "quote">>
      options == <<t[1], "options">>
  IN  /\ pc[t] = "join" /\ pc[quote] = "ended" /\ pc[options] = "ended" /\ Smooth
      /\ \E r \in {Nothing, [what |-> "data", born |-> 0]} :
           /\ r # Nothing => mem[quote].got.what = "data" /\ mem[options].got.what = "data"
           /\ LET label == IF Found(r) THEN "store" ELSE IF mem[t].held THEN "release" ELSE "idle"
                  m == IF label = "idle" THEN Blank ELSE [mem[t] EXCEPT !.got = r]
              IN  /\ pc' = [pc EXCEPT ![t] = label, ![quote] = "idle", ![options] = "idle"]
                  /\ mem' = [mem EXCEPT ![t] = m, ![quote] = Blank, ![options] = Blank]
      /\ UNCHANGED <<cache, lock, epoch, calls, expired, straddled>>

Store(t) ==
  /\ pc[t] = "store"
  /\ \/ cache' = [cache EXCEPT ![Key(t)] = mem[t].got] /\ Smooth
     \/ Mishap /\ UNCHANGED cache
  /\ Leave(t, mem[t].got)
  /\ UNCHANGED <<lock, epoch, calls, expired, straddled>>

\* release_lock: whoever took it.
Release(t) ==
  /\ pc[t] = "release"
  /\ \/ lock' = [lock EXCEPT ![Key(t)] = FALSE] /\ Smooth
     \/ Mishap /\ UNCHANGED lock
  /\ Finish(t, mem[t].got)
  /\ UNCHANGED <<cache, epoch, calls, expired, straddled>>

\* Who has no lock polls ...
Poll(t) ==
  /\ pc[t] = "wait" /\ Found(cache[Key(t)]) /\ Finish(t, cache[Key(t)]) /\ Smooth
  /\ UNCHANGED <<cache, lock, epoch, calls, expired, straddled>>

\* Mutant: as long as the lock is taken the wait goes on.
GiveUpWhenFree(t) ==
  /\ pc[t] = "wait" /\ ~lock[Key(t)] /\ Fetch(t, FALSE) /\ Smooth
  /\ UNCHANGED <<cache, lock, epoch, calls, expired, straddled>>

\* ... and after wait_timeout_seconds asks the providers.
GiveUp(t) ==
  /\ pc[t] = "wait" /\ Fetch(t, FALSE) /\ Smooth
  /\ UNCHANGED <<cache, lock, epoch, calls, expired, straddled>>

\* A quote of the regular session is completed by what there is of the extended hours.
Return(t) ==
  /\ pc[t] = "done" /\ Smooth
  /\ \/ Found(mem[t].got)
        /\ Moved(t, "look", [Blank EXCEPT !.kind = "extended", !.price = mem[t].got])
     \/ Settle(t, [Blank EXCEPT !.kind = "quote", !.got = mem[t].got])
  /\ UNCHANGED <<cache, lock, epoch, calls, expired, straddled>>

\* A call is cancelled with the two it may have made.  A lock is released, unless the
\* reply that it was taken does not arrive any more.
Cancel(c) ==
  LET own(t) == t[1] = c /\ pc[t] \notin {"idle", "ended", "join", "release"}
      label(t) == IF mem[t].held THEN "release" ELSE IF t[2] = "call" THEN "idle" ELSE "ended"
      rest(t) == CASE label(t) = "release" -> [mem[t] EXCEPT !.got = Error, !.left = <<>>]
                   [] label(t) = "idle"    -> Blank
                   [] label(t) = "ended"   -> [Blank EXCEPT !.kind = Key(t), !.got = Error]
  IN  /\ Mishap /\ \E t \in Threads : own(t)
      /\ \E lost \in SUBSET {Key(t) : t \in {u \in Threads : own(u) /\ pc[u] = "acquire"}} :
           lock' = [k \in AllKinds |-> lock[k] \/ k \in lost]
      /\ pc' = [t \in Threads |-> IF own(t) THEN label(t) ELSE pc[t]]
      /\ mem' = [t \in Threads |-> IF own(t) THEN rest(t) ELSE mem[t]]
      /\ UNCHANGED <<cache, epoch, calls, expired, straddled>>

\* The process dies.
Crash(c) ==
  /\ Mishap /\ pc[Main(c)] # "idle"
  /\ pc' = [t \in Threads |-> IF t[1] = c THEN "idle" ELSE pc[t]]
  /\ mem' = [t \in Threads |-> IF t[1] = c THEN Blank ELSE mem[t]]
  /\ UNCHANGED <<cache, lock, epoch, calls, expired, straddled>>

CacheExpires(k) ==
  /\ Mishap /\ Found(cache[k]) /\ cache' = [cache EXCEPT ![k] = Nothing]
  /\ UNCHANGED <<lock, epoch, pc, mem, calls, expired, straddled>>

LockExpires(k) ==
  /\ Mishap /\ lock[k]
  /\ lock' = [lock EXCEPT ![k] = FALSE] /\ expired' = [expired EXCEPT ![k] = @ + 1]
  /\ UNCHANGED <<cache, epoch, pc, mem, calls, straddled>>

-------------------------------------------------------------------------------
(* The specification *)

Init ==
  /\ cache = [k \in AllKinds |-> Nothing] /\ lock = [k \in AllKinds |-> FALSE]
  /\ epoch = 0 /\ calls = 0 /\ mishaps = 0
  /\ pc = [t \in Threads |-> "idle"] /\ mem = [t \in Threads |-> Blank]
  /\ expired = [k \in AllKinds |-> 0] /\ straddled = {}

Step(t) ==
  \/ Invalidate(t) \/ Bypass(t) \/ Look(t) \/ Acquire(t) \/ Check(t) \/ Ask(t) \/ Join(t)
  \/ Store(t) \/ Release(t) \/ Poll(t) \/ GiveUp(t) \/ Return(t)

Next ==
  \/ \E c \in Callers : Call(c) \/ Cancel(c) \/ Crash(c)
  \/ \E t \in Threads : Step(t)
  \/ \E k \in AllKinds : CacheExpires(k) \/ LockExpires(k)

Spec == Init /\ [][Next]_vars

\* Every request to Redis and to a provider ends, the latter in its timeout.
Fairness == \A t \in Threads : WF_vars(Step(t))

FairSpec == Spec /\ Fairness

-------------------------------------------------------------------------------
(* Properties *)

Fetching(k) ==
  {t \in Threads : Key(t) = k /\ mem[t].held /\ pc[t] \in {"fetch", "join", "store"}}

\* However locks expire under their holders, are deleted by others, orphaned or left behind:
\* each expiry lets at most one more call ask the providers of a key under the lock
\* (redis.py:352).
StampedeIsBounded == \A k \in AllKinds : Cardinality(Fetching(k)) <= 1 + expired[k]

\* A quote that is older than an invalidation the call came after was already under way at
\* that invalidation, and at every one since it was asked for (manager.py:1717).
FreshAfterInvalidation ==
  \A t \in Threads :
    pc[t] = "done" /\ Key(t) = "quote" /\ Found(mem[t].got) =>
      \A e \in mem[t].got.born .. mem[t].since - 1 : <<mem[t].got.born, e>> \in straddled

\* Every call is answered, though calls for a ratio hold a lock while they wait for others
\* (manager.py:1415).
CallsFinish == \A c \in Callers : pc[Main(c)] # "idle" ~> pc[Main(c)] = "idle"

===============================================================================
