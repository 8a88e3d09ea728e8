----------------------------- MODULE CopilotSession -----------------------------
(***************************************************************************)
(* The Copilot account of the process (services/copilot/service.py and     *)
(* store.py) and the inference streams that use it                         *)
(* (agent/copilot_chat_model.py).                                          *)
(*                                                                         *)
(* One row of SQLite holds the credentials.  A handler reads the whole row,*)
(* waits for GitHub or Copilot with its copy in hand, and writes the whole *)
(* row back under a compare-and-swap on the row's revision.  Handlers take *)
(* one asyncio lock around that; logging out takes none.  A stream takes   *)
(* the lock three times and holds it while neither preparing nor reading.  *)
(*                                                                         *)
(* Generations are random in the code and numbered here; an attempt to log *)
(* in belongs to the generation that it created.  A GitHub token is the    *)
(* generation whose attempt was granted, a subscription token the GitHub   *)
(* token it was exchanged for.  The roles' models are one role's.  Whether *)
(* an attempt has expired, a poll comes too early or a catalog is old is   *)
(* any answer at the time of asking.                                       *)
(***************************************************************************)
EXTENDS Integers

CONSTANTS
  Requests,      \* slots for requests and runs in flight
  Models,        \* identifiers a catalog may list
  NoModel,
  Free,          \* the value of a lock nobody holds
  MaxArrivals,   \* bound: requests that arrive while the model looks on
  MaxLogouts,    \* bound: likewise for logouts
  MayFail        \* SQLite may refuse a write, and the process may die

ASSUME NoModelAssumption == NoModel \notin Models
ASSUME FreeAssumption == Free \notin Requests
ASSUME BoundAssumption == MaxArrivals \in Nat /\ MaxLogouts \in Nat
ASSUME MayFailAssumption == MayFail \in BOOLEAN

VARIABLES
  store,        \* the row
  lock,         \* the holder of CopilotService._lock
  pc, mem,      \* a request: its place; its kind, what its client saw and what it read
  aged,         \* the subscription token whose time is up
  refusals,     \* subscription tokens that Copilot answered with 401
  arrivals, logouts

vars == <<store, lock, pc, mem, aged, refusals, arrivals, logouts>>

bounds == <<arrivals, logouts>>

clock == <<aged, refusals>>

NoToken == -1

NoChoice == [default |-> NoModel, role |-> NoModel]

Choices == [default : Models \cup {NoModel}, role : Models \cup {NoModel}]

\* CredentialState with its defaults.
Emptied(generation, revision, routing) ==
  [revision |-> revision, generation |-> generation,
   github |-> NoToken, access |-> NoToken, tokens |-> 0,
   routing |-> [revision |-> routing, choice |-> NoChoice],
   fetched |-> FALSE, catalog |-> {}, device |-> "none"]

\* Mutant: a new account starts the count of the routing anew.
ReplacementUncounted(old) == Emptied(old.generation + 1, old.revision, old.routing.revision)

\* The row of a new generation: what clear and start_login write.
Replacement(old) == Emptied(old.generation + 1, old.revision, old.routing.revision + 1)

\* A subscription token, among all there ever were.
Token(state) == <<state.generation, state.tokens>>

Kinds == {"start", "poll", "models", "select", "route", "stream"}

NoCatalog == [generation |-> NoToken, ids |-> {}]

NoCopy == Emptied(0, 0, 0)

NoSight == [generation |-> 0, routing |-> NoCopy.routing]

\* A request of a client who sees the account in some state.  A choice of models names the
\* routing it saw; a poll and a run are bound to a session.
Remembered(kind, state) ==
  [kind |-> kind, stage |-> "begin", hand |-> NoCopy,
   saw |-> IF kind \in {"select", "route"}
           THEN [generation |-> state.generation, routing |-> state.routing] ELSE NoSight,
   bound |-> IF kind \in {"poll", "stream"} THEN state.generation ELSE 0,
   listed |-> NoCatalog, rejected |-> NoToken]

NoMemory == Remembered("models", NoCopy)

-------------------------------------------------------------------------------
(* Steps *)

Goto(r, label, m) == pc' = [pc EXCEPT ![r] = label] /\ mem' = [mem EXCEPT ![r] = m]

\* Mutant: whoever raises keeps the lock.
EndHoldingLock(r) == Goto(r, "idle", NoMemory) /\ UNCHANGED lock

\* The handler returns or raises; async with gives the lock back.
End(r) == Goto(r, "idle", NoMemory) /\ lock' = IF lock = r THEN Free ELSE lock

\* A request waits for an answer with a copy of the row, and keeps the lock.
Await(r, label, stage, state) ==
  Goto(r, label, [mem[r] EXCEPT !.stage = stage, !.hand = state]) /\ lock' = r

\* Mutant: the row is written whatever became of it since it was read.
SavesAnyway(state) == store' = [state EXCEPT !.revision = store.revision + 1]

\* CopilotStore.save: a compare-and-swap on the revision.
Saves(state) ==
  /\ state.revision = store.revision
  /\ store' = [state EXCEPT !.revision = @ + 1]

\* The row was written since it was read, or SQLite is unavailable.
Unsaved(state) == (state.revision # store.revision \/ MayFail) /\ UNCHANGED store

SaveAndEnd(r, state) == (Saves(state) \/ Unsaved(state)) /\ End(r)

-------------------------------------------------------------------------------
(* Arrivals, and what happens without the lock *)

\* A client acts upon what it sees; a run of a chat may be bound to an older session.
Arrive(r) ==
  /\ pc[r] = "idle" /\ arrivals < MaxArrivals
  /\ arrivals' = arrivals + 1
  /\ \E kind \in Kinds :
       LET label == CASE kind \in {"start", "poll"} -> kind
                      [] kind = "stream" -> "authorize"
                      [] OTHER -> "models"
           m == Remembered(kind, store)
       IN  \/ Goto(r, label, m)
           \/ /\ kind = "stream"
              /\ \E g \in 0..store.generation : Goto(r, label, [m EXCEPT !.bound = g])
  /\ UNCHANGED <<store, lock, clock, logouts>>

\* logout: clear, which reads and writes in one step.
Logout ==
  /\ logouts < MaxLogouts /\ logouts' = logouts + 1
  /\ Saves(Replacement(store))
  /\ UNCHANGED <<lock, pc, mem, clock, arrivals>>

\* The subscription token comes into the margin before its end.
TokenAges ==
  /\ store.access # NoToken /\ aged # Token(store)
  /\ aged' = Token(store)
  /\ UNCHANGED <<store, lock, pc, mem, refusals, bounds>>

\* The process dies; the row stays.
Crash ==
  /\ MayFail
  /\ pc' = [r \in Requests |-> "idle"] /\ mem' = [r \in Requests |-> NoMemory]
  /\ lock' = Free
  /\ UNCHANGED <<store, clock, bounds>>

Waiting == {"code", "grant", "token", "catalog", "answer"}

\* A call times out, fails or is answered with nonsense; a client hangs up.
Fail(r) == pc[r] # "idle" /\ End(r) /\ UNCHANGED <<store, clock, bounds>>

-------------------------------------------------------------------------------
(* Logging in *)

\* start_login: unless an attempt is pending, every binding to the old account ends.
StartLogin(r) ==
  /\ pc[r] = "start" /\ lock = Free
  /\ \/ store.device = "pending" /\ End(r) /\ UNCHANGED store
     \/ Saves(Replacement(store)) /\ Await(r, "code", "begin", store')
     \/ Unsaved(store) /\ End(r)
  /\ UNCHANGED <<clock, bounds>>

DeviceCode(r) ==
  /\ pc[r] = "code"
  /\ SaveAndEnd(r, [mem[r].hand EXCEPT !.device = "pending"])
  /\ UNCHANGED <<clock, bounds>>

\* The session a poll or a run is bound to is the one that is stored.
Bound(r) == mem[r].bound = store.generation

\* poll_login: for the attempt the client was shown.
Poll(r) ==
  /\ pc[r] = "poll" /\ lock = Free
  /\ \/ End(r) /\ UNCHANGED store
     \/ /\ Bound(r) /\ store.device = "pending"
        /\ \/ SaveAndEnd(r, [store EXCEPT !.device = "over"])
           \/ Saves(store) /\ Await(r, "grant", "begin", store')
           \/ Unsaved(store) /\ End(r)
  /\ UNCHANGED <<clock, bounds>>

\* Mutant: the token is written into the row as it is now.
GrantedLate(r) ==
  /\ pc[r] = "grant"
  /\ LET granted == [store EXCEPT !.github = mem[r].hand.generation, !.device = "none"]
     IN  \/ Saves(granted) /\ Await(r, "token", "login", store')
         \/ Unsaved(granted) /\ End(r)
  /\ UNCHANGED <<clock, bounds>>

\* GitHub's answer: not yet, no, or a token, which is exchanged at once.
Granted(r) ==
  /\ pc[r] = "grant"
  /\ LET hand == mem[r].hand
         granted == [hand EXCEPT !.github = hand.generation, !.device = "none"]
     IN  \/ SaveAndEnd(r, hand)
         \/ SaveAndEnd(r, [hand EXCEPT !.device = "over"])
         \/ Saves(granted) /\ Await(r, "token", "login", store')
         \/ Unsaved(granted) /\ End(r)
  /\ UNCHANGED <<clock, bounds>>

-------------------------------------------------------------------------------
(* Tokens and catalogs *)

NeedsToken(state) == state.access = NoToken \/ aged = Token(state)

\* models returns, and its caller goes on without the lock; a stream finds its model in the
\* catalog or raises.
Listed(r, state) ==
  LET label == CASE mem[r].kind = "stream" -> "send" [] OTHER -> "commit"
      listed == [generation |-> state.generation, ids |-> state.catalog]
  IN  IF mem[r].kind = "models" \/ (mem[r].kind = "stream" /\ state.catalog = {})
      THEN End(r)
      ELSE /\ Goto(r, label, [mem[r] EXCEPT !.stage = "begin", !.hand = NoCopy, !.listed = listed])
           /\ lock' = Free

\* What follows once a row with a usable subscription token is in hand.
Authorized(r, stage, state) ==
  CASE stage = "login"     -> End(r)
    [] stage = "authorize" -> Goto(r, "models", [mem[r] EXCEPT !.stage = "begin", !.hand = NoCopy])
                              /\ lock' = Free
    [] stage = "models"    -> \/ mem[r].kind = "stream" /\ state.fetched /\ Listed(r, state)
                              \/ Await(r, "catalog", stage, state)
    [] stage = "again"     -> Await(r, "catalog", stage, state)
    [] stage = "send"      -> Goto(r, "answer", [mem[r] EXCEPT !.stage = "begin", !.hand = state])
                              /\ lock' = Free

\* _authorized: the row as it is, or with a new subscription token.
Authorize(r, stage, force) ==
  /\ \/ ~force /\ ~NeedsToken(store) /\ Authorized(r, stage, store)
     \/ /\ force \/ NeedsToken(store)
        /\ \/ store.github = NoToken /\ End(r)
           \/ store.github # NoToken /\ Await(r, "token", stage, store)
  /\ UNCHANGED store

\* _refresh: a token, or a 401 that ends the session which got it.
Refresh(r) ==
  /\ pc[r] = "token"
  /\ LET hand == mem[r].hand
         renewed == [hand EXCEPT !.access = hand.github, !.tokens = @ + 1]
     IN  \/ Saves(renewed) /\ Authorized(r, mem[r].stage, store')
         \/ Unsaved(renewed) /\ End(r)
         \/ store.generation = hand.generation /\ SaveAndEnd(r, Replacement(store))
         \/ store.generation # hand.generation /\ End(r) /\ UNCHANGED store
  /\ UNCHANGED <<clock, bounds>>

Catalogs(r) ==
  /\ pc[r] = "models" /\ lock = Free
  /\ Authorize(r, "models", FALSE)
  /\ UNCHANGED <<clock, bounds>>

\* Copilot lists the account's models, or rejects the token; the first time that is renewed.
Catalog(r) ==
  /\ pc[r] = "catalog"
  /\ LET hand == mem[r].hand
     IN  \/ /\ \E ids \in SUBSET Models :
                LET filled == [hand EXCEPT !.catalog = ids, !.fetched = TRUE]
                IN  \/ Saves(filled) /\ Listed(r, filled)
                    \/ Unsaved(filled) /\ End(r)
            /\ UNCHANGED refusals
         \/ /\ refusals' = refusals \cup {Token(hand)}
            /\ IF mem[r].stage = "models"
               THEN Authorize(r, "again", TRUE)
               ELSE End(r) /\ UNCHANGED store
  /\ UNCHANGED <<aged, bounds>>

-------------------------------------------------------------------------------
(* Choosing models *)

Routed(choice) == [revision |-> store.routing.revision + 1, choice |-> choice]

\* The revision stays when the model was selected already.
Selected(m) ==
  IF store.routing.choice.default = m
  THEN store.routing
  ELSE Routed([store.routing.choice EXCEPT !.default = m])

\* select_model: in both catalogs.  It is given the revision the client saw, or none.
Select(r) ==
  /\ mem[r].kind = "select" /\ store.github # NoToken
  /\ \E m \in mem[r].listed.ids \cap store.catalog :
       SaveAndEnd(r, [store EXCEPT !.routing = Selected(m)])

\* update_routing: the whole map, on the revision the client saw.
UpdateRouting(r) ==
  /\ mem[r].kind = "route" /\ store.github # NoToken
  /\ mem[r].saw.routing.revision = store.routing.revision
  /\ \E m \in (mem[r].listed.ids \cap store.catalog) \cup {NoModel} :
       SaveAndEnd(r, [store EXCEPT !.routing = Routed([store.routing.choice EXCEPT !.role = m])])

Commit(r) ==
  /\ pc[r] = "commit" /\ lock = Free
  /\ Select(r) \/ UpdateRouting(r) \/ (End(r) /\ UNCHANGED store)
  /\ UNCHANGED <<clock, bounds>>

-------------------------------------------------------------------------------
(* A stream: _astream of one model call *)

\* authorization: only for the session the run is bound to.
AuthorizeStream(r) ==
  /\ pc[r] = "authorize" /\ lock = Free
  /\ IF Bound(r) THEN Authorize(r, "authorize", FALSE) ELSE End(r) /\ UNCHANGED store
  /\ UNCHANGED <<clock, bounds>>

\* Mutant: a rejected token is renewed although a peer has renewed it.
RejectedByAnyone(r) == mem[r].rejected # NoToken

\* The token that was rejected is still the one in the row.
Rejected(r) == mem[r].rejected # NoToken /\ mem[r].rejected = store.tokens

\* Mutant: only the first authorization of a call asks for the session.
SendUnbound(r) ==
  /\ pc[r] = "send" /\ lock = Free
  /\ Authorize(r, "send", Rejected(r))
  /\ UNCHANGED <<clock, bounds>>

SendStream(r) ==
  /\ pc[r] = "send" /\ lock = Free
  /\ IF Bound(r) THEN Authorize(r, "send", Rejected(r)) ELSE End(r) /\ UNCHANGED store
  /\ UNCHANGED <<clock, bounds>>

\* Copilot streams its events, each forwarded after a look at the row; or it rejects
\* the token, and the call is sent once more.
Answer(r) ==
  /\ pc[r] = "answer"
  /\ \/ End(r) /\ UNCHANGED refusals
     \/ /\ refusals' = refusals \cup {Token(mem[r].hand)}
        /\ IF mem[r].rejected = NoToken
           THEN Goto(r, "send", [mem[r] EXCEPT !.hand = NoCopy, !.rejected = mem[r].hand.tokens])
                /\ UNCHANGED lock
           ELSE End(r)
  /\ UNCHANGED <<store, aged, bounds>>

-------------------------------------------------------------------------------
(* The specification *)

\* The row of a new installation, or one that a process before this one left.
Stored ==
  {NoCopy} \cup
  {[Emptied(0, 1, 1) EXCEPT !.github = 0, !.access = 0, !.tokens = 1,
                            !.fetched = TRUE, !.catalog = Models]}

Init ==
  /\ store \in Stored
  /\ lock = Free
  /\ pc = [r \in Requests |-> "idle"] /\ mem = [r \in Requests |-> NoMemory]
  /\ aged = Token(NoCopy) /\ refusals = {}
  /\ arrivals = 0 /\ logouts = 0

Handle(r) ==
  \/ StartLogin(r) \/ DeviceCode(r) \/ Poll(r) \/ Granted(r)
  \/ Refresh(r) \/ Catalogs(r) \/ Catalog(r) \/ Commit(r)
  \/ AuthorizeStream(r) \/ SendStream(r) \/ Answer(r)

Next ==
  \/ \E r \in Requests : Arrive(r) \/ Handle(r) \/ Fail(r)
  \/ Logout \/ TokenAges \/ Crash

Spec == Init /\ [][Next]_vars

\* asyncio runs what can run, its lock is served in order, and every call has a timeout.
Progress(r) == Handle(r) \/ (pc[r] \in Waiting /\ Fail(r))

FairSpec == Spec /\ \A r \in Requests : WF_vars(Progress(r))

-------------------------------------------------------------------------------
(* Properties *)

Labels == {"idle", "start", "poll", "models", "commit", "authorize", "send"} \cup Waiting

Records ==
  [revision : Nat, generation : Nat, github : Nat \cup {NoToken}, access : Nat \cup {NoToken},
   tokens : Nat, routing : [revision : Nat, choice : Choices],
   fetched : BOOLEAN, catalog : SUBSET Models, device : {"none", "pending", "over"}]

Memories ==
  [kind : Kinds, stage : {"begin", "login", "authorize", "models", "again", "send"},
   hand : Records, saw : [generation : Nat, routing : [revision : Nat, choice : Choices]],
   bound : Nat, listed : [generation : Nat \cup {NoToken}, ids : SUBSET Models],
   rejected : Nat \cup {NoToken}]

\* The row, the lock and the requests have their types.
TypeOK ==
  /\ store \in Records
  /\ lock \in Requests \cup {Free}
  /\ pc \in [Requests -> Labels]
  /\ mem \in [Requests -> Memories]
  /\ aged \in Nat \X Nat /\ refusals \subseteq Nat \X Nat
  /\ arrivals \in 0..MaxArrivals /\ logouts \in 0..MaxLogouts

\* What is stored of GitHub and of Copilot was granted to the session that is stored with
\* it, however late an answer for an older session arrives (service.py:97).
TokensBelongToSession ==
  /\ store.github \in {NoToken, store.generation}
  /\ store.access \in {NoToken, store.github}

\* A client that names the routing revision it saw means the session and the models that
\* it saw, although sessions end without the lock (service.py:312).
RevisionNamesRouting ==
  \A r \in Requests :
    mem[r].kind \in {"select", "route"} /\ mem[r].saw.routing.revision = store.routing.revision =>
      /\ mem[r].saw.generation = store.generation
      /\ mem[r].saw.routing = store.routing

\* A stream is sent with the token of the session its run is bound to, in the form that the
\* catalog of that session asks for, though it lets the lock go between reading the two
\* (copilot_chat_model.py:143-156).
StreamsKeepTheirSession ==
  \A r \in Requests :
    pc[r] = "answer" => mem[r].hand.access = mem[r].bound /\ mem[r].listed.generation = mem[r].bound

\* A subscription token is exchanged for another only when its time is up or Copilot
\* rejected that very token: streams whose token was rejected together renew it once
\* (service.py:247).
RefreshNeedsCause ==
  [][store'.generation = store.generation /\ store'.tokens # store.tokens =>
       store.access = NoToken \/ Token(store) \in refusals \cup {aged}]_vars

\* Every request comes to an end, so none keeps the lock from the others.
HandlersFinish == \A r \in Requests : pc[r] # "idle" ~> pc[r] = "idle"

Account == INSTANCE CopilotAccount WITH
  Routings <- Choices, NoRouting <- NoChoice,
  session <- store.generation, ended <- 0..(store.generation - 1),
  granted <- store.github # NoToken, routing <- store.routing

\* The row goes through sessions as CopilotAccount promises: a session that ended never
\* comes back, and all it had is gone (service.py:326).
RefinesCopilotAccount == Account!Spec

===============================================================================
