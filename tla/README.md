# FinancialAgent: formal models of its concurrent core

FinancialAgent is a FastAPI backend (`src/backend/src`, about 63k lines of Python) with a
React frontend.  It keeps its state in MongoDB (through Motor), caches in Redis, and one
credential in SQLite.  One asyncio process serves every request, so two requests
interleave exactly at the `await`s of the code, and every database call is such a place.
Most of the repository is numeric or textual (indicators, prompts, formatters); what is
hard to test in it is the part that keeps several documents consistent while requests
overlap, clients disconnect, calls fail and the process dies.  That part is modelled here.

1. [Inventory](#1-inventory)
2. [Modules](#2-modules)
3. [How the models correspond to the code](#3-how-the-models-correspond-to-the-code)
4. [Runs, bounds and what they show](#4-runs-bounds-and-what-they-show)
5. [Fairness](#5-fairness)
6. [What is proved](#6-what-is-proved)
7. [Disagreements between documents and code](#7-disagreements-between-documents-and-code)
8. [What is not modelled](#8-what-is-not-modelled)
9. [Plan](#9-plan)

`PROJECT.json` holds the machine-readable side: components, runs, the map from definitions
to source lines, one mutant per property, hazards and theorems.

## 1. Inventory

Paths are relative to `src/backend/src` unless they begin with `docs/`.

| Component | State | Operations | Interacts with | What is hard | What makes it correct |
|---|---|---|---|---|---|
| **Unified chat handler** `api/chat/streaming/` | the coroutine of one POST, an SSE stream, an engine task | claim, replay, route, run one of three engines, complete / clarify / fail / cancel | agent runs, chats, messages, engines | client disconnects at any `yield`, a cancellation inside a compensation, lost acknowledgements, duplicate POSTs, crashes | one execution per request; run, message and stream agree; nothing is left running |
| **Agent runs** `services/agent_run_service.py`, `database/repositories/agent_run_repository.py` | `agent_runs` documents: status, lease, key | claim by `request_id`, claim by portfolio key, transitions by compare-and-swap on the status, release of stale leases | chat handler, portfolio flows | several writers of one status | terminal states are final; one owner per request and per key |
| **Dashboard portfolio flows** `api/portfolio_admin.py`, `agent/portfolio/flows.py` | run documents with a lease, background tasks, legacy `analysis_runs` | trigger, status poll, background flow, release | agent runs, decision assessments | a lease that ends under a working task, a crash between claim and start | one active run per key; a completed run has its assessment; a key is given back |
| **Holdings and transactions** `services/holdings_ledger.py`, `api/portfolio/user_transactions.py`, `api/portfolio/holdings.py` | `user_transactions`, `holdings` | create, edit, delete; each applies its delta to the holding and compensates on refusal | review control (tickets) | read-compute-write without a lock, compensations that can fail | holding = declared + recorded trades |
| **Review control** `services/decision_policy/` | the `review_control` document, prepared batches and receipts, policies | mutate inputs under a ticket, propose, approve, cancel, confirm and deactivate policies, reconcile, view | holdings, settings, research strategy, evidence | evaluations that read for seconds without a lock, then commit by compare-and-swap; tickets left behind by crashes | a commit is as good as an atomic evaluation |
| **Paper ledger** `services/paper_ledger/` | one document per experiment: events, sequence | create, journal a trade, split, dividend or the end, record a valuation; replay by `request_id` | price providers, the exchange calendar | two appends at one sequence, a session that closes while prices load, rounding | a request is recorded once and on what its author saw; the books balance to the cent |
| **Copilot session** `services/copilot/service.py`, `store.py`, `agent/copilot_chat_model.py` | one SQLite row with a revision, an account generation and a routing | login, poll, refresh, catalogue, select a model, route, stream, log out | Copilot inference, chat engines | copies of the row are held over network waits; logging out takes no lock; a token is refused under several streams at once | no account comes back that was logged out; tokens, routing and streams stay with their session |
| **Conversation context** `services/conversation_context_service.py`, `services/watchlist/context_handler.py`, `services/context_window_manager.py` | messages and summaries of one chat | read, summarise in three different ways, store, delete, trim, answer | chat handler, watchlist, portfolio research | turns on one chat that overlap without a lock; an end between storing a summary and deleting what it tells | nothing said is lost unseen; an engine is told the whole chat |
| **Circuit breaker, rate limiter** `core/utils/circuit_breaker.py`, `core/rate_limiter.py` | counters in memory and in Redis | call through, trip, probe; count and expire | nobody: no code calls them | - | - |
| **Market data manager** `services/data_manager/`, `database/redis.py` | one Redis entry and one lock per key | look up, single flight with a lock that expires, ask providers in turn, store, invalidate, compute a ratio from two calls | providers, insights, tools, pages | a lock without an owner, a slow fetch that outlives it, callers that are cancelled, an invalidation while a fetch is under way | few callers ask at once; nothing stale survives an invalidation; every call is answered |
| **Model decisions** `services/decision_policy/model_decision.py`, `model_review.py` | one record per `request_id` with owner, lease and policy | claim, take over, call the model, settle, replay, publish to the review control, revalidate | review control, language model | a lease that ends under a paid call, a late owner, a lost acknowledgement, inputs that change between the decision and its publication | one paid call per lease; one record that never changes once settled; published on the inputs of the moment |
| **Insights snapshots** `services/insights/` | snapshots in Mongo and Redis | compute, store, trend | market data | daily job against on-demand computation | one snapshot per day |
| **Evidence and assessments** `services/evidence/` | content-addressed records | insert if absent, read | runs, reviews | concurrent inserts of one hash | an id has one content |
| Other components | | | | | numeric, textual, read-only or external; listed in `PROJECT.json` with the reason |

The shared objects through which components meet are the `agent_runs` collection
(chat and portfolio flows write it under one status graph), the `review_control` document
(everything that changes holdings, settings or configuration announces itself there) and
the holdings (which trades write and reviews read).  A model decision publishes itself to
the review control under the same compare-and-swap on revision and generation; the messages of a
chat are written by three kinds of turns.

The hazards, each at its line and with the property that covers it, are the list `hazards`
in `PROJECT.json`.

## 2. Modules

| Module | What it is |
|---|---|
| `RunStatus` | the status graph of `models/agent_run.py` and the conditional update of one run |
| `AgentRun` | abstract: what the `agent_runs` collection promises every reader |
| `ChatRun` | one POST to the chat stream, implements `AgentRun` |
| `PortfolioRun` | trigger, lease, background task of a dashboard analysis, implements `AgentRun` |
| `HoldingsLedger` | transactions and the holding of one symbol |
| `HoldingsLedgerInvariant` | its inductive invariant |
| `AtomicReview` | abstract: reviews as single steps taken while nobody changes the inputs |
| `ReviewControl` | the review control document, its writers and its long evaluations, implements `AtomicReview` |
| `PaperAccounting` | the bookkeeping of a paper experiment: a fold over its events |
| `PaperJournal` | abstract: an append-only log with atomic requests |
| `PaperLedger` | the document of one experiment and the requests that extend it, implements `PaperJournal` |
| `CopilotAccount` | abstract: sessions that follow one another, and a routing whose revisions name one choice |
| `CopilotSession` | the credential row, the lock and the handlers and streams around it, implements `CopilotAccount` |
| `ConversationContext` | the messages of one chat and the turns that condense them |
| `MarketData` | cache, lock and providers of one symbol |
| `AtomicDecision` | abstract: a decision that is recorded once and published by name |
| `ModelDecision` | record, lease, paid call and publication of one decision, implements `AtomicDecision` |
| `MC...` | instances for TLC, one for each of the nine detailed modules |
| `ChatRunProofs`, `PortfolioRunProofs`, `ReviewControlProofs`, `LedgerProofs`, `CopilotSessionProofs`, `ConversationContextProofs`, `MarketDataProofs`, `ModelDecisionProofs` | theorems with TLAPS proofs |

`ChatRun` and `PortfolioRun` extend `RunStatus`, as both Python callers share
`agent_run_repository.py`; `PaperLedger` extends `PaperAccounting`.  No module uses a RECURSIVE
operator.  Operators that exist only
as deliberately wrong variants of their neighbours are introduced by a comment that begins
with "Mutant".

## 3. How the models correspond to the code

**Grain.**  A label of `pc` is an `await` or a `yield`; an action is the code between two of
them, with every assignment and early return on the way.  Local variables that are read
after an `await` are variables of the model, so stale reads happen as they do in the code.

**Failing calls.**  A database call succeeds, raises before it had an effect (`"reject"`), or
raises after it had its effect (`"lost"`: the acknowledgement was lost, or a later call of
the same service method raised).  `Crash` ends the process: every handler, task and
in-memory value of it is gone, the documents stay.

### ChatRun
`Arrive` is `claim_chat_run` (an insert under the unique partial index on `request_id`);
a duplicate goes through `Lookup` and `Replay`, two reads with an `await` between them
(`handlers.py:89-91`).  `RouteSelected`, `RouteRaised`, `MarkRunning`, `OpenStream` are
`chat_stream_unified`; `BeginEngine` to `Close` are the three generators (v2 simple agent, v3
ReAct, v4 deep agent), whose differences are kept: which of them may ask for
clarification, which run the engine in a task, and what their last `except` clause does.
`CompleteMessage`, `CompleteRun`, `Compensate`, `CompensateFail`, `ClarifyMessage`,
`ClarifyRun`, `FailRun`, `CancelTask`, `CancelRun`, `CancelMessage` are the methods of
`lifecycle.py` and `cancellation.py`.  A client that leaves (`Disconnect`) is noticed
at the next suspension point: `InterruptEngine` and its siblings say which `except` or
`finally` is entered from there, `InterruptUnhandled` where there is none.
`RejectEvent` is an event the wrapper refuses.  Event texts, titles and tool results are
left out; a stream is the set of the kinds of events it contained.

### PortfolioRun
`Arrive`, `ReleaseStale`, `InsertRun`, `InsertDuplicate`, `FindActive` are
`POST /trigger-analysis` with the three attempts of `claim_portfolio_run`; `StartTask` to
`FailRun` are the background task with its two status gates; `PollStatus` is the status
endpoint, which releases leases too; `LegacyExpires` and `legacy` the record from before
the shared model.  Time is the one fact the code compares: whether a lease has run out.

### HoldingsLedger
A row is named by the write that creates it (`Rows`, for the `uuid4` of `holding_repository.py:56`), so a row that is
sold out and bought anew is another row, also for a request that still has the old one in hand.
Each endpoint is a sequence of the storage calls it makes; `ReadHolding`/`WriteHolding` are
the two halves of `apply_transaction`, taken in either direction by the stage of the
endpoint (create, reverse, reapply, forward, unforward, redo, undo).  `Rollback`,
`RestoreTx` and the "redo"/"undo" stages are the compensations.  `Begin` and `End` announce
and close the review-control ticket; a request that raises, HTTP 404 and 422 included, leaves
`uncertain` set, as `ledger_write` does.  Quantities are small integers and one symbol
is enough: nothing relates two symbols.  Average prices are left out (reversing a purchase
does not restore the average by design, `holdings_ledger.py:100-102`).

### ReviewControl
`Announce`, `Write`, `EndBody`, `Finish`, `FinishFails` are `control.mutation`.  A delivery of
a request reads the document (`Load`, `Read`), reads the inputs one by one with anything in
between (`ReadInput`), stores what it prepared (`Save`), compares what the user declared
(`Compare`) and commits (`Commit`, `Conflict`): `control.commit` writes the whole document
built from the old snapshot under a filter on revision and generation.  `Project` and
`ProjectEnd` put a response together.  `Compose` and `Inspect` are the client, which fills a
form from what it saw at any earlier time.  The two inputs stand for what a review depends on:
"account" (holdings and settings, read by every evaluation) and "policy" (risk policy and
research strategy); each is known by its last write, so two evaluations agree on an input
exactly if nobody wrote it in between.  The gates themselves, evidence and market data are a
choice: a preparation is `ready` or not.

A nested mutation shares the ticket of the outer one, so one writer with several writes
covers it.  `update_price` and `delete_by_symbol` write holdings without any ticket; the first
changes only what evaluations read as market data, the second is part of `HoldingsLedger`.

### PaperLedger
`Create` is the upsert of `store.create`; `Get` reads the document and makes the checks that `journal`
and `refresh` make of it (`Replays`, `Taken`, `Writable`); `Capture` is the moment the prices of a
valuation are there; `Put` and `Miss` are the filtered update of `store.append`, whose filter
(`InTurn`) names the sequence that was read and, for a valuation, the database's time; `Reread` is
what follows a missed update.  `Deliver` is the client, who sends a new request filled in from what it
saw, or one that was sent before.  A fingerprint is the body itself; hashes and times are left out.
`PaperAccounting` is `replay`: money in cents and rates in parts of `Scale`, so that slippage,
commission, dividends and the cost of a partial sale are rounded half to even as `cash_round` does.
A lot is named by the number of the event that bought it (`PaperLot.event_id`), which is its place in the
queue of `_trade`.  `Acceptable` collects what `replay` raises `PaperInvalid` for, which is how `append` validates the
document it is about to write.  Upper limits of amounts and of the document's bytes are left out.

### CopilotSession
A handler holds a copy of the row (`mem[r].hand`) over each wait: `DeviceCode`, `Granted`, `Refresh`,
`Catalog` are what happens when GitHub or Copilot answered, `Saves` the compare-and-swap of
`store.save`, `Unsaved` the two ways it is refused.  `Logout` replaces the row and asks for no
lock.  A stream (`AuthorizeStream`, `SendStream`, `Answer`) is `CopilotChatModel._astream`: three
sections under the lock, nothing held while it reads; after a 401 it says which token was refused
(`Rejected`), so that only a token still in use is refreshed.  Expiry times, poll intervals and the
age of a catalogue are any answer at the time of asking; `aged` is the one subscription token whose
time is up.

### ConversationContext
`Post`, `BeginAnalysis`, `BeginResearch` begin the three kinds of turns; `Load` reads
a page (`get_by_chat`: the *oldest* `PageSize` messages) and decide whether it is too long; `Compact`,
`CompactAnalysis`, `CompactResearch` make the summary, which may be empty; `Delete` is the deletion by id
of the chat turn, `Keep` and `Trim` the deletion of everything but the newest messages that the
analysis makes.  `Head`, `Body` and `Tail` are `extract_context_structure`.  A summary carries the time of the
moment or, from a chat turn, of its first successor less a microsecond: messages are ordered by what
the index orders them by.  What a summary *tells* is the set of plain messages in it.

### MarketData
A thread is a call, or one of the two calls that a put/call ratio runs beside each other (`Join`).
`Look`, `Acquire`, `Check`, `Ask`, `Store`, `Release` are `get_with_fetch` and `get_with_dedup`; `Ask` takes the
providers of a kind in the order that `manager.py` lists, with the exception that ends the list and
the one that goes on to the next; `Poll` and `GiveUp` are the wait of those who did not get the lock, with its
end after five seconds.  `LockExpires` and `CacheExpires` are the TTLs; `Release` deletes the lock
whoever holds it.  `Invalidate` and `Bypass` are `invalidate_quote` and its caller.  A Redis failure is what
`database/redis.py` makes of it: a miss, a lock that is not taken, a store that did nothing.  Values are
known by what they are (data, an empty answer, an error) and by the *epoch* of invalidations in which they were
asked for.

### ModelDecision
A delivery is one HTTP request with the uuid that it claims with; the record keeps its owner's uuid
and policy, and `lapsed` says whether its lease is over.  `ReadControl`, `Lookup`, `Eligible`,
`ClaimFresh`/`ClaimFound`, `TakeOver`/`TakeOverMisses`, `Call`, `Return`, `Finish`, `RecordFailure`, `Fenced`,
`Fetch` are `decide` with the filtered updates of `claim` and `finish`; `Publish` to `Review` are
`publish` in `model_review.py`: the names that are published, the control document, the gates, the stored
preparation, the commit.  The version of the review control stands for its revision and generation together, and a
policy is known by the version that confirmed it.  A call that raises outside the `try` around the
model (`Raise`) leaves the record running, as it does in the code.

## 4. Runs, bounds and what they show

| Run | Instance | Shows |
|---|---|---|
| `chat` | 2 POSTs of one request, all engines, all calls may fail, crashes | message, run and stream agree (`CompletedRunHasItsAnswer`, `DoneIsDurable`, `MessageConverges`), replays are faithful; every handler ends, and one whose database calls all worked ends with its run settled, wherever its client left and whatever its engine did, but for the five places of `Unhandled` (section 7) (`EndedHandlersSettle`); `AgentRun` is implemented |
| `chat_disconnect` | 2 POSTs | section 7 |
| `portfolio` | 2 triggers of one key, failing calls, crashes | two tasks on one key only after an expired lease; a released run is worked on by nobody's doing but the clock's; the key is given back; `AgentRun` is implemented |
| `ledger` | 4 requests, all operations, quantities 1..2; overlapping ones, failing calls and crashes | without overlap the holding and the transactions stay in lockstep through sell-outs, edits and deletions, every drift is declared to the review control, and a refusal leaves the account as it was; with overlap, shares may be lost, but what a request computed from a row is written into that row or nowhere (`StaleWritesMiss`) |
| `ledger_edit` | 3 requests | section 7 |
| `review_batches` | 3 requests of every kind, 2 deliveries, 1 mutation, failures, expiry, crashes | a commit is as good as an atomic evaluation (`SettledInputs`, `NoLateApproval`, `ComparedAsCommitted`, `HistoryIsKept`, `HistoriesAreBounded`); responses are true (`ViewIsTrue`); `AtomicReview` is implemented |
| `paper` | 5 requests, 2 deliveries, a budget of 4 events, 1 close of the exchange, failing calls | each request is recorded once and on what its author saw, answers can be relied on, valuations are current, the books balance; `PaperJournal` is implemented |
| `copilot` | 2 requests in flight, 3 in all, 1 logout, failing writes, crashes | tokens, routing revisions and streams stay with their session, a token is refreshed only for a cause, every handler ends; `CopilotAccount` is implemented |
| `conversation` | 2 turns of any kind, 0 or 3 messages at first, up to 5 before a turn, a page of 4, a tail of 1 | nothing said is lost that no summary was made of; an engine is told all of the chat, but for what only its own message, a system message or messages beyond the page tell, what its own summary left out without the language model, and what was already forgotten when its turn read |
| `conversation_tail` | 1 analysis, 4 messages, a tail of 2 | section 7 |
| `market` | an agent (ratio, news) and a page (quote, intraday), one mishap | one expiry, failure, cancellation or crash lets at most one more caller ask the providers under the lock; no quote from before an invalidation is cached after it, unless it was under way; every call is answered |
| `decision` | 3 requests, 2 names, 2 changes of inputs or policy, ending leases, failing calls, crashes | the paid calls are no more than the leases; a late owner settles nothing; `AtomicDecision` is implemented |

**Why the bounds are enough.**  *Chat*: the only shared objects are the run, its message and
the index on `request_id`; two deliveries of one request contain every pair of owner and
duplicate, and deliveries of different requests share nothing.  *Portfolio*: a claim loops
over another trigger's run that is gone when it is looked up.  With two triggers an insert can lose
that way once; that all three attempts lose takes more triggers, and is left to the theorems.
*Ledger*: a purchase, a sale, an edit of either and a deletion fit in
four requests; a lost update needs two that overlap.  A behaviour in which a call failed or two
requests overlapped is followed through three of them, with not both at once (`ThreeWithTrouble`).
*Review*: a proposal, its approval and one competitor; one mutation suffices to invalidate any read.
`HistoryBudget` is 2 instead of 100 and 200, so that it is reached.  *Paper*: two deliveries contain
every pair of authors; five requests are one more than the budget admits; four events hold a purchase
of two lots and a sale across both, or two partial sales of one; prices and rates are such that every
rounding matters, half cents included.  `Scale` is 10 instead of 10000.
*Copilot*: every race is one holder of a copy against one other writer; a third request makes an
attempt to log in, its poll, and a choice or stream after them possible.  *Conversation*: two turns
contain every pair of a storing and a deleting one, and five messages have a head, a body and a
tail of which the body is more than one.  A page of four
is less than the chat, so that summaries are made, stored and deleted while messages lie beyond the page.  *Market*: two callers can be four threads, of which two meet at the
quote; one mishap is what the bound of `StampedeIsBounded` counts in.  *Decision*: an owner, one who takes over
and one who replays or publishes; two names make a second publication possible.
The theorems of section 6 hold for every number of posts, triggers, requests, deliveries, callers,
turns, messages, writers and writes, and every budget.

`CHECK_DEADLOCK FALSE` stands in the runs whose models serve finitely many requests and then really stop
(ledger, review, copilot, conversation, market, decision).  `ChatRun` says so with an action of its own
(`Idle`), and a portfolio dashboard can always poll and a paper request be sent once more.

Symmetry is used only in runs whose properties are invariants and step properties.  The `VIEW` of
`paper` ignores how the last request of an idle delivery ended, which no action reads; that of `copilot`
(`Distinctions`) ignores how far apart two revisions are, since the code compares them for equality only, and
what of an outdated copy is never written.

## 5. Fairness

*Chat*: `\A p : WF_vars(Progress(p))`.  asyncio runs every task that is ready, and no await of
a handler lasts forever: the engines run under timeouts of 120 and 600 seconds, database calls
under the driver's.  Arrivals, disconnects, rejected events and crashes are never forced, so
`HandlersFinish` holds whether they happen or not.  `EndedHandlersSettle` needs no fairness: it is about the
step by which a handler ends.

*Portfolio*: `WF` of `LeaseExpires` (clocks do not stop) and of `PollStatus` (the dashboard
polls a key while it shows it).  No step of a background task is forced: its model calls
may hang, which is what the lease is for.  If nobody ever polls or triggers a key again, nobody
waits for it either.

*Copilot*: `WF` of what a handler does next, where a wait for GitHub or Copilot ends with an
answer or with the timeout of the HTTP client (`Progress`).  Waiting for the lock is such a step too:
its holders come to an end by the same fairness, and asyncio's lock is first come, first served.  The
fairness is weak, so a request that waits is promised its turn only since arrivals are finite.

*Market*: `WF` of each thread's next step (`Step`): providers and Redis answer or time out, and a
waiter sleeps for a bounded time.  Expiries, cancellations and crashes are never forced.

*Ledger, review, paper, conversation, decision*: no liveness is claimed.  A client may give up at any
time, and nothing in the code retries on its behalf.

## 6. What is proved

All theorems hold for arbitrary constants (within the named assumptions of the modules) and
are checked by TLAPS from nothing.

**ChatRunProofs**, from `FlowsAssumption` and `RequestAssumption`.  Neither "a cancelled
message has a cancelled run" nor "a completed run has its answer" is inductive: they depend on
what a handler that is between two writes may still do.  `HandlerInv` therefore ties each label
of `pc` to the statuses the run can have there (`PcStatus`), the message to status and label
(`AnswerAgrees`), the user message and the engine task to the labels that own them (`OnePersist`,
`WorkIsOwned`, `TaskIsAttended`); `StreamAgrees` does the same for the events sent; `OneOwner` is
the unique index.  `HandlerStep` shows one handler's step keeps its own part and `FrameStep` that
it leaves the others' alone, so the cases are the actions and not pairs of them.
A replay relates two handlers: `ReplayInv` adds, for the owner, that a run which is completed or waits
has its chat and its question (`Settled`), and, for the duplicate, that what it found the run to be the run
still is, or has ended since (`Replayed`, along `Beyond`).  How handlers end is a third, small invariant
(`EndInv`): before the last event of a stream the run is settled, or a call failed.
Theorems: `TypeCorrect`, `SingleExecutionHolds`, `CancelledMessageHolds`,
`CompletedRunHolds`, `DoneIsDurableHolds`, `ReplayIsFaithfulHolds`, `NoOrphanTaskHolds`,
`MessageConvergesHolds`, `EndedHandlersSettleHolds`, and `Refinement` (`ChatRun` implements `AgentRun`).

**PortfolioRunProofs**, from `KeyAssumption` and `FaultAssumption`.  `RunInv` says what a task
at a given label may find its run in, although a poll may have failed it meanwhile: a task
that is in the flow marked its run running, and only an expired lease took it from it.  `OneHolder`
is the unique index on the key.  Theorems: `TypeCorrect`, `OneActiveRunHolds`, `OverlapHolds`,
`ReleasedRunHolds`, `CompletedRunHolds`, `Refinement`.

**ReviewControlProofs**, from the five assumptions of `ReviewControl`.  The argument is that of
the compare-and-swap: every change of the control document moves its revision or its generation
(`ControlMoves`), so a snapshot that still has both *is* the document (`Past`); inputs are only
written under a ticket whose announcement moved the revision, so what a delivery read since its
snapshot is what there is at its commit (`Ticket`, `Fresh`).  What remains is to carry along what
a delivery knows at each label (`Served`, `Placed`, `AdmittedOnce`, `Stored`, `Projected`,
`Uncommitted`) and what the histories refer to (`Publications`, `Approvals`, `Once`).  Theorems:
every property of the two runs, and `Refinement` (a review is a step of `AtomicReview`, taken on
the inputs as they are at the commit and while nobody changes them).

**LedgerProofs**, on the two ledgers.  It begins with lemmas about the
sums of the community modules: a sum does not depend on the order in which elements are chosen
(`SumRemove`), it is additive, and a change of one term moves it by the difference (`SumChanges`).  They
are inductions over finite sets, made by taking a smallest counterexample (`SmallestSubset`) where an
induction theorem would need an operator as a parameter; `SetInduction` is the same for numbers.

*Holdings*, from `RequestsAssumption`, `QuantityAssumption` and `RowAssumption`.  `Lockstep` and `DriftIsDeclared` speak of an
account on which nobody works; `IInv` (module `HoldingsLedgerInvariant`) says how far apart the holding and
the sum of the transactions are in between: by the shares that are recorded and not applied yet
(`Missing`, from the label), unless the request is about to be turned down (`Doomed`).  This is known only of
a request that is alone (`Alone`: what it read is what there is); of overlapping ones, only
what their labels say (`Local`).  `Kept` compares with the account the request found.  Two clauses were
found by attempts that failed: a "redo" only follows a "restore", and a transaction that was not found used to
match two cases of `LoadTx`, between which TLC and the prover chose differently.
Theorems: `TypeCorrect`, `LockstepHolds`, `DriftDeclared`, `RejectionsKeep`, `StaleWritesAreMissed`.

*Paper*, from `BudgetAssumption`, `ScaleAssumption` and `EntriesAssumption` (what the request models of
`models/paper_ledger.py` let through: amounts are not negative, quantities and prices positive, rates at most the
whole).  The requests: the argument is again that of the compare-and-swap, here on the length of an
append-only history.  What a delivery read has the length of what there is
only if it *is* what there is (`Seen`), so every check made of the copy (`Prepared`: a new request, an open
experiment, the author's sequence, the budget, the books) holds of the history that `Put` extends.

The books: `BooksBalance` is an induction over the events.  `Sound` adds to it that lots belong to earlier events
and have positive quantities and costs that are not negative; `Applies` shows that every acceptable event
keeps it, one lemma for each kind (`Buys`, `Sells`, `Splits`, `Dividends`).  A sale is the hard one: a rounded
part of a cost is at most the cost (`HalfEvenBounds`), a lot that is used up gives all of its cost
(`CostUsedBounds`), and what is left and what was taken add up to the basis (`SumPlus`, `SumOverSupport`).  That
the fee is at most the principal (`FeeBounds`) is what keeps the cash of a sale from turning negative.  The projection
is a recursive function, so that it exists (`ReplayExists`), is not changed by what comes
later (`ReplaysAgree`) and books each event on the ones before (`ProjectionGrows`) is proved and not read off
its definition.

Balanced money says nothing of shares, so `HoldingsAreTraded` says that what is owned of each symbol changes
with an event by what was traded or split (`Moved`) and by nothing else.  That a sale takes exactly its
quantity is an induction along the queue: the lots before number k give what they hold or, where that is
more, all that is sold (`QueueGives`).  A split divides each lot by itself, and the whole is still exact, since
`Acceptable` turns a split down that leaves a fraction in any lot (`SumScales`).
Theorems: `PaperTypeCorrect` (with the budget), `RecordedOnce` (which the run checks as part of the
refinement), `AnswersHold`, `BooksAreBalanced`, `ValuationsAreCurrent`, `OnlyTradesMoveHoldings`, `Refinement`.

**CopilotSessionProofs**, from the assumptions of `CopilotSession`.  A copy with the revision of the row
*is* the row, and no copy has a revision, a generation or a count of tokens from the future; a token
names the generation it was granted to, and a routing that any client saw under a revision is the only one
there ever was under it.  So a save either continues the session that was read, or does nothing.
Theorems: `TypeCorrect`, `TokensBelong`, `RevisionsName`, `StreamsKeep`, `RefreshesHaveCause`, `Refinement`.

**ConversationContextProofs**.  What a turn has in hand when it deletes must be told by something that stays:
`Covered` says that whatever was said is in a message, in what was openly forgotten, or in a summary that no
delete of a turn under way names; identifiers and times grow.  For a turn between its reading and its engine,
`Informed` says that what it read is told by its context or was left out by its own summary; that its page
misses nothing but what `Unheard` names follows from `NothingIsLost`.  Theorems: `NothingGetsLost`, `EnginesKnowAll`.

**MarketDataProofs**, from the assumptions of `MarketData`.  The callers that hold the lock of a kind, or believe they
do, are at most the lock and the times it expired (`FewAsk`): an induction on the cardinality of a
set that steps add one thread to or take one from.  An entry is of the present epoch, or was under way when that
epoch began, which the history `straddled` remembers (`QuotesAreFresh`).

**ModelDecisionProofs**, from the assumptions of `ModelDecision`.  What an owner remembers of the record is the record as long as it
is running and his (`Owned`), a call is made only by who once owned it (`Attended`), and those who called
are counted against the leases that ended (`Counted`).  A version of the control that equals the
present one makes the snapshot the control itself (`Based`), which is what a publication commits on.
Theorems: `TypeCorrect`, `PaidCallsHold`, `SettledByItsOwnerHolds`, `AnswersAgreeHold`, `Refinement`.

**Proved and not run** (earlier runs agreed with them; each is implied by, or close to, a
property that a run still checks): `SingleExecution`, `CancelledMessageHasCancelledRun`, `NoOrphanTask`,
`OneActiveRun`, `CompletedRunHasAssessment`, `ApprovalMatchesBatch`, `OncePerRequest`,
`EvaluatedAsCommitted`, `NoResurrection`, `AnswersAgree`; and `HoldingsAreTraded`, which TLC confirmed on the
instance of `paper` (1,802,894 states).

**Model-checked only**: liveness (`HandlersFinish`, `KeysAreFreed`, `CallsFinish`), which TLAPS does
not reach.  Every invariant and every action property of the passing runs is stated by a theorem.

## 7. Disagreements between documents and code

Three are runs that TLC finishes with a counterexample.

- `chat_disconnect`: `docs/features/unified-chat-handler-lifecycle.md:249` says every disconnect takes the
  cancellation path.  The error event of the last `except` clause is yielded outside every `try`;
  a client that leaves there leaves its run "running".  So it is, as the model shows too, at four other points
  (`Unhandled`): in the write of a failed routing, in `mark_running`, before a response is iterated, and when a
  cancelled engine task raises something else.  `EndedHandlersSettle` says that there are no more than these.
- `ledger_edit`: `api/portfolio/user_transactions.py:140` says the failed edit is restored.  The restore
  takes back a version that was never applied: editing a sale to more shares than are held adds
  shares to the holding.  `DriftIsDeclared` says the review control at least knows.
- `conversation_tail`: `services/context_window_manager.py:130` says the last exchanges are kept as they are.
  The watchlist's analysis counts the summary that it has just stored among the newest messages, and
  deletes the oldest message of the tail, which no summary tells.

The models contain the following too; they are described here and have no run of their own.

- `docs/features/shared-run-model.md:125`: durable cancellation does not depend on a chat ID.
  `persist_unstarted_cancellation` loads or creates the chat first, and gives up if it cannot.
- `api/portfolio_admin.py:10`: a re-trigger spawns no second task.  A lease that ends under a
  working task frees the key, and the next trigger starts a second one.  `OverlapNeedsExpiredLease`
  says that nothing else does.
- `api/portfolio/user_transactions.py:6`: the two collections stay in lockstep.  Two overlapping
  requests lose one change; `Lockstep` is therefore about behaviours without overlap.
- `docs/features/investment-model-decisions.md:74-76`: the claim prevents duplicate calls, and a failed call cannot
  be resumed.  A finish that fails, or a prompt that raises outside the `try`, leaves the record running;
  when the lease is over somebody else claims it and calls again.  `PaidCallsAreLeased` is what holds.
- `docs/features/investment-model-decisions.md:60`: the decision is bound to its policy.  One who takes over asks the model under
  the policy of the moment, while the record keeps the policy of the first claim
  (`services/decision_policy/model_decision.py:240`).  The gate compares policies at publication, so such a decision can be
  published as not ready at worst, but its record names a policy that it was not asked under.
- `invalidate_quote` says that the next reader gets a fresh quote.  One that was under way is stored afterwards
  (`FreshAfterInvalidation` exempts just that), and a delete that fails is not reported.
- `get_by_chat` returns the 100 oldest messages, so the engine of a long chat is not told its newest
  ones; `ContextIsWhole` exempts what only messages beyond the page tell, and what an analysis trimmed
  before the turn read, seen by a summary or not (`Unheard`).
- The wait of `get_with_dedup` ends after 5 seconds, when every waiter asks the providers without the lock; `StampedeIsBounded`
  counts those under the lock.  A waiter within `wait_for` (3 seconds) is cancelled before that.

## 8. What is not modelled

The map covers a small share of the repository's lines, since most of them compute, format, translate,
prompt or fetch.  Such code has no state that outlives a call and no step that another actor could come
between, and a model of it would be a copy of it.

Of the modelled components: persistence-only POSTs (`role` other than user, or `source` tool;
`handlers.py:71-84`), which touch no run; the partial assistant message of a deep run that timed out;
titles and prompt versions; what the research and decision phases compute; average prices; a
`request_id` sent again with a different payload, which `review_storage.py` refuses; the change
of the research session between two reviews, which has the effect of an expiry.  What language models,
data providers and evidence checks answer is a nondeterministic choice.  Of the paper ledger: what
`valuation.capture` fetches and the receipt computed from it, upper limits, hashes and views.  Of the
market data manager: the insights cache, `prefetch_shared`, the price of a past date, and
`invalidate_market`, which nothing calls.  Of model decisions: prompts, parsing, and every gate but the
policy's.  Of conversations: token counts, tool messages and the history page.

The other components are in `PROJECT.json` with the reason: numeric estimators and
formatters have no state of their own, providers are external, orders and evaluations are
read-only or offline, circuit breaker and rate limiter are called by nothing, the frontend appears as
the requests it can send.

## 9. Plan

Most important behaviour first; done: 1-8.

1. `RunStatus`, `AgentRun`, `ChatRun`, with proofs.
2. `PortfolioRun`, with proofs.
3. `HoldingsLedger`, with proofs.
4. `AtomicReview`, `ReviewControl`, with proofs.
5. `PaperAccounting`, `PaperJournal`, `PaperLedger`, with proofs.
6. `CopilotAccount`, `CopilotSession`: the lock, the compare-and-swap on the credential row, the unlocked
   logout; with proofs.
7. `ConversationContext` and `MarketData`, with proofs.
8. `AtomicDecision`, `ModelDecision`, with proofs.
9. The insight snapshots in Mongo and Redis, whose two copies of a day can disagree.
10. The order plan of the portfolio flow: buys are sized from cash and the proceeds of sales, and the cost
    of covering short positions is not deducted.
