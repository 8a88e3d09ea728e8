----------------------------- MODULE HoldingsLedger -----------------------------
(***************************************************************************)
(* The user's trades in one symbol (api/portfolio/user_transactions.py,    *)
(* api/portfolio/holdings.py, services/holdings_ledger.py): every change   *)
(* of a transaction is applied to the holding by a read, some arithmetic   *)
(* and a write, and undone by applying it backwards.  No lock spans the    *)
(* two; the review-control ticket only marks a failed request uncertain.   *)
(*                                                                         *)
(* A transaction is named by the request that made it, a holding row by    *)
(* the write that created it: a symbol bought anew has another row.        *)
(* Prices, totals and notes are left out.                                  *)
(***************************************************************************)
EXTENDS Integers, FiniteSets, FiniteSetsExt

CONSTANTS
  Requests,     \* HTTP requests, each served once
  NoRow,        \* no row
  Ops,          \* operations they may ask for
  MaxQuantity,  \* quantities are 1..MaxQuantity
  MayFail       \* storage calls may raise, and the process may die

Operations == {"buy", "sell", "edit", "delete", "post_holding", "patch_holding", "delete_holding"}

ASSUME RequestsAssumption == IsFiniteSet(Requests)
ASSUME QuantityAssumption == MaxQuantity \in Nat
ASSUME OpsAssumption == Ops \subseteq Operations
ASSUME FlagAssumption == MayFail \in BOOLEAN

VARIABLES
  txs,        \* user_transactions: side and quantity by transaction
  holding,    \* holdings: the row of the symbol
  tickets,    \* review_control: requests that announced a mutation
  uncertain,  \* review_control: a mutation failed
  pc, op, target, quantity,   \* the request: operation, transaction and new quantity
  old,        \* the transaction the request made or read
  seen,       \* the holding that the current application read
  base,       \* history: shares declared through the holdings endpoints
  before,     \* history: transactions and shares when the request began
  excuses     \* history: why the account may have drifted

request == <<op, target, quantity, before>>
database == <<txs, holding>>
control == <<tickets, uncertain>>
vars == <<database, control, pc, request, old, seen, base, excuses>>

NoTx == [side |-> "none", qty |-> 0]
NoHolding == [id |-> NoRow, qty |-> 0]

Goto(r, label) == pc' = [pc EXCEPT ![r] = label]

Ended == {"new", "done", "rejected", "crashed"}

\* The endpoints that announce a ticket around all they do.
Ticketed == {"buy", "sell", "edit", "delete"}

\* A storage call of one of these requests raises, or they die.
Fault(failing) ==
  /\ MayFail
  /\ excuses' = excuses \cup {"fault"} \cup
       (IF \E r \in failing : op[r] \notin Ticketed THEN {"unannounced"} ELSE {})

\* Shares that a transaction contributes to the holding.
Signed(tx) == IF tx.side = "buy" THEN tx.qty ELSE -tx.qty

Recorded == SumFunction([t \in Requests |-> Signed(txs[t])])

-------------------------------------------------------------------------------
(* apply_transaction: one direction of one transaction *)

Applications == {"create", "reverse", "reapply", "forward", "unforward", "redo", "undo"}

\* Every write that creates a row gives it an id of its own.
Rows == Requests \X (Applications \cup {"post"})

ASSUME RowAssumption == NoRow \notin Rows

\* Mutant: a deletion applies its transaction once more.
DirectionOfDeletion(stage) == IF stage \in {"reverse", "unforward"} THEN -1 ELSE 1

\* Which way the transaction is applied.
Direction(stage) == IF stage \in {"reverse", "unforward", "undo"} THEN -1 ELSE 1

\* The version of the transaction it is applied from.
Version(r, stage) ==
  IF stage \in {"forward", "unforward"} THEN [old[r] EXCEPT !.qty = quantity[r]] ELSE old[r]

Delta(r, stage) == Direction(stage) * Signed(Version(r, stage))

\* Where the endpoint goes on after a successful application.
Then(stage) ==
  CASE stage \in {"create", "forward"} -> "close"
    [] stage = "reverse" -> "update"
    [] stage = "unforward" -> "restore"
    [] stage = "undo" -> "delete_tx"
    [] OTHER -> "reject"

\* Where it goes when the application raises OversellError or NoHoldingToSellError.
Otherwise(stage) ==
  CASE stage = "create" -> "rollback"
    [] stage = "forward" -> "unforward"
    [] OTHER -> "reject"

\* Any other exception only has a handler around the creation of a transaction.
Unexpected(label) == IF label \in {"create", "create_write"} THEN "rollback" ELSE "reject"

WriteOf(stage) ==
  CASE stage = "create" -> "create_write" [] stage = "reverse" -> "reverse_write"
    [] stage = "reapply" -> "reapply_write" [] stage = "forward" -> "forward_write"
    [] stage = "unforward" -> "unforward_write" [] stage = "redo" -> "redo_write"
    [] stage = "undo" -> "undo_write"

Sellable(h, delta) == IF h = NoHolding THEN delta > 0 ELSE h.qty + delta >= 0

ReadHolding(r, stage) ==
  /\ pc[r] = stage
  /\ seen' = [seen EXCEPT ![r] = holding]
  /\ Goto(r, IF Sellable(holding, Delta(r, stage)) THEN WriteOf(stage) ELSE Otherwise(stage))
  /\ UNCHANGED <<database, control, request, old, base, excuses>>

\* Mutant: the write names the symbol, and finds whatever row it has by now.
WriteHoldingBySymbol(r, stage) ==
  LET delta == Delta(r, stage)
      total == seen[r].qty + delta
  IN  /\ pc[r] = WriteOf(stage)
      /\ IF seen[r] = NoHolding /\ holding # NoHolding
         THEN UNCHANGED <<holding, excuses>> /\ Goto(r, Unexpected(pc[r]))
         ELSE /\ \/ Goto(r, Then(stage)) /\ UNCHANGED excuses
                 \/ Fault({r}) /\ Goto(r, Unexpected(pc[r]))
              /\ holding' = CASE seen[r] = NoHolding -> [id |-> <<r, stage>>, qty |-> delta]
                              [] seen[r] # NoHolding /\ holding = NoHolding -> holding
                              [] OTHER -> IF total = 0 THEN NoHolding
                                          ELSE [holding EXCEPT !.qty = total]
      /\ UNCHANGED <<txs, control, request, old, seen, base>>

\* The write names the row that was read.  A row that is gone is not missed; a
\* second row of the symbol is refused by the unique index.
WriteHolding(r, stage) ==
  LET delta == Delta(r, stage)
      total == seen[r].qty + delta
  IN  /\ pc[r] = WriteOf(stage)
      /\ IF seen[r] = NoHolding /\ holding # NoHolding
         THEN UNCHANGED <<holding, excuses>> /\ Goto(r, Unexpected(pc[r]))
         ELSE /\ \/ Goto(r, Then(stage)) /\ UNCHANGED excuses
                 \/ Fault({r}) /\ Goto(r, Unexpected(pc[r]))
              /\ holding' = CASE seen[r] = NoHolding -> [id |-> <<r, stage>>, qty |-> delta]
                              [] seen[r] # NoHolding /\ holding.id # seen[r].id -> holding
                              [] OTHER -> IF total = 0 THEN NoHolding
                                          ELSE [holding EXCEPT !.qty = total]
      /\ UNCHANGED <<txs, control, request, old, seen, base>>

-------------------------------------------------------------------------------
(* The ticket of the mutation: decorators ledger_write and repository_write *)

Begin(r) ==
  /\ pc[r] = "new"
  /\ \E o \in Ops, t \in Requests, q \in 1..MaxQuantity :
       /\ o \notin {"edit", "delete"} => t = r
       /\ o \in {"delete", "delete_holding"} => q = 1
       /\ op' = [op EXCEPT ![r] = o]
       /\ target' = [target EXCEPT ![r] = t]
       /\ quantity' = [quantity EXCEPT ![r] = q]
       /\ tickets' = IF o \in Ticketed THEN tickets \cup {r} ELSE tickets
       /\ Goto(r, CASE o \in {"buy", "sell"} -> "insert"
                    [] o \in {"edit", "delete"} -> "load"
                    [] o = "post_holding" -> "post"
                    [] o = "patch_holding" -> "patch"
                    [] o = "delete_holding" -> "find")
  /\ before' = [before EXCEPT ![r] = <<txs, holding.qty>>]
  /\ excuses' = excuses \cup IF \A s \in Requests : pc[s] \in Ended THEN {} ELSE {"overlap"}
  /\ UNCHANGED <<database, uncertain, old, seen, base>>

\* The handler returns or raises; its local state is gone.
Leave(r) ==
  /\ Goto(r, IF pc[r] = "close" THEN "done" ELSE "rejected")
  /\ op' = [op EXCEPT ![r] = "none"]
  /\ target' = [target EXCEPT ![r] = r]
  /\ quantity' = [quantity EXCEPT ![r] = 0]
  /\ before' = [before EXCEPT ![r] = <<[t \in Requests |-> NoTx], 0>>]
  /\ old' = [old EXCEPT ![r] = NoTx]
  /\ seen' = [seen EXCEPT ![r] = NoHolding]

\* Mutant: a rejected request closes its ticket as if it had not happened.
EndClean(r) ==
  /\ pc[r] \in {"close", "reject"}
  /\ tickets' = tickets \ {r}
  /\ Leave(r)
  /\ UNCHANGED <<database, uncertain, base, excuses>>

\* Leaving the ticket by an exception, an HTTPException included, is a failure.
End(r) ==
  /\ pc[r] \in {"close", "reject"}
  /\ tickets' = tickets \ {r}
  /\ uncertain' = (uncertain \/ (pc[r] = "reject" /\ r \in tickets))
  /\ Leave(r)
  /\ UNCHANGED <<database, base, excuses>>

-------------------------------------------------------------------------------
(* Transactions *)

InsertTx(r) ==
  /\ pc[r] = "insert"
  /\ txs' = [txs EXCEPT ![r] = [side |-> op[r], qty |-> quantity[r]]]
  /\ old' = [old EXCEPT ![r] = txs'[r]]
  /\ \/ Goto(r, "create") /\ UNCHANGED excuses
     \/ Fault({r}) /\ Goto(r, "reject")
  /\ UNCHANGED <<holding, control, request, seen, base>>

\* Mutant: the transaction of a failed creation stays.
RollbackNothing(r) ==
  /\ pc[r] = "rollback"
  /\ Goto(r, "reject")
  /\ UNCHANGED <<database, control, request, old, seen, base, excuses>>

\* A creation that could not be applied removes its transaction.
Rollback(r) ==
  /\ pc[r] = "rollback"
  /\ txs' = [txs EXCEPT ![r] = NoTx]
  /\ Goto(r, "reject")
  /\ UNCHANGED <<holding, control, request, old, seen, base, excuses>>

LoadTx(r) ==
  /\ pc[r] = "load"
  /\ old' = [old EXCEPT ![r] = txs[target[r]]]
  /\ Goto(r, IF old'[r] = NoTx THEN "reject" ELSE IF op[r] = "edit" THEN "reverse" ELSE "undo")
  /\ UNCHANGED <<database, control, request, seen, base, excuses>>

\* The reversed transaction gets its new quantity, unless it vanished meanwhile.
UpdateTx(r) ==
  LET found == txs[target[r]] # NoTx
  IN  /\ pc[r] = "update"
      /\ txs' = IF found THEN [txs EXCEPT ![target[r]].qty = quantity[r]] ELSE txs
      /\ Goto(r, IF found THEN "forward" ELSE "reapply")
      /\ UNCHANGED <<holding, control, request, old, seen, base, excuses>>

\* The new version could not be applied and was reversed all the same: the old
\* quantity is written back, and the old version applied again.
RestoreTx(r) ==
  /\ pc[r] = "restore"
  /\ txs' = IF txs[target[r]] # NoTx THEN [txs EXCEPT ![target[r]].qty = old[r].qty] ELSE txs
  /\ excuses' = excuses \cup {"restore"}
  /\ Goto(r, "redo")
  /\ UNCHANGED <<holding, control, request, old, seen, base>>

DeleteTx(r) ==
  /\ pc[r] = "delete_tx"
  /\ txs' = [txs EXCEPT ![target[r]] = NoTx]
  /\ Goto(r, "close")
  /\ UNCHANGED <<holding, control, request, old, seen, base, excuses>>

-------------------------------------------------------------------------------
(* Holdings *)

PostHolding(r) ==
  /\ pc[r] = "post"
  /\ seen' = [seen EXCEPT ![r] = holding]
  /\ Goto(r, "post_write")
  /\ UNCHANGED <<database, control, request, old, base, excuses>>

\* POST /holdings merges into the row it read, or creates one.
PostHoldingWrite(r) ==
  /\ pc[r] = "post_write"
  /\ \/ /\ seen[r].id = holding.id
        /\ holding' = [id  |-> IF holding = NoHolding THEN <<r, "post">> ELSE holding.id,
                       qty |-> seen[r].qty + quantity[r]]
        /\ base' = base + quantity[r]
        /\ Goto(r, "close")
     \/ seen[r].id # holding.id /\ Goto(r, "reject") /\ UNCHANGED <<holding, base>>
  /\ UNCHANGED <<txs, control, request, old, seen, excuses>>

PatchHolding(r) ==
  /\ pc[r] = "patch"
  /\ \/ /\ holding # NoHolding
        /\ holding' = [holding EXCEPT !.qty = quantity[r]]
        /\ base' = base + quantity[r] - holding.qty
        /\ Goto(r, "close")
     \/ holding = NoHolding /\ Goto(r, "reject") /\ UNCHANGED <<holding, base>>
  /\ UNCHANGED <<txs, control, request, old, seen, excuses>>

FindHolding(r) ==
  /\ pc[r] = "find"
  /\ seen' = [seen EXCEPT ![r] = holding]
  /\ Goto(r, IF holding = NoHolding THEN "reject" ELSE "cascade")
  /\ UNCHANGED <<database, control, request, old, base, excuses>>

\* Mutant: the transactions of a deleted holding stay.
CascadeNothing(r) ==
  /\ pc[r] = "cascade"
  /\ Goto(r, "delete_row")
  /\ UNCHANGED <<database, control, request, old, seen, base, excuses>>

\* delete_by_symbol goes before the row itself.
Cascade(r) ==
  /\ pc[r] = "cascade"
  /\ txs' = [t \in Requests |-> NoTx]
  /\ Goto(r, "delete_row")
  /\ UNCHANGED <<holding, control, request, old, seen, base, excuses>>

DeleteRow(r) ==
  /\ pc[r] = "delete_row"
  /\ \/ holding.id = seen[r].id /\ holding' = NoHolding /\ base' = 0 /\ Goto(r, "close")
     \/ holding.id # seen[r].id /\ Goto(r, "reject") /\ UNCHANGED <<holding, base>>
  /\ UNCHANGED <<txs, control, request, old, seen, excuses>>

-------------------------------------------------------------------------------
(* Failures *)

\* A storage call of the request raises instead of doing its work; the writes that
\* matter (InsertTx, WriteHolding) may also raise after it.
StorageFails(r) ==
  /\ pc[r] \notin Ended \cup {"close", "reject"} /\ Fault({r})
  /\ Goto(r, Unexpected(pc[r]))
  /\ UNCHANGED <<database, control, request, old, seen, base>>

\* The ticket of a request that died with its process stays announced.
Crash ==
  /\ \E r \in Requests : pc[r] \notin Ended
  /\ Fault({r \in Requests : pc[r] \notin Ended})
  /\ pc' = [r \in Requests |-> IF pc[r] \in Ended THEN pc[r] ELSE "crashed"]
  /\ UNCHANGED <<database, control, request, old, seen, base>>

-------------------------------------------------------------------------------
Init ==
  /\ txs = [r \in Requests |-> NoTx]
  /\ holding = NoHolding
  /\ tickets = {} /\ uncertain = FALSE
  /\ pc = [r \in Requests |-> "new"]
  /\ op = [r \in Requests |-> "none"]
  /\ target = [r \in Requests |-> r]
  /\ quantity = [r \in Requests |-> 0]
  /\ old = [r \in Requests |-> NoTx]
  /\ seen = [r \in Requests |-> NoHolding]
  /\ base = 0
  /\ before = [r \in Requests |-> <<txs, 0>>]
  /\ excuses = {}

Next ==
  \/ \E r \in Requests :
       \/ Begin(r) \/ End(r)
       \/ \E stage \in Applications : ReadHolding(r, stage) \/ WriteHolding(r, stage)
       \/ InsertTx(r) \/ Rollback(r) \/ LoadTx(r) \/ UpdateTx(r) \/ RestoreTx(r) \/ DeleteTx(r)
       \/ PostHolding(r) \/ PostHoldingWrite(r) \/ PatchHolding(r)
       \/ FindHolding(r) \/ Cascade(r) \/ DeleteRow(r)
       \/ StorageFails(r)
  \/ Crash

Spec == Init /\ [][Next]_vars

-------------------------------------------------------------------------------
(* Properties *)

Labels ==
  Ended \cup Applications \cup {WriteOf(s) : s \in Applications} \cup
  {"close", "reject", "insert", "rollback", "load", "update", "restore", "delete_tx", "post",
   "post_write", "patch", "find", "cascade", "delete_row"}

\* Every variable keeps the values the code can give it; a holding that exists has
\* shares in it, and a recorded transaction a positive quantity.
TypeOK ==
  /\ txs \in [Requests -> [side : {"buy", "sell"}, qty : Nat \ {0}] \cup {NoTx}]
  /\ holding \in [id : Rows, qty : Nat \ {0}] \cup {NoHolding}
  /\ tickets \subseteq Requests /\ uncertain \in BOOLEAN
  /\ pc \in [Requests -> Labels]
  /\ op \in [Requests -> Operations \cup {"none"}]
  /\ target \in [Requests -> Requests]
  /\ quantity \in [Requests -> 0..MaxQuantity]
  /\ base \in Int /\ excuses \subseteq {"restore", "fault", "unannounced", "overlap"}

Quiet == \A r \in Requests : pc[r] \in Ended

InStep == holding.qty = base + Recorded

\* One request after the other, no failing call and no edit that had to be
\* restored: the holding is what was declared plus what the transactions add up to,
\* through every mix of creations, edits, deletions and cascades.
Lockstep == Quiet /\ excuses = {} => InStep

\* A transaction request that was turned down changed nothing, unless it is an edit.
RejectionsKeepAccount ==
  [][\A r \in Requests :
       pc'[r] = "rejected" /\ pc[r] # "rejected" /\ op[r] # "edit" /\ excuses = {}
         => before[r] = <<txs, holding.qty>>]_vars

\* The writes of a row that the request read in an earlier step.
RowWrites == {WriteOf(stage) : stage \in Applications} \cup {"post_write", "delete_row"}

\* Requests that overlap may lose each other's shares, but a stale write misses: what
\* a request computed from a row changes that very row, or deletes it, and nothing at
\* all once the row is gone, though the symbol was sold out and bought anew since
\* (update and delete by holding_id).  A request that found no row changes only an
\* empty place, where it creates a row of its own.
StaleWritesMiss ==
  [][\A r \in Requests :
       pc[r] \in RowWrites /\ pc'[r] # pc[r] /\ holding' # holding =>
         /\ holding.id = seen[r].id
         /\ IF seen[r] = NoHolding THEN holding'.id[1] = r
                                   ELSE holding'.id \in {seen[r].id, NoRow}]_vars

\* Whatever goes wrong between a transaction and the holding, a failed call, a crash
\* or the restore of an edit, the review control knows: the account is uncertain or
\* a ticket is left announced, and no review can be approved on it.  Requests that
\* overlap drift silently.
DriftIsDeclared ==
  Quiet /\ ~InStep =>
    uncertain \/ tickets # {} \/ excuses \cap {"unannounced", "overlap"} # {}

-------------------------------------------------------------------------------
(* What the repository's comments claim and the code does not do *)

\* user_transactions.py:140: an edit whose new version cannot be applied is reverted
\* in both places; no other request runs and no call fails.
RejectedEditIsRestored ==
  [][\A r \in Requests :
       pc'[r] = "rejected" /\ pc[r] # "rejected" /\ op[r] = "edit" /\ excuses \subseteq {"restore"}
         => before[r] = <<txs, holding.qty>>]_vars

===============================================================================
