------------------------ MODULE HoldingsLedgerInvariant ------------------------
(***************************************************************************)
(* The inductive invariant of HoldingsLedger: what holds at every label of *)
(* a request, and how far apart the holding and the recorded transactions  *)
(* are while it is between the two writes.                                 *)
(***************************************************************************)
EXTENDS HoldingsLedger

Txs == [side : {"buy", "sell"}, qty : Nat \ {0}]

Holdings == [id : Rows, qty : Nat \ {0}] \cup {NoHolding}

Active(r) == pc[r] \notin Ended

Creating == {"create", "create_write", "rollback"}

\* The holding was read, and has not been written yet.
Writing == {WriteOf(s) : s \in Applications} \cup {"post_write", "cascade", "delete_row"}

\* The stored transaction is the old version.
WithOld == {"reverse", "reverse_write", "update", "undo", "undo_write", "delete_tx"}

\* It is the new version.
WithNew == {"forward", "forward_write", "unforward", "unforward_write"}

\* An edit that has given up on its new version.
Restoring == {"restore", "redo", "redo_write", "reapply", "reapply_write"}

-------------------------------------------------------------------------------
(* What holds of a request, whatever the others do *)

\* Labels belong to operations.
OpAt(r) ==
  /\ pc[r] \in Creating \cup {"insert"} => op[r] \in {"buy", "sell"} /\ target[r] = r
  /\ pc[r] = "load" => op[r] \in {"edit", "delete"}
  /\ pc[r] \in WithNew \cup Restoring \cup {"reverse", "reverse_write", "update"} => op[r] = "edit"
  /\ pc[r] \in {"undo", "undo_write", "delete_tx"} => op[r] = "delete"
  /\ pc[r] \in {"post", "post_write"} => op[r] = "post_holding"
  /\ pc[r] = "patch" => op[r] = "patch_holding"
  /\ pc[r] \in {"find", "cascade", "delete_row"} => op[r] = "delete_holding"

\* An application that reached its write had enough shares in what it read.
Covered(r) ==
  \A s \in Applications : pc[r] = WriteOf(s) => Sellable(seen[r], Delta(r, s))

\* The ticket is open, a loaded transaction exists, and only a sale can be refused.
Local(r) ==
  /\ OpAt(r)
  /\ Covered(r)
  /\ Active(r) => quantity[r] > 0 /\ (op[r] \in Ticketed => r \in tickets)
  /\ pc[r] \in Creating \cup WithOld \cup WithNew \cup Restoring => old[r] \in Txs
  /\ pc[r] \in {"unforward", "unforward_write"} => Delta(r, "unforward") > 0
  /\ pc[r] \in {"redo", "redo_write"} => "restore" \in excuses
  /\ pc[r] \in {"new", "insert"} => txs[r] = NoTx

-------------------------------------------------------------------------------
(* What it knows while no other request runs *)

Alone(r) ==
  /\ \A s \in Requests : Active(s) => s = r
  /\ pc[r] \in Writing => seen[r] = holding
  /\ pc[r] \in Creating \cup WithOld => txs[target[r]] = old[r]
  /\ pc[r] \in WithNew => txs[target[r]] = Version(r, "forward")
  /\ pc[r] \notin {"reapply", "reapply_write"}
  /\ pc[r] = "delete_row" => \A t \in Requests : txs[t] = NoTx

\* Shares that are recorded and that the holding does not have yet.
Missing(r) ==
  CASE pc[r] \in Creating \cup {"update", "delete_tx"} -> Signed(old[r])
    [] pc[r] \in WithNew -> Signed(Version(r, "forward"))
    [] OTHER -> 0

Aligned(r) == pc[r] = "delete_row" \/ holding.qty + Missing(r) = base + Recorded

\* What a request that is turned down has left as it found it.
Kept(r) ==
  op[r] # "edit" =>
    /\ pc[r] \in Creating => before[r] = <<[txs EXCEPT ![r] = NoTx], holding.qty>>
    /\ pc[r] \notin Creating \cup {"close", "delete_tx", "delete_row"} =>
         before[r] = <<txs, holding.qty>>

\* It can only end by being turned down, which makes the account uncertain.
Doomed(r) == r \in tickets /\ pc[r] \in {"rollback", "reject", "restore", "redo", "redo_write"}

Overlapped == "overlap" \in excuses

\* Nothing has told the review control, or the reader of the history, of a drift.
Undeclared ==
  /\ excuses \cap {"unannounced", "overlap"} = {}
  /\ ~uncertain /\ \A t \in tickets : pc[t] # "crashed"

WithoutTrouble ==
  excuses = {} =>
    /\ Quiet => InStep
    /\ \A r \in Requests : Active(r) => (Aligned(r) \/ pc[r] = "restore") /\ Kept(r)

WithoutDeclaration ==
  Undeclared =>
    /\ Quiet => InStep
    /\ \A r \in Requests : Active(r) => Aligned(r) \/ Doomed(r)

IInv ==
  /\ TypeOK
  /\ old \in [Requests -> Txs \cup {NoTx}] /\ seen \in [Requests -> Holdings]
  /\ DOMAIN before = Requests
  /\ \A r \in Requests : Local(r)
  /\ ~Overlapped => \A r \in Requests : Active(r) => Alone(r)
  /\ WithoutTrouble
  /\ WithoutDeclaration

===============================================================================
