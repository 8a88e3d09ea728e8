---------------------------- MODULE MCHoldingsLedger ----------------------------
(***************************************************************************)
(* Small instances of HoldingsLedger.                                      *)
(***************************************************************************)
EXTENDS HoldingsLedgerInvariant, TLC

CONSTANTS r1, r2, r3, r4

TransactionOps == {"buy", "sell", "edit", "delete"}

\* Requests are interchangeable (used by a safety run only).
Symmetry == Permutations(Requests)

\* Bound: a behaviour in which a call failed, or two requests overlapped, is followed
\* through three requests; one with neither, through all four.  At most two requests
\* are in flight at a time.
ThreeWithTrouble ==
  /\ excuses \cap {"fault", "overlap"} # {} => \E r \in Requests : pc[r] = "new"
  /\ ~({"fault", "overlap"} \subseteq excuses)
  /\ Cardinality({r \in Requests : pc[r] \notin Ended}) =< 2

===============================================================================
