----------------------------- MODULE MCPaperLedger -----------------------------
(***************************************************************************)
(* Small instances of PaperLedger.  Amounts are chosen so that slippage,   *)
(* commissions and the cost of partial sales have to be rounded.           *)
(***************************************************************************)
EXTENDS PaperLedger, TLC

CONSTANTS q0, q1, q2, q3, q4, d1, d2

Account(cash) == [cash |-> cash, symbols |-> {"A"}, commission |-> 1, slippage |-> 2]

Creations == {[kind |-> "created", settings |-> Account(c)] : c \in {0, 16}}

Trades ==
  {[kind |-> "buy", symbol |-> "A", quantity |-> 6, price |-> 2],
   [kind |-> "buy", symbol |-> "A", quantity |-> 1, price |-> 1],
   [kind |-> "sell", symbol |-> "A", quantity |-> 3, price |-> 5]}

Actions ==
  {[kind |-> "split", symbol |-> "A", numerator |-> 1, denominator |-> 3],
   [kind |-> "dividend", symbol |-> "A", gross |-> 15, withholding |-> 3]}

Marks == {[kind |-> "valuation", session |-> s] : s \in 0..MaxSession}

AllEntries == Creations \cup Trades \cup Actions \cup Marks \cup {[kind |-> "close"]}

\* Deliveries and requests other than the creation are interchangeable (safety only).
Symmetry == Permutations(Deliveries) \cup Permutations(RequestIds \ {Creation})

\* How the last request of a delivery ended has no effect on what comes next.
Unended == <<events, session, mem, [d \in Deliveries |-> IF place[d] \in Idle THEN "idle" ELSE place[d]]>>

===============================================================================
