----------------------------- MODULE MCPortfolioRun -----------------------------
(***************************************************************************)
(* Small instances of PortfolioRun: two triggers of one button.            *)
(* Triggers of different keys share nothing but the index, so one key is   *)
(* where everything happens.                                               *)
(***************************************************************************)
EXTENDS PortfolioRun

CONSTANTS t1, t2

\* Every trigger presses the holdings button.
OneKey == [t \in Triggers |-> "holdings"]

================================================================================
