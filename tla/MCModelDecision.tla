---------------------------- MODULE MCModelDecision ----------------------------
(***************************************************************************)
(* Small instances of ModelDecision.                                       *)
(***************************************************************************)
EXTENDS ModelDecision, TLC

CONSTANTS d1, d2, d3, q, v

\* Deliveries are interchangeable (the runs are of safety properties).
Symmetry == Permutations(Deliveries)

===============================================================================
