---------------------------- MODULE MCReviewControl ----------------------------
(***************************************************************************)
(* Small instances of ReviewControl.                                       *)
(***************************************************************************)
EXTENDS ReviewControl, TLC

CONSTANTS q0, q1, q2, d1, d2, w1

\* Deliveries, mutations and new requests are interchangeable (the runs are all of
\* safety properties).
Symmetry ==
  Permutations(Deliveries) \cup Permutations(Writers) \cup Permutations(Requests \ {InitialPolicy})

===============================================================================
