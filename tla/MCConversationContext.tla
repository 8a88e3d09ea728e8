------------------------- MODULE MCConversationContext -------------------------
(* Instances of ConversationContext for TLC. *)
EXTENDS ConversationContext, TLC

CONSTANTS r1, r2, r3

Symmetry == Permutations(Turns)

===============================================================================
