---------------------------- MODULE MCCopilotSession ----------------------------
(* Instances of CopilotSession for TLC. *)
EXTENDS CopilotSession

CONSTANTS r1, r2, m1

(* Of a revision only matters whether it is the row's, and of a token whether it is; of a *)
(* copy that is out of date only its token does.                                          *)
Current(hand) == hand.revision = store.revision

Copy(hand) ==
  IF Current(hand) THEN <<"current">> ELSE <<"stale", hand.generation, hand.tokens, hand.access>>

Distinctions ==
  <<[store EXCEPT !.revision = 0], lock, pc,
    [r \in Requests |-> <<[mem[r] EXCEPT !.hand = NoCopy], Copy(mem[r].hand)>>],
    aged = Token(store), Token(store) \in refusals, bounds>>

===============================================================================
