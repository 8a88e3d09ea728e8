------------------------------ MODULE MCChatRun ------------------------------
(***************************************************************************)
(* Small instances of ChatRun: two deliveries of one request.              *)
(***************************************************************************)
EXTENDS ChatRun, TLC

CONSTANTS p1, p2, r1

TwoOfOneRequest == p1 :> r1 @@ p2 :> r1

===============================================================================
