-------------------------------- MODULE MCPolls --------------------------------
(* A small instance of Polls: a poll of ours, which comes first, and a peer's. *)
EXTENDS Polls, TLC

CONSTANTS p1, t1, a1, b1, y1, n1

Ids == p1 :> 1 @@ t1 :> 2
=============================================================================
