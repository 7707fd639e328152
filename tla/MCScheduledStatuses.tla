------------------------- MODULE MCScheduledStatuses -------------------------
(* A small instance of ScheduledStatuses. *)
EXTENDS ScheduledStatuses, TLC

CONSTANTS p1, p2, c1, c2, m1

\* One of the two is posted at once.
AtOneNow == p1 :> 1 @@ p2 :> Immediately

FirstWithMedia == p1 :> {m1} @@ p2 :> {}
=============================================================================
