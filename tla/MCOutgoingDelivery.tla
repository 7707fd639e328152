------------------------- MODULE MCOutgoingDelivery -------------------------
(***************************************************************************)
(* Values of OutgoingDelivery's constants for TLC.                         *)
(***************************************************************************)
EXTENDS OutgoingDelivery

\* Two activities for one inbox, and one for another.
TwoThenOne == <<"a", "a", "b">>

\* exp_backoff, in units that are shorter: 1, 2, ... for 2, 4, ...
Unit == [n \in 1..MaxRetries |-> n]

\* A Retry-After that is over when it is applied.
Past == {-1}
===============================================================================
