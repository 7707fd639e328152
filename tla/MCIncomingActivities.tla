------------------------ MODULE MCIncomingActivities ------------------------
(***************************************************************************)
(* Values of IncomingActivities' constants for TLC.                        *)
(***************************************************************************)
EXTENDS IncomingActivities

\* One activity that is delivered twice, and a report.
TwiceAndReport == <<"follow", "follow", "flag">>
Reports == {"flag"}

\* a wait whose sign matters, and that grows
Growing == [n \in 1..MaxRetries |-> n]
=============================================================================
