------------------------- MODULE MCPushNotifications -------------------------
(* Small instances of PushNotifications. *)
EXTENDS PushNotifications

CONSTANTS t1, t2

\* The second is not selected, the last one is about a new post.
KindFour == <<"titled", "other", "titled", "untitled">>
KindPost == <<"titled", "untitled">>
=============================================================================
