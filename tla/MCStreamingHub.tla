--------------------------- MODULE MCStreamingHub ---------------------------
(* Small instances of StreamingHub. *)
EXTENDS StreamingHub, TLC

CONSTANTS c1, c2, t1, t2

Basic == [box |-> "inbox", public |-> TRUE, thread |-> 0, hidden |-> FALSE,
          exclusive |-> FALSE, tags |-> {}, lists |-> {}]
Two == <<[Basic EXCEPT !.tags = {"#a"}, !.exclusive = TRUE], Basic>>
HomeAndTag == [c \in {c1, c2} |-> IF c = c1 THEN {"user"} ELSE {"#a"}]
Public == [c \in {c1, c2} |-> IF c = c1 THEN {} ELSE {"public"}]
Tasks == Permutations(Pumps)
=============================================================================
