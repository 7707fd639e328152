---------------------------- MODULE MCInteractions ----------------------------
(* A small instance of Interactions. *)
EXTENDS Interactions

CONSTANTS p1, r1, n1, k1, l1, b1, s1, a1, f1

\* r1 replies to our own p1, and so does the note n1 of a1; f1 only follows.
Around == [x \in {p1, r1, n1, k1, l1, b1, s1} |->
             CASE x = p1 -> None [] x = k1 -> n1 [] OTHER -> p1]
Author == [x \in {n1, l1, b1} |-> a1]
=============================================================================
