---------------------------- MODULE MCSocialGraph ----------------------------
(* Small instances of SocialGraph.  Which slot a request runs in tells      *)
(* nothing: the slots are interchangeable.                                  *)
EXTENDS SocialGraph, TLC

Symmetry == Permutations(Slots)
=============================================================================
