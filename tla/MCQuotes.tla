------------------------------- MODULE MCQuotes --------------------------------
(* A small instance of Quotes: one quote of ours, one of a peer, and what they *)
(* quote is a post of ours or of another peer.                                 *)
EXTENDS Quotes

CONSTANTS p1, q1, t1
=============================================================================
