------------------------------- MODULE MCTokens --------------------------------
(* A small instance of Tokens. *)
EXTENDS Tokens

CONSTANTS k
=============================================================================
