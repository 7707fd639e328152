------------------------------- MODULE MCPages -------------------------------
(* Every list, with few rows and pages of two of them.                     *)
EXTENDS Pages
=============================================================================
