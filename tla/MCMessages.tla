----------------------------- MODULE MCMessages -----------------------------
(* Small instances of Messages. *)
EXTENDS Messages, TLC

Symmetry == Permutations(Requests)
=============================================================================
