----------------------------- MODULE MCPresence -----------------------------
(* A small instance of Presence. *)
EXTENDS Presence, TLC

Symmetry == Permutations(Sockets) \cup Permutations(Users)
=============================================================================
