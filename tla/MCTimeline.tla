----------------------------- MODULE MCTimeline -----------------------------
(* A small instance of Timeline. *)
EXTENDS Timeline, TLC

Symmetry == Permutations(Requests)
=============================================================================
