----------------------------- MODULE MCChannels -----------------------------
(* Small instances of Channels. *)
EXTENDS Channels, TLC

Symmetry == Permutations(RowIds) \cup Permutations(Users) \cup Permutations(Requests)
=============================================================================
