-------------------------- MODULE MCNotifications --------------------------
(* A small instance of Notifications. *)
EXTENDS Notifications, TLC

Symmetry == Permutations(Recipients) \cup Permutations(Ids) \cup Permutations(Requests)
=============================================================================
