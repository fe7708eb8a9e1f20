------------------------------ MODULE MCTyping ------------------------------
(* Small instances of Typing: who connects through which socket slot. *)
EXTENDS Typing, TLC

CONSTANTS s1, s2, alice

\* One user on two devices.
OneUser == [s \in {s1, s2} |-> alice]

Symmetry == Permutations(Threads) \cup Permutations(Timers)
=============================================================================
