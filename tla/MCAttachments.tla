--------------------------- MODULE MCAttachments ---------------------------
(* Small instances of Attachments: files of one and of two units. *)
EXTENDS Attachments, TLC

CONSTANTS f1, f2, f3, f4, f5
Sizes == [f \in Attachments |-> IF f = f1 THEN 1 ELSE 2]
Symmetry == Permutations(Requests) \cup Permutations(Attachments \ {f1})
=============================================================================
