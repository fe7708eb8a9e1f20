------------------------------ MODULE MCMarks ------------------------------
(* A small instance of Marks. *)
EXTENDS Marks, TLC
=============================================================================
