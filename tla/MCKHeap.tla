------------------------------ MODULE MCKHeap ------------------------------
(* Small instances of KHeap for TLC. *)
EXTENDS KHeap
=============================================================================
