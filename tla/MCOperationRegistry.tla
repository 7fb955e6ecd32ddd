------------------------- MODULE MCOperationRegistry -------------------------
(* Small instances of OperationRegistry for TLC. *)
EXTENDS OperationRegistry

CONSTANTS o1, o2, p1, p2
==============================================================================
