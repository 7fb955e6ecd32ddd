---------------------------- MODULE MCOwnerStream ----------------------------
(* Instances of OwnerStream: one or two operations of one run, and one other owner. *)
EXTENDS OwnerStream, TLC

CONSTANTS r1, x1, x2
OneRun == [x \in Ops |-> r1]
OpSymmetry == Permutations(Ops)
=============================================================================
