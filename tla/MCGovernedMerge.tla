-------------------------- MODULE MCGovernedMerge ---------------------------
(* Two challenges for the first merge and one for the second, or fewer.     *)
EXTENDS GovernedMerge

CONSTANTS m1, m2, c1, c2, c3

AsksFor(c) == IF c = c3 THEN m2 ELSE m1
=============================================================================
