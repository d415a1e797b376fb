--------------------------- MODULE MCFiberCondition ---------------------------
(* Instances of FiberCondition for TLC.                                      *)
EXTENDS FiberCondition, TLC

Symmetry == Permutations(Tasks)
=============================================================================
