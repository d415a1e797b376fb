------------------------------ MODULE MCTaskLife ------------------------------
(* Instances of TaskLife for TLC. References are interchangeable.            *)
EXTENDS TaskLife, TLC

Symmetry == Permutations(Refs)
===============================================================================
