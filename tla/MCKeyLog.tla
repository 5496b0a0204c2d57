------------------------------ MODULE MCKeyLog ------------------------------
(* KeyLog with its processes interchangeable.                              *)
EXTENDS KeyLog, TLC

Symmetry == Permutations(Proc)
=============================================================================
