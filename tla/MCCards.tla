------------------------------- MODULE MCCards -------------------------------
(* The cards and their lock for TLC: which process is which makes no          *)
(* difference to the invariants.                                             *)
EXTENDS Cards, TLC

Symmetry == Permutations(Procs)
==============================================================================
