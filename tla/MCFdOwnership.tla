---------------------------- MODULE MCFdOwnership ----------------------------
(* Instances of FdOwnership for TLC.                                          *)
EXTENDS FdOwnership, TLC
Clones == Permutations(Writers)
=============================================================================
