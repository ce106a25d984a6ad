------------------------------ MODULE MCDrafting ------------------------------
(* Instances of Drafting for TLC.                                          *)
EXTENDS Drafting, TLC
CONSTANTS auto, g1, s1, s2, x
Symmetry == Permutations(Staff)
=============================================================================
