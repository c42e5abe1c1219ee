-------------------------- MODULE MCDuesAutomation --------------------------
(* Instances of DuesAutomation for TLC.                                     *)
EXTENDS DuesAutomation, TLC

Symmetry == Permutations(Households)
=============================================================================
