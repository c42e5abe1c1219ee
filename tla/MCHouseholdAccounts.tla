------------------------ MODULE MCHouseholdAccounts ------------------------
(* Instances of HouseholdAccounts for TLC.                                  *)
EXTENDS HouseholdAccounts, TLC

Symmetry == Permutations(People) \cup Permutations(Workers)
=============================================================================
