------------------------- MODULE MCAccountSessions -------------------------
(* Instances of AccountSessions for TLC.                                    *)
EXTENDS AccountSessions, TLC

Symmetry == Permutations(Workers)
=============================================================================
