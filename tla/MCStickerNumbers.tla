------------------------- MODULE MCStickerNumbers -------------------------
(* Instances of StickerNumbers for TLC.                                     *)
EXTENDS StickerNumbers, TLC

CONSTANT r1
TwoEach == r1 :> 2
Symmetry == Permutations(Workers)
=============================================================================
