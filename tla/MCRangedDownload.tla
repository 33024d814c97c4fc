-------------------------- MODULE MCRangedDownload --------------------------
(* Small instances of RangedDownload for TLC. *)
EXTENDS RangedDownload, TLC

CONSTANTS a, b, w1, w2, w3

SevenAndTwo == a :> 7 @@ b :> 2
FiveUnits  == a :> 5
TwoAndThree == a :> 2 @@ b :> 3

WorkerSymmetry == Permutations(Workers)
=============================================================================
