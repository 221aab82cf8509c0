----------------------------- MODULE MCAssetVfd -----------------------------
(* Small instances of AssetVfd for TLC.                                     *)
EXTENDS AssetVfd, TLC

Symmetry == Permutations(Threads) \cup Permutations(Slots)
            \cup Permutations(Files) \cup Permutations(Fds)
=============================================================================
