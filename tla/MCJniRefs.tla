----------------------------- MODULE MCJniRefs -----------------------------
(* JniRefs with interchangeable threads, addresses and heap records.        *)
EXTENDS JniRefs, TLC

Symmetry == Permutations(Threads) \cup Permutations(Objects) \cup Permutations(HeapEntries)
=============================================================================
