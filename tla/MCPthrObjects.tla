--------------------------- MODULE MCPthrObjects ---------------------------
(* Values of the constants that a .cfg cannot write down: three slots, the  *)
(* objects of one home in the last of them and one that wraps around.       *)
EXTENDS PthrObjects, TLC

CONSTANTS m1, m2, c1, c2

MCHome == (m1 :> 2) @@ (m2 :> 2) @@ (c1 :> 0) @@ (c2 :> 0)
MCStaticWord == (m1 :> "recursive") @@ (m2 :> "null") @@ (c1 :> "null") @@ (c2 :> "null")
MCAskedKinds == (m1 :> {}) @@ (m2 :> {"errorcheck"}) @@ (c1 :> {}) @@ (c2 :> {})
Symmetry == Permutations(Threads) \cup Permutations({c1, c2})
=============================================================================
