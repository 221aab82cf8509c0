---------------------------- MODULE MCGlWrappers ----------------------------
(* Values of the constants that a .cfg cannot write down.  Three textures of  *)
(* four slots collide, and wrap around: two of them have the same home.  The  *)
(* types of the two locations change with a link, with one matrix, two or     *)
(* none.  GL gives a texture and a program the same name; a behaviour has     *)
(* only one kind, and exchanging n1 and n2 changes nothing for either.        *)
EXTENDS GlWrappers, TLC

CONSTANTS l1, l2, n1, n2, n3

MCHome == (n1 :> 3) @@ (n2 :> 3) @@ (n3 :> 0)
MCLayouts == {(l1 :> "vector") @@ (l2 :> "matrix"), (l1 :> "matrix") @@ (l2 :> "matrix"),
              (l1 :> "element") @@ (l2 :> "element")}
MCStateHome == [p \in Programs |-> 0]
MCValues == {-1, 1}
Symmetry == Permutations(Programs)
=============================================================================
