----------------------------- MODULE MCPortMenu -----------------------------
(* A small instance of PortMenu for TLC.                                    *)
EXTENDS PortMenu, TLC

Symmetry == Permutations(Profiles)
=============================================================================
