------------------------ MODULE MCCatalogActivation ------------------------
(* Small instances of CatalogActivation for TLC. *)
EXTENDS CatalogActivation, TLC

CONSTANTS g1, g2, a1, a2

MCGens == {g1, g2}
MCOneAdmin == {a1}
MCTwoAdmins == {a1, a2}
MCSymmetry == Permutations(MCGens) \cup Permutations(MCTwoAdmins)
=============================================================================
