--------------------------- MODULE MCCatalogTeam ---------------------------
(* Model-checking instances of CatalogTeam. *)
EXTENDS CatalogTeam, TLC

Symmetry == Permutations(Calls) \union Permutations(Sources)
=============================================================================
