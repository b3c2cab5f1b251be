------------------------- MODULE MCDefinitionStore -------------------------
(* Clients that save, publish and roll back one definition.                 *)
EXTENDS DefinitionStore, TLC

MCSymmetry == Permutations(Clients) \cup Permutations(Bodies)
=============================================================================
