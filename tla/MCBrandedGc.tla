---------------------------- MODULE MCBrandedGc ----------------------------
(* Instances of BrandedGc for TLC. *)
EXTENDS BrandedGc, TLC

Symmetry == Permutations(Slot) \cup Permutations(RootNode)
=============================================================================
