---------------------------- MODULE MCGcRefCell ----------------------------
(* Instances of GcRefCell for TLC: a flag of two bits, so that four        *)
(* borrow objects are more than the flag can count.                        *)
EXTENDS GcRefCell, TLC

Symmetry == Permutations(Cell) \cup Permutations(Borrow)
=============================================================================
