-------------------------- MODULE MCMarkSweepArena2 --------------------------
(* Instances of MarkSweepArena2 for TLC. *)
EXTENDS MarkSweepArena2, TLC

Symmetry == Permutations(Slot) \cup Permutations(Eph)
=============================================================================
