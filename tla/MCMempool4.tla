----------------------------- MODULE MCMempool4 -----------------------------
(* Instances of Mempool4 for TLC: handles of two bits and one, so that the *)
(* last slot of the second pool is the one without a handle.               *)
EXTENDS Mempool4, TLC

CONSTANTS v1, v2, v3

\* Two small values, and a larger one.
Sizes == v1 :> 1 @@ v2 :> 1 @@ v3 :> 3

Symmetry == Permutations({v1, v2})
=============================================================================
