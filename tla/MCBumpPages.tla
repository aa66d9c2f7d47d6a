---------------------------- MODULE MCBumpPages ----------------------------
(* Instances of BumpPages for TLC.  The buffers are further apart than a   *)
(* page is large, so no page begins where another ends; one of them suits  *)
(* only the usual 16-byte alignment, one a larger one.                     *)
EXTENDS BumpPages, TLC

TwoBuffers == {18, 36}

Words(size, align) == [size |-> size, align |-> align]
SmallAndLarge == {Words(0, 1), Words(1, 1), Words(2, 2), Words(1, 4)}

Symmetry == Permutations(Handle)
=============================================================================
