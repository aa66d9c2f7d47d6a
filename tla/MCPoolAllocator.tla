-------------------------- MODULE MCPoolAllocator --------------------------
(* Instances of PoolAllocator for TLC: buffers of a few slots, 16-byte     *)
(* aligned (an even word address), at distances a buffer never exceeds.    *)
EXTENDS PoolAllocator

TwoBuffers == {32, 64}

Words(n) == [size |-> n, align |-> 1]
TwoSizes == {Words(3), Words(5)}
SixteenAligned == {[size |-> 2, align |-> 2]}
=============================================================================
