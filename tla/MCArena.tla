------------------------------ MODULE MCArena ------------------------------
(* Instances of Arena for TLC: buffers at addresses of different alignment, *)
(* and an item that is larger than an arena.                               *)
EXTENDS Arena

ThreeBuffers == {8, 17, 28}
ThreeSizes == {[size |-> 3, align |-> 1], [size |-> 2, align |-> 2],
               [size |-> 7, align |-> 1]}
=============================================================================
