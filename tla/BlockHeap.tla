------------------------------ MODULE BlockHeap ------------------------------
(***************************************************************************)
(* What a memory allocator promises: a block it hands out overlaps no block *)
(* that is still in use, a freed block is gone, and the allocator can       *)
(* enumerate the blocks in use (a sweep depends on that enumeration).       *)
(***************************************************************************)
EXTENDS Naturals

CONSTANT Block   \* every [start, size] that can be handed out

VARIABLES
  blocks,       \* the blocks in use
  enumerated    \* the starts of the blocks an enumeration yields

vars == <<blocks, enumerated>>

Disjoint(a, b) == a.start + a.size <= b.start \/ b.start + b.size <= a.start

Init == blocks = {} /\ enumerated = {}

Alloc(b) ==
  /\ \A c \in blocks : Disjoint(b, c)
  /\ blocks' = blocks \cup {b}
  /\ enumerated' = enumerated \cup {b.start}

Free(b) ==
  /\ b \in blocks
  /\ blocks' = blocks \ {b}
  /\ enumerated' = enumerated \ {b.start}

Next == \E b \in Block : Alloc(b) \/ Free(b)

Spec == Init /\ [][Next]_vars
=============================================================================
