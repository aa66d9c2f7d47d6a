---------------------------- MODULE RootRegistry ----------------------------
(***************************************************************************)
(* What the collector needs of its roots: a sequence of registered nodes,  *)
(* newest first, that a collection reads from one end to the other.        *)
(***************************************************************************)
EXTENDS Sequences, SequencesExt

CONSTANT Node

VARIABLE order

Init == order = <<>>

Register(n) ==
  /\ n \notin ToSet(order)
  /\ order' = <<n>> \o order

Unregister(n) ==
  \E i \in DOMAIN order : order[i] = n /\ order' = RemoveAt(order, i)

Close == order' = <<>>

Next == (\E n \in Node : Register(n) \/ Unregister(n)) \/ Close

Spec == Init /\ [][Next]_order
=============================================================================
