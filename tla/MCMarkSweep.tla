---------------------------- MODULE MCMarkSweep ----------------------------
(* Instances of MarkSweep for TLC. *)
EXTENDS MarkSweep, TLC

Symmetry == Permutations(Slot) \cup Permutations(Eph)

-----------------------------------------------------------------------------
(* A part of Spec, small enough for three boxes: the client fills the pool,*)
(* drops handles and collects once, and during that collection its code    *)
(* upgrades WeakGcs and moves and drops handles.                           *)

Before == phase = "idle" /\ trace_color = "Black"
Full == live = Slot /\ eph_live = Eph

SomeOfClient ==
  \/ /\ Before
     /\ \/ \E s \in Slot : AllocBox(s, {})
        \/ \E e \in Eph, k \in Slot : NewWeak(e, k)
        \/ Full /\ \E s \in Slot : DropHandle(s)
        \/ Full /\ Collect
  \/ /\ current # None
     /\ \/ \E p \in Slot, s \in Slot : p # s /\ (Store(p, s) \/ Clear(p, s))
        \/ \E e \in Eph : Upgrade(e)

OneCollection == Init /\ [][(SomeOfClient \/ Collector) /\ ~collect_needed']_vars
=============================================================================
