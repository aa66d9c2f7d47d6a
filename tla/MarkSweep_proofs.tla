--------------------------- MODULE MarkSweep_proofs ---------------------------
(***************************************************************************)
(* Proofs about MarkSweep: for any number of boxes, ephemerons and handles,*)
(* a client whose finalizers and drops bring nothing back from the dead    *)
(* never meets a dangling Gc, key or map entry, every count is exact, and  *)
(* what has no handle goes.  And proofs about MarkSweepArena2, the copy of *)
(* that collector over arenas, for any number and size of them, and about  *)
(* GcRefCell, the cell both copies come with.                              *)
(***************************************************************************)
EXTENDS MarkSweepArena2, GcRefCell, VecOps_proofs

\* The client the theorems are about: it boxes no bare Gc, and its finalizers
\* neither upgrade WeakGcs nor make ephemerons for keys that were not marked.
CautiousClient == ~MayBoxHandles /\ ~MayResurrect /\ ~MayBindUnmarked

-----------------------------------------------------------------------------
(* Lemmas about counting and tracing.                                      *)

\* Slots are neither ephemerons nor None.
LEMMA SlotsDistinct ==
  /\ None \notin Slot /\ None \notin Eph
  /\ \A s \in Slot : s \notin Eph
BY SlotAssumption, NoneAssumption

\* The handles in values can be counted.
LEMMA HoldersFinite ==
  ASSUME TypeOK, NEW s
  PROVE  /\ IsFiniteSet(InBoxes(s)) /\ Cardinality(InBoxes(s)) \in Nat
         /\ IsFiniteSet(InValues(s)) /\ Cardinality(InValues(s)) \in Nat
<1>1. InBoxes(s) \subseteq Slot /\ InValues(s) \subseteq Eph
  BY DEF InBoxes, InValues, TypeOK
<1>2. IsFiniteSet(InBoxes(s)) /\ IsFiniteSet(InValues(s))
  BY <1>1, SlotAssumption, FS_Subset
<1> QED BY <1>2, FS_CardinalityType

\* One holder more ...
LEMMA OneMore ==
  ASSUME NEW S, IsFiniteSet(S), NEW x, x \notin S
  PROVE  Cardinality(S \cup {x}) = Cardinality(S) + 1
BY FS_AddElement

\* ... and one holder less.
LEMMA OneLess ==
  ASSUME NEW S, IsFiniteSet(S), NEW x, x \in S
  PROVE  Cardinality(S \ {x}) = Cardinality(S) - 1
BY FS_RemoveElement

\* A box whose count is exact and 0 has no handle anywhere.
LEMMA CountZero ==
  ASSUME TypeOK, CountsExact, Open, NEW s \in live, root_count[s] = 0
  PROVE  /\ held[s] = 0
         /\ \A p \in live : s \notin fields[p]
         /\ \A e \in eph_live : s \notin eph_value[e]
<1>1. s \in Slot /\ held[s] \in Nat
  BY DEF TypeOK
<1>2. root_count[s] = held[s] + Cardinality(InBoxes(s)) + Cardinality(InValues(s))
  BY DEF CountsExact
<1>3. held[s] = 0 /\ Cardinality(InBoxes(s)) = 0 /\ Cardinality(InValues(s)) = 0
  BY <1>1, <1>2, HoldersFinite
<1>4. InBoxes(s) = {} /\ InValues(s) = {}
  BY <1>3, HoldersFinite, FS_EmptySet
<1> QED BY <1>3, <1>4 DEF InBoxes, InValues

\* Tracing colours the boxes it starts from, ...
LEMMA TracedType ==
  ASSUME TypeOK, NEW S \in SUBSET Slot
  PROVE  /\ Traced(S) \in [Slot -> TraceColor]
         /\ \A s \in S : Traced(S)[s] = trace_color
         /\ \A s \in Slot : color[s] = trace_color => Traced(S)[s] = trace_color
BY DEF Traced, Reached, TypeOK

\* ... and otherwise only boxes that some box in use has a handle to.
LEMMA TracedByHandle ==
  ASSUME TypeOK, HandlesIntact, Open, NEW S \in SUBSET live,
         NEW s \in Slot, s \notin S, \A p \in live : s \notin fields[p]
  PROVE  Traced(S)[s] = color[s]
<1> DEFINE T == live \ {s}
<1>1. T \in SUBSET Slot /\ S \subseteq T /\ s \notin T
  BY DEF TypeOK
<1>2. Closed(T)
  BY DEF Closed, Entered, HandlesIntact
<1>3. s \notin Reached(S)
  BY <1>1, <1>2 DEF Reached
<1> QED BY <1>3 DEF Traced

-----------------------------------------------------------------------------
\* The invariant holds of an empty collector.
LEMMA InitInv == Init => IInv
<1> SUFFICES ASSUME Init PROVE IInv
  OBVIOUS
<1> USE DEF Init
<1>1. TypeOK
  BY DEF TypeOK, TraceColor
<1>2. PhaseInv
  BY DEF PhaseInv, is_collecting, Open
<1>3. QueuesExact /\ CountsExact /\ HandlesIntact /\ KeysIntact /\ MapExact
  BY DEF QueuesExact, CountsExact, HandlesIntact, KeysIntact, MapExact
<1>4. Extracted /\ KeyInv
  BY DEF Extracted, KeyInv, is_collecting
<1> QED BY <1>1, <1>2, <1>3, <1>4 DEF IInv

-----------------------------------------------------------------------------
(* The client's handles.                                                   *)

\* Client code runs only while the collector exists.
LEMMA RunningOpen ==
  ASSUME PhaseInv, Running
  PROVE  Open
BY DEF PhaseInv, Running, Open, is_collecting

\* Nothing has a handle to a box that the sweep extracted.
LEMMA NoHandleToExtracted ==
  ASSUME IInv, Open, NEW s \in droppables
  PROVE  /\ s \in live /\ held[s] = 0
         /\ \A p \in live : s \notin fields[p]
         /\ \A e \in eph_live : s \notin eph_value[e]
<1>1. s \in live /\ root_count[s] = 0
  BY DEF IInv, QueuesExact, Extracted
<1> QED BY <1>1, CountZero DEF IInv

\* A step that only makes, moves and drops handles has the counts to account for.
LEMMA HandleStep ==
  ASSUME IInv, TypeOK', CountsExact', HandlesIntact',
         \A s \in droppables : root_count'[s] = 0,
         UNCHANGED <<pool, color, wraps, eph_key, queues, weakmap, collection>>
  PROVE  IInv'
<1> USE DEF IInv, pool, queues, weakmap, collection
<1>1. PhaseInv'
  BY DEF PhaseInv, is_collecting, Open, IsReachable
<1>2. QueuesExact' /\ KeysIntact' /\ MapExact'
  BY DEF QueuesExact, KeysIntact, MapExact, Open
<1>3. Extracted' /\ KeyInv'
  BY DEF Extracted, KeyInv, Kept, KeyReachable, IsReachable, is_collecting
<1> QED BY <1>1, <1>2, <1>3

\* An ephemeron that is being finalized or dropped still exists.
LEMMA CurrentValue ==
  ASSUME TypeOK, PhaseInv, QueuesExact, Open, current \in Eph
  PROVE  current \in eph_live
<1>1. current # None /\ current \notin Slot
  BY SlotsDistinct
<1>2. phase \in {"ephemerons", "free_ephemerons"}
  BY <1>1 DEF PhaseInv, QueuesExact, TypeOK, is_collecting, Open
<1> QED BY <1>1, <1>2 DEF PhaseInv, QueuesExact

\* A clone is counted with the box it leads to.
LEMMA CloneInv ==
  ASSUME IInv, NEW s \in Slot, Clone(s)
  PROVE  IInv'
<1> USE DEF Clone, Inc
<1>1. Open
  BY RunningOpen DEF IInv
<1>2. s \in live /\ s \notin droppables
  <2>1. \/ held[s] > 0
        \/ \E p \in live : s \in fields[p]
        \/ \E e \in eph_live : s \in eph_value[e]
    BY <1>1, CurrentValue DEF InReach, IInv
  <2> QED BY <1>1, <2>1, NoHandleToExtracted DEF IInv, HandlesIntact
<1>3. TypeOK'
  BY DEF IInv, TypeOK, pool, queues, weakmap, collection, ephemerons
<1>4. InBoxes(s)' = InBoxes(s) /\ InValues(s)' = InValues(s)
  BY DEF InBoxes, InValues, pool, ephemerons
<1>5. CountsExact'
  <2> SUFFICES ASSUME NEW t \in live
               PROVE  root_count'[t] = held'[t] + Cardinality(InBoxes(t)) + Cardinality(InValues(t))
    BY DEF CountsExact, pool, collection, InBoxes, InValues, ephemerons
  <2>1. /\ root_count[t] = held[t] + Cardinality(InBoxes(t)) + Cardinality(InValues(t))
        /\ t \in Slot /\ held[t] \in Nat
    BY <1>1 DEF IInv, CountsExact, TypeOK
  <2> QED BY <2>1, HoldersFinite DEF IInv, TypeOK
<1>6. HandlesIntact'
  BY <1>1, <1>2 DEF IInv, HandlesIntact, Open, TypeOK, pool, ephemerons, collection
<1>7. \A t \in droppables : root_count'[t] = 0
  BY <1>2 DEF IInv, Extracted, TypeOK
<1> QED BY <1>3, <1>5, <1>6, <1>7, HandleStep DEF ephemerons

\* So is one of a handle in a value of the map, whose key keeps it.
LEMMA GetInv ==
  ASSUME IInv, NEW k \in Slot, NEW s \in Slot, Get(k, s)
  PROVE  IInv'
<1> USE DEF Get, Inc
<1>1. Open
  BY RunningOpen DEF IInv
<1>2. map[k] \in eph_live /\ s \in eph_value[map[k]]
  BY <1>1 DEF IInv, MapExact
<1>3. s \in live /\ s \notin droppables
  BY <1>1, <1>2, NoHandleToExtracted DEF IInv, HandlesIntact
<1>4. TypeOK'
  BY DEF IInv, TypeOK, pool, queues, weakmap, collection, ephemerons
<1>5. CountsExact'
  <2> SUFFICES ASSUME NEW t \in live
               PROVE  root_count'[t] = held'[t] + Cardinality(InBoxes(t)) + Cardinality(InValues(t))
    BY DEF CountsExact, pool, collection, InBoxes, InValues, ephemerons
  <2>1. /\ root_count[t] = held[t] + Cardinality(InBoxes(t)) + Cardinality(InValues(t))
        /\ t \in Slot /\ held[t] \in Nat
    BY <1>1 DEF IInv, CountsExact, TypeOK
  <2> QED BY <2>1, HoldersFinite DEF IInv, TypeOK
<1>6. HandlesIntact'
  BY <1>1, <1>3 DEF IInv, HandlesIntact, Open, TypeOK, pool, ephemerons, collection
<1>7. \A t \in droppables : root_count'[t] = 0
  BY <1>3 DEF IInv, Extracted, TypeOK
<1> QED BY <1>4, <1>5, <1>6, <1>7, HandleStep DEF ephemerons

\* Outside a collection every key that is there is a box in use.
LEMMA UpgradeInv ==
  ASSUME IInv, CautiousClient, NEW e \in Eph, Upgrade(e)
  PROVE  IInv'
<1> USE DEF Upgrade, Inc
<1> DEFINE s == eph_key[e]
<1>1. phase = "idle" /\ Open /\ droppables = {}
  BY DEF CautiousClient, Open, IInv, PhaseInv, is_collecting
<1>2. s \in live /\ s \in Slot
  BY <1>1 DEF IInv, KeysIntact, TypeOK
<1>3. TypeOK'
  BY <1>2 DEF IInv, TypeOK, pool, queues, weakmap, collection, ephemerons
<1>4. CountsExact'
  <2> SUFFICES ASSUME NEW t \in live
               PROVE  root_count'[t] = held'[t] + Cardinality(InBoxes(t)) + Cardinality(InValues(t))
    BY DEF CountsExact, pool, collection, InBoxes, InValues, ephemerons
  <2>1. /\ root_count[t] = held[t] + Cardinality(InBoxes(t)) + Cardinality(InValues(t))
        /\ t \in Slot /\ held[t] \in Nat
    BY <1>1 DEF IInv, CountsExact, TypeOK
  <2> QED BY <2>1, HoldersFinite DEF IInv, TypeOK
<1>5. HandlesIntact'
  BY <1>1, <1>2 DEF IInv, HandlesIntact, Open, TypeOK, pool, ephemerons, collection
<1> QED BY <1>1, <1>3, <1>4, <1>5, HandleStep DEF ephemerons

\* A dropped stack handle is counted out; it led to no box that is extracted.
LEMMA DropHandleInv ==
  ASSUME IInv, NEW s \in Slot, DropHandle(s)
  PROVE  IInv'
<1> USE DEF DropHandle, Dec
<1>1. Open
  BY RunningOpen DEF IInv
<1>2. s \notin droppables
  BY <1>1, NoHandleToExtracted
<1>3. TypeOK'
  BY DEF IInv, TypeOK, pool, queues, weakmap, collection, ephemerons
<1>4. CountsExact'
  <2> SUFFICES ASSUME NEW t \in live
               PROVE  root_count'[t] = held'[t] + Cardinality(InBoxes(t)) + Cardinality(InValues(t))
    BY DEF CountsExact, pool, collection, InBoxes, InValues, ephemerons
  <2>1. /\ root_count[t] = held[t] + Cardinality(InBoxes(t)) + Cardinality(InValues(t))
        /\ t \in Slot /\ held[t] \in Nat /\ root_count[t] \in Nat
    BY <1>1 DEF IInv, CountsExact, TypeOK
  <2> QED BY <2>1, HoldersFinite DEF IInv, TypeOK
<1>5. HandlesIntact'
  BY <1>1 DEF IInv, HandlesIntact, Open, TypeOK, pool, ephemerons, collection
<1>6. \A t \in droppables : root_count'[t] = 0
  BY <1>2 DEF IInv, Extracted, TypeOK
<1> QED BY <1>3, <1>4, <1>5, <1>6, HandleStep DEF ephemerons

\* A handle that moves into a value is still counted.
LEMMA StoreInv ==
  ASSUME IInv, NEW p \in Slot, NEW s \in Slot, Store(p, s)
  PROVE  IInv'
<1> USE DEF Store
<1>1. Open /\ p \in live
  BY RunningOpen DEF IInv
<1>2. s \in live /\ s \notin fields[p]
  BY <1>1 DEF IInv, HandlesIntact
<1>3. TypeOK'
  BY DEF IInv, TypeOK, pool, queues, weakmap, collection, ephemerons
<1>4. CountsExact'
  <2> SUFFICES ASSUME NEW t \in live
               PROVE  root_count'[t] = held'[t] + Cardinality(InBoxes(t)') + Cardinality(InValues(t)')
    BY DEF CountsExact, pool, collection
  <2>1. /\ root_count[t] = held[t] + Cardinality(InBoxes(t)) + Cardinality(InValues(t))
        /\ t \in Slot /\ held[t] \in Nat
    BY <1>1 DEF IInv, CountsExact, TypeOK
  <2>2. InValues(t)' = InValues(t)
    BY DEF InValues, pool, ephemerons
  <2>3. CASE t = s
    <3>1. InBoxes(s)' = InBoxes(s) \cup {p} /\ p \notin InBoxes(s)
      BY <1>1, <1>2 DEF InBoxes, pool, IInv, TypeOK
    <3>2. Cardinality(InBoxes(s) \cup {p}) = Cardinality(InBoxes(s)) + 1
      BY <3>1, HoldersFinite, OneMore DEF IInv
    <3>3. held'[s] = held[s] - 1
      BY DEF IInv, TypeOK
    <3> QED BY <2>1, <2>2, <2>3, <3>1, <3>2, <3>3, HoldersFinite DEF IInv, TypeOK
  <2>4. CASE t # s
    <3>1. InBoxes(t)' = InBoxes(t)
      BY <2>4 DEF InBoxes, pool, IInv, TypeOK
    <3> QED BY <2>1, <2>2, <2>4, <3>1 DEF IInv, TypeOK
  <2> QED BY <2>3, <2>4
<1>5. HandlesIntact'
  BY <1>1, <1>2 DEF IInv, HandlesIntact, Open, TypeOK, pool, ephemerons, collection
<1>6. \A t \in droppables : root_count'[t] = 0
  BY DEF IInv, Extracted
<1> QED BY <1>3, <1>4, <1>5, <1>6, HandleStep DEF ephemerons

\* A dropped handle of a value is counted out.
LEMMA ClearInv ==
  ASSUME IInv, NEW p \in Slot, NEW s \in Slot, Clear(p, s)
  PROVE  IInv'
<1> USE DEF Clear
<1>1. Open /\ p \in live
  BY RunningOpen DEF IInv
<1>2. s \in live /\ s \notin droppables
  BY <1>1, NoHandleToExtracted DEF IInv, HandlesIntact
<1>3. TypeOK'
  BY DEF IInv, TypeOK, Dec, pool, queues, weakmap, collection, ephemerons, client
<1>4. CountsExact'
  <2> SUFFICES ASSUME NEW t \in live
               PROVE  root_count'[t] = held[t] + Cardinality(InBoxes(t)') + Cardinality(InValues(t)')
    BY DEF CountsExact, pool, collection, client
  <2>1. /\ root_count[t] = held[t] + Cardinality(InBoxes(t)) + Cardinality(InValues(t))
        /\ t \in Slot /\ held[t] \in Nat /\ root_count[t] \in Nat
    BY <1>1 DEF IInv, CountsExact, TypeOK
  <2>2. InValues(t)' = InValues(t)
    BY DEF InValues, pool, ephemerons
  <2>3. CASE t = s
    <3>1. InBoxes(s)' = InBoxes(s) \ {p} /\ p \in InBoxes(s)
      BY <1>1, <1>2 DEF InBoxes, pool, IInv, TypeOK
    <3>2. Cardinality(InBoxes(s) \ {p}) = Cardinality(InBoxes(s)) - 1
      BY <3>1, HoldersFinite, OneLess DEF IInv
    <3>3. Cardinality(InBoxes(s)) # 0
      BY <3>1, HoldersFinite, FS_EmptySet DEF IInv
    <3>4. root_count'[s] = root_count[s] - 1
      BY <2>1, <2>3, <3>3, HoldersFinite DEF IInv, Dec
    <3> QED BY <2>1, <2>2, <2>3, <3>1, <3>2, <3>4, HoldersFinite DEF IInv, TypeOK
  <2>4. CASE t # s
    <3>1. InBoxes(t)' = InBoxes(t)
      BY <2>4 DEF InBoxes, pool, IInv, TypeOK
    <3> QED BY <2>1, <2>2, <2>4, <3>1 DEF Dec
  <2> QED BY <2>3, <2>4
<1>5. HandlesIntact'
  BY <1>1, <1>2 DEF IInv, HandlesIntact, Open, TypeOK, pool, ephemerons, collection, client
<1>6. \A t \in droppables : root_count'[t] = 0
  BY <1>2 DEF IInv, Extracted, TypeOK, Dec
<1> QED BY <1>3, <1>4, <1>5, <1>6, HandleStep DEF ephemerons

-----------------------------------------------------------------------------
(* The client's allocations and its weak map.                              *)

\* What an allocation may change without disturbing the phase of the collection.
LEMMA PhaseStep ==
  ASSUME PhaseInv, Open,
         UNCHANGED <<phase, unvisited, droppables, eph_dead, current, trace_color>>,
         wraps' = {},
         is_collecting => UNCHANGED <<root_queue, ephemeron_queue>>,
         phase = "boxes" /\ current # None => color'[current] = color[current],
         ~is_collecting => pending_root_queue' = {} /\ pending_ephemeron_queue' = {}
  PROVE  PhaseInv'
BY DEF PhaseInv, is_collecting, Open, IsReachable

\* A new box joins one queue, with one handle to it; its slot has no other.
LEMMA AllocBoxInv ==
  ASSUME IInv, CautiousClient, NEW s \in Slot,
         NEW wrapped \in {{}} \cup {{t} : t \in Slot}, AllocBox(s, wrapped)
  PROVE  IInv'
<1> USE DEF AllocBox, CountNew, NewColor, Flip
<1>1. Open /\ wrapped = {} /\ s \notin live
  BY RunningOpen DEF IInv, CautiousClient
<1>2. \A t \in live : t \in Slot /\ t # s
  BY <1>1 DEF IInv, TypeOK
<1>3. s \notin root_queue \cup pending_root_queue \cup droppables
  BY <1>1 DEF IInv, QueuesExact
<1>4. held' = [t \in Slot |-> IF t = s THEN 1 ELSE held[t]]
  BY <1>1
<1>5. TypeOK'
  <2>1. collect_needed' \in BOOLEAN
    BY ZenonT(20) DEF IInv, TypeOK
  <2> HIDE DEF AllocBox
  <2>2. /\ live' = live \cup {s} /\ wraps' = wraps \ {s}
        /\ color' = [color EXCEPT ![s] = NewColor]
        /\ root_count' = [root_count EXCEPT ![s] = 1] /\ fields' = [fields EXCEPT ![s] = {}]
        /\ misses' = [misses EXCEPT ![s] = 0]
        /\ root_queue' \in {root_queue, root_queue \cup {s}}
        /\ pending_root_queue' \in {pending_root_queue, pending_root_queue \cup {s}}
        /\ UNCHANGED <<eph_live, ephemerons, ephemeron_queue, pending_ephemeron_queue,
                       weakmap, collection, weaks>>
    BY <1>1 DEF AllocBox
  <2>3. NewColor \in TraceColor
    BY DEF TraceColor
  <2> HIDE DEF NewColor
  <2> QED BY <1>4, <2>1, <2>2, <2>3 DEF IInv, TypeOK, collection, weakmap, ephemerons
<1>6. PhaseInv'
  <2>1. UNCHANGED <<phase, unvisited, droppables, eph_dead, current, trace_color, eph_live,
                    ephemeron_queue, pending_ephemeron_queue>>
    BY DEF collection
  <2>2. wraps' = {}
    BY <1>1 DEF IInv, PhaseInv
  <2>3. is_collecting => UNCHANGED <<root_queue, ephemeron_queue>>
    OBVIOUS
  <2>4. phase = "boxes" /\ current # None => color'[current] = color[current]
    <3>1. phase = "boxes" /\ current # None => current \in live
      BY <1>1 DEF IInv, PhaseInv, QueuesExact
    <3> QED BY <1>2, <3>1 DEF IInv, TypeOK
  <2>5. ~is_collecting => pending_root_queue' = {} /\ pending_ephemeron_queue' = {}
    BY DEF IInv, PhaseInv
  <2>6. PhaseInv
    BY DEF IInv
  <2> HIDE DEF AllocBox, CountNew, NewColor, Flip
  <2> QED BY <1>1, <2>1, <2>2, <2>3, <2>4, <2>5, <2>6, PhaseStep
<1>7. QueuesExact' /\ pending_root_queue' \cap droppables' = {}
      /\ pending_ephemeron_queue' \cap eph_dead' = {}
  BY <1>1, <1>3 DEF IInv, QueuesExact, Open, collection, is_collecting
<1>8. CountsExact'
  <2> SUFFICES ASSUME NEW t \in live'
               PROVE  root_count'[t] = held'[t] + Cardinality(InBoxes(t)') + Cardinality(InValues(t)')
    BY DEF CountsExact
  <2>1. InValues(t)' = InValues(t)
    BY DEF InValues, ephemerons
  <2>2. InBoxes(t)' = InBoxes(t)
    BY <1>1, <1>2 DEF InBoxes, IInv, TypeOK
  <2>3. CASE t = s
    <3>1. InBoxes(s) = {} /\ InValues(s) = {}
      BY <1>1 DEF InBoxes, InValues, IInv, HandlesIntact
    <3> QED BY <1>4, <2>1, <2>2, <2>3, <3>1, FS_EmptySet DEF IInv, TypeOK
  <2>4. CASE t # s
    <3>1. t \in live /\ t \in Slot
      BY <2>4, <1>2
    <3> QED BY <1>1, <1>4, <2>1, <2>2, <2>4, <3>1 DEF IInv, CountsExact, TypeOK
  <2> QED BY <2>3, <2>4
<1>9. HandlesIntact'
  BY <1>1, <1>2, <1>4 DEF IInv, HandlesIntact, Open, TypeOK, ephemerons
<1>10. Extracted'
  BY <1>1, <1>3 DEF IInv, Extracted, QueuesExact, IsReachable, TypeOK, collection
<1>11. KeysIntact' /\ MapExact'
  BY <1>1 DEF IInv, KeysIntact, MapExact, Open, collection, weakmap, ephemerons
<1>12. KeyInv'
  <2>1. \A k \in live : Kept(k) => Kept(k)'
    BY <1>1, <1>2 DEF Kept, IsReachable, IInv, TypeOK, collection
  <2>2. \A k \in live : IsReachable(k) => IsReachable(k)'
    BY <1>1, <1>2 DEF IsReachable, IInv, TypeOK, collection
  <2>3. \A e \in pending_ephemeron_queue \cup ephemeron_queue : eph_key[e] \in live \cup {None}
    BY <1>1 DEF IInv, QueuesExact, KeysIntact
  <2>4. map_state = "alive" => \A k \in Slot : map[k] # None => k \in live
    BY <1>1 DEF IInv, MapExact
  <2>5. UNCHANGED <<phase, unvisited, eph_dead, eph_key, ephemeron_queue,
                    pending_ephemeron_queue, map, map_state>>
    BY DEF collection, weakmap, ephemerons
  <2>6. \A e \in pending_ephemeron_queue' : eph_key'[e] # None /\ Kept(eph_key[e])'
    BY <2>1, <2>3, <2>5 DEF IInv, KeyInv, Kept, IsReachable
  <2>7. phase' \in {"ephemerons", "free_ephemerons", "free_boxes"} =>
          \A e \in ephemeron_queue' \ unvisited' : KeyReachable(e)'
    BY <2>2, <2>3, <2>5 DEF IInv, KeyInv, KeyReachable, IsReachable
  <2>8. is_collecting' /\ map_state' = "alive" =>
          \A k \in Slot : map'[k] # None => map'[k] \notin eph_dead' /\ Kept(k)'
    BY <2>1, <2>4, <2>5 DEF IInv, KeyInv, is_collecting
  <2>9. \A e \in ephemeron_queue' : eph_key'[e] \notin pending_root_queue'
    BY <1>1, <2>3, <2>5, SlotsDistinct DEF IInv, KeyInv
  <2> QED BY <2>6, <2>7, <2>8, <2>9 DEF KeyInv, Kept, IsReachable
<1> QED BY <1>5, <1>6, <1>7, <1>8, <1>9, <1>10, <1>11, <1>12 DEF IInv

\* What alloc_ephemeron_node leaves true, whether the handle goes to a WeakGc or
\* to a map.
LEMMA AllocEphemeronFacts ==
  ASSUME IInv, CautiousClient, NEW e \in Eph, NEW k \in Slot,
         NEW value \in {{}} \cup {{s} : s \in Slot}, AllocEphemeron(e, k, value),
         weaks' \in SUBSET Eph, map' \in [Slot -> Eph \cup {None}]
  PROVE  /\ TypeOK' /\ PhaseInv' /\ QueuesExact' /\ pending_root_queue' \cap droppables' = {}
         /\ pending_ephemeron_queue' \cap eph_dead' = {}
         /\ CountsExact' /\ HandlesIntact' /\ Extracted' /\ KeysIntact'
         /\ \A d \in ephemeron_queue' : eph_key'[d] \notin pending_root_queue'
         /\ \A d \in pending_ephemeron_queue' : eph_key'[d] # None /\ Kept(eph_key'[d])
         /\ phase' \in {"ephemerons", "free_ephemerons", "free_boxes"} =>
              \A d \in ephemeron_queue' \ unvisited' : KeyReachable(d)'
         /\ is_collecting => Kept(k)
         /\ Open /\ e \notin eph_live /\ k \in live
         /\ eph_live' = eph_live \cup {e} /\ eph_key' = [eph_key EXCEPT ![e] = k]
<1> USE DEF AllocEphemeron, NewEphemeron
<1>1. Open /\ e \notin eph_live /\ k \in live
  BY RunningOpen DEF IInv, HandlesIntact
<1>2. e \notin ephemeron_queue \cup pending_ephemeron_queue \cup eph_dead
  BY <1>1 DEF IInv, QueuesExact
<1>3. value \subseteq live /\ value \in SUBSET Slot /\ k # None
  BY <1>1, SlotsDistinct DEF IInv, HandlesIntact
<1>4. TypeOK'
  <2>1. collect_needed' \in BOOLEAN
    BY ZenonT(20) DEF IInv, TypeOK
  <2>2. /\ ephemeron_queue' \in SUBSET Eph /\ pending_ephemeron_queue' \in SUBSET Eph
        /\ eph_live' \in SUBSET Eph /\ held' \in [Slot -> Nat]
    BY DEF IInv, TypeOK
  <2>3. eph_key' \in [Eph -> Slot \cup {None}] /\ eph_value' \in [Eph -> SUBSET Slot]
    BY <1>3 DEF IInv, TypeOK
  <2>4. UNCHANGED <<live, boxes, root_queue, pending_root_queue, collection, map_state, misses>>
    OBVIOUS
  <2> HIDE DEF AllocEphemeron
  <2> QED BY <2>1, <2>2, <2>3, <2>4 DEF IInv, TypeOK, boxes, collection
<1>5. PhaseInv'
  <2>1. UNCHANGED <<phase, unvisited, droppables, eph_dead, current, trace_color, color, wraps,
                    live, root_queue, pending_root_queue>>
    BY DEF collection, boxes
  <2>2. is_collecting => UNCHANGED <<root_queue, ephemeron_queue>>
    OBVIOUS
  <2>3. ~is_collecting => pending_root_queue' = {} /\ pending_ephemeron_queue' = {}
    BY DEF IInv, PhaseInv
  <2>4. PhaseInv /\ wraps' = {}
    BY DEF IInv, PhaseInv, boxes
  <2> HIDE DEF AllocEphemeron, NewEphemeron
  <2> QED BY <1>1, <2>1, <2>2, <2>3, <2>4, PhaseStep
<1>6. QueuesExact' /\ pending_root_queue' \cap droppables' = {}
      /\ pending_ephemeron_queue' \cap eph_dead' = {}
  BY <1>1, <1>2 DEF IInv, QueuesExact, Open, collection, is_collecting
<1>7. CountsExact'
  <2> SUFFICES ASSUME NEW t \in live
               PROVE  root_count[t] = held'[t] + Cardinality(InBoxes(t)') + Cardinality(InValues(t)')
    BY DEF CountsExact, boxes
  <2>1. /\ root_count[t] = held[t] + Cardinality(InBoxes(t)) + Cardinality(InValues(t))
        /\ t \in Slot /\ held[t] \in Nat
    BY <1>1 DEF IInv, CountsExact, TypeOK
  <2>2. InBoxes(t)' = InBoxes(t)
    BY DEF InBoxes, boxes
  <2>3. CASE t \in value
    <3>1. InValues(t)' = InValues(t) \cup {e} /\ e \notin InValues(t)
      BY <1>1, <2>3 DEF InValues, IInv, TypeOK
    <3>2. Cardinality(InValues(t) \cup {e}) = Cardinality(InValues(t)) + 1
      BY <3>1, HoldersFinite, OneMore DEF IInv
    <3>3. held'[t] = held[t] - 1 /\ held[t] > 0
      BY <2>1, <2>3
    <3> QED BY <2>1, <2>2, <3>1, <3>2, <3>3, HoldersFinite DEF IInv
  <2>4. CASE t \notin value
    <3>1. InValues(t)' = InValues(t)
      BY <1>1, <2>4 DEF InValues, IInv, TypeOK
    <3> QED BY <2>1, <2>2, <2>4, <3>1
  <2> QED BY <2>3, <2>4
<1>8. HandlesIntact'
  BY <1>1, <1>3 DEF IInv, HandlesIntact, Open, TypeOK, boxes, collection
<1>9. Extracted' /\ KeysIntact'
  BY <1>1, <1>2 DEF IInv, Extracted, KeysIntact, Open, IsReachable, TypeOK, boxes, collection
<1>10. is_collecting => Kept(k)
  BY DEF CautiousClient, Kept
<1>11. \A d \in pending_ephemeron_queue' : eph_key'[d] # None /\ Kept(eph_key'[d])
  <2>1. pending_ephemeron_queue' \subseteq
          pending_ephemeron_queue \cup (IF is_collecting THEN {e} ELSE {})
    OBVIOUS
  <2>2. \A d \in pending_ephemeron_queue : eph_key'[d] = eph_key[d]
    BY <1>2 DEF IInv, TypeOK
  <2>3. eph_key'[e] = k
    BY DEF IInv, TypeOK
  <2> QED BY <1>3, <1>10, <2>1, <2>2, <2>3 DEF IInv, KeyInv
<1>12. phase' \in {"ephemerons", "free_ephemerons", "free_boxes"} =>
         \A d \in ephemeron_queue' \ unvisited' : KeyReachable(d)'
  <2> SUFFICES ASSUME phase \in {"ephemerons", "free_ephemerons", "free_boxes"},
                      NEW d \in ephemeron_queue \ unvisited
               PROVE  KeyReachable(d)'
    BY DEF collection, is_collecting
  <2>1. KeyReachable(d) /\ eph_key'[d] = eph_key[d]
    BY <1>2 DEF IInv, KeyInv, TypeOK
  <2> QED BY <2>1 DEF KeyReachable, IsReachable, boxes, collection
<1>13. \A d \in ephemeron_queue' : eph_key'[d] \notin pending_root_queue'
  <2>1. ~is_collecting => pending_root_queue' = {}
    BY DEF IInv, PhaseInv
  <2>2. \A d \in ephemeron_queue : eph_key'[d] \notin pending_root_queue
    BY <1>2 DEF IInv, KeyInv, TypeOK
  <2> QED BY <2>1, <2>2
<1> QED BY <1>1, <1>4, <1>5, <1>6, <1>7, <1>8, <1>9, <1>10, <1>11, <1>12, <1>13

\* What Kept says of the step's key survives the step.
LEMMA AllocEphemeronInv ==
  ASSUME IInv, CautiousClient, NEW e \in Eph, NEW k \in Slot,
         NEW value \in {{}} \cup {{s} : s \in Slot}, NewWeak(e, k) \/ Insert(e, k, value)
  PROVE  IInv'
<1>1. PICK v \in {{}, value} :
        /\ AllocEphemeron(e, k, v)
        /\ weaks' \in SUBSET Eph
        /\ map' = map \/ (map' = [map EXCEPT ![k] = e])
  BY DEF NewWeak, Insert, WithEntry, IInv, TypeOK
<1>2. map' \in [Slot -> Eph \cup {None}]
  BY <1>1 DEF IInv, TypeOK
<1>3. v \in {{}} \cup {{s} : s \in Slot}
  BY <1>1
<1>4. /\ UNCHANGED <<color, trace_color, pending_root_queue, phase, map_state, eph_dead>>
      /\ \A s \in Slot : Kept(s)' <=> Kept(s)
  BY <1>1 DEF AllocEphemeron, boxes, collection, Kept, IsReachable
<1>5. /\ TypeOK' /\ PhaseInv' /\ QueuesExact' /\ pending_root_queue' \cap droppables' = {}
      /\ pending_ephemeron_queue' \cap eph_dead' = {}
      /\ CountsExact' /\ HandlesIntact' /\ Extracted' /\ KeysIntact'
      /\ \A d \in ephemeron_queue' : eph_key'[d] \notin pending_root_queue'
      /\ \A d \in pending_ephemeron_queue' : eph_key'[d] # None /\ Kept(eph_key'[d])
      /\ phase' \in {"ephemerons", "free_ephemerons", "free_boxes"} =>
           \A d \in ephemeron_queue' \ unvisited' : KeyReachable(d)'
      /\ is_collecting => Kept(k)
      /\ Open /\ e \notin eph_live /\ k \in live
      /\ eph_live' = eph_live \cup {e} /\ eph_key' = [eph_key EXCEPT ![e] = k]
  BY <1>1, <1>2, <1>3, AllocEphemeronFacts
<1>6. live' = live
  BY <1>1 DEF AllocEphemeron
<1>7. MapExact'
  BY <1>1, <1>4, <1>5, <1>6 DEF IInv, MapExact, TypeOK, Open
<1>8. KeyInv'
  <2>1. \A d \in pending_ephemeron_queue' : eph_key'[d] # None /\ Kept(eph_key[d])'
    BY <1>4, <1>5 DEF Kept, IsReachable
  <2>2. is_collecting' /\ map_state' = "alive" =>
          \A s \in Slot : map'[s] # None => map'[s] \notin eph_dead' /\ Kept(s)'
    <3> SUFFICES ASSUME is_collecting, map_state = "alive", NEW s \in Slot, map'[s] # None
                 PROVE  map'[s] \notin eph_dead /\ Kept(s)
      BY <1>4 DEF is_collecting
    <3>1. e \notin eph_dead
      BY <1>5 DEF IInv, QueuesExact
    <3> QED BY <1>1, <1>5, <3>1 DEF IInv, KeyInv, TypeOK
  <2> QED BY <1>5, <2>1, <2>2 DEF KeyInv, Kept, IsReachable
<1> QED BY <1>5, <1>7, <1>8 DEF IInv

\* Losing a map entry, a map or a WeakGc takes nothing from the collector.
LEMMA ForgetInv ==
  ASSUME IInv, \/ \E k \in Slot : MapRemove(k)
               \/ DropMap
               \/ \E e \in Eph : DropWeak(e)
  PROVE  IInv'
<1>1. UNCHANGED <<pool, boxes, ephemerons, queues, collection, held>>
  BY DEF MapRemove, DropMap, DropWeak, client
<1>2. /\ map' \in [Slot -> Eph \cup {None}] /\ map_state' \in {map_state, "dropped"}
      /\ \A k \in Slot : map'[k] \in {map[k], None}
  BY DEF MapRemove, DropMap, DropWeak, weakmap, IInv, TypeOK
<1>3. TypeOK'
  BY <1>1, <1>2 DEF MapRemove, DropMap, DropWeak, IInv, TypeOK, pool, boxes, ephemerons, queues,
     collection, weakmap, client
<1> USE <1>1 DEF IInv, pool, boxes, ephemerons, queues, collection
<1>4. PhaseInv' /\ QueuesExact' /\ HandlesIntact' /\ KeysIntact' /\ Extracted'
  BY DEF PhaseInv, QueuesExact, HandlesIntact, KeysIntact, Extracted, is_collecting, Open,
     IsReachable
<1>5. CountsExact'
  BY DEF CountsExact, Open, InBoxes, InValues
<1>6. MapExact'
  BY <1>2 DEF MapExact, Open
<1>7. KeyInv'
  BY <1>2 DEF KeyInv, Kept, KeyReachable, IsReachable, is_collecting
<1> QED BY <1>3, <1>4, <1>5, <1>6, <1>7
-----------------------------------------------------------------------------
(* The collection.                                                         *)

\* Marking takes no handle, and leaves in the map only entries whose key it marked.
LEMMA CollectInv ==
  ASSUME IInv, Collect
  PROVE  IInv'
<1> DEFINE S == MarkRoots \cup TracedValues(Traced(MarkRoots))
<1>1. Open /\ current = None /\ droppables = {} /\ eph_dead = {}
      /\ pending_root_queue = {} /\ pending_ephemeron_queue = {} /\ wraps = {}
  BY DEF Collect, IInv, PhaseInv, is_collecting, Open
<1>2. S \in SUBSET Slot
  <2>1. MarkRoots \subseteq Slot /\ ephemeron_queue \subseteq Eph
    BY DEF MarkRoots, IInv, TypeOK
  <2>2. \A e \in ephemeron_queue : eph_value[e] \subseteq Slot
    BY <2>1 DEF IInv, TypeOK
  <2> QED BY <2>1, <2>2 DEF TracedValues
<1>3. color' = Traced(S) /\ color' \in [Slot -> TraceColor]
  <2>1. color' = Traced(S)
    BY DEF Collect, MarkPhase
  <2> QED BY <1>2, <2>1, TracedType DEF IInv
<1>4. /\ UNCHANGED <<live, eph_live, root_count, fields, wraps, eph_key, eph_value, root_queue,
                     pending_root_queue, ephemeron_queue, pending_ephemeron_queue,
                     droppables, eph_dead, current, trace_color, held, weaks>>
      /\ phase' = "boxes" /\ unvisited' = root_queue
      /\ collect_needed' \in BOOLEAN
  BY DEF Collect, pool, ephemerons, queues, client, IInv, TypeOK
<1>5. /\ map' \in [Slot -> Eph \cup {None}] /\ map_state' \in {map_state, "reclaimed"}
      /\ map_state' = "alive" =>
           /\ map_state = "alive"
           /\ \A k \in Slot : map'[k] # None =>
                map'[k] = map[k] /\ eph_key[map[k]] # None /\ color'[eph_key[map[k]]] = trace_color
  BY DEF Collect, PruneMaps, Pruned, ReachedKey, HasValue, IInv, TypeOK
<1>6. TypeOK'
  <2>1. misses' \in [Slot -> Nat]
    BY DEF Collect, IInv, TypeOK
  <2> QED BY <1>3, <1>4, <1>5, <2>1 DEF IInv, TypeOK
<1>7. PhaseInv'
  BY <1>1, <1>4 DEF PhaseInv, is_collecting, Open
<1>8. QueuesExact' /\ CountsExact' /\ HandlesIntact' /\ KeysIntact'
  BY <1>1, <1>4 DEF IInv, QueuesExact, CountsExact, HandlesIntact, KeysIntact, Open, InBoxes,
     InValues
<1>9. Extracted'
  BY <1>1, <1>4 DEF Extracted
<1>10. MapExact'
  BY <1>1, <1>4, <1>5 DEF IInv, MapExact, Open
<1>11. KeyInv'
  <2>1. map_state' = "alive" => \A k \in Slot : map'[k] # None => IsReachable(k)'
    BY <1>1, <1>4, <1>5 DEF IInv, MapExact, IsReachable
  <2> QED BY <1>1, <1>4, <2>1 DEF KeyInv, Kept, IsReachable
<1> QED BY <1>1, <1>4, <1>6, <1>7, <1>8, <1>9, <1>10, <1>11 DEF IInv

\* The steps of the sweep leave the client's handles and its weak map alone.
LEMMA FinalizeBoxInv ==
  ASSUME IInv, NEW s \in Slot, FinalizeBox(s)
  PROVE  IInv'
<1>1. /\ UNCHANGED <<pool, boxes, ephemerons, queues, weakmap, phase, droppables, eph_dead,
                     trace_color, held>>
      /\ phase = "boxes" /\ s \in unvisited /\ unvisited' = unvisited \ {s}
      /\ current' = IF IsReachable(s) THEN None ELSE s
  BY DEF FinalizeBox, CountFinalized, boxes, client, IInv, PhaseInv
<1>2. TypeOK'
  BY <1>1 DEF FinalizeBox, client, IInv, TypeOK, pool, boxes, ephemerons, queues, weakmap
<1> USE <1>1 DEF IInv, pool, boxes, ephemerons, queues, weakmap
<1>3. PhaseInv'
  BY SlotsDistinct DEF PhaseInv, is_collecting, Open, IsReachable
<1>4. QueuesExact' /\ HandlesIntact' /\ KeysIntact' /\ MapExact' /\ CountsExact'
  BY DEF QueuesExact, HandlesIntact, KeysIntact, MapExact, CountsExact, Open, InBoxes, InValues
<1>5. Extracted' /\ KeyInv'
  BY DEF Extracted, KeyInv, Kept, KeyReachable, IsReachable, is_collecting
<1> QED BY <1>2, <1>3, <1>4, <1>5

\* The box that is extracted counts no handle and has not been reached; what is
\* extracted already is not reached by the recheck of another.
LEMMA RecheckInv ==
  ASSUME IInv, NEW s \in Slot, Recheck(s)
  PROVE  IInv'
<1>1. /\ UNCHANGED <<live, eph_live, root_count, fields, wraps, eph_key, eph_value,
                     pending_root_queue, ephemeron_queue, pending_ephemeron_queue, map,
                     map_state, phase, unvisited, eph_dead, trace_color, held>>
      /\ phase = "boxes" /\ current = s /\ current' = None
      /\ color' = IF IsRooted(s) THEN Traced({s}) ELSE color
  BY DEF Recheck, pool, ephemerons, weakmap, client
<1>2. Open /\ s \in root_queue \ unvisited /\ s \in live /\ ~IsReachable(s)
  BY <1>1, SlotsDistinct DEF IInv, PhaseInv, QueuesExact, Open
<1>3. /\ color' \in [Slot -> TraceColor]
      /\ \A k \in Slot : IsReachable(k) => IsReachable(k)'
      /\ IsRooted(s) => IsReachable(s)'
  BY <1>1, TracedType DEF IInv, TypeOK, IsReachable
<1>4. \A t \in droppables : root_count[t] = 0 /\ color'[t] # trace_color
  <2> SUFFICES ASSUME NEW t \in droppables
               PROVE  root_count[t] = 0 /\ color'[t] # trace_color
    OBVIOUS
  <2>1. root_count[t] = 0 /\ color[t] # trace_color /\ t \in Slot /\ t # s
    BY <1>2 DEF IInv, Extracted, IsReachable, QueuesExact, TypeOK
  <2>2. \A p \in live : t \notin fields[p]
    BY <1>2, NoHandleToExtracted
  <2>3. Traced({s})[t] = color[t]
    BY <1>2, <2>1, <2>2, TracedByHandle DEF IInv
  <2> QED BY <1>1, <2>1, <2>3
<1>5. \/ UNCHANGED <<root_queue, droppables>>
      \/ /\ root_queue' = root_queue \ {s} /\ droppables' = droppables \cup {s}
         /\ root_count[s] = 0 /\ color'[s] # trace_color
  <2>1. ~IsRooted(s) => root_count[s] = 0
    BY DEF IsRooted, IInv, TypeOK
  <2> QED BY <1>1, <1>3, <2>1 DEF Recheck, IsReachable
<1>6. TypeOK'
  <2>1. UNCHANGED <<collect_needed, weaks, misses>>
    BY DEF Recheck, client
  <2>2. root_queue' \in SUBSET Slot /\ droppables' \in SUBSET Slot
    BY <1>5 DEF IInv, TypeOK
  <2> QED BY <1>1, <1>3, <2>1, <2>2 DEF IInv, TypeOK
<1>7. PhaseInv'
  BY <1>1, <1>2, <1>5 DEF IInv, PhaseInv, is_collecting, Open
<1>8. QueuesExact' /\ pending_root_queue' \cap droppables' = {}
  BY <1>1, <1>2, <1>5 DEF IInv, QueuesExact, Open
<1>9. CountsExact' /\ HandlesIntact' /\ KeysIntact' /\ MapExact'
  BY <1>1 DEF IInv, CountsExact, HandlesIntact, KeysIntact, MapExact, Open, InBoxes, InValues
<1>10. Extracted'
  BY <1>1, <1>4, <1>5 DEF Extracted, IsReachable
<1>11. KeyInv'
  <2>1. \A k \in Slot : Kept(k) => Kept(k)'
    BY <1>1, <1>3 DEF Kept
  <2>2. \A e \in pending_ephemeron_queue : eph_key[e] \in Slot \cup {None}
    BY DEF IInv, TypeOK
  <2>3. \A e \in pending_ephemeron_queue : eph_key[e] # None /\ Kept(eph_key[e])'
    BY <1>1, <2>1, <2>2, SlotsDistinct DEF IInv, KeyInv, Kept, IsReachable
  <2>4. map_state = "alive" => \A k \in Slot : map[k] # None => map[k] \notin eph_dead /\ Kept(k)'
    BY <1>1, <2>1 DEF IInv, KeyInv, is_collecting
  <2> QED BY <1>1, <2>3, <2>4 DEF IInv, KeyInv, Kept, IsReachable
<1> QED BY <1>1, <1>6, <1>7, <1>8, <1>9, <1>10, <1>11 DEF IInv

\* When the ephemerons' loop is over, every one left in the queue has its key.
LEMMA NextLoopInv ==
  ASSUME IInv, NextLoop
  PROVE  IInv'
<1>1. /\ UNCHANGED <<pool, boxes, ephemerons, queues, weakmap, droppables, eph_dead, current,
                     trace_color, held>>
      /\ current = None
  BY DEF NextLoop, client
<1>2. \/ phase = "boxes" /\ phase' = "ephemerons" /\ unvisited' = ephemeron_queue
      \/ /\ phase = "ephemerons" /\ phase' = "free_ephemerons"
         /\ unvisited = {} /\ unvisited' = {}
      \/ /\ phase = "free_ephemerons" /\ phase' = "free_boxes" /\ UNCHANGED unvisited
         /\ eph_dead = {}
  BY DEF NextLoop
<1>3. TypeOK'
  <2>1. unvisited' \in SUBSET (Slot \cup Eph)
    BY <1>2 DEF IInv, TypeOK
  <2> QED BY <1>1, <1>2, <2>1 DEF NextLoop, client, IInv, TypeOK, pool, boxes, ephemerons,
           queues, weakmap
<1> USE <1>1, <1>2 DEF IInv, pool, boxes, ephemerons, queues, weakmap
<1>4. PhaseInv'
  BY DEF PhaseInv, is_collecting, Open
<1>5. QueuesExact' /\ HandlesIntact' /\ KeysIntact' /\ MapExact' /\ CountsExact'
  BY DEF QueuesExact, HandlesIntact, KeysIntact, MapExact, CountsExact, Open, InBoxes, InValues
<1>6. Extracted' /\ KeyInv'
  BY DEF Extracted, KeyInv, Kept, KeyReachable, IsReachable, is_collecting
<1> QED BY <1>3, <1>4, <1>5, <1>6

\* The ephemeron that goes is no map entry's: their keys were reached.
LEMMA FinalizeEphemeronInv ==
  ASSUME IInv, NEW e \in Eph, FinalizeEphemeron(e)
  PROVE  IInv'
<1>1. /\ UNCHANGED <<live, eph_live, color, root_count, fields, wraps, eph_value, root_queue,
                     pending_root_queue, pending_ephemeron_queue, map, map_state, phase,
                     droppables, trace_color, held>>
      /\ phase = "ephemerons" /\ current = None /\ e \in unvisited
      /\ unvisited' = unvisited \ {e}
  BY DEF FinalizeEphemeron, pool, boxes, weakmap, client
<1>2. Open /\ e \in ephemeron_queue /\ e \in eph_live /\ e \notin pending_ephemeron_queue
      /\ e \notin eph_dead
  BY <1>1 DEF IInv, PhaseInv, QueuesExact, Open
<1>3. CASE KeyReachable(e)
  <2>1. UNCHANGED <<eph_key, ephemeron_queue, eph_dead, current>>
    BY <1>3 DEF FinalizeEphemeron, KeyLost
  <2>2. TypeOK'
    BY <1>1, <2>1 DEF FinalizeEphemeron, client, IInv, TypeOK
  <2>3. PhaseInv' /\ QueuesExact' /\ HandlesIntact' /\ KeysIntact' /\ MapExact' /\ Extracted'
    BY <1>1, <2>1 DEF IInv, PhaseInv, QueuesExact, HandlesIntact, KeysIntact, MapExact, Extracted,
       is_collecting, Open, IsReachable
  <2>4. CountsExact'
    BY <1>1, <2>1 DEF IInv, CountsExact, Open, InBoxes, InValues
  <2>5. KeyInv'
    BY <1>1, <1>3, <2>1 DEF IInv, KeyInv, Kept, KeyReachable, IsReachable, is_collecting
  <2> QED BY <1>1, <2>1, <2>2, <2>3, <2>4, <2>5 DEF IInv
<1>4. CASE ~KeyReachable(e)
  <2>1. /\ eph_key' = [eph_key EXCEPT ![e] = None]
        /\ ephemeron_queue' = ephemeron_queue \ {e}
        /\ eph_dead' = eph_dead \cup {e} /\ current' = e
    BY <1>4 DEF FinalizeEphemeron, KeyLost, KeyTaken
  <2>2. map_state = "alive" => \A k \in Slot : map[k] # e
    <3> SUFFICES ASSUME map_state = "alive", NEW k \in Slot, map[k] = e
                 PROVE  FALSE
      OBVIOUS
    <3>1. eph_key[e] = k /\ k # None /\ e # None
      BY <1>2, SlotsDistinct DEF IInv, MapExact
    <3>2. Kept(k)
      BY <1>1, <3>1 DEF IInv, KeyInv, is_collecting
    <3>3. k \notin pending_root_queue
      BY <1>2, <3>1 DEF IInv, KeyInv
    <3> QED BY <1>4, <3>1, <3>2, <3>3 DEF Kept, KeyReachable
  <2>3. TypeOK'
    BY <1>1, <2>1 DEF FinalizeEphemeron, client, IInv, TypeOK
  <2>4. PhaseInv'
    BY <1>1, <2>1 DEF IInv, PhaseInv, is_collecting, Open
  <2>5. QueuesExact' /\ pending_ephemeron_queue' \cap eph_dead' = {}
    BY <1>1, <1>2, <2>1 DEF IInv, QueuesExact, Open
  <2>6. CountsExact' /\ HandlesIntact' /\ Extracted'
    BY <1>1 DEF IInv, CountsExact, HandlesIntact, Extracted, IsReachable, Open, InBoxes, InValues
  <2>7. \A d \in Eph : eph_key'[d] = IF d = e THEN None ELSE eph_key[d]
    BY <2>1 DEF IInv, TypeOK
  <2>8. KeysIntact'
    BY <1>1, <2>7 DEF IInv, KeysIntact, Open, TypeOK
  <2>9. MapExact'
    BY <1>1, <2>2, <2>7 DEF IInv, MapExact, Open, TypeOK
  <2>10. KeyInv'
    <3>1. \A d \in ephemeron_queue' \cup pending_ephemeron_queue :
            d # e /\ d \in Eph /\ eph_key'[d] = eph_key[d]
      BY <1>2, <2>1, <2>7 DEF IInv, TypeOK
    <3>2. \A d \in ephemeron_queue' : eph_key'[d] \notin pending_root_queue
      BY <2>1, <3>1 DEF IInv, KeyInv
    <3>3. \A d \in pending_ephemeron_queue : eph_key'[d] # None /\ Kept(eph_key'[d])
      BY <3>1 DEF IInv, KeyInv
    <3>4. \A d \in ephemeron_queue' \ unvisited' : eph_key'[d] # None /\ IsReachable(eph_key'[d])
      BY <1>1, <2>1, <3>1 DEF IInv, KeyInv, KeyReachable
    <3>5. map_state = "alive" =>
            \A k \in Slot : map[k] # None => map[k] \notin eph_dead' /\ Kept(k)
      BY <1>1, <2>1, <2>2 DEF IInv, KeyInv, is_collecting
    <3> QED BY <1>1, <3>2, <3>3, <3>4, <3>5 DEF KeyInv, Kept, KeyReachable, IsReachable
  <2> QED BY <1>1, <2>3, <2>4, <2>5, <2>6, <2>8, <2>9, <2>10 DEF IInv
<1> QED BY <1>3, <1>4

\* The drops start where the finalizers ended; no box that was extracted has been
\* rooted since.
LEMMA DropStartsInv ==
  ASSUME IInv, \/ \E e \in Eph : DropEphemeron(e)
               \/ \E s \in Slot : DropBox(s)
  PROVE  IInv'
<1>1. \A s \in droppables : ~SavedByHandle(s)
  BY DEF SavedByHandle, IsRooted, IInv, Extracted
<1>2. /\ UNCHANGED <<pool, boxes, ephemerons, queues, weakmap, phase, unvisited, droppables,
                     eph_dead, trace_color, held>>
      /\ \/ phase = "free_ephemerons" /\ current' \in eph_dead
         \/ phase = "free_boxes" /\ current' \in droppables
  BY <1>1 DEF DropEphemeron, DropBox, client, queues
<1>3. TypeOK'
  <2>1. UNCHANGED <<collect_needed, weaks, misses>>
    BY DEF DropEphemeron, DropBox, client
  <2> QED BY <1>2, <2>1 DEF IInv, TypeOK, pool, boxes, ephemerons, queues, weakmap
<1> USE <1>2 DEF IInv, pool, boxes, ephemerons, queues, weakmap
<1>4. PhaseInv'
  BY DEF PhaseInv, is_collecting, Open
<1>5. QueuesExact' /\ HandlesIntact' /\ KeysIntact' /\ MapExact' /\ CountsExact'
  BY DEF QueuesExact, HandlesIntact, KeysIntact, MapExact, CountsExact, Open, InBoxes, InValues
<1>6. Extracted' /\ KeyInv'
  BY DEF Extracted, KeyInv, Kept, KeyReachable, IsReachable, is_collecting
<1> QED BY <1>3, <1>4, <1>5, <1>6
\* The drop of an ephemeron takes the handles in its value and leaves the map alone:
\* none of its entries is for an ephemeron that was extracted.
LEMMA ReturnEphemeronInv ==
  ASSUME IInv, Return, phase = "free_ephemerons"
  PROVE  IInv'
<1> DEFINE e == current
<1>1. /\ UNCHANGED <<live, color, fields, wraps, eph_key, root_queue, pending_root_queue,
                     ephemeron_queue, pending_ephemeron_queue, map, map_state, phase, unvisited,
                     droppables, trace_color, held>>
      /\ current' = None /\ e # None
      /\ eph_live' = eph_live \ {e} /\ eph_dead' = eph_dead \ {e}
      /\ root_count' = Dec(root_count, eph_value[e])
      /\ eph_value' = [eph_value EXCEPT ![e] = {}]
  BY DEF Return, DropEphemeronValue, boxes, queues, weakmap, client
<1>2. Open /\ e \in eph_dead /\ e \in eph_live /\ e \in Eph
      /\ e \notin ephemeron_queue /\ e \notin pending_ephemeron_queue
  BY <1>1 DEF IInv, PhaseInv, QueuesExact, Open, TypeOK
<1>3. TypeOK'
  <2>1. UNCHANGED <<collect_needed, weaks, misses>>
    BY DEF Return, client
  <2>2. root_count' \in [Slot -> Nat] /\ eph_value' \in [Eph -> SUBSET Slot]
    <3>1. root_count' \in [Slot -> Nat]
      BY <1>1 DEF IInv, TypeOK, Dec
    <3> QED BY <1>1, <3>1 DEF IInv, TypeOK
  <2>3. eph_live' \in SUBSET Eph /\ eph_dead' \in SUBSET Eph
    BY <1>1 DEF IInv, TypeOK
  <2> HIDE DEF e
  <2> QED BY <1>1, <2>1, <2>2, <2>3 DEF IInv, TypeOK
<1>4. PhaseInv'
  BY <1>1 DEF IInv, PhaseInv, is_collecting, Open
<1>5. QueuesExact' /\ pending_ephemeron_queue' \cap eph_dead' = {}
  BY <1>1, <1>2 DEF IInv, QueuesExact, Open
<1>6. CountsExact'
  <2> SUFFICES ASSUME NEW t \in live
               PROVE  root_count'[t] = held[t] + Cardinality(InBoxes(t)') + Cardinality(InValues(t)')
    BY <1>1 DEF CountsExact
  <2>1. /\ root_count[t] = held[t] + Cardinality(InBoxes(t)) + Cardinality(InValues(t))
        /\ t \in Slot /\ held[t] \in Nat /\ root_count[t] \in Nat
    BY <1>2 DEF IInv, CountsExact, TypeOK
  <2>2. InBoxes(t)' = InBoxes(t)
    BY <1>1 DEF InBoxes
  <2>3. InValues(t)' = InValues(t) \ {e}
    BY <1>1, <1>2 DEF InValues, IInv, TypeOK
  <2>4. CASE t \in eph_value[e]
    <3>1. e \in InValues(t)
      BY <1>2, <2>4 DEF InValues
    <3>2. Cardinality(InValues(t) \ {e}) = Cardinality(InValues(t)) - 1
      BY <3>1, HoldersFinite, OneLess DEF IInv
    <3>3. Cardinality(InValues(t)) # 0
      BY <3>1, HoldersFinite, FS_EmptySet DEF IInv
    <3>4. root_count'[t] = root_count[t] - 1
      BY <1>1, <2>1, <2>4, <3>3, HoldersFinite DEF IInv, Dec
    <3> QED BY <2>1, <2>2, <2>3, <3>2, <3>4, HoldersFinite DEF IInv
  <2>5. CASE t \notin eph_value[e]
    <3>1. InValues(t)' = InValues(t)
      BY <2>3, <2>5 DEF InValues
    <3> QED BY <1>1, <2>1, <2>2, <2>5, <3>1 DEF Dec
  <2> QED BY <2>4, <2>5
<1>7. HandlesIntact' /\ KeysIntact'
  BY <1>1, <1>2 DEF IInv, HandlesIntact, KeysIntact, Open, TypeOK
<1>8. Extracted'
  BY <1>1 DEF IInv, Extracted, IsReachable, Dec, TypeOK
<1>9. MapExact'
  BY <1>1, <1>2 DEF IInv, MapExact, KeyInv, Open, is_collecting
<1>10. KeyInv'
  BY <1>1 DEF IInv, KeyInv, Kept, KeyReachable, IsReachable, is_collecting
<1> QED BY <1>1, <1>3, <1>4, <1>5, <1>6, <1>7, <1>8, <1>9, <1>10 DEF IInv

\* The drop of a box takes the handles in it; the slot is no handle's, no key's and
\* no map entry's.
LEMMA ReturnBoxInv ==
  ASSUME IInv, Return, phase = "free_boxes"
  PROVE  IInv'
<1> DEFINE s == current
<1>1. /\ UNCHANGED <<eph_live, color, eph_value, wraps, eph_key, root_queue, pending_root_queue,
                     ephemeron_queue, pending_ephemeron_queue, map, map_state, phase, unvisited,
                     eph_dead, trace_color, held>>
      /\ current' = None /\ s # None
      /\ live' = live \ {s} /\ droppables' = droppables \ {s}
      /\ root_count' = Dec(root_count, fields[s])
      /\ fields' = [fields EXCEPT ![s] = {}]
  BY DEF Return, DropBoxValue, queues, weakmap, client
<1>2. Open /\ s \in droppables /\ s \in Slot /\ unvisited = {} /\ eph_dead = {}
      /\ s \notin root_queue /\ s \notin pending_root_queue /\ ~IsReachable(s)
  BY <1>1 DEF IInv, PhaseInv, QueuesExact, Extracted, Open, TypeOK
<1>3. /\ s \in live /\ held[s] = 0
      /\ \A p \in live : s \notin fields[p]
      /\ \A e \in eph_live : s \notin eph_value[e]
  BY <1>2, NoHandleToExtracted
<1>4. ~Kept(s)
  BY <1>2 DEF Kept
<1>5. TypeOK'
  <2>1. UNCHANGED <<collect_needed, weaks, misses>>
    BY DEF Return, client
  <2>2. root_count' \in [Slot -> Nat] /\ fields' \in [Slot -> SUBSET Slot]
    <3>1. root_count' \in [Slot -> Nat]
      BY <1>1 DEF IInv, TypeOK, Dec
    <3> QED BY <1>1, <3>1 DEF IInv, TypeOK
  <2>3. live' \in SUBSET Slot /\ droppables' \in SUBSET Slot
    BY <1>1 DEF IInv, TypeOK
  <2> HIDE DEF s
  <2> QED BY <1>1, <2>1, <2>2, <2>3 DEF IInv, TypeOK
<1>6. PhaseInv'
  BY <1>1 DEF IInv, PhaseInv, is_collecting, Open
<1>7. QueuesExact' /\ pending_root_queue' \cap droppables' = {}
  BY <1>1, <1>2 DEF IInv, QueuesExact, Open
<1>8. CountsExact'
  <2> SUFFICES ASSUME NEW t \in live, t # s
               PROVE  root_count'[t] = held[t] + Cardinality(InBoxes(t)') + Cardinality(InValues(t)')
    BY <1>1 DEF CountsExact
  <2>1. /\ root_count[t] = held[t] + Cardinality(InBoxes(t)) + Cardinality(InValues(t))
        /\ t \in Slot /\ held[t] \in Nat /\ root_count[t] \in Nat
    BY <1>2 DEF IInv, CountsExact, TypeOK
  <2>2. InValues(t)' = InValues(t)
    BY <1>1 DEF InValues
  <2>3. InBoxes(t)' = InBoxes(t) \ {s}
    BY <1>1, <1>2 DEF InBoxes, IInv, TypeOK
  <2>4. CASE t \in fields[s]
    <3>1. s \in InBoxes(t)
      BY <1>3, <2>4 DEF InBoxes
    <3>2. Cardinality(InBoxes(t) \ {s}) = Cardinality(InBoxes(t)) - 1
      BY <3>1, HoldersFinite, OneLess DEF IInv
    <3>3. Cardinality(InBoxes(t)) # 0
      BY <3>1, HoldersFinite, FS_EmptySet DEF IInv
    <3>4. root_count'[t] = root_count[t] - 1
      BY <1>1, <2>1, <2>4, <3>3, HoldersFinite DEF IInv, Dec
    <3> QED BY <2>1, <2>2, <2>3, <3>2, <3>4, HoldersFinite DEF IInv
  <2>5. CASE t \notin fields[s]
    <3>1. InBoxes(t)' = InBoxes(t)
      BY <2>3, <2>5 DEF InBoxes
    <3> QED BY <1>1, <2>1, <2>2, <2>5, <3>1 DEF Dec
  <2> QED BY <2>4, <2>5
<1>9. HandlesIntact'
  BY <1>1, <1>2, <1>3 DEF IInv, HandlesIntact, Open, TypeOK
<1>10. Extracted'
  BY <1>1 DEF IInv, Extracted, IsReachable, Dec, TypeOK
<1>11. KeysIntact'
  <2> SUFFICES ASSUME NEW e \in eph_live
               PROVE  eph_key[e] \in (live \ {s}) \cup {None}
    BY <1>1 DEF KeysIntact
  <2>1. eph_key[e] \in live \cup {None}
    BY <1>2 DEF IInv, KeysIntact
  <2>2. e \in ephemeron_queue \/ e \in pending_ephemeron_queue
    BY <1>2 DEF IInv, QueuesExact
  <2>3. Kept(eph_key[e])
    BY <1>2, <2>2 DEF IInv, KeyInv, Kept, KeyReachable
  <2> QED BY <1>4, <2>1, <2>3
<1>12. MapExact'
  <2> SUFFICES ASSUME map_state = "alive", NEW k \in Slot, map[k] # None
               PROVE  k # s
    BY <1>1, <1>2 DEF IInv, MapExact
  <2>1. Kept(k)
    BY DEF IInv, KeyInv, is_collecting
  <2> QED BY <1>4, <2>1
<1>13. KeyInv'
  BY <1>1 DEF IInv, KeyInv, Kept, KeyReachable, IsReachable, is_collecting
<1> QED BY <1>1, <1>5, <1>6, <1>7, <1>8, <1>9, <1>10, <1>11, <1>12, <1>13 DEF IInv

\* The step after the client's code, in each phase that calls it.
LEMMA ReturnInv ==
  ASSUME IInv, Return
  PROVE  IInv'
<1>1. CASE phase = "ephemerons"
  <2>1. /\ UNCHANGED <<pool, boxes, ephemerons, queues, weakmap, phase, unvisited, droppables,
                       eph_dead, trace_color, held>>
        /\ current' = None
    BY <1>1 DEF Return, boxes, ephemerons, client
  <2>2. TypeOK'
    <3>1. UNCHANGED <<collect_needed, weaks, misses>>
      BY DEF Return, client
    <3> QED BY <2>1, <3>1 DEF IInv, TypeOK, pool, boxes, ephemerons, queues, weakmap
  <2> USE <1>1, <2>1 DEF IInv, pool, boxes, ephemerons, queues, weakmap
  <2>3. PhaseInv'
    BY DEF PhaseInv, is_collecting, Open
  <2>4. QueuesExact' /\ HandlesIntact' /\ KeysIntact' /\ MapExact' /\ CountsExact'
    BY DEF QueuesExact, HandlesIntact, KeysIntact, MapExact, CountsExact, Open, InBoxes, InValues
  <2>5. Extracted' /\ KeyInv'
    BY DEF Extracted, KeyInv, Kept, KeyReachable, IsReachable, is_collecting
  <2> QED BY <2>2, <2>3, <2>4, <2>5
<1> QED BY <1>1, ReturnEphemeronInv, ReturnBoxInv DEF Return

\* What was allocated meanwhile joins the queues when the colours turn.
LEMMA FinishInv ==
  ASSUME IInv, Finish
  PROVE  IInv'
<1>1. /\ UNCHANGED <<pool, boxes, ephemerons, weakmap, unvisited, droppables, eph_dead,
                     current, held, weaks, collect_needed, misses>>
      /\ phase = "free_boxes" /\ current = None /\ droppables = {}
      /\ phase' = "idle" /\ trace_color' = Flip(trace_color)
      /\ root_queue' = root_queue \cup pending_root_queue
      /\ ephemeron_queue' = ephemeron_queue \cup pending_ephemeron_queue
      /\ pending_root_queue' = {} /\ pending_ephemeron_queue' = {}
  BY DEF Finish, Flipped, JoinedPending, client
<1> USE <1>1 DEF IInv, pool, boxes, ephemerons, weakmap
<1>2. TypeOK'
  BY DEF TypeOK, TraceColor, Flip
<1>3. PhaseInv'
  BY DEF PhaseInv, is_collecting, Open
<1>4. QueuesExact'
  BY DEF QueuesExact, PhaseInv, Open
<1>5. HandlesIntact' /\ KeysIntact' /\ MapExact' /\ CountsExact'
  BY DEF HandlesIntact, KeysIntact, MapExact, CountsExact, Open, InBoxes, InValues
<1>6. Extracted' /\ KeyInv'
  BY DEF Extracted, KeyInv, is_collecting
<1> QED BY <1>2, <1>3, <1>4, <1>5, <1>6

\* After the collector there are neither boxes nor ephemerons.
LEMMA DropCollectorInv ==
  ASSUME IInv, DropCollector
  PROVE  IInv'
<1>1. /\ UNCHANGED <<color, root_count, wraps, eph_key, pending_root_queue,
                     pending_ephemeron_queue, unvisited, droppables, eph_dead, current,
                     trace_color, held, weaks, collect_needed, misses>>
      /\ phase = "idle" /\ phase' \in {"leaked", "dropped"}
      /\ live' = {} /\ eph_live' = {} /\ root_queue' = {} /\ ephemeron_queue' = {}
      /\ fields' = [t \in Slot |-> {}] /\ eph_value' = [e \in Eph |-> {}]
  BY DEF DropCollector, SweepAllQueues, client
<1>2. map' \in [Slot -> Eph \cup {None}] /\ map_state' \in {"alive", "dropped", "reclaimed"}
  BY DEF DropCollector, ReclaimDeadWeakMaps, weakmap, IInv, TypeOK
<1>3. pending_root_queue = {} /\ pending_ephemeron_queue = {} /\ droppables = {} /\ eph_dead = {}
      /\ current = None /\ unvisited = {} /\ wraps = {}
  BY <1>1 DEF IInv, PhaseInv, is_collecting
<1>4. TypeOK'
  BY <1>1, <1>2 DEF IInv, TypeOK
<1> USE <1>1, <1>3
<1>5. PhaseInv' /\ QueuesExact' /\ Extracted' /\ KeyInv'
  BY DEF PhaseInv, QueuesExact, Extracted, KeyInv, is_collecting, Open
<1>6. CountsExact' /\ HandlesIntact' /\ KeysIntact' /\ MapExact'
  BY DEF CountsExact, HandlesIntact, KeysIntact, MapExact, Open
<1> QED BY <1>4, <1>5, <1>6 DEF IInv

\* A step that changes nothing keeps the invariant.
LEMMA StutterInv ==
  ASSUME IInv, UNCHANGED vars
  PROVE  IInv'
<1>1. TypeOK'
  BY DEF IInv, TypeOK, vars, pool, boxes, ephemerons, queues, weakmap, collection, client
<1> USE DEF IInv, vars, pool, boxes, ephemerons, queues, weakmap, collection, client
<1>2. PhaseInv' /\ QueuesExact' /\ HandlesIntact' /\ KeysIntact' /\ MapExact' /\ CountsExact'
  BY DEF PhaseInv, QueuesExact, HandlesIntact, KeysIntact, MapExact, CountsExact, Open, InBoxes,
     InValues, is_collecting, IsReachable
<1>3. Extracted' /\ KeyInv'
  BY DEF Extracted, KeyInv, Kept, KeyReachable, IsReachable, is_collecting
<1> QED BY <1>1, <1>2, <1>3

-----------------------------------------------------------------------------
(* The theorems.                                                           *)

\* No step of a cautious client, nor of a collection that runs its code, leaves the
\* invariant.
LEMMA NextInv ==
  ASSUME IInv, CautiousClient, [Next]_vars
  PROVE  IInv'
<1>1. CASE Client
  <2>1. CASE \E s \in Slot : \E wrapped \in {{}} \cup {{t} : t \in Slot} : AllocBox(s, wrapped)
    BY <2>1, AllocBoxInv
  <2>2. CASE \E s \in Slot : Clone(s) \/ DropHandle(s)
    BY <2>2, CloneInv, DropHandleInv
  <2>3. CASE \E p \in Slot, s \in Slot : Store(p, s) \/ Clear(p, s)
    BY <2>3, StoreInv, ClearInv
  <2>4. CASE \E e \in Eph, k \in Slot : NewWeak(e, k)
    BY <2>4, AllocEphemeronInv
  <2>5. CASE \E e \in Eph, k \in Slot : \E value \in {{}} \cup {{s} : s \in Slot} :
               Insert(e, k, value)
    BY <2>5, AllocEphemeronInv
  <2>6. CASE (\E k \in Slot : MapRemove(k)) \/ DropMap
    BY <2>6, ForgetInv
  <2>7. CASE \E k \in Slot, s \in Slot : Get(k, s)
    BY <2>7, GetInv
  <2>8. CASE \E e \in Eph : Upgrade(e) \/ DropWeak(e)
    BY <2>8, UpgradeInv, ForgetInv
  <2>9. CASE Collect \/ DropCollector
    BY <2>9, CollectInv, DropCollectorInv
  <2> QED BY <1>1, <2>1, <2>2, <2>3, <2>4, <2>5, <2>6, <2>7, <2>8, <2>9 DEF Client
<1>2. CASE Collector
  BY <1>2, FinalizeBoxInv, RecheckInv, DropStartsInv, FinalizeEphemeronInv, NextLoopInv,
     ReturnInv, FinishInv DEF Collector
<1> QED BY <1>1, <1>2, StutterInv DEF Next

\* IInv holds of every state such a client can reach.
THEOREM Invariant ==
  ASSUME CautiousClient
  PROVE  Spec => []IInv
<1>1. IInv /\ [Next]_vars => IInv'
  BY NextInv
<1> QED BY <1>1, InitInv, PTL DEF Spec

\* The types (TypeOK): counts never go below zero, the queues hold slots of their kind.
THEOREM MarkSweepTypes ==
  ASSUME CautiousClient
  PROVE  Spec => []TypeOK
<1>1. IInv => TypeOK
  BY DEF IInv
<1> QED BY <1>1, Invariant, PTL

\* CountsExact: in every state, in the middle of a collection too, root_count is the
\* number of Gc handles to the box, wherever they are (gc.rs, gc_box.rs).
THEOREM CountsAreExact ==
  ASSUME CautiousClient
  PROVE  Spec => []CountsExact
<1>1. IInv => CountsExact
  BY DEF IInv
<1> QED BY <1>1, Invariant, PTL

\* HandlesIntact: no sweep and no drop of a value frees a box that a Gc points to.
THEOREM NoDanglingGc ==
  ASSUME CautiousClient
  PROVE  Spec => []HandlesIntact
<1>1. IInv => HandlesIntact
  BY DEF IInv
<1> QED BY <1>1, Invariant, PTL

\* QueuesExact: every box and ephemeron is in exactly one queue, whatever the
\* finalizers and drops allocate.
THEOREM NothingLost ==
  ASSUME CautiousClient
  PROVE  Spec => []QueuesExact
<1>1. IInv => QueuesExact
  BY DEF IInv
<1> QED BY <1>1, Invariant, PTL

\* KeysIntact: WeakGc::upgrade and the sweep never read a freed box through a key.
THEOREM NoDanglingKey ==
  ASSUME CautiousClient
  PROVE  Spec => []KeysIntact
<1>1. IInv => KeysIntact
  BY DEF IInv
<1> QED BY <1>1, Invariant, PTL

\* MapExact: an entry of the weak map is for the very box at its address.
THEOREM NoStaleEntry ==
  ASSUME CautiousClient
  PROVE  Spec => []MapExact
<1>1. IInv => MapExact
  BY DEF IInv
<1> QED BY <1>1, Invariant, PTL

\* NoDropUnderHandle: when the collector drops its values, no handle is left; the
\* counts of the boxes in the root queue tell.
THEOREM DropSeesAllHandles ==
  ASSUME CautiousClient
  PROVE  Spec => []NoDropUnderHandle
<1>1. Init => NoDropUnderHandle
  BY DEF Init, NoDropUnderHandle
<1>2. IInv /\ NoDropUnderHandle /\ [Next]_vars => NoDropUnderHandle'
  <2> SUFFICES ASSUME IInv, NoDropUnderHandle, [Next]_vars, phase' = "dropped"
               PROVE  \A s \in Slot : held'[s] = 0
    BY DEF NoDropUnderHandle
  <2>1. CASE UNCHANGED vars
    BY <2>1 DEF NoDropUnderHandle, vars, collection, client
  <2>2. CASE Next /\ phase = "dropped"
    <3>1. current = None
      BY <2>2 DEF IInv, PhaseInv, is_collecting
    <3> QED BY <2>2, <3>1 DEF Next, Client, Collector, AllocBox, Clone, DropHandle, Store, Clear,
            NewWeak, Insert, AllocEphemeron, MapRemove, Get, DropMap, Upgrade, DropWeak, Collect,
            DropCollector, FinalizeBox, Recheck, DropBox, FinalizeEphemeron, DropEphemeron,
            NextLoop, Return, Finish, Running, CautiousClient, NoDropUnderHandle, client
  <2>3. CASE Next /\ phase # "dropped"
    <3>1. DropCollector
      BY <2>3 DEF Next, Client, Collector, AllocBox, Clone, DropHandle, Store, Clear,
         NewWeak, Insert, AllocEphemeron, MapRemove, Get, DropMap, Upgrade, DropWeak, Collect,
         FinalizeBox, Recheck, DropBox, FinalizeEphemeron, DropEphemeron,
         NextLoop, Return, Finish, collection
    <3>2. Open /\ ~HasRooted /\ live = root_queue /\ held' = held
      BY <3>1 DEF DropCollector, IInv, PhaseInv, QueuesExact, Open, is_collecting, client
    <3>3. \A s \in live : root_count[s] = 0
      BY <3>2 DEF HasRooted, IsRooted, IInv, TypeOK
    <3>4. \A s \in live : held[s] = 0
      BY <3>2, <3>3, CountZero DEF IInv
    <3> QED BY <3>2, <3>4 DEF IInv, HandlesIntact, TypeOK
  <2> QED BY <2>1, <2>2, <2>3
<1> QED BY <1>1, <1>2, Invariant, PTL DEF Spec

-----------------------------------------------------------------------------
(* Garbage.  A box that has lost its last handle stays unmarked, and a     *)
(* collection leaves in the queue only what it marked.                     *)

\* Between collections a box has been missed once at most, and then its colour is
\* not the next collection's; during one, twice, and what is missed twice is
\* unmarked.
MissInv ==
  /\ \A s \in live : /\ misses[s] <= IF is_collecting THEN 2 ELSE 1
                     /\ misses[s] > 0 => root_count[s] = 0
  /\ \A s \in pending_root_queue : misses[s] = 0
  /\ phase = "idle" => \A s \in live : misses[s] > 0 => ~IsReachable(s)
  /\ is_collecting =>
       /\ \A s \in root_queue :
            IsReachable(s) \/ (phase = "boxes" /\ s \in unvisited \cup {current})
       /\ \A s \in live : misses[s] = 2 => ~IsReachable(s)

\* A step outside the collector's own work that gives no first handle to a box.
LEMMA MissKept ==
  ASSUME MissInv, UNCHANGED <<live, color, root_queue, pending_root_queue, collection, misses>>,
         \A s \in live : root_count[s] = 0 => root_count'[s] = 0
  PROVE  MissInv'
BY DEF MissInv, collection, is_collecting, IsReachable

\* What the client does with the handles it has.
LEMMA ClientMiss ==
  ASSUME IInv, MissInv, CautiousClient,
         \/ \E s \in Slot : Clone(s) \/ DropHandle(s)
         \/ \E p \in Slot, s \in Slot : Store(p, s) \/ Clear(p, s)
         \/ \E e \in Eph, k \in Slot : NewWeak(e, k)
         \/ \E e \in Eph, k \in Slot : \E value \in {{}} \cup {{s} : s \in Slot} :
              Insert(e, k, value)
         \/ \E k \in Slot : MapRemove(k)
         \/ \E k \in Slot, s \in Slot : Get(k, s)
         \/ DropMap
         \/ \E e \in Eph : DropWeak(e)
  PROVE  MissInv'
<1>1. UNCHANGED <<live, color, root_queue, pending_root_queue, collection, misses>>
  BY DEF Clone, DropHandle, Store, Clear, NewWeak, Insert, AllocEphemeron, MapRemove, Get, DropMap,
     DropWeak, pool, boxes, queues
<1>2. Open
  BY RunningOpen DEF IInv, Clone, DropHandle, Store, Clear, NewWeak, Insert, AllocEphemeron, MapRemove,
     Get, DropMap, DropWeak
<1>3. SUFFICES ASSUME NEW t \in live, root_count[t] = 0
               PROVE  root_count'[t] = 0
  BY <1>1, MissKept
<1>4. /\ t \in Slot /\ held[t] = 0
      /\ \A p \in live : t \notin fields[p]
      /\ \A e \in eph_live : t \notin eph_value[e]
  BY <1>2, <1>3, CountZero DEF IInv, TypeOK
<1>5. CASE \E s \in Slot : Clone(s)
  <2>1. PICK s \in Slot : Clone(s)
    BY <1>5
  <2>2. current \in Eph => current \in eph_live
    BY <1>2, CurrentValue DEF IInv
  <2>3. t # s
    BY <1>4, <2>1, <2>2 DEF Clone, InReach
  <2> QED BY <1>3, <2>1, <2>3 DEF Clone, Inc, IInv, TypeOK
<1>6. CASE \E k \in Slot, s \in Slot : Get(k, s)
  <2>1. PICK k \in Slot, s \in Slot : Get(k, s)
    BY <1>6
  <2>2. map[k] \in eph_live /\ s \in eph_value[map[k]]
    BY <1>2, <2>1 DEF Get, IInv, MapExact
  <2> QED BY <1>3, <1>4, <2>1, <2>2 DEF Get, Inc, IInv, TypeOK
<1>7. CASE \E s \in Slot : DropHandle(s) \/ \E p \in Slot : Clear(p, s)
  BY <1>3, <1>4, <1>7 DEF DropHandle, Clear, Dec
<1>8. CASE root_count' = root_count
  BY <1>3, <1>8
<1> QED BY <1>5, <1>6, <1>7, <1>8 DEF Store, NewWeak, Insert, AllocEphemeron, MapRemove, DropMap,
        DropWeak, boxes

\* A new box and one that is upgraded to start afresh.
LEMMA FreshMiss ==
  ASSUME IInv, MissInv, CautiousClient,
         \/ \E s \in Slot : \E wrapped \in {{}} \cup {{t} : t \in Slot} : AllocBox(s, wrapped)
         \/ \E e \in Eph : Upgrade(e)
  PROVE  MissInv'
<1>1. CASE \E s \in Slot : \E wrapped \in {{}} \cup {{t} : t \in Slot} : AllocBox(s, wrapped)
  <2>1. PICK s \in Slot : \E wrapped \in {{}} \cup {{t} : t \in Slot} : AllocBox(s, wrapped)
    BY <1>1
  <2>2. /\ s \notin live /\ live' = live \cup {s} /\ misses' = [misses EXCEPT ![s] = 0]
        /\ color' = [color EXCEPT ![s] = NewColor] /\ root_count' = [root_count EXCEPT ![s] = 1]
        /\ UNCHANGED collection
        /\ IF is_collecting
           THEN pending_root_queue' = pending_root_queue \cup {s} /\ root_queue' = root_queue
           ELSE root_queue' = root_queue \cup {s} /\ pending_root_queue' = pending_root_queue
    BY <2>1 DEF AllocBox, CountNew
  <2>3. Open
    BY <2>1, RunningOpen DEF AllocBox, IInv
  <2>4. /\ \A t \in live : t \in Slot /\ t # s
        /\ root_queue \subseteq live /\ pending_root_queue \subseteq live
    BY <2>2, <2>3 DEF IInv, TypeOK, QueuesExact
  <2>5. /\ misses'[s] = 0 /\ color'[s] = NewColor
        /\ \A t \in live : /\ misses'[t] = misses[t] /\ color'[t] = color[t]
                           /\ root_count'[t] = root_count[t]
    BY <2>2, <2>4 DEF IInv, TypeOK
  <2> QED BY <2>2, <2>4, <2>5 DEF MissInv, collection, is_collecting, IsReachable
<1>2. CASE \E e \in Eph : Upgrade(e)
  <2>1. PICK e \in Eph : Upgrade(e)
    BY <1>2
  <2>2. PICK s \in Slot \cup {None} : s = eph_key[e]
    BY <2>1 DEF IInv, TypeOK
  <2>3. /\ phase = "idle" /\ s \in Slot
        /\ misses' = [misses EXCEPT ![s] = 0] /\ root_count' = [root_count EXCEPT ![s] = @ + 1]
        /\ UNCHANGED <<live, color, root_queue, pending_root_queue, collection>>
    BY <2>1, <2>2 DEF Upgrade, Inc, CautiousClient, IInv, PhaseInv, is_collecting, pool, queues
  <2>4. /\ misses'[s] = 0
        /\ \A t \in Slot : t # s => misses'[t] = misses[t] /\ root_count'[t] = root_count[t]
    BY <2>3 DEF IInv, TypeOK
  <2>5. live \subseteq Slot /\ pending_root_queue \subseteq Slot
    BY DEF IInv, TypeOK
  <2> QED BY <2>3, <2>4, <2>5 DEF MissInv, collection, is_collecting, IsReachable
<1> QED BY <1>1, <1>2

\* The mark reaches only what has a handle, or has the trace colour already: not what
\* a collection before has missed.
LEMMA CollectMiss ==
  ASSUME IInv, MissInv, Collect
  PROVE  MissInv'
<1> DEFINE S == MarkRoots \cup TracedValues(Traced(MarkRoots))
<1>1. Open /\ pending_root_queue = {} /\ ~is_collecting
  BY DEF Collect, IInv, PhaseInv, is_collecting, Open
<1>2. /\ UNCHANGED <<live, root_count, root_queue, pending_root_queue, trace_color>>
      /\ phase = "idle" /\ phase' = "boxes" /\ unvisited' = root_queue
      /\ color' = Traced(S)
      /\ misses' = [s \in Slot |-> IF s \in live /\ ~IsRooted(s) THEN misses[s] + 1 ELSE 0]
  BY DEF Collect, MarkPhase, pool, queues
<1>3. S \in SUBSET live
  <2>1. MarkRoots \subseteq live
    BY <1>1 DEF MarkRoots, IInv, QueuesExact
  <2>2. \A e \in ephemeron_queue : eph_value[e] \subseteq live
    BY <1>1 DEF IInv, QueuesExact, HandlesIntact
  <2> QED BY <2>1, <2>2 DEF TracedValues
<1>4. live \subseteq Slot /\ \A s \in live : misses[s] \in 0 .. 1 /\ root_count[s] \in Nat
  BY <1>1 DEF IInv, TypeOK, MissInv
<1>5. is_collecting'
  BY <1>2 DEF is_collecting
<1>6. \A s \in live : misses'[s] <= 2 /\ (misses'[s] > 0 => root_count'[s] = 0)
  BY <1>2, <1>4 DEF IsRooted
<1>7. \A s \in live : misses'[s] = 2 => ~IsReachable(s)'
  <2> SUFFICES ASSUME NEW s \in live, misses'[s] = 2
               PROVE  color'[s] # trace_color
    BY <1>2 DEF IsReachable
  <2>1. misses[s] = 1 /\ s \in Slot
    BY <1>2, <1>4
  <2>2. root_count[s] = 0 /\ color[s] # trace_color
    BY <1>2, <2>1 DEF MissInv, IsReachable
  <2>3. /\ \A p \in live : s \notin fields[p]
        /\ \A e \in eph_live : s \notin eph_value[e]
    BY <1>1, <2>2, CountZero DEF IInv
  <2>4. s \notin S
    <3>1. s \notin MarkRoots
      BY <2>2 DEF MarkRoots, IsRooted
    <3>2. ephemeron_queue \subseteq eph_live
      BY <1>1 DEF IInv, QueuesExact
    <3> QED BY <2>3, <3>1, <3>2 DEF TracedValues
  <2>5. Traced(S)[s] = color[s]
    BY <1>1, <1>3, <2>1, <2>3, <2>4, TracedByHandle DEF IInv
  <2> QED BY <1>2, <2>2, <2>5
<1> HIDE DEF S
<1> QED BY <1>1, <1>2, <1>5, <1>6, <1>7 DEF MissInv

\* In the boxes' loop a box leaves the queue or has been marked; what gets marked
\* there has a handle.
LEMMA BoxesMiss ==
  ASSUME IInv, MissInv, NEW s \in Slot, FinalizeBox(s) \/ Recheck(s)
  PROVE  MissInv'
<1>1. Open /\ is_collecting
  BY DEF FinalizeBox, Recheck, Open, is_collecting
<1>2. CASE FinalizeBox(s)
  <2>1. UNCHANGED <<live, color, root_queue, pending_root_queue, phase, trace_color, misses>>
    BY <1>2 DEF FinalizeBox, pool, queues
  <2>2. root_count' = root_count
    BY <1>2 DEF FinalizeBox, CountFinalized, IInv, PhaseInv
  <2>3. /\ current = None /\ unvisited' = unvisited \ {s} /\ phase = "boxes"
        /\ IsReachable(s) \/ current' = s
    BY <1>2 DEF FinalizeBox
  <2>4. \A t \in root_queue : t \in Slot /\ t # None
    BY SlotsDistinct DEF IInv, TypeOK
  <2> QED BY <2>1, <2>2, <2>3, <2>4 DEF MissInv, is_collecting, IsReachable
<1>3. CASE Recheck(s)
  <2>1. /\ UNCHANGED <<live, root_count, pending_root_queue, phase, unvisited, trace_color, misses>>
        /\ phase = "boxes" /\ current = s /\ current' = None
        /\ color' = IF IsRooted(s) THEN Traced({s}) ELSE color
        /\ IF color'[s] = trace_color THEN root_queue' = root_queue
                                      ELSE root_queue' = root_queue \ {s}
    BY <1>3 DEF Recheck, pool
  <2>2. s \in live /\ live \subseteq Slot /\ root_queue \subseteq Slot
    BY <1>1, <2>1, SlotsDistinct DEF IInv, PhaseInv, QueuesExact, TypeOK
  <2>3. \A t \in Slot : color[t] = trace_color => color'[t] = trace_color
    BY <2>1, TracedType DEF IInv
  <2>4. \A t \in root_queue' : color'[t] = trace_color \/ t \in unvisited \cup {None}
    BY <2>1, <2>2, <2>3 DEF MissInv, is_collecting, IsReachable
  <2>5. \A t \in live : misses[t] = 2 => color'[t] # trace_color
    <3> SUFFICES ASSUME NEW t \in live, misses[t] = 2
                 PROVE  color'[t] # trace_color
      OBVIOUS
    <3>1. root_count[t] = 0 /\ color[t] # trace_color
      BY <1>1 DEF MissInv, IsReachable
    <3>2. CASE ~IsRooted(s)
      BY <2>1, <3>1, <3>2
    <3>3. CASE IsRooted(s)
      <4>1. t # s /\ \A p \in live : t \notin fields[p]
        BY <1>1, <3>1, <3>3, CountZero DEF IInv, IsRooted
      <4>2. Traced({s})[t] = color[t]
        BY <1>1, <2>2, <4>1, TracedByHandle DEF IInv
      <4> QED BY <2>1, <3>1, <3>3, <4>2
    <3> QED BY <3>2, <3>3
  <2> QED BY <2>1, <2>4, <2>5 DEF MissInv, is_collecting, IsReachable
<1> QED BY <1>2, <1>3

\* No extracted box has a handle, so none comes back to the queue.
LEMMA SweepMiss ==
  ASSUME IInv, MissInv, \/ \E s \in Slot : DropBox(s)
                        \/ \E e \in Eph : FinalizeEphemeron(e) \/ DropEphemeron(e)
                        \/ NextLoop \/ Return
  PROVE  MissInv'
<1>1. \A s \in droppables : ~SavedByHandle(s)
  BY DEF SavedByHandle, IsRooted, IInv, Extracted
<1>2. /\ UNCHANGED <<color, root_queue, pending_root_queue, trace_color, misses>>
      /\ is_collecting /\ is_collecting'
  BY <1>1 DEF DropBox, FinalizeEphemeron, DropEphemeron, NextLoop, Return, boxes, queues,
     is_collecting
<1>3. live' \subseteq live /\ \A s \in live' : root_count[s] = 0 => root_count'[s] = 0
  BY DEF DropBox, FinalizeEphemeron, DropEphemeron, NextLoop, Return, boxes, pool,
     DropEphemeronValue, DropBoxValue, Dec, IInv, TypeOK
<1>4. \A s \in root_queue : IsReachable(s) \/ (phase' = "boxes" /\ s \in unvisited' \cup {current'})
  <2>1. CASE phase = "boxes"
    <3>1. NextLoop /\ unvisited = {} /\ current = None
      BY <2>1 DEF DropBox, FinalizeEphemeron, DropEphemeron, NextLoop, Return
    <3>2. \A s \in root_queue : s # None
      BY SlotsDistinct DEF IInv, TypeOK
    <3> QED BY <1>2, <3>1, <3>2 DEF MissInv
  <2>2. CASE phase # "boxes"
    BY <1>2, <2>2 DEF MissInv
  <2> QED BY <2>1, <2>2
<1> QED BY <1>2, <1>3, <1>4 DEF MissInv, is_collecting, IsReachable

\* At the end every box in the queue is marked, so none of them was missed twice, and
\* the next collection has the other colour.
LEMMA FinishMiss ==
  ASSUME IInv, MissInv, Finish
  PROVE  MissInv'
<1>1. /\ UNCHANGED <<live, root_count, color, misses>>
      /\ phase = "free_boxes" /\ phase' = "idle" /\ droppables = {}
      /\ trace_color' = Flip(trace_color) /\ pending_root_queue' = {}
  BY DEF Finish, Flipped, pool, boxes
<1>2. Open /\ is_collecting /\ ~is_collecting'
  BY <1>1 DEF Open, is_collecting
<1>3. \A s \in live : s \in root_queue \cup pending_root_queue
  BY <1>1, <1>2 DEF IInv, QueuesExact
<1>4. \A s \in root_queue : color[s] = trace_color
  BY <1>1, <1>2 DEF MissInv, IsReachable
<1>5. \A s \in live : misses[s] \in Nat
  BY DEF IInv, TypeOK
<1>6. \A s \in live : misses[s] > 0 => s \in root_queue /\ misses[s] = 1
  BY <1>2, <1>3, <1>4, <1>5 DEF MissInv, IsReachable
<1>7. Flip(trace_color) # trace_color
  BY DEF Flip, IInv, TypeOK, TraceColor
<1>8. \A s \in live : misses[s] <= 1
  BY <1>5, <1>6
<1> QED BY <1>1, <1>2, <1>4, <1>6, <1>7, <1>8 DEF MissInv, IsReachable

\* No step leaves MissInv.
LEMMA NextMiss ==
  ASSUME IInv, MissInv, CautiousClient, [Next]_vars
  PROVE  MissInv'
<1>1. CASE UNCHANGED vars
  BY <1>1, MissKept DEF vars, pool, boxes, queues
<1>2. CASE DropCollector
  <2>1. /\ live' = {} /\ ~is_collecting' /\ phase' # "idle"
        /\ pending_root_queue' = pending_root_queue /\ pending_root_queue = {}
    BY <1>2 DEF DropCollector, SweepAllQueues, is_collecting, IInv, PhaseInv
  <2> QED BY <2>1 DEF MissInv
<1>3. CASE Client /\ ~DropCollector
  BY <1>3, ClientMiss, FreshMiss, CollectMiss DEF Client
<1>4. CASE Collector
  BY <1>4, BoxesMiss, SweepMiss, FinishMiss DEF Collector
<1> QED BY <1>1, <1>2, <1>3, <1>4 DEF Next

\* GarbageGoes: a box without a handle is gone after the second collection that
\* begins without one (collect: the sweep; new_in and the flip of the trace colour:
\* what a collection allocates is not its own garbage).
THEOREM GarbageIsCollected ==
  ASSUME CautiousClient
  PROVE  Spec => []GarbageGoes
<1>1. Init => MissInv
  BY DEF Init, MissInv, is_collecting
<1>2. IInv /\ MissInv /\ [Next]_vars => MissInv'
  BY NextMiss
<1>3. MissInv => GarbageGoes
  BY DEF MissInv, GarbageGoes, is_collecting
<1> QED BY <1>1, <1>2, <1>3, Invariant, PTL DEF Spec

-----------------------------------------------------------------------------
(* The copy of the collector over arenas (MarkSweepArena2).  Its client may*)
(* share boxes between values and bring boxes back from the dead.  A box   *)
(* from which a second drop took the count of a handle that was not its    *)
(* own is `short`; every other box counts its handles, also in the middle  *)
(* of a drop, and what is promised of handles and garbage is of them.      *)

\* The client these theorems are about: it boxes no bare Gc and makes no ephemerons
\* for keys that the running collection did not mark.
PlainClient == ~MayBoxHandles /\ ~MayBindUnmarked

\* The invariant holds of a collector without arenas.
LEMMA ArenaInitInv == ArenaInit => ArenaIInv
<1> SUFFICES ASSUME ArenaInit PROVE ArenaIInv
  OBVIOUS
<1> USE DEF ArenaInit
<1>1. IInv /\ Init
  BY InitInv
<1>2. ArenaTypeOK
  <2>1. arenas \in Seq(SUBSET (Slot \cup Eph))
    BY EmptySeq
  <2> QED BY <1>1, <2>1 DEF IInv, ArenaTypeOK
<1>3. PhaseInv /\ QueuesExact /\ KeyInv /\ MapExact
  BY <1>1 DEF IInv
<1>4. live = {} /\ eph_live = {} /\ phase = "idle" /\ current = None /\ droppables = {}
      /\ pending_root_queue = {} /\ pending_ephemeron_queue = {}
      /\ map = [s \in Slot |-> None] /\ fields = [s \in Slot |-> {}]
      /\ held = [s \in Slot |-> 0]
  BY <1>1 DEF Init
<1>5. SweepInv /\ CountsExactTwice /\ DropInv
  BY <1>4 DEF SweepInv, CountsExactTwice, DropInv
<1>6. HandlesLead /\ EntryInv
  BY <1>4 DEF HandlesLead, Named, Stored, EntryInv
<1>7. ArenasInv /\ MissedInv
  BY <1>4 DEF ArenasInv, MissedInv, Items, EmptyArenasGo
<1> QED BY <1>2, <1>3, <1>5, <1>6, <1>7 DEF ArenaIInv

-----------------------------------------------------------------------------
(* The client's handles, counted twice.                                    *)

\* What is being dropped is a box or an ephemeron that the sweep extracted.
LEMMA Dropping ==
  ASSUME ArenaIInv, current # None
  PROVE  /\ Open /\ is_collecting
         /\ \/ /\ phase = "free_ephemerons" /\ current \in eph_dead /\ current \in eph_live
               /\ current \in Eph /\ current \notin Slot /\ HandlesIn(current) = eph_value[current]
            \/ /\ phase = "free_boxes" /\ current \in droppables /\ current \in live
               /\ current \in Slot /\ HandlesIn(current) = fields[current]
<1>1. Open /\ is_collecting /\ phase \in {"free_ephemerons", "free_boxes"}
  BY DEF ArenaIInv, PhaseInv, SweepInv, ArenaTypeOK, TypeOK, is_collecting, Open
<1>2. CASE phase = "free_ephemerons"
  <2>1. current \in eph_dead /\ current \in eph_live /\ current \in Eph
    BY <1>1, <1>2 DEF ArenaIInv, PhaseInv, QueuesExact, ArenaTypeOK, TypeOK
  <2> QED BY <1>1, <1>2, <2>1, SlotsDistinct DEF HandlesIn
<1>3. CASE phase = "free_boxes"
  <2>1. current \in droppables /\ current \in live /\ current \in Slot
    BY <1>1, <1>3 DEF ArenaIInv, PhaseInv, QueuesExact, ArenaTypeOK, TypeOK
  <2> QED BY <1>1, <1>3, <2>1 DEF HandlesIn
<1> QED BY <1>1, <1>2, <1>3

\* A handle in the value that is being dropped is one in a value.
LEMMA DroppedStored ==
  ASSUME ArenaIInv, current # None, NEW s \in HandlesIn(current)
  PROVE  s \in Slot /\ Stored(s) /\ Named(s)
<1>1. Stored(s)
  BY Dropping DEF Stored
<1>2. s \in Slot
  BY <1>1 DEF Stored, ArenaIInv, ArenaTypeOK, TypeOK
<1> QED BY <1>1, <1>2 DEF Named

\* What the first drop has counted out is still in the value.
LEMMA GoneStored ==
  ASSUME ArenaIInv, NEW s \in gone
  PROVE  s \in HandlesIn(current) /\ current # None /\ again /\ Named(s)
<1>1. again /\ current # None /\ s \in HandlesIn(current)
  BY DEF ArenaIInv, DropInv
<1> QED BY <1>1, DroppedStored

\* The handles in values can be counted.
LEMMA HandlesFinite ==
  ASSUME TypeOK, NEW s
  PROVE  /\ IsFiniteSet(HandlesInBoxes(s)) /\ Cardinality(HandlesInBoxes(s)) \in Nat
         /\ IsFiniteSet(HandlesInValues(s)) /\ Cardinality(HandlesInValues(s)) \in Nat
<1>1. HandlesInBoxes(s) \subseteq Slot /\ HandlesInValues(s) \subseteq Eph
  BY DEF HandlesInBoxes, HandlesInValues, TypeOK
<1>2. IsFiniteSet(HandlesInBoxes(s)) /\ IsFiniteSet(HandlesInValues(s))
  BY <1>1, SlotAssumption, FS_Subset
<1> QED BY <1>2, FS_CardinalityType

\* A box that is not short counts its handles; with a count of 0 it has none but
\* those that are gone, and a box with a handle has not been missed.
LEMMA Counted ==
  ASSUME ArenaIInv, Open, NEW s \in live \ short
  PROVE  /\ s \in Slot /\ held[s] \in Nat /\ root_count[s] \in Nat
         /\ root_count[s] = held[s] + Cardinality(HandlesInBoxes(s))
                                    + Cardinality(HandlesInValues(s))
         /\ root_count[s] = 0 => /\ held[s] = 0
                                 /\ HandlesInBoxes(s) = {} /\ HandlesInValues(s) = {}
         /\ root_count[s] = 0 /\ s \notin gone => ~Named(s)
         /\ Named(s) => misses[s] = 0
<1>0. TypeOK
  BY DEF ArenaIInv, ArenaTypeOK
<1>1. s \in Slot /\ held[s] \in Nat /\ root_count[s] \in Nat /\ misses[s] \in Nat
  BY <1>0 DEF TypeOK
<1>2. root_count[s] = held[s] + Cardinality(HandlesInBoxes(s)) + Cardinality(HandlesInValues(s))
  BY DEF ArenaIInv, CountsExactTwice
<1>3. root_count[s] = 0 => held[s] = 0 /\ HandlesInBoxes(s) = {} /\ HandlesInValues(s) = {}
  <2> SUFFICES ASSUME root_count[s] = 0
               PROVE  held[s] = 0 /\ HandlesInBoxes(s) = {} /\ HandlesInValues(s) = {}
    OBVIOUS
  <2>1. held[s] = 0 /\ Cardinality(HandlesInBoxes(s)) = 0 /\ Cardinality(HandlesInValues(s)) = 0
    BY <1>0, <1>1, <1>2, HandlesFinite
  <2> QED BY <1>0, <2>1, HandlesFinite, FS_EmptySet
<1>4. root_count[s] = 0 /\ s \notin gone => ~Named(s)
  BY <1>3 DEF Named, Stored, HandlesInBoxes, HandlesInValues
<1>5. Named(s) => misses[s] = 0
  <2>1. misses[s] > 0 => root_count[s] = 0 /\ s \notin gone
    BY DEF ArenaIInv, MissedInv, Missed
  <2> QED BY <1>1, <1>4, <2>1
<1> QED BY <1>1, <1>2, <1>3, <1>4, <1>5

\* Once the boxes are being freed, no key is one of those extracted.
LEMMA KeysKept ==
  ASSUME ArenaIInv, phase = "free_boxes", NEW e \in eph_live
  PROVE  eph_key[e] \in live /\ Kept(eph_key[e]) /\ eph_key[e] \notin droppables
<1>1. Open /\ eph_dead = {} /\ unvisited = {}
  BY DEF ArenaIInv, PhaseInv, Open
<1>2. e \in ephemeron_queue \/ e \in pending_ephemeron_queue
  BY <1>1 DEF ArenaIInv, QueuesExact
<1>3. Kept(eph_key[e])
  BY <1>1, <1>2 DEF ArenaIInv, KeyInv, Kept, KeyReachable
<1> QED BY <1>3 DEF ArenaIInv, EntryInv, SweepInv, Kept

\* A box in use that the loop over the boxes does not free.
Spared(s) == s \in live /\ (phase = "free_boxes" => s \notin droppables)

\* A step that only makes, moves and drops handles has the counts to account for,
\* and makes none to a box that is being dropped.
LEMMA ArenaHandleStep ==
  ASSUME ArenaIInv, Open, ArenaTypeOK', CountsExactTwice',
         UNCHANGED <<pool, color, wraps, eph_key, queues, weakmap, collection,
                     active, arenas, removed, stale>>,
         short \subseteq short', again' => current # None,
         gone' # {} => again' /\ gone' \subseteq HandlesIn(current)',
         \A p \in Slot \ live : fields'[p] = {},
         \A s \in Slot \ short' : Named(s)' => Named(s) \/ Spared(s),
         \A s \in live \ short' : /\ misses'[s] \in {0, misses[s]}
                                  /\ misses'[s] > 0 => root_count'[s] = 0 /\ s \notin gone'
  PROVE  ArenaIInv'
<1> USE DEF pool, queues, weakmap, collection
<1>1. PhaseInv' /\ SweepInv'
  BY DEF ArenaIInv, PhaseInv, SweepInv, is_collecting, Open, IsReachable
<1>2. QueuesExact' /\ MapExact' /\ EntryInv'
  BY DEF ArenaIInv, QueuesExact, EntryInv, MapExact, Open
<1>3. KeyInv'
  BY DEF ArenaIInv, KeyInv, Kept, KeyReachable, IsReachable, is_collecting
<1>4. ArenasInv'
  BY DEF ArenaIInv, ArenasInv, Items, Held, EmptyArenasGo
<1>5. HandlesLead'
  BY DEF ArenaIInv, HandlesLead, Spared
<1>6. DropInv'
  <2>1. phase = "free_boxes" /\ current # None /\ current \notin short' => ~Named(current)'
    <3> SUFFICES ASSUME phase = "free_boxes", current # None, current \notin short'
                 PROVE  ~Named(current)'
      OBVIOUS
    <3>1. current \in droppables /\ current \in Slot /\ ~Named(current)
      BY Dropping, SlotsDistinct DEF ArenaIInv, DropInv
    <3>2. PICK c \in Slot : c = current /\ c = current'
      BY <3>1
    <3>3. ~Named(c)'
      BY <3>1, <3>2 DEF Spared
    <3> QED BY <3>2, <3>3
  <2> QED BY <2>1 DEF DropInv
<1>7. MissedInv'
  <2> SUFFICES ASSUME NEW s \in live, s \notin short' PROVE Missed(s)'
    BY DEF MissedInv
  <2>1. /\ Missed(s) /\ misses[s] \in Nat /\ misses'[s] \in {0, misses[s]}
        /\ misses'[s] > 0 => root_count'[s] = 0 /\ s \notin gone'
    BY DEF ArenaIInv, MissedInv, ArenaTypeOK, TypeOK
  <2> QED BY <2>1 DEF Missed, is_collecting, IsReachable
<1> QED BY <1>1, <1>2, <1>3, <1>4, <1>5, <1>6, <1>7 DEF ArenaIInv
\* A handle on the stack is made, to a box that some handle or a key leads to.
LEMMA HandleMade ==
  ASSUME ArenaIInv, Open, NEW s \in Slot, Named(s) \/ Spared(s),
         held' = [held EXCEPT ![s] = held[s] + 1],
         root_count' = [root_count EXCEPT ![s] = root_count[s] + 1],
         misses' \in {misses, [misses EXCEPT ![s] = 0]},
         Named(s) \/ misses' = [misses EXCEPT ![s] = 0],
         UNCHANGED <<pool, color, fields, wraps, ephemerons, collect_needed, queues, weakmap,
                     collection, weaks, arena>>
  PROVE  ArenaIInv'
<1>0. TypeOK
  BY DEF ArenaIInv, ArenaTypeOK
<1>1. ArenaTypeOK'
  <2>1. held' \in [Slot -> Nat] /\ root_count' \in [Slot -> Nat] /\ misses' \in [Slot -> Nat]
    BY <1>0 DEF TypeOK
  <2>2. TypeOK'
    BY <1>0, <2>1 DEF TypeOK, pool, queues, weakmap, collection, ephemerons
  <2> QED BY <2>2 DEF ArenaIInv, ArenaTypeOK, arena
<1>2. UNCHANGED <<live, eph_live, fields, eph_value, current, phase, again, gone, short, droppables>>
  BY DEF pool, ephemerons, collection, arena
<1>3. \A t : Stored(t)' = Stored(t) /\ HandlesInBoxes(t)' = HandlesInBoxes(t)
             /\ HandlesInValues(t)' = HandlesInValues(t)
  BY <1>2 DEF Stored, HandlesInBoxes, HandlesInValues
<1>4. \A t \in Slot : /\ held'[t] = IF t = s THEN held[s] + 1 ELSE held[t]
                      /\ root_count'[t] = IF t = s THEN root_count[s] + 1 ELSE root_count[t]
                      /\ \/ misses'[t] = misses[t]
                         \/ t = s /\ misses'[t] = 0
  BY <1>0 DEF TypeOK
<1>5. CountsExactTwice'
  <2> SUFFICES ASSUME NEW t \in live, t \notin short
               PROVE  root_count'[t] = held'[t] + Cardinality(HandlesInBoxes(t))
                                                + Cardinality(HandlesInValues(t))
    BY <1>2, <1>3 DEF CountsExactTwice
  <2> QED BY <1>0, <1>4, Counted, HandlesFinite
<1>6. \A t \in Slot : Named(t)' => Named(t) \/ Spared(t)
  BY <1>3, <1>4 DEF Named
<1>7. ASSUME NEW t \in live, t \notin short
      PROVE  /\ misses'[t] \in {0, misses[t]}
             /\ misses'[t] > 0 => root_count'[t] = 0 /\ t \notin gone
  <2>1. t \in Slot /\ misses[t] \in Nat /\ Missed(t)
    BY <1>0, <1>7 DEF TypeOK, ArenaIInv, MissedInv
  <2>2. t = s => misses'[t] = 0
    BY <1>0, Counted, <1>4, <1>7 DEF TypeOK
  <2> QED BY <1>4, <2>1, <2>2 DEF Missed
<1>8. /\ again => current # None
      /\ gone # {} => again /\ gone \subseteq HandlesIn(current)'
      /\ \A p \in Slot \ live : fields[p] = {}
  BY <1>2 DEF ArenaIInv, DropInv, HandlesIn
<1>9. UNCHANGED <<pool, color, wraps, eph_key, queues, weakmap, collection, active, arenas, removed,
                  stale>>
  BY DEF ephemerons, arena
<1> QED BY <1>1, <1>2, <1>5, <1>6, <1>7, <1>8, <1>9, ArenaHandleStep

\* Cloning a handle, upgrading a WeakGc and finding a value in the map.
LEMMA HandlesMadeInv ==
  ASSUME ArenaIInv, \/ \E s \in Slot : CloneGc(s)
                    \/ \E e \in Eph : UpgradeWeakGc(e)
                    \/ \E k \in Slot, s \in Slot : GetEntry(k, s)
  PROVE  ArenaIInv'
<1>0. TypeOK /\ PhaseInv /\ QueuesExact
  BY DEF ArenaIInv, ArenaTypeOK
<1>1. ASSUME NEW s \in Slot, CloneGc(s)
      PROVE  ArenaIInv'
  <2>1. Open
    BY <1>0, <1>1, RunningOpen DEF CloneGc, Clone
  <2>2. Named(s)
    BY <1>0, <1>1, <2>1, CurrentValue DEF CloneGc, Clone, InReach, Named, Stored
  <2>3. /\ held' = [held EXCEPT ![s] = held[s] + 1]
        /\ root_count' = [root_count EXCEPT ![s] = root_count[s] + 1]
        /\ misses' = misses
        /\ UNCHANGED <<pool, color, fields, wraps, ephemerons, collect_needed, queues, weakmap,
                       collection, weaks, arena>>
    BY <1>1 DEF CloneGc, Clone, Inc
  <2> QED BY <2>1, <2>2, <2>3, HandleMade
<1>2. ASSUME NEW e \in Eph, UpgradeWeakGc(e)
      PROVE  ArenaIInv'
  <2>1. PICK s : s = eph_key[e]
    OBVIOUS
  <2>2. Open /\ e \in eph_live
    BY <1>2, Dropping DEF UpgradeWeakGc, Upgrade, Open
  <2>3. s \in live /\ s \in Slot
    BY <1>0, <2>1, <2>2 DEF ArenaIInv, EntryInv, TypeOK
  <2>4. Spared(s)
    BY <2>1, <2>2, <2>3, KeysKept DEF Spared
  <2>5. /\ held' = [held EXCEPT ![s] = held[s] + 1]
        /\ root_count' = [root_count EXCEPT ![s] = root_count[s] + 1]
        /\ misses' = [misses EXCEPT ![s] = 0]
        /\ UNCHANGED <<pool, color, fields, wraps, ephemerons, collect_needed, queues, weakmap,
                       collection, weaks, arena>>
    BY <1>2, <2>1 DEF UpgradeWeakGc, Upgrade, Inc
  <2> QED BY <2>2, <2>3, <2>4, <2>5, HandleMade
<1>3. ASSUME NEW k \in Slot, NEW s \in Slot, GetEntry(k, s)
      PROVE  ArenaIInv'
  <2>1. Open
    BY <1>0, <1>3, RunningOpen DEF GetEntry, Get
  <2>2. Named(s)
    BY <1>3, <2>1 DEF GetEntry, Get, Named, Stored, ArenaIInv, MapExact
  <2>3. /\ held' = [held EXCEPT ![s] = held[s] + 1]
        /\ root_count' = [root_count EXCEPT ![s] = root_count[s] + 1]
        /\ misses' = misses
        /\ UNCHANGED <<pool, color, fields, wraps, ephemerons, collect_needed, queues, weakmap,
                       collection, weaks, arena>>
    BY <1>3 DEF GetEntry, Get, Inc
  <2> QED BY <2>1, <2>2, <2>3, HandleMade
<1> QED BY <1>1, <1>2, <1>3
\* A stack handle is dropped, which its box counts.
LEMMA DropGcInv ==
  ASSUME ArenaIInv, NEW s \in Slot, DropGc(s)
  PROVE  ArenaIInv'
<1>0. TypeOK /\ PhaseInv
  BY DEF ArenaIInv, ArenaTypeOK
<1>1. /\ Open /\ held[s] > 0 /\ held' = [held EXCEPT ![s] = held[s] - 1]
      /\ root_count' = Dec(root_count, {s})
      /\ UNCHANGED <<pool, color, fields, wraps, ephemerons, collect_needed, queues, weakmap,
                     collection, weaks, misses, arena>>
  BY <1>0, RunningOpen DEF DropGc, DropHandle
<1>2. UNCHANGED <<live, eph_live, fields, eph_value, current, phase, again, gone, short, droppables>>
  BY <1>1 DEF pool, ephemerons, collection, arena
<1>3. \A t : Stored(t)' = Stored(t) /\ HandlesInBoxes(t)' = HandlesInBoxes(t)
             /\ HandlesInValues(t)' = HandlesInValues(t)
  BY <1>2 DEF Stored, HandlesInBoxes, HandlesInValues
<1>4. \A t \in Slot : /\ held'[t] = IF t = s THEN held[s] - 1 ELSE held[t]
                      /\ t # s => root_count'[t] = root_count[t]
  BY <1>0, <1>1 DEF TypeOK, Dec
<1>5. s \in live \ short => root_count'[s] = root_count[s] - 1 /\ misses[s] = 0
  <2> SUFFICES ASSUME s \in live \ short
               PROVE  root_count'[s] = root_count[s] - 1 /\ misses[s] = 0
    OBVIOUS
  <2>1. Named(s)
    BY <1>1 DEF Named
  <2>2. root_count[s] \in Nat /\ root_count[s] # 0
    BY <1>0, <1>1, Counted DEF TypeOK
  <2> QED BY <1>1, <2>1, <2>2, Counted DEF Dec
<1>6. ArenaTypeOK'
  <2>1. held' \in [Slot -> Nat]
    BY <1>0, <1>1 DEF TypeOK
  <2>2. root_count' \in [Slot -> Nat]
    BY <1>0, <1>1 DEF TypeOK, Dec
  <2>3. TypeOK'
    BY <1>0, <1>1, <2>1, <2>2 DEF TypeOK, pool, queues, weakmap, collection, ephemerons
  <2> QED BY <1>1, <2>3 DEF ArenaIInv, ArenaTypeOK, arena
<1>7. CountsExactTwice'
  <2> SUFFICES ASSUME NEW t \in live, t \notin short
               PROVE  root_count'[t] = held'[t] + Cardinality(HandlesInBoxes(t))
                                                + Cardinality(HandlesInValues(t))
    BY <1>2, <1>3 DEF CountsExactTwice
  <2>1. /\ root_count[t] = held[t] + Cardinality(HandlesInBoxes(t)) + Cardinality(HandlesInValues(t))
        /\ t \in Slot /\ held[t] \in Nat
    BY <1>1, Counted
  <2> QED BY <1>0, <1>4, <1>5, <2>1, HandlesFinite
<1>8. \A t \in Slot : Named(t)' => Named(t)
  BY <1>0, <1>1, <1>3, <1>4 DEF Named
<1>9. ASSUME NEW t \in live, t \notin short
      PROVE  misses[t] > 0 => root_count'[t] = 0 /\ t \notin gone
  <2>1. t \in Slot /\ misses[t] \in Nat /\ Missed(t)
    BY <1>0, <1>9 DEF TypeOK, ArenaIInv, MissedInv
  <2> QED BY <1>4, <1>5, <1>9, <2>1 DEF Missed
<1>10. /\ again => current # None
       /\ gone # {} => again /\ gone \subseteq HandlesIn(current)'
       /\ \A p \in Slot \ live : fields[p] = {}
  BY <1>2 DEF ArenaIInv, DropInv, HandlesIn
<1>11. UNCHANGED <<pool, color, wraps, eph_key, queues, weakmap, collection, active, arenas, removed,
                   stale>>
  BY <1>1 DEF ephemerons, arena
<1> QED BY <1>1, <1>2, <1>6, <1>7, <1>8, <1>9, <1>10, <1>11, ArenaHandleStep

\* A handle that moves into a value is still counted, one that the first drop has
\* counted out of the same value is not moved there.
LEMMA StoreGcInv ==
  ASSUME ArenaIInv, NEW p \in Slot, NEW s \in Slot, StoreGc(p, s)
  PROVE  ArenaIInv'
<1>0. TypeOK /\ PhaseInv
  BY DEF ArenaIInv, ArenaTypeOK
<1>1. /\ Open /\ p \in live /\ held[s] > 0 /\ s \notin fields[p]
      /\ fields' = [fields EXCEPT ![p] = @ \cup {s}]
      /\ held' = [held EXCEPT ![s] = held[s] - 1]
      /\ UNCHANGED <<pool, color, root_count, wraps, ephemerons, collect_needed, queues, weakmap,
                     collection, weaks, misses, arena>>
  BY <1>0, RunningOpen DEF StoreGc, Store
<1>2. UNCHANGED <<live, eph_live, eph_value, current, phase, again, gone, short, droppables,
                  root_count, misses>>
  BY <1>1 DEF pool, ephemerons, collection, arena
<1>3. /\ \A q \in Slot : fields'[q] = IF q = p THEN fields[p] \cup {s} ELSE fields[q]
      /\ \A t \in Slot : held'[t] = IF t = s THEN held[s] - 1 ELSE held[t]
      /\ live \subseteq Slot /\ held[s] \in Nat
  BY <1>0, <1>1 DEF TypeOK
<1>4. ArenaTypeOK'
  <2>1. held' \in [Slot -> Nat] /\ fields' \in [Slot -> SUBSET Slot]
    BY <1>0, <1>1 DEF TypeOK
  <2>2. TypeOK'
    BY <1>0, <1>1, <2>1 DEF TypeOK, pool, queues, weakmap, collection, ephemerons
  <2> QED BY <1>1, <2>2 DEF ArenaIInv, ArenaTypeOK, arena
<1>5. p = current => s \notin gone
  BY <1>1, GoneStored DEF HandlesIn
<1>6. \A t : HandlesInValues(t)' = HandlesInValues(t)
  BY <1>2 DEF HandlesInValues
<1>7. \A t : t = s => HandlesInBoxes(t)' = HandlesInBoxes(t) \cup {p} /\ p \notin HandlesInBoxes(t)
  BY <1>1, <1>2, <1>3, <1>5 DEF HandlesInBoxes
<1>8. \A t : t # s => HandlesInBoxes(t)' = HandlesInBoxes(t)
  BY <1>1, <1>2, <1>3 DEF HandlesInBoxes
<1>9. CountsExactTwice'
  <2> SUFFICES ASSUME NEW t \in live, t \notin short
               PROVE  root_count[t] = held'[t] + Cardinality(HandlesInBoxes(t)')
                                               + Cardinality(HandlesInValues(t)')
    BY <1>2 DEF CountsExactTwice
  <2>1. /\ root_count[t] = held[t] + Cardinality(HandlesInBoxes(t)) + Cardinality(HandlesInValues(t))
        /\ t \in Slot /\ held[t] \in Nat
    BY <1>1, Counted
  <2>2. CASE t = s
    <3>1. Cardinality(HandlesInBoxes(t) \cup {p}) = Cardinality(HandlesInBoxes(t)) + 1
      BY <1>0, <1>7, <2>2, HandlesFinite, OneMore
    <3>2. Cardinality(HandlesInBoxes(t)) \in Nat /\ Cardinality(HandlesInValues(t)) \in Nat
      BY <1>0, HandlesFinite
    <3>3. Cardinality(HandlesInBoxes(t)') = Cardinality(HandlesInBoxes(t)) + 1
      BY <1>7, <2>2, <3>1
    <3>4. held'[t] = held[t] - 1
      BY <1>3, <2>2
    <3> QED BY <1>6, <2>1, <3>2, <3>3, <3>4
  <2>3. CASE t # s
    BY <1>3, <1>6, <1>8, <2>1, <2>3
  <2> QED BY <2>2, <2>3
<1>10. \A t \in Slot : Named(t)' => Named(t)
  <2>1. \A t : Stored(t)' => Stored(t) \/ t = s
    BY <1>2, <1>3 DEF Stored
  <2>2. Named(s)
    BY <1>1 DEF Named
  <2> QED BY <1>3, <2>1, <2>2 DEF Named
<1>11. \A t \in live \ short : misses[t] > 0 => root_count[t] = 0 /\ t \notin gone
  BY DEF ArenaIInv, MissedInv, Missed
<1>12. /\ again => current # None
       /\ gone # {} => again /\ gone \subseteq HandlesIn(current)'
       /\ \A q \in Slot \ live : fields'[q] = {}
  <2>1. HandlesIn(current) \subseteq HandlesIn(current)'
    BY <1>2, <1>3 DEF HandlesIn
  <2>2. \A q \in Slot \ live : fields'[q] = {}
    BY <1>1, <1>3 DEF ArenaIInv, DropInv
  <2> QED BY <2>1, <2>2 DEF ArenaIInv, DropInv
<1>13. UNCHANGED <<pool, color, wraps, eph_key, queues, weakmap, collection, active, arenas, removed,
                   stale>>
  BY <1>1 DEF ephemerons, arena
<1> QED BY <1>1, <1>2, <1>4, <1>9, <1>10, <1>11, <1>12, <1>13, ArenaHandleStep

\* A handle of a value is dropped: one that its box counts, or one whose count the
\* first drop of the value has taken already.
LEMMA ClearGcInv ==
  ASSUME ArenaIInv, NEW p \in Slot, NEW s \in Slot, ClearGc(p, s)
  PROVE  ArenaIInv'
<1>0. TypeOK /\ PhaseInv
  BY DEF ArenaIInv, ArenaTypeOK
<1>1. /\ Open /\ p \in live /\ s \in fields[p]
      /\ fields' = [fields EXCEPT ![p] = @ \ {s}]
      /\ root_count' = Dec(root_count, {s})
      /\ gone' = IF p = current THEN gone \ {s} ELSE gone
      /\ short' = IF p = current THEN short \cup Taken({s}) ELSE short
      /\ UNCHANGED <<pool, color, wraps, ephemerons, collect_needed, queues, weakmap, collection,
                     client, misses, active, arenas, again, removed, stale>>
  BY <1>0, RunningOpen DEF ClearGc, Clear
<1>2. UNCHANGED <<live, eph_live, eph_value, current, phase, again, droppables, held, misses, eph_key>>
  BY <1>1 DEF pool, ephemerons, collection, client
<1>3. /\ \A q \in Slot : fields'[q] = IF q = p THEN fields[p] \ {s} ELSE fields[q]
      /\ \A t \in Slot : t # s => root_count'[t] = root_count[t]
      /\ live \subseteq Slot /\ p \notin Eph /\ eph_live \subseteq Eph
  BY <1>0, <1>1, SlotsDistinct DEF TypeOK, Dec
<1>4. /\ gone' \subseteq gone
      /\ \A t : t # s => (t \in gone' <=> t \in gone)
      /\ short \subseteq short'
      /\ short' \subseteq Slot
  BY <1>1 DEF Taken, ArenaIInv, ArenaTypeOK
<1>5. ArenaTypeOK'
  <2>1. fields' \in [Slot -> SUBSET Slot]
    BY <1>0, <1>1 DEF TypeOK
  <2>2. root_count' \in [Slot -> Nat]
    BY <1>0, <1>1 DEF TypeOK, Dec
  <2>3. TypeOK'
    BY <1>0, <1>1, <2>1, <2>2 DEF TypeOK, pool, queues, weakmap, collection, ephemerons, client
  <2>4. gone' \in SUBSET Slot
    BY <1>4 DEF ArenaIInv, ArenaTypeOK
  <2> QED BY <1>1, <1>4, <2>3, <2>4 DEF ArenaIInv, ArenaTypeOK
<1>6. \A t : t # s => HandlesInBoxes(t)' = HandlesInBoxes(t)
  BY <1>1, <1>2, <1>3, <1>4 DEF HandlesInBoxes
<1>7. \A t : HandlesInValues(t)' = HandlesInValues(t)
  <2>1. \A e \in eph_live : e = current => gone' = gone
    BY <1>1, <1>3
  <2> QED BY <1>2, <2>1 DEF HandlesInValues
<1>8. ASSUME s \in live, s \notin short'
      PROVE  root_count'[s] = held[s] + Cardinality(HandlesInBoxes(s)')
                                      + Cardinality(HandlesInValues(s))
  <2>1. /\ root_count[s] = held[s] + Cardinality(HandlesInBoxes(s)) + Cardinality(HandlesInValues(s))
        /\ held[s] \in Nat /\ root_count[s] \in Nat
    BY <1>1, <1>4, <1>8, Counted
  <2>2. /\ Cardinality(HandlesInBoxes(s)) \in Nat /\ IsFiniteSet(HandlesInBoxes(s))
        /\ Cardinality(HandlesInValues(s)) \in Nat
    BY <1>0, HandlesFinite
  <2>3. CASE p = current /\ s \in gone
    <3>1. HandlesInBoxes(s)' = HandlesInBoxes(s)
      BY <1>1, <1>2, <1>3, <2>3 DEF HandlesInBoxes
    <3>2. ~(root_count[s] > 0)
      BY <1>1, <1>8, <2>3 DEF Taken
    <3>3. root_count'[s] = root_count[s]
      BY <1>1, <3>2 DEF Dec
    <3> QED BY <2>1, <3>1, <3>3
  <2>4. CASE ~(p = current /\ s \in gone)
    <3>1. HandlesInBoxes(s)' = HandlesInBoxes(s) \ {p} /\ p \in HandlesInBoxes(s)
      <4>1. \A q \in live : q # p => (s \in gone' <=> s \in gone) \/ q # current
        BY <1>1
      <4> QED BY <1>1, <1>2, <1>3, <2>4, <4>1 DEF HandlesInBoxes
    <3>2. Cardinality(HandlesInBoxes(s) \ {p}) = Cardinality(HandlesInBoxes(s)) - 1
      BY <2>2, <3>1, OneLess
    <3>3. Cardinality(HandlesInBoxes(s)) # 0
      BY <2>2, <3>1, FS_EmptySet
    <3>4. root_count'[s] = root_count[s] - 1
      BY <1>1, <2>1, <2>2, <3>3 DEF Dec
    <3> QED BY <2>1, <2>2, <3>1, <3>2, <3>4
  <2> QED BY <2>3, <2>4
<1>9. CountsExactTwice'
  <2> SUFFICES ASSUME NEW t \in live, t \notin short'
               PROVE  root_count'[t] = held[t] + Cardinality(HandlesInBoxes(t)')
                                               + Cardinality(HandlesInValues(t)')
    BY <1>2 DEF CountsExactTwice
  <2>1. CASE t = s
    BY <1>7, <1>8, <2>1
  <2>2. CASE t # s
    BY <1>1, <1>3, <1>4, <1>6, <1>7, <2>2, Counted
  <2> QED BY <2>1, <2>2
<1>10. \A t : Named(t)' => Named(t)
  BY <1>2, <1>3 DEF Named, Stored
<1>11. ASSUME NEW t \in live, t \notin short'
       PROVE  misses[t] > 0 => root_count'[t] = 0 /\ t \notin gone'
  <2>1. Missed(t) /\ t \notin short /\ t \in Slot
    BY <1>3, <1>4, <1>11 DEF ArenaIInv, MissedInv
  <2>2. t = s => misses[t] = 0
    BY <1>1, <2>1, Counted DEF Named, Stored
  <2> QED BY <1>3, <1>4, <2>1, <2>2 DEF Missed
<1>12. /\ again => current # None
       /\ gone' # {} => again /\ gone' \subseteq HandlesIn(current)'
       /\ \A q \in Slot \ live : fields'[q] = {}
  <2>1. gone' # {} => again /\ gone' \subseteq HandlesIn(current)'
    <3> SUFFICES ASSUME gone' # {} PROVE again /\ gone' \subseteq HandlesIn(current)'
      OBVIOUS
    <3>1. again /\ gone \subseteq HandlesIn(current)
      BY <1>4 DEF ArenaIInv, DropInv
    <3>2. CASE p = current
      BY <1>1, <1>2, <1>3, <3>1, <3>2 DEF HandlesIn
    <3>3. CASE p # current
      BY <1>1, <1>2, <1>3, <3>1, <3>3 DEF HandlesIn
    <3> QED BY <3>2, <3>3
  <2>2. \A q \in Slot \ live : fields'[q] = {}
    BY <1>1, <1>3 DEF ArenaIInv, DropInv
  <2> QED BY <2>1, <2>2 DEF ArenaIInv, DropInv
<1>13. UNCHANGED <<pool, color, wraps, eph_key, queues, weakmap, collection, active, arenas, removed,
                   stale>>
  BY <1>1 DEF ephemerons
<1>14. /\ again' => current # None
       /\ gone' # {} => again' /\ gone' \subseteq HandlesIn(current)'
       /\ \A t \in Slot \ short' : Named(t)' => Named(t) \/ Spared(t)
       /\ \A t \in live \ short' : /\ misses'[t] \in {0, misses[t]}
                                   /\ misses'[t] > 0 => root_count'[t] = 0 /\ t \notin gone'
  BY <1>2, <1>10, <1>11, <1>12
<1> QED BY <1>1, <1>4, <1>5, <1>9, <1>12, <1>13, <1>14, ArenaHandleStep
\* The first drop of a value counts its handles out.
LEMMA DropAgainInv ==
  ASSUME ArenaIInv, DropAgain
  PROVE  ArenaIInv'
<1>0. TypeOK /\ PhaseInv
  BY DEF ArenaIInv, ArenaTypeOK
<1>1. current # None /\ ~again /\ gone = {} /\ Open
  BY Dropping DEF DropAgain, ArenaIInv, DropInv
<1>2. PICK x, H : x = current /\ H = HandlesIn(current)
  OBVIOUS
<1>3. \A t \in H : t \in Slot /\ Named(t)
  BY <1>1, <1>2, DroppedStored
<1>4. /\ again' = TRUE /\ gone' = H /\ root_count' = Dec(root_count, H)
      /\ UNCHANGED <<pool, color, fields, wraps, ephemerons, collect_needed, queues, weakmap,
                     collection, held, weaks, misses, active, arenas, short, removed, stale>>
  BY <1>2 DEF DropAgain, client
<1>5. UNCHANGED <<live, eph_live, fields, eph_value, current, phase>>
  BY <1>4 DEF pool, ephemerons, collection
<1>6. ArenaTypeOK'
  <2>1. root_count' \in [Slot -> Nat]
    BY <1>0, <1>4 DEF TypeOK, Dec
  <2>2. TypeOK'
    BY <1>0, <1>4, <2>1 DEF TypeOK, pool, queues, weakmap, collection, ephemerons
  <2>3. gone' \in SUBSET Slot
    BY <1>3, <1>4
  <2> QED BY <1>4, <2>2, <2>3 DEF ArenaIInv, ArenaTypeOK
<1>7. \A t : Named(t)' => Named(t)
  BY <1>4, <1>5 DEF Named, Stored
<1>8. \A t : t \notin H => /\ HandlesInBoxes(t)' = HandlesInBoxes(t)
                           /\ HandlesInValues(t)' = HandlesInValues(t)
  BY <1>1, <1>4, <1>5 DEF HandlesInBoxes, HandlesInValues
<1>9. \A t \in H : \/ /\ HandlesInBoxes(t)' = HandlesInBoxes(t) \ {x} /\ x \in HandlesInBoxes(t)
                      /\ HandlesInValues(t)' = HandlesInValues(t)
                   \/ /\ HandlesInValues(t)' = HandlesInValues(t) \ {x} /\ x \in HandlesInValues(t)
                      /\ HandlesInBoxes(t)' = HandlesInBoxes(t)
  <2>1. CASE phase = "free_boxes"
    <3>1. x \in live /\ x \in Slot /\ x \notin Eph /\ H = fields[x] /\ eph_live \subseteq Eph
      BY <1>0, <1>1, <1>2, <2>1, Dropping, SlotsDistinct DEF TypeOK
    <3>2. \A t \in H : /\ HandlesInBoxes(t)' = HandlesInBoxes(t) \ {x} /\ x \in HandlesInBoxes(t)
                       /\ HandlesInValues(t)' = HandlesInValues(t)
      BY <1>1, <1>2, <1>4, <1>5, <3>1 DEF HandlesInBoxes, HandlesInValues
    <3> QED BY <3>2
  <2>2. CASE phase # "free_boxes"
    <3>1. x \in eph_live /\ x \notin Slot /\ H = eph_value[x] /\ live \subseteq Slot
      BY <1>0, <1>1, <1>2, <2>2, Dropping DEF TypeOK
    <3>2. \A t \in H : /\ HandlesInValues(t)' = HandlesInValues(t) \ {x} /\ x \in HandlesInValues(t)
                       /\ HandlesInBoxes(t)' = HandlesInBoxes(t)
      BY <1>1, <1>2, <1>4, <1>5, <3>1 DEF HandlesInBoxes, HandlesInValues
    <3> QED BY <3>2
  <2> QED BY <2>1, <2>2
<1>10. ASSUME NEW t \in live, t \notin short
       PROVE  root_count'[t] = held[t] + Cardinality(HandlesInBoxes(t)')
                                       + Cardinality(HandlesInValues(t)')
  <2>1. /\ root_count[t] = held[t] + Cardinality(HandlesInBoxes(t)) + Cardinality(HandlesInValues(t))
        /\ t \in Slot /\ held[t] \in Nat /\ root_count[t] \in Nat
    BY <1>1, <1>10, Counted
  <2>2. CASE t \notin H
    <3>1. root_count'[t] = root_count[t]
      BY <1>4, <2>1, <2>2 DEF Dec
    <3> QED BY <1>8, <2>1, <2>2, <3>1
  <2>3. CASE t \in H
    <3>1. PICK B, V : B = HandlesInBoxes(t) /\ V = HandlesInValues(t)
      OBVIOUS
    <3>2. /\ IsFiniteSet(B) /\ Cardinality(B) \in Nat /\ IsFiniteSet(V) /\ Cardinality(V) \in Nat
          /\ root_count[t] = held[t] + Cardinality(B) + Cardinality(V)
      BY <1>0, <2>1, <3>1, HandlesFinite
    <3>3. \/ HandlesInBoxes(t)' = B \ {x} /\ x \in B /\ HandlesInValues(t)' = V
          \/ HandlesInValues(t)' = V \ {x} /\ x \in V /\ HandlesInBoxes(t)' = B
      BY <1>9, <2>3, <3>1
    <3>4. /\ x \in B => Cardinality(B \ {x}) = Cardinality(B) - 1 /\ Cardinality(B) # 0
          /\ x \in V => Cardinality(V \ {x}) = Cardinality(V) - 1 /\ Cardinality(V) # 0
      BY <3>2, OneLess, FS_EmptySet
    <3>5. root_count[t] > 0
      BY <2>1, <3>2, <3>3, <3>4
    <3>6. root_count'[t] = root_count[t] - 1
      BY <1>4, <2>1, <2>3, <3>5 DEF Dec
    <3>7. \/ /\ Cardinality(HandlesInBoxes(t)') = Cardinality(B) - 1
             /\ Cardinality(HandlesInValues(t)') = Cardinality(V)
          \/ /\ Cardinality(HandlesInBoxes(t)') = Cardinality(B)
             /\ Cardinality(HandlesInValues(t)') = Cardinality(V) - 1
      BY <3>3, <3>4
    <3> QED BY <2>1, <3>2, <3>6, <3>7
  <2> QED BY <2>2, <2>3
<1>11. CountsExactTwice'
  BY <1>4, <1>5, <1>10 DEF CountsExactTwice
<1>12. ASSUME NEW t \in live, t \notin short
       PROVE  misses[t] > 0 => root_count'[t] = 0 /\ t \notin gone'
  <2>1. Missed(t) /\ t \in Slot
    BY <1>0, <1>12 DEF ArenaIInv, MissedInv, TypeOK
  <2>2. t \in H => misses[t] = 0
    BY <1>1, <1>3, <1>12, Counted
  <2>3. t \notin H => root_count'[t] = root_count[t]
    BY <1>4, <2>1 DEF Dec
  <2> QED BY <1>4, <2>1, <2>2, <2>3 DEF Missed
<1>13. HandlesIn(current)' = H /\ current' = current /\ short' = short /\ misses' = misses
       /\ \A p \in Slot \ live : fields'[p] = {}
  BY <1>2, <1>4, <1>5 DEF HandlesIn, ArenaIInv, DropInv
<1>14. UNCHANGED <<pool, color, wraps, eph_key, queues, weakmap, collection, active, arenas, removed,
                   stale>>
  BY <1>4 DEF ephemerons
<1>15. /\ short \subseteq short' /\ again' => current # None
       /\ gone' # {} => again' /\ gone' \subseteq HandlesIn(current)'
       /\ \A t \in Slot \ short' : Named(t)' => Named(t) \/ Spared(t)
       /\ \A t \in live \ short' : /\ misses'[t] \in {0, misses[t]}
                                   /\ misses'[t] > 0 => root_count'[t] = 0 /\ t \notin gone'
  BY <1>1, <1>4, <1>7, <1>12, <1>13
<1> QED BY <1>1, <1>6, <1>11, <1>13, <1>14, <1>15, ArenaHandleStep

-----------------------------------------------------------------------------
(* The arenas.                                                             *)

\* An item that is placed lies in one arena, the first.
LEMMA PlacedFacts ==
  ASSUME ArenaIInv, NEW x \in Slot \cup Eph, Placed(x)
  PROVE  /\ arenas' \in Seq(SUBSET (Slot \cup Eph))
         /\ Held' = Held \cup {x}
         /\ \A i, j \in DOMAIN arenas' : i # j => arenas'[i] \cap arenas'[j] = {}
         /\ \A i \in DOMAIN arenas' : \/ x \in arenas'[i]
                                      \/ \E j \in DOMAIN arenas : arenas'[i] = arenas[j]
<1> DEFINE A == SUBSET (Slot \cup Eph)
<1>1. /\ arenas \in Seq(A) /\ Len(arenas) \in Nat /\ DOMAIN arenas = 1 .. Len(arenas)
      /\ \A i \in DOMAIN arenas : arenas[i] \in A
      /\ \A i, j \in DOMAIN arenas : i # j => arenas[i] \cap arenas[j] = {}
      /\ \A i \in DOMAIN arenas : x \notin arenas[i]
  <2>1. arenas \in Seq(A) /\ x \notin Held
    BY DEF ArenaIInv, ArenaTypeOK, Placed
  <2>2. \A i, j \in DOMAIN arenas : i # j => arenas[i] \cap arenas[j] = {}
    BY DEF ArenaIInv, ArenasInv
  <2> QED BY <2>1, <2>2, LenProperties, ElementOfSeq DEF Held
<1>2. CASE arenas # <<>> /\ Cardinality(Head(arenas)) < Room
  <2>1. arenas' = [arenas EXCEPT ![1] = @ \cup {x}] /\ 1 \in DOMAIN arenas
    BY <1>1, <1>2, EmptySeq DEF Placed
  <2>2. /\ DOMAIN arenas' = DOMAIN arenas
        /\ \A i \in DOMAIN arenas : arenas'[i] = IF i = 1 THEN arenas[1] \cup {x} ELSE arenas[i]
    BY <2>1
  <2>3. arenas' \in Seq(A)
    <3>1. PICK a \in A : a = arenas[1] \cup {x}
      BY <1>1, <2>1
    <3>2. arenas' = [arenas EXCEPT ![1] = a]
      BY <2>1, <3>1
    <3> QED BY <1>1, <2>1, <3>2, ExceptSeq
  <2> HIDE DEF A
  <2>4. Held' = Held \cup {x}
    BY <2>1, <2>2 DEF Held
  <2>5. \A i, j \in DOMAIN arenas' : i # j => arenas'[i] \cap arenas'[j] = {}
    BY <1>1, <2>1, <2>2
  <2>6. \A i \in DOMAIN arenas' : x \in arenas'[i] \/ \E j \in DOMAIN arenas : arenas'[i] = arenas[j]
    BY <2>1, <2>2
  <2> QED BY <2>3, <2>4, <2>5, <2>6 DEF A
<1>3. CASE ~(arenas # <<>> /\ Cardinality(Head(arenas)) < Room)
  <2>1. arenas' = <<{x}>> \o arenas /\ {x} \in A
    BY <1>3 DEF Placed
  <2>2. PICK a \in A, n \in Nat : a = {x} /\ n = Len(arenas)
    BY <1>1, <2>1
  <2>3. /\ arenas' \in Seq(A) /\ Len(arenas') = n + 1 /\ arenas'[1] = {x}
        /\ \A i \in 1 .. n : arenas'[i + 1] = arenas[i]
    <3>1. arenas' = <<a>> \o arenas
      BY <2>1, <2>2
    <3> HIDE DEF A
    <3> QED BY <1>1, <2>2, <3>1, PrependFacts
  <2>4. DOMAIN arenas' = 1 .. n + 1 /\ DOMAIN arenas = 1 .. n
    BY <1>1, <2>2, <2>3, LenProperties
  <2> HIDE DEF A
  <2>5. \A i \in DOMAIN arenas' : i # 1 => i - 1 \in DOMAIN arenas /\ arenas'[i] = arenas[i - 1]
    <3> SUFFICES ASSUME NEW i \in 1 .. n + 1, i # 1
                 PROVE  i - 1 \in 1 .. n /\ arenas'[i] = arenas[i - 1]
      BY <2>4
    <3>1. PICK j \in 1 .. n : i = j + 1
      OBVIOUS
    <3>2. i - 1 = j
      BY <3>1
    <3> QED BY <2>3, <3>1, <3>2
  <2>6. 1 \in DOMAIN arenas' /\ \A i \in DOMAIN arenas : i + 1 \in DOMAIN arenas' /\ arenas'[i + 1] = arenas[i]
    BY <2>3, <2>4
  <2>7. Held' = Held \cup {x}
    <3>1. Held' \subseteq Held \cup {x}
      BY <2>3, <2>5 DEF Held
    <3>2. \A i \in DOMAIN arenas : arenas[i] \subseteq Held'
      <4> SUFFICES ASSUME NEW i \in DOMAIN arenas PROVE arenas[i] \subseteq Held'
        OBVIOUS
      <4>1. PICK j \in DOMAIN arenas' : arenas'[j] = arenas[i]
        BY <2>6
      <4> QED BY <4>1 DEF Held
    <3>3. x \in Held'
      BY <2>3, <2>6 DEF Held
    <3> QED BY <3>1, <3>2, <3>3 DEF Held
  <2>8. \A i, j \in DOMAIN arenas' : i # j => arenas'[i] \cap arenas'[j] = {}
    <3> SUFFICES ASSUME NEW i \in DOMAIN arenas', NEW j \in DOMAIN arenas', i # j
                 PROVE  arenas'[i] \cap arenas'[j] = {}
      OBVIOUS
    <3>1. CASE i = 1
      BY <1>1, <2>3, <2>5, <3>1
    <3>2. CASE j = 1
      BY <1>1, <2>3, <2>5, <3>2
    <3>3. CASE i # 1 /\ j # 1
      <4>1. PICK h \in DOMAIN arenas : h = i - 1 /\ arenas'[i] = arenas[h]
        BY <2>5, <3>3
      <4>2. PICK k \in DOMAIN arenas : k = j - 1 /\ arenas'[j] = arenas[k]
        BY <2>5, <3>3
      <4>3. h # k
        BY <2>4, <4>1, <4>2
      <4> QED BY <1>1, <4>1, <4>2, <4>3
    <3> QED BY <3>1, <3>2, <3>3
  <2>9. \A i \in DOMAIN arenas' : x \in arenas'[i] \/ \E j \in DOMAIN arenas : arenas'[i] = arenas[j]
    BY <2>3, <2>5
  <2> QED BY <2>3, <2>7, <2>8, <2>9 DEF A
<1> QED BY <1>2, <1>3

\* The arenas that are left are those with an item in use.
LEMMA LiveArenasFacts ==
  ASSUME ArenaIInv
  PROVE  /\ LiveArenas \in Seq(SUBSET (Slot \cup Eph))
         /\ \A k \in DOMAIN LiveArenas : LiveArenas[k] \cap Items # {}
         /\ \A x \in Items \cap Held : \E k \in DOMAIN LiveArenas : x \in LiveArenas[k]
         /\ \A j, k \in DOMAIN LiveArenas : j # k => LiveArenas[j] \cap LiveArenas[k] = {}
<1> DEFINE A == SUBSET (Slot \cup Eph)
           K == {a \in ToSet(arenas) : a \cap Items # {}}
<1>1. PICK r : r = LiveArenas
  OBVIOUS
<1>2. r = Retain(arenas, K)
  BY <1>1 DEF LiveArenas
<1>3. /\ arenas \in Seq(A) /\ Len(arenas) \in Nat /\ DOMAIN arenas = 1 .. Len(arenas)
      /\ \A i, j \in DOMAIN arenas : i # j => arenas[i] \cap arenas[j] = {}
  BY LenProperties DEF ArenaIInv, ArenaTypeOK, ArenasInv
<1>4. \A i \in DOMAIN arenas : arenas[i] \in K <=> arenas[i] \cap Items # {}
  BY DEF ToSet
<1> HIDE DEF A, K
<1>5. /\ r \in Seq(A) /\ Len(r) \in Nat
      /\ \A k \in 1 .. Len(r) : \E i \in 1 .. Len(arenas) : r[k] = arenas[i] /\ arenas[i] \in K
      /\ \A i \in 1 .. Len(arenas) : arenas[i] \in K =>
           \E k \in 1 .. Len(r) : r[k] = arenas[i] /\ arenas[i] \in K
      /\ \A j, k \in 1 .. Len(r) : j < k =>
           \E h, i \in 1 .. Len(arenas) : /\ h < i
                                          /\ r[j] = arenas[h] /\ arenas[h] \in K
                                          /\ r[k] = arenas[i] /\ arenas[i] \in K
  <2>1. PICK q \in Seq(A) : q = arenas
    BY <1>3
  <2>2. PICK J : J = K
    OBVIOUS
  <2> DEFINE w == Retain(q, J)
  <2>3. /\ w \in Seq(A) /\ Len(w) \in Nat
        /\ \A k \in 1 .. Len(w) : \E i \in 1 .. Len(q) : w[k] = q[i] /\ q[i] \in J
        /\ \A i \in 1 .. Len(q) : q[i] \in J => \E k \in 1 .. Len(w) : w[k] = q[i] /\ q[i] \in J
        /\ \A j, k \in 1 .. Len(w) : j < k =>
             \E h, i \in 1 .. Len(q) : /\ h < i
                                       /\ w[j] = q[h] /\ q[h] \in J
                                       /\ w[k] = q[i] /\ q[i] \in J
    BY RetainFacts
  <2>4. w = r
    BY <1>2, <2>1, <2>2
  <2> HIDE DEF w
  <2> QED BY <2>1, <2>2, <2>3, <2>4
<1>6. DOMAIN r = 1 .. Len(r)
  BY <1>5, LenProperties
<1>7. \A k \in DOMAIN r : r[k] \cap Items # {}
  BY <1>3, <1>4, <1>5, <1>6
<1>8. \A x \in Items \cap Held : \E k \in DOMAIN r : x \in r[k]
  <2> SUFFICES ASSUME NEW x \in Items \cap Held PROVE \E k \in DOMAIN r : x \in r[k]
    OBVIOUS
  <2>1. PICK i \in DOMAIN arenas : x \in arenas[i]
    BY DEF Held
  <2> QED BY <1>3, <1>4, <1>5, <1>6, <2>1
<1>9. \A j, k \in 1 .. Len(r) : j < k => r[j] \cap r[k] = {}
  <2> SUFFICES ASSUME NEW j \in 1 .. Len(r), NEW k \in 1 .. Len(r), j < k PROVE r[j] \cap r[k] = {}
    OBVIOUS
  <2>1. PICK h \in 1 .. Len(arenas), i \in 1 .. Len(arenas) :
          h < i /\ r[j] = arenas[h] /\ r[k] = arenas[i]
    BY <1>5
  <2>2. h # i
    BY <1>3, <2>1
  <2> QED BY <1>3, <2>1, <2>2
<1>10. \A j, k \in DOMAIN r : j # k => r[j] \cap r[k] = {}
  <2> SUFFICES ASSUME NEW j \in 1 .. Len(r), NEW k \in 1 .. Len(r), j # k PROVE r[j] \cap r[k] = {}
    BY <1>6
  <2>1. j < k \/ k < j
    BY <1>5
  <2> QED BY <1>9, <2>1
<1> QED BY <1>1, <1>5, <1>7, <1>8, <1>10 DEF A

\* A new item lies in an arena; its arena is one in use.
LEMMA PlacedInv ==
  ASSUME ArenaIInv, NEW x \in Slot \cup Eph, Placed(x), Items' = Items \cup {x}, phase' = phase
  PROVE  arenas' \in Seq(SUBSET (Slot \cup Eph)) /\ ArenasInv'
<1>1. /\ arenas' \in Seq(SUBSET (Slot \cup Eph))
      /\ Held' = Held \cup {x}
      /\ \A i, j \in DOMAIN arenas' : i # j => arenas'[i] \cap arenas'[j] = {}
      /\ \A i \in DOMAIN arenas' : \/ x \in arenas'[i]
                                   \/ \E j \in DOMAIN arenas : arenas'[i] = arenas[j]
  BY PlacedFacts
<1>2. Items' \subseteq Held'
  BY <1>1 DEF ArenaIInv, ArenasInv
<1>3. EmptyArenasGo'
  <2>1. phase = "idle" => \A i \in DOMAIN arenas : arenas[i] \cap Items # {}
    BY DEF ArenaIInv, ArenasInv, EmptyArenasGo
  <2> QED BY <1>1, <2>1 DEF EmptyArenasGo
<1> QED BY <1>1, <1>2, <1>3 DEF ArenasInv
-----------------------------------------------------------------------------
(* The client's allocations and its weak map, over arenas.                 *)

\* A new box joins one queue and one arena, with one handle to it.
LEMMA NewGcInv ==
  ASSUME ArenaIInv, PlainClient, NEW s \in Slot, NewGc(s)
  PROVE  ArenaIInv'
<1>0. TypeOK /\ PhaseInv /\ QueuesExact
  BY DEF ArenaIInv, ArenaTypeOK
<1>1. /\ Open /\ s \notin live
      /\ live' = live \cup {s} /\ color' = [color EXCEPT ![s] = NewColor]
      /\ root_count' = [root_count EXCEPT ![s] = 1] /\ fields' = [fields EXCEPT ![s] = {}]
      /\ wraps' = wraps \ {s} /\ held' = [t \in Slot |-> IF t = s THEN 1 ELSE held[t]]
      /\ IF is_collecting
         THEN pending_root_queue' = pending_root_queue \cup {s} /\ UNCHANGED root_queue
         ELSE root_queue' = root_queue \cup {s} /\ UNCHANGED pending_root_queue
      /\ misses' = [misses EXCEPT ![s] = 0]
  BY <1>0, RunningOpen DEF NewGc, AllocGcNode, AllocBox, CountNew, PlainClient
<1>2. /\ UNCHANGED <<eph_live, ephemerons, ephemeron_queue, pending_ephemeron_queue,
                     weakmap, collection, weaks, active, again, gone, removed, stale>>
      /\ Placed(s) /\ ~Named(s) /\ short' = short \ {s}
  BY DEF NewGc, AllocGcNode, AllocBox
<1>3. collect_needed' \in BOOLEAN
  <2>1. collect_needed' \in {collect_needed, TRUE}
    BY DEF NewGc, AllocGcNode, AllocBox
  <2> QED BY <1>0, <2>1, ZenonT(20) DEF TypeOK
<1>4. NewColor \in TraceColor /\ NewColor # trace_color
  BY <1>0 DEF NewColor, Flip, TraceColor, TypeOK
<1>5. /\ \A t \in live : t \in Slot /\ t # s
      /\ s \notin root_queue \cup pending_root_queue \cup droppables
  BY <1>0, <1>1 DEF TypeOK, QueuesExact
<1>6. /\ color'[s] = NewColor /\ root_count'[s] = 1 /\ held'[s] = 1 /\ fields'[s] = {}
      /\ misses'[s] = 0
      /\ \A t \in Slot : t # s => /\ color'[t] = color[t] /\ root_count'[t] = root_count[t]
                                  /\ held'[t] = held[t] /\ fields'[t] = fields[t]
                                  /\ misses'[t] = misses[t]
  BY <1>0, <1>1 DEF TypeOK
<1>7. UNCHANGED <<phase, unvisited, droppables, eph_dead, current, trace_color, eph_key, eph_value,
                  map, map_state>>
  BY <1>2 DEF collection, weakmap, ephemerons
<1>8. ArenaTypeOK' /\ ArenasInv'
  <2>1. Items' = Items \cup {s}
    BY <1>1, <1>2 DEF Items
  <2>2. arenas' \in Seq(SUBSET (Slot \cup Eph)) /\ ArenasInv'
    BY <1>2, <1>7, <2>1, PlacedInv
  <2>3. /\ live' \in SUBSET Slot /\ color' \in [Slot -> TraceColor]
        /\ root_count' \in [Slot -> Nat] /\ fields' \in [Slot -> SUBSET Slot]
        /\ wraps' \in SUBSET Slot /\ held' \in [Slot -> Nat] /\ misses' \in [Slot -> Nat]
        /\ root_queue' \in SUBSET Slot /\ pending_root_queue' \in SUBSET Slot
    BY <1>0, <1>1, <1>4 DEF TypeOK
  <2>4. TypeOK'
    BY <1>0, <1>2, <1>3, <1>7, <2>3 DEF TypeOK
  <2> QED BY <1>2, <2>2, <2>4 DEF ArenaIInv, ArenaTypeOK
<1>9. PhaseInv'
  <2>1. wraps' = {}
    BY <1>0, <1>1 DEF PhaseInv
  <2>2. is_collecting => UNCHANGED <<root_queue, ephemeron_queue>>
    BY <1>1, <1>2
  <2>3. phase # "boxes"
    BY DEF ArenaIInv, SweepInv
  <2>4. ~is_collecting => pending_root_queue' = {} /\ pending_ephemeron_queue' = {}
    BY <1>0, <1>1, <1>2 DEF PhaseInv
  <2> QED BY <1>0, <1>1, <1>7, <2>1, <2>2, <2>3, <2>4, PhaseStep
<1>10. QueuesExact' /\ SweepInv'
  <2>1. QueuesExact'
    BY <1>0, <1>1, <1>2, <1>5, <1>7 DEF QueuesExact, Open
  <2>2. pending_root_queue' \cap droppables' = {}
    BY <1>1, <1>5, <1>7 DEF ArenaIInv, SweepInv
  <2>3. \A t \in droppables : t # s /\ t \in Slot /\ color[t] # trace_color
    BY <1>0, <1>5 DEF TypeOK, ArenaIInv, SweepInv, IsReachable
  <2>4. \A t \in droppables : color'[t] # trace_color
    BY <1>6, <2>3
  <2> QED BY <1>2, <1>7, <2>1, <2>2, <2>4 DEF ArenaIInv, SweepInv, IsReachable
<1>11. /\ \A t : /\ HandlesInBoxes(t)' = HandlesInBoxes(t) /\ HandlesInValues(t)' = HandlesInValues(t)
                 /\ Stored(t)' <=> Stored(t)
       /\ HandlesInBoxes(s) = {} /\ HandlesInValues(s) = {}
  <2>1. UNCHANGED <<eph_live, eph_value, current, gone>>
    BY <1>2, <1>7
  <2>2. \A t : /\ HandlesInBoxes(t)' = HandlesInBoxes(t) /\ HandlesInValues(t)' = HandlesInValues(t)
               /\ Stored(t)' <=> Stored(t)
    BY <1>1, <1>5, <1>6, <2>1 DEF HandlesInBoxes, HandlesInValues, Stored
  <2>3. HandlesInBoxes(s) = {} /\ HandlesInValues(s) = {}
    BY <1>2 DEF HandlesInBoxes, HandlesInValues, Named, Stored
  <2> QED BY <2>2, <2>3
<1>12. CountsExactTwice'
  <2> SUFFICES ASSUME NEW t \in live', t \notin short'
               PROVE  root_count'[t] = held'[t] + Cardinality(HandlesInBoxes(t))
                                                + Cardinality(HandlesInValues(t))
    BY <1>11 DEF CountsExactTwice
  <2>1. CASE t = s
    BY <1>6, <1>11, <2>1, FS_EmptySet
  <2>2. CASE t # s
    <3>1. t \in live \ short /\ t \in Slot
      BY <1>1, <1>2, <1>5, <2>2
    <3> QED BY <1>1, <1>6, <2>2, <3>1, Counted
  <2> QED BY <2>1, <2>2
<1>13. HandlesLead' /\ DropInv'
  <2>1. UNCHANGED <<again, current, gone, phase, droppables>>
    BY <1>2, <1>7
  <2>2. \A t \in Slot : t # s => (Named(t)' <=> Named(t))
    BY <1>6, <1>11 DEF Named
  <2>3. HandlesLead'
    BY <1>1, <1>2, <2>2 DEF ArenaIInv, HandlesLead
  <2>4. gone # {} => again /\ gone \subseteq HandlesIn(current)'
    <3> SUFFICES ASSUME gone # {} PROVE again /\ gone \subseteq HandlesIn(current)'
      OBVIOUS
    <3>1. again /\ current # None /\ gone \subseteq HandlesIn(current)
      BY DEF ArenaIInv, DropInv
    <3>2. current \in Slot => current \in live
      BY <3>1, Dropping
    <3> QED BY <1>5, <1>6, <1>7, <3>1, <3>2 DEF HandlesIn
  <2>5. phase = "free_boxes" /\ current # None /\ current \notin short' => ~Named(current)'
    <3> SUFFICES ASSUME phase = "free_boxes", current # None, current \notin short'
                 PROVE  ~Named(current)'
      OBVIOUS
    <3>1. PICK c \in Slot : c = current /\ c = current' /\ c \in live
      BY <2>1, Dropping
    <3>2. c # s /\ ~Named(c)
      BY <1>2, <1>5, <3>1 DEF ArenaIInv, DropInv
    <3>3. ~Named(c)'
      BY <2>2, <3>2
    <3> QED BY <3>1, <3>3
  <2>6. again => current # None
    BY DEF ArenaIInv, DropInv
  <2>7. \A p \in Slot \ live' : fields'[p] = {}
    BY <1>1, <1>6 DEF ArenaIInv, DropInv
  <2> QED BY <2>1, <2>3, <2>4, <2>5, <2>6, <2>7 DEF DropInv
<1>14. MapExact'
  BY <1>1, <1>2, <1>7 DEF ArenaIInv, MapExact, Open
<1>15. EntryInv'
  BY <1>1, <1>2, <1>7 DEF ArenaIInv, EntryInv
<1>16. KeyInv'
  <2>1. \A k \in live : (Kept(k) => Kept(k)') /\ (IsReachable(k) => IsReachable(k)')
    BY <1>1, <1>5, <1>6, <1>7 DEF Kept, IsReachable
  <2>2. \A e \in pending_ephemeron_queue \cup ephemeron_queue : eph_key[e] \in live
    BY <1>0, <1>1 DEF ArenaIInv, QueuesExact, EntryInv
  <2>3. map_state = "alive" => \A k \in Slot : map[k] # None => k \in live
    BY <1>1 DEF ArenaIInv, MapExact
  <2>4. \A e \in pending_ephemeron_queue' : eph_key'[e] # None /\ Kept(eph_key[e])'
    BY <1>2, <1>7, <2>1, <2>2 DEF ArenaIInv, KeyInv, Kept, IsReachable
  <2>5. phase' \in {"ephemerons", "free_ephemerons", "free_boxes"} =>
          \A e \in ephemeron_queue' \ unvisited' : KeyReachable(e)'
    BY <1>2, <1>7, <2>1, <2>2 DEF ArenaIInv, KeyInv, KeyReachable, IsReachable
  <2>6. is_collecting' /\ map_state' = "alive" =>
          \A k \in Slot : map'[k] # None => map'[k] \notin eph_dead' /\ Kept(k)'
    BY <1>7, <2>1, <2>3 DEF ArenaIInv, KeyInv, is_collecting
  <2>7. \A e \in ephemeron_queue' : eph_key'[e] \notin pending_root_queue'
    BY <1>1, <1>2, <1>5, <1>7, <2>2 DEF ArenaIInv, KeyInv
  <2> QED BY <1>7, <2>4, <2>5, <2>6, <2>7 DEF KeyInv, Kept, IsReachable
<1>17. MissedInv'
  <2> SUFFICES ASSUME NEW t \in live', t \notin short' PROVE Missed(t)'
    BY DEF MissedInv
  <2>1. CASE t = s
    BY <1>6, <1>7, <2>1 DEF Missed, is_collecting
  <2>2. CASE t # s
    <3>1. t \in live \ short /\ t \in Slot /\ Missed(t)
      BY <1>1, <1>2, <1>5, <2>2 DEF ArenaIInv, MissedInv
    <3>2. /\ UNCHANGED <<phase, trace_color, gone>>
          /\ misses'[t] = misses[t] /\ root_count'[t] = root_count[t] /\ color'[t] = color[t]
          /\ t \in root_queue' <=> t \in root_queue
          /\ t \in pending_root_queue' <=> t \in pending_root_queue
      BY <1>1, <1>2, <1>6, <1>7, <2>2, <3>1
    <3> QED BY <3>1, <3>2 DEF Missed, is_collecting, IsReachable
  <2> QED BY <2>1, <2>2
<1> QED BY <1>8, <1>9, <1>10, <1>12, <1>13, <1>14, <1>15, <1>16, <1>17 DEF ArenaIInv

\* A new ephemeron joins one queue and one arena, with a key that is safe; the handles
\* in its value are counted already.  The entry it replaces becomes inactive.
LEMMA NewEphemeronInv ==
  ASSUME ArenaIInv, PlainClient, NEW e \in Eph, NEW k \in Slot, NEW value \in SUBSET Slot,
         AllocEphemeron(e, k, value),
         NEW dead \in SUBSET Eph, AllocEphemeronNode(e, k, dead),
         weaks' \in SUBSET Eph,
         \/ dead = {} /\ map' = map /\ removed' = removed \ {e}
         \/ /\ map_state = "alive" /\ dead = ReplacedBy(k) /\ map' = [map EXCEPT ![k] = e]
            /\ removed' = (removed \cup {map[k]}) \ {e, None}
  PROVE  ArenaIInv'
<1>0. TypeOK /\ PhaseInv /\ QueuesExact
  BY DEF ArenaIInv, ArenaTypeOK
<1>1. /\ Open /\ e \notin eph_live /\ held[k] > 0 /\ \A s \in value : held[s] > 0
      /\ eph_live' = eph_live \cup {e}
      /\ eph_key' = [eph_key EXCEPT ![e] = k] /\ eph_value' = [eph_value EXCEPT ![e] = value]
      /\ held' = [s \in Slot |-> IF s \in value THEN held[s] - 1 ELSE held[s]]
      /\ IF is_collecting
         THEN /\ pending_ephemeron_queue' = pending_ephemeron_queue \cup {e}
              /\ UNCHANGED ephemeron_queue
         ELSE /\ ephemeron_queue' = ephemeron_queue \cup {e}
              /\ UNCHANGED pending_ephemeron_queue
      /\ is_collecting => Kept(k)
  BY <1>0, RunningOpen DEF AllocEphemeron, NewEphemeron, PlainClient, Kept
<1>2. /\ UNCHANGED <<live, boxes, root_queue, pending_root_queue, collection, map_state, misses,
                     again, gone, short>>
      /\ Placed(e) /\ k \in live /\ stale' = stale \ {e}
      /\ active' = [d \in Eph |-> IF d = e THEN TRUE ELSE active[d] /\ d \notin dead]
  BY DEF AllocEphemeron, AllocEphemeronNode, NewActive
<1>3. UNCHANGED <<phase, unvisited, droppables, eph_dead, current, trace_color, color, root_count,
                  fields, wraps>>
  BY <1>2 DEF collection, boxes
<1>4. k \in live /\ k # None /\ e # None
      /\ e \notin ephemeron_queue \cup pending_ephemeron_queue \cup eph_dead
  BY <1>0, <1>1, <1>2, SlotsDistinct DEF QueuesExact
<1>5. \A s \in value : held[s] \in Nat /\ Named(s)
  BY <1>0, <1>1 DEF TypeOK, Named
<1>6. /\ eph_key'[e] = k /\ eph_value'[e] = value
      /\ \A d \in Eph : d # e => eph_key'[d] = eph_key[d] /\ eph_value'[d] = eph_value[d]
      /\ \A s \in Slot : held'[s] = IF s \in value THEN held[s] - 1 ELSE held[s]
  BY <1>0, <1>1 DEF TypeOK
<1>7. live \subseteq Slot /\ eph_live \subseteq Eph /\ \A d \in eph_live : d # e
  BY <1>0, <1>1 DEF TypeOK
<1>8. map' \in [Slot -> Eph \cup {None}] /\ removed' \in SUBSET Eph
  <2>1. map \in [Slot -> Eph \cup {None}] /\ removed \in SUBSET Eph
    BY <1>0 DEF TypeOK, ArenaIInv, ArenaTypeOK
  <2>2. map[k] \in Eph \cup {None}
    BY <2>1
  <2> QED BY <2>1, <2>2
<1>9. ArenaTypeOK' /\ ArenasInv'
  <2>1. Items' = Items \cup {e}
    BY <1>1, <1>2 DEF Items
  <2>2. arenas' \in Seq(SUBSET (Slot \cup Eph)) /\ ArenasInv'
    BY <1>2, <1>3, <2>1, PlacedInv
  <2>3. collect_needed' \in BOOLEAN
    <3>1. collect_needed' \in {collect_needed, TRUE}
      BY DEF AllocEphemeron
    <3> QED BY <1>0, <3>1, ZenonT(20) DEF TypeOK
  <2>4. /\ eph_live' \in SUBSET Eph /\ held' \in [Slot -> Nat]
        /\ eph_key' \in [Eph -> Slot \cup {None}] /\ eph_value' \in [Eph -> SUBSET Slot]
        /\ ephemeron_queue' \in SUBSET Eph /\ pending_ephemeron_queue' \in SUBSET Eph
    <3>1. held' \in [Slot -> Nat]
      BY <1>0, <1>1, <1>6 DEF TypeOK
    <3> QED BY <1>0, <1>1, <3>1 DEF TypeOK
  <2>5. active' \in [Eph -> BOOLEAN]
    <3>1. \A d \in Eph : (IF d = e THEN TRUE ELSE active[d] /\ d \notin dead) \in BOOLEAN
      OBVIOUS
    <3> QED BY <1>2, <3>1
  <2>6. TypeOK'
    BY <1>0, <1>2, <1>3, <1>8, <2>3, <2>4 DEF TypeOK
  <2>7. {removed', stale'} \subseteq SUBSET Eph /\ again' \in BOOLEAN /\ {gone', short'} \subseteq SUBSET Slot
    BY <1>2, <1>8 DEF ArenaIInv, ArenaTypeOK
  <2> QED BY <2>2, <2>5, <2>6, <2>7 DEF ArenaTypeOK
<1>10. PhaseInv'
  <2>1. wraps' = {}
    BY <1>0, <1>3 DEF PhaseInv
  <2>2. is_collecting => UNCHANGED <<root_queue, ephemeron_queue>>
    BY <1>1, <1>2
  <2>3. phase # "boxes"
    BY DEF ArenaIInv, SweepInv
  <2>4. ~is_collecting => pending_root_queue' = {} /\ pending_ephemeron_queue' = {}
    BY <1>0, <1>1, <1>2 DEF PhaseInv
  <2> QED BY <1>0, <1>1, <1>3, <2>1, <2>2, <2>3, <2>4, PhaseStep
<1>11. QueuesExact' /\ SweepInv'
  <2>1. QueuesExact'
    BY <1>0, <1>1, <1>2, <1>3, <1>4 DEF QueuesExact, Open
  <2>2. pending_ephemeron_queue' \cap eph_dead' = {}
    BY <1>1, <1>3, <1>4 DEF ArenaIInv, SweepInv
  <2> QED BY <1>2, <1>3, <2>1, <2>2 DEF ArenaIInv, SweepInv, IsReachable
<1>12. current # e
  <2>1. e # None
    BY SlotsDistinct
  <2> QED BY <1>1, <2>1, Dropping, SlotsDistinct
<1>13. \A t : /\ HandlesInBoxes(t)' = HandlesInBoxes(t)
              /\ t \notin value => HandlesInValues(t)' = HandlesInValues(t)
              /\ t \in value => /\ HandlesInValues(t)' = HandlesInValues(t) \cup {e}
                               /\ e \notin HandlesInValues(t)
              /\ Stored(t)' <=> Stored(t) \/ t \in value
  <2>1. UNCHANGED <<current, gone, live, fields>>
    BY <1>2, <1>3
  <2> QED BY <1>1, <1>6, <1>7, <1>12, <2>1 DEF HandlesInBoxes, HandlesInValues, Stored
<1>14. CountsExactTwice'
  <2> SUFFICES ASSUME NEW t \in live, t \notin short
               PROVE  root_count[t] = held'[t] + Cardinality(HandlesInBoxes(t)')
                                               + Cardinality(HandlesInValues(t)')
    BY <1>2, <1>3 DEF CountsExactTwice
  <2>1. /\ root_count[t] = held[t] + Cardinality(HandlesInBoxes(t)) + Cardinality(HandlesInValues(t))
        /\ t \in Slot /\ held[t] \in Nat
    BY <1>1, Counted
  <2>2. CASE t \in value
    <3>1. /\ Cardinality(HandlesInValues(t) \cup {e}) = Cardinality(HandlesInValues(t)) + 1
          /\ Cardinality(HandlesInBoxes(t)) \in Nat /\ Cardinality(HandlesInValues(t)) \in Nat
      BY <1>0, <1>13, <2>2, HandlesFinite, OneMore
    <3>2. /\ Cardinality(HandlesInValues(t)') = Cardinality(HandlesInValues(t)) + 1
          /\ Cardinality(HandlesInBoxes(t)') = Cardinality(HandlesInBoxes(t))
      BY <1>13, <2>2, <3>1
    <3>3. held'[t] = held[t] - 1
      BY <1>6, <2>1, <2>2
    <3> QED BY <2>1, <3>1, <3>2, <3>3
  <2>3. CASE t \notin value
    BY <1>6, <1>13, <2>1, <2>3
  <2> QED BY <2>2, <2>3
<1>15. HandlesLead' /\ DropInv'
  <2>1. UNCHANGED <<again, current, gone, short, phase, live, fields>>
    BY <1>2, <1>3
  <2>2. \A t \in Slot : Named(t)' => Named(t)
    BY <1>5, <1>6, <1>13 DEF Named
  <2>3. HandlesLead'
    BY <1>1, <2>1, <2>2 DEF ArenaIInv, HandlesLead
  <2>4. gone # {} => again /\ gone \subseteq HandlesIn(current)'
    <3> SUFFICES ASSUME gone # {} PROVE again /\ gone \subseteq HandlesIn(current)'
      OBVIOUS
    <3>1. again /\ current # None /\ gone \subseteq HandlesIn(current)
      BY DEF ArenaIInv, DropInv
    <3>2. current \in Slot \/ current \in Eph
      BY <3>1, Dropping
    <3> QED BY <1>6, <1>12, <2>1, <3>1, <3>2 DEF HandlesIn
  <2>5. phase = "free_boxes" /\ current # None /\ current \notin short => ~Named(current)'
    <3> SUFFICES ASSUME phase = "free_boxes", current # None, current \notin short
                 PROVE  ~Named(current)'
      OBVIOUS
    <3>1. PICK c \in Slot : c = current /\ c = current'
      BY <2>1, Dropping
    <3>2. ~Named(c)
      BY <3>1 DEF ArenaIInv, DropInv
    <3>3. ~Named(c)'
      BY <2>2, <3>2
    <3> QED BY <3>1, <3>3
  <2> QED BY <2>1, <2>3, <2>4, <2>5 DEF ArenaIInv, DropInv
<1>16. /\ \A j \in Slot : map'[j] = e \/ map'[j] = map[j]
       /\ \A j \in Slot : map'[j] = e /\ map[j] # e => j = k
       /\ \A j \in Slot : map'[j] # e /\ map'[j] # None => map'[j] \notin dead
  <2>1. CASE dead = {} /\ map' = map
    BY <2>1
  <2>2. CASE map_state = "alive" /\ dead = ReplacedBy(k) /\ map' = [map EXCEPT ![k] = e]
    <3>1. \A j \in Slot : map'[j] = IF j = k THEN e ELSE map[j]
      BY <1>0, <2>2 DEF TypeOK
    <3>2. \A j \in Slot : j # k /\ map[j] # None => map[j] # map[k]
      BY <1>1, <2>2 DEF ArenaIInv, MapExact
    <3> QED BY <2>2, <3>1, <3>2 DEF ReplacedBy
  <2> QED BY <2>1, <2>2
<1>17. map_state = "alive" => \A j \in Slot : map[j] # e
  BY <1>1, <1>4 DEF ArenaIInv, MapExact
<1>18. MapExact'
  <2> SUFFICES ASSUME map_state = "alive", NEW j \in Slot, map'[j] # None
               PROVE  j \in live /\ map'[j] \in eph_live' /\ eph_key'[map'[j]] = j
    BY <1>2 DEF MapExact
  <2>1. CASE map'[j] = e
    <3>1. j = k
      BY <1>16, <1>17, <2>1
    <3> QED BY <1>1, <1>4, <1>6, <2>1, <3>1
  <2>2. CASE map'[j] # e
    <3>1. map'[j] = map[j] /\ j \in live /\ map[j] \in eph_live /\ eph_key[map[j]] = j
      BY <1>1, <1>16, <2>2 DEF ArenaIInv, MapExact
    <3> QED BY <1>1, <1>6, <1>7, <3>1
  <2> QED BY <2>1, <2>2
<1>19. EntryInv'
  <2>1. \A d \in eph_live' : eph_key'[d] \in live'
    BY <1>1, <1>2, <1>4, <1>6, <1>7 DEF ArenaIInv, EntryInv
  <2>2. \A j \in Slot : map'[j] # None => active'[map'[j]]
    <3> SUFFICES ASSUME NEW j \in Slot, map'[j] # None PROVE active'[map'[j]]
      OBVIOUS
    <3>1. CASE map'[j] = e
      BY <1>2, <3>1
    <3>2. CASE map'[j] # e
      <4>1. map'[j] = map[j] /\ map[j] \in Eph /\ active[map[j]] /\ map[j] \notin dead
        BY <1>0, <1>16, <3>2 DEF TypeOK, ArenaIInv, EntryInv
      <4> QED BY <1>2, <3>2, <4>1
    <3> QED BY <3>1, <3>2
  <2>3. \A d \in removed' \cap eph_live' : ~active'[d]
    <3> SUFFICES ASSUME NEW d \in removed', d \in eph_live' PROVE ~active'[d]
      OBVIOUS
    <3>1. d # e /\ d \in eph_live /\ d \in Eph /\ (d \in removed \/ d \in dead)
      BY <1>1, <1>7 DEF ReplacedBy
    <3>2. d \in removed => ~active[d]
      BY <3>1 DEF ArenaIInv, EntryInv
    <3> QED BY <1>2, <3>1, <3>2
  <2>4. stale' \cap eph_live' \subseteq eph_dead'
    BY <1>1, <1>2, <1>3 DEF ArenaIInv, EntryInv
  <2> QED BY <2>1, <2>2, <2>3, <2>4 DEF EntryInv
<1>20. KeyInv'
  <2>1. UNCHANGED <<color, trace_color, pending_root_queue, phase, unvisited, eph_dead, map_state>>
    BY <1>2, <1>3
  <2>2. \A t : (Kept(t)' <=> Kept(t)) /\ (IsReachable(t)' <=> IsReachable(t))
    BY <2>1 DEF Kept, IsReachable
  <2>3. \A d \in ephemeron_queue \cup pending_ephemeron_queue : d # e /\ eph_key'[d] = eph_key[d]
    BY <1>0, <1>4, <1>6 DEF TypeOK
  <2>4. ~is_collecting => pending_root_queue = {}
    BY <1>0 DEF PhaseInv
  <2>5. \A d \in ephemeron_queue' : eph_key'[d] \notin pending_root_queue
    BY <1>1, <2>3, <2>4 DEF ArenaIInv, KeyInv
  <2>6. \A d \in pending_ephemeron_queue' : eph_key'[d] # None /\ Kept(eph_key'[d])
    BY <1>1, <1>4, <1>6, <2>3 DEF ArenaIInv, KeyInv
  <2>7. phase \in {"ephemerons", "free_ephemerons", "free_boxes"} =>
          \A d \in ephemeron_queue' \ unvisited : eph_key'[d] # None /\ IsReachable(eph_key'[d])
    BY <1>1, <2>3 DEF ArenaIInv, KeyInv, KeyReachable, is_collecting
  <2>8. is_collecting /\ map_state = "alive" =>
          \A j \in Slot : map'[j] # None => map'[j] \notin eph_dead /\ Kept(j)
    BY <1>1, <1>4, <1>16, <1>17 DEF ArenaIInv, KeyInv
  <2> QED BY <2>1, <2>5, <2>6, <2>7, <2>8 DEF KeyInv, Kept, KeyReachable, IsReachable, is_collecting
<1>21. MissedInv'
  BY <1>2, <1>3 DEF ArenaIInv, MissedInv, Missed, is_collecting, IsReachable
<1> QED BY <1>9, <1>10, <1>11, <1>14, <1>15, <1>18, <1>19, <1>20, <1>21 DEF ArenaIInv

\* Making a WeakGc and inserting in the map.
LEMMA ArenaEphemeronInv ==
  ASSUME ArenaIInv, PlainClient, NEW e \in Eph, NEW k \in Slot,
         NEW value \in {{}} \cup {{s} : s \in Slot},
         NewWeakGc(e, k) \/ InsertEntry(e, k, value)
  PROVE  ArenaIInv'
<1>0. {} \in SUBSET Eph /\ {} \in SUBSET Slot /\ weaks \in SUBSET Eph
  BY DEF ArenaIInv, ArenaTypeOK, TypeOK
<1>1. ASSUME NewWeakGc(e, k) PROVE ArenaIInv'
  <2>1. /\ AllocEphemeron(e, k, {}) /\ AllocEphemeronNode(e, k, {})
        /\ weaks' \in SUBSET Eph /\ map' = map /\ removed' = removed \ {e}
    BY <1>0, <1>1 DEF NewWeakGc, NewWeak
  <2> QED BY <1>0, <2>1, NewEphemeronInv
<1>2. ASSUME InsertEntry(e, k, value) PROVE ArenaIInv'
  <2>1. value \in SUBSET Slot
    OBVIOUS
  <2>2. /\ AllocEphemeron(e, k, value) /\ AllocEphemeronNode(e, k, ReplacedBy(k))
        /\ weaks' \in SUBSET Eph /\ map_state = "alive" /\ map' = [map EXCEPT ![k] = e]
        /\ removed' = (removed \cup {map[k]}) \ {e, None}
    BY <1>0, <1>2 DEF InsertEntry, Insert, WithEntry
  <2>3. ReplacedBy(k) \in SUBSET Eph
    BY DEF ReplacedBy, ArenaIInv, ArenaTypeOK, TypeOK
  <2> QED BY <2>1, <2>2, <2>3, NewEphemeronInv
<1> QED BY <1>1, <1>2

\* Taking an entry out of the map, dropping the map and dropping a WeakGc.
LEMMA ArenaForgetInv ==
  ASSUME ArenaIInv, \/ \E k \in Slot : RemoveEntry(k)
                    \/ DropWeakMap
                    \/ \E e \in Eph : DropWeakGc(e)
  PROVE  ArenaIInv'
<1>0. TypeOK /\ PhaseInv
  BY DEF ArenaIInv, ArenaTypeOK
<1>1. /\ UNCHANGED <<pool, boxes, ephemerons, queues, collection, held, misses, arenas, again, gone,
                     short, stale>>
      /\ collect_needed' = collect_needed /\ weaks' \in SUBSET Eph
  BY <1>0 DEF RemoveEntry, MapRemove, DropWeakMap, DropMap, DropWeakGc, DropWeak, client, arena,
     weakmap, TypeOK
<1>2. /\ map' \in [Slot -> Eph \cup {None}] /\ map_state' \in {map_state, "dropped"}
      /\ \A k \in Slot : map'[k] \in {map[k], None}
  BY <1>0 DEF RemoveEntry, MapRemove, DropWeakMap, DropMap, DropWeakGc, DropWeak, weakmap, TypeOK
<1>3. /\ active' \in [Eph -> BOOLEAN] /\ removed' \in SUBSET Eph
      /\ \A e \in removed' \cap eph_live : ~active'[e]
      /\ \A k \in Slot : map'[k] # None => active'[map'[k]]
  <2>0. /\ active \in [Eph -> BOOLEAN] /\ removed \in SUBSET Eph
        /\ \A e \in removed \cap eph_live : ~active[e]
        /\ \A k \in Slot : map[k] # None => active[map[k]]
    BY DEF ArenaIInv, ArenaTypeOK, EntryInv
  <2>1. ASSUME NEW k \in Slot, RemoveEntry(k)
        PROVE  /\ active' \in [Eph -> BOOLEAN] /\ removed' \in SUBSET Eph
               /\ \A e \in removed' \cap eph_live : ~active'[e]
               /\ \A j \in Slot : map'[j] # None => active'[map'[j]]
    <3>1. PICK d : d = map[k]
      OBVIOUS
    <3>2. /\ Open /\ map_state = "alive" /\ d \in Eph /\ d # None
          /\ map' = [map EXCEPT ![k] = None] /\ active' = [active EXCEPT ![d] = FALSE]
          /\ removed' = removed \cup {d}
      BY <1>0, <2>1, <3>1, RunningOpen DEF RemoveEntry, MapRemove, TypeOK
    <3>3. \A j \in Slot : j # k /\ map[j] # None => map[j] # d /\ map[j] \in Eph
      BY <1>0, <3>1, <3>2 DEF ArenaIInv, MapExact, TypeOK
    <3>4. \A e \in Eph : active'[e] = (active[e] /\ e # d)
      BY <2>0, <3>2
    <3>5. \A j \in Slot : map'[j] = IF j = k THEN None ELSE map[j]
      BY <1>0, <3>2 DEF TypeOK
    <3>6. active' \in [Eph -> BOOLEAN]
      BY <2>0, <3>2
    <3>7. removed' \in SUBSET Eph /\ \A e \in removed' \cap eph_live : ~active'[e]
      BY <2>0, <3>2, <3>4
    <3>8. \A j \in Slot : map'[j] # None => active'[map'[j]]
      BY <2>0, <3>3, <3>4, <3>5
    <3> QED BY <3>6, <3>7, <3>8
  <2>2. CASE DropWeakMap \/ \E e \in Eph : DropWeakGc(e)
    BY <2>0, <2>2 DEF DropWeakMap, DropMap, DropWeakGc, DropWeak, arena, weakmap
  <2> QED BY <2>1, <2>2
<1> USE <1>1 DEF pool, boxes, ephemerons, queues, collection
<1>4. ArenaTypeOK'
  <2>1. TypeOK'
    BY <1>0, <1>2 DEF TypeOK
  <2> QED BY <1>3, <2>1 DEF ArenaIInv, ArenaTypeOK
<1>5. PhaseInv' /\ SweepInv' /\ QueuesExact'
  BY DEF ArenaIInv, PhaseInv, SweepInv, QueuesExact, is_collecting, Open, IsReachable
<1>6. HandlesLead' /\ CountsExactTwice' /\ DropInv'
  <2>1. HandlesLead' /\ CountsExactTwice'
    BY DEF ArenaIInv, HandlesLead, Named, Stored, CountsExactTwice, HandlesInBoxes, HandlesInValues,
       Open
  <2>2. DropInv'
    BY DEF ArenaIInv, DropInv, Named, Stored, HandlesIn
  <2> QED BY <2>1, <2>2
<1>7. KeyInv'
  BY <1>2 DEF ArenaIInv, KeyInv, Kept, KeyReachable, IsReachable, is_collecting
<1>8. MapExact' /\ EntryInv'
  BY <1>2, <1>3 DEF ArenaIInv, MapExact, EntryInv, Open
<1>9. ArenasInv'
  BY DEF ArenaIInv, ArenasInv, Items, Held, EmptyArenasGo
<1>10. MissedInv'
  BY DEF ArenaIInv, MissedInv, Missed, is_collecting, IsReachable
<1> QED BY <1>4, <1>5, <1>6, <1>7, <1>8, <1>9, <1>10 DEF ArenaIInv

-----------------------------------------------------------------------------
(* The collection.                                                         *)

\* Tracing colours only boxes that it starts from or that some value has a handle to.
LEMMA TracedThroughHandle ==
  ASSUME TypeOK, NEW S \in SUBSET Slot,
         NEW s \in Slot, s \notin S, \A p \in Slot : s \notin fields[p]
  PROVE  Traced(S)[s] = color[s]
<1> DEFINE T == Slot \ {s}
<1>1. T \in SUBSET Slot /\ S \subseteq T /\ s \notin T
  OBVIOUS
<1>2. Closed(T)
  BY DEF Closed, Entered, TypeOK
<1>3. s \notin Reached(S)
  BY <1>1, <1>2 DEF Reached
<1> QED BY <1>3 DEF Traced

\* Marking takes no handle; it finds every box that is missed for the second time
\* unmarked, and leaves in the map only entries whose key it marked.
LEMMA StartCollectionInv ==
  ASSUME ArenaIInv, StartCollection
  PROVE  ArenaIInv'
<1>0. TypeOK /\ PhaseInv /\ QueuesExact
  BY DEF ArenaIInv, ArenaTypeOK
<1>1. /\ phase = "idle" /\ Open /\ ~is_collecting /\ current = None /\ wraps = {}
      /\ unvisited = {} /\ droppables = {} /\ eph_dead = {}
      /\ pending_root_queue = {} /\ pending_ephemeron_queue = {}
      /\ live = root_queue /\ eph_live = ephemeron_queue
      /\ again = FALSE /\ gone = {}
  <2>1. phase = "idle" /\ Open /\ ~is_collecting
    BY DEF StartCollection, Open, is_collecting
  <2>2. again = FALSE /\ gone = {}
    BY <1>0, <2>1 DEF ArenaIInv, ArenaTypeOK, DropInv, PhaseInv
  <2> QED BY <1>0, <2>1, <2>2 DEF PhaseInv, QueuesExact
<1>2. PICK m : m = Marked
  OBVIOUS
<1>3. /\ collect_needed' \in {collect_needed, FALSE} /\ color' = m
      /\ IF map_state = "alive"
         THEN map' = PrunedEntries(m) /\ UNCHANGED map_state
         ELSE map' = [k \in Slot |-> None] /\ map_state' = "reclaimed"
      /\ droppables' = DeadBoxes(m) /\ root_queue' = root_queue \ DeadBoxes(m)
      /\ eph_dead' = DeadEphemerons(m)
      /\ ephemeron_queue' = ephemeron_queue \ DeadEphemerons(m)
      /\ phase' = "free_ephemerons"
      /\ misses' = [s \in Slot |-> IF s \in live \ short /\ ~IsRooted(s) THEN misses[s] + 1 ELSE 0]
      /\ stale' = removed \cap eph_live
      /\ UNCHANGED <<live, eph_live, root_count, fields, wraps, eph_key, eph_value,
                     pending_root_queue, pending_ephemeron_queue, unvisited, current, trace_color,
                     held, weaks, active, arenas, again, gone, short, removed>>
  BY <1>2 DEF StartCollection, SweepMaps, pool, ephemerons, client
<1>4. PICK S \in SUBSET Slot :
        /\ m = Traced(S)
        /\ \A s \in S : root_count[s] > 0 \/ \E e \in eph_live : s \in eph_value[e]
  <2> DEFINE T == MarkRoots \cup
                  UNION {eph_value[e] : e \in {x \in ephemeron_queue :
                           EphReachable(x, TracedFrom(MarkRoots))}}
  <2>1. Traced(T) = m
    BY <1>2 DEF Marked, TracedFrom
  <2>2. T \subseteq Slot
    <3>1. root_queue \subseteq Slot /\ pending_root_queue \subseteq Slot /\ ephemeron_queue \subseteq Eph
      BY <1>0, <1>1 DEF TypeOK
    <3>2. \A e \in Eph : eph_value[e] \subseteq Slot
      BY <1>0 DEF TypeOK
    <3>3. MarkRoots \subseteq Slot
      BY <3>1 DEF MarkRoots
    <3> QED BY <3>1, <3>2, <3>3
  <2>3. \A s \in T : root_count[s] > 0 \/ \E e \in eph_live : s \in eph_value[e]
    BY <1>1 DEF MarkRoots, IsRooted
  <2> QED BY <2>1, <2>2, <2>3
<1>5. m \in [Slot -> TraceColor] /\ live \subseteq Slot
  BY <1>0, <1>4, TracedType DEF TypeOK
<1>6. /\ \A s \in live : s \in droppables' <=> m[s] # trace_color
      /\ droppables' \subseteq live
      /\ \A e \in eph_live : e \in eph_dead' <=> ~(active[e] /\ m[eph_key[e]] = trace_color)
      /\ eph_dead' \subseteq eph_live
  BY <1>1, <1>3 DEF DeadBoxes, DeadEphemerons, EphReachable, KeyReached
<1>7. /\ map' \in [Slot -> Eph \cup {None}]
      /\ \A k \in Slot : map'[k] # None => /\ map_state = "alive" /\ map'[k] = map[k]
                                           /\ m[eph_key[map[k]]] = trace_color
  <2>1. CASE map_state = "alive"
    BY <1>0, <1>3, <2>1 DEF PrunedEntries, KeyReached, TypeOK
  <2>2. CASE map_state # "alive"
    BY <1>3, <2>2
  <2> QED BY <2>1, <2>2
<1>8. ArenaTypeOK'
  <2>1. collect_needed' \in BOOLEAN
    BY <1>0, <1>3, ZenonT(20) DEF TypeOK
  <2>2. misses' \in [Slot -> Nat] /\ map_state' \in {"alive", "dropped", "reclaimed"}
    BY <1>0, <1>3 DEF TypeOK
  <2>3. TypeOK'
    BY <1>0, <1>3, <1>5, <1>6, <1>7, <2>1, <2>2 DEF TypeOK
  <2> QED BY <1>3, <2>3 DEF ArenaIInv, ArenaTypeOK
<1>9. PhaseInv'
  BY <1>0, <1>1, <1>3 DEF PhaseInv, is_collecting, Open
<1>10. SweepInv' /\ QueuesExact'
  BY <1>1, <1>3, <1>6 DEF SweepInv, QueuesExact, IsReachable, Open
<1>11. HandlesLead' /\ CountsExactTwice'
  BY <1>1, <1>3 DEF ArenaIInv, HandlesLead, Named, Stored, CountsExactTwice, HandlesInBoxes,
     HandlesInValues, Open
<1>12. DropInv'
  BY <1>1, <1>3 DEF ArenaIInv, DropInv
<1>13. KeyInv'
  <2>1. \A e \in ephemeron_queue' : eph_key[e] # None /\ m[eph_key[e]] = trace_color
    BY <1>1, <1>3, <1>5, <1>6, SlotsDistinct DEF ArenaIInv, EntryInv
  <2>2. \A k \in Slot : map'[k] # None => map'[k] \notin eph_dead' /\ m[k] = trace_color
    <3> SUFFICES ASSUME NEW k \in Slot, map'[k] # None
                 PROVE  map'[k] \notin eph_dead' /\ m[k] = trace_color
      OBVIOUS
    <3>1. map'[k] = map[k] /\ m[eph_key[map[k]]] = trace_color /\ map_state = "alive"
      BY <1>7
    <3>2. eph_key[map[k]] = k /\ map[k] \in eph_live /\ active[map[k]]
      BY <1>1, <3>1 DEF ArenaIInv, MapExact, EntryInv
    <3> QED BY <1>6, <3>1, <3>2
  <2> QED BY <1>1, <1>3, <2>1, <2>2 DEF KeyInv, Kept, KeyReachable, IsReachable
<1>14. MapExact' /\ EntryInv'
  <2>1. MapExact'
    BY <1>1, <1>3, <1>7 DEF ArenaIInv, MapExact
  <2>2. \A k \in Slot : map'[k] # None => active'[map'[k]]
    BY <1>3, <1>7 DEF ArenaIInv, EntryInv
  <2> QED BY <1>3, <1>6, <2>1, <2>2 DEF ArenaIInv, EntryInv
<1>15. ArenasInv'
  BY <1>3 DEF ArenaIInv, ArenasInv, Items, Held, EmptyArenasGo
<1>16. MissedInv'
  <2> SUFFICES ASSUME NEW s \in live, s \notin short PROVE Missed(s)'
    BY <1>3 DEF MissedInv
  <2>1. /\ is_collecting' /\ phase' # "idle" /\ gone' = {} /\ pending_root_queue' = {}
        /\ IsReachable(s)' <=> m[s] = trace_color
    BY <1>1, <1>3 DEF is_collecting, IsReachable
  <2>2. /\ misses'[s] = IF root_count[s] > 0 THEN 0 ELSE misses[s] + 1
        /\ misses[s] \in Nat /\ misses[s] <= 1 /\ root_count[s] \in Nat /\ s \in Slot
        /\ misses[s] > 0 => color[s] # trace_color
    BY <1>0, <1>1, <1>3, <1>5 DEF ArenaIInv, MissedInv, Missed, IsRooted, TypeOK, IsReachable
  <2>3. misses'[s] <= 2 /\ (misses'[s] > 0 => root_count[s] = 0)
    BY <2>2
  <2>4. misses'[s] = 2 => m[s] # trace_color
    <3> SUFFICES ASSUME misses'[s] = 2 PROVE m[s] # trace_color
      OBVIOUS
    <3>1. root_count[s] = 0 /\ color[s] # trace_color
      BY <2>2
    <3>2. ~Named(s)
      BY <1>1, <3>1, Counted
    <3>3. s \notin S
      BY <1>4, <3>1, <3>2 DEF Named, Stored
    <3>4. \A p \in Slot : s \notin fields[p]
      BY <3>2 DEF Named, Stored, ArenaIInv, DropInv
    <3>5. m[s] = color[s]
      BY <1>0, <1>4, <2>2, <3>3, <3>4, TracedThroughHandle
    <3> QED BY <3>1, <3>5
  <2>5. s \in root_queue' => m[s] = trace_color
    BY <1>1, <1>3, <1>6
  <2> QED BY <1>1, <1>3, <2>1, <2>3, <2>4, <2>5 DEF Missed
<1> QED BY <1>8, <1>9, <1>10, <1>11, <1>12, <1>13, <1>14, <1>15, <1>16 DEF ArenaIInv

\* A drop begins, or the loop over the ephemerons ends.
LEMMA ArenaDropStartsInv ==
  ASSUME ArenaIInv, \/ \E e \in Eph : FreeEphemeron(e)
                    \/ LastEphemeron
                    \/ \E s \in Slot : FreeBox(s)
  PROVE  ArenaIInv'
<1>0. TypeOK /\ PhaseInv /\ QueuesExact
  BY DEF ArenaIInv, ArenaTypeOK
<1>1. /\ UNCHANGED <<pool, color, root_count, fields, wraps, eph_key, eph_value, collect_needed,
                     pending_root_queue, ephemeron_queue, pending_ephemeron_queue, weakmap,
                     unvisited, eph_dead, trace_color, held, weaks, misses, arena>>
      /\ current = None
  BY DEF FreeEphemeron, DropEphemeron, LastEphemeron, FreeBox, DropBox, boxes, ephemerons, queues,
     client
<1>2. \/ /\ phase = "free_ephemerons" /\ current' \in eph_dead
         /\ UNCHANGED <<phase, root_queue, droppables>>
      \/ /\ phase = "free_ephemerons" /\ phase' = "free_boxes" /\ eph_dead = {}
         /\ UNCHANGED <<root_queue, droppables, current>>
      \/ /\ phase = "free_boxes" /\ current' \in droppables /\ root_count[current'] = 0
         /\ UNCHANGED <<phase, root_queue, droppables>>
      \/ /\ phase = "free_boxes" /\ UNCHANGED <<phase, current>>
         /\ \E s \in droppables : /\ root_count[s] > 0
                                  /\ root_queue' = root_queue \cup {s}
                                  /\ droppables' = droppables \ {s}
  <2>1. CASE \E e \in Eph : FreeEphemeron(e)
    BY <2>1 DEF FreeEphemeron, DropEphemeron, queues
  <2>2. CASE LastEphemeron
    BY <2>2 DEF LastEphemeron, queues
  <2>3. CASE \E s \in Slot : FreeBox(s)
    BY <1>0, <2>3 DEF FreeBox, DropBox, SavedByHandle, IsRooted, TypeOK
  <2> QED BY <2>1, <2>2, <2>3
<1>3. /\ Open /\ Open' /\ is_collecting /\ is_collecting' /\ again = FALSE /\ gone = {}
      /\ phase' \in {"free_ephemerons", "free_boxes"}
      /\ droppables' \subseteq droppables /\ droppables \subseteq live
  BY <1>0, <1>1, <1>2 DEF Open, is_collecting, ArenaIInv, ArenaTypeOK, DropInv, QueuesExact
<1> USE DEF pool, weakmap, arena
<1>4. ArenaTypeOK'
  <2>1. /\ droppables' \in SUBSET Slot /\ root_queue' \in SUBSET Slot
        /\ current' \in Slot \cup Eph \cup {None}
    BY <1>0, <1>1, <1>2 DEF TypeOK
  <2>2. TypeOK'
    BY <1>0, <1>1, <1>3, <2>1 DEF TypeOK
  <2> QED BY <1>1, <2>2 DEF ArenaIInv, ArenaTypeOK
<1>5. PhaseInv'
  BY <1>0, <1>1, <1>2, <1>3 DEF PhaseInv
<1>6. SweepInv' /\ QueuesExact'
  <2>1. SweepInv'
    BY <1>1, <1>3 DEF ArenaIInv, SweepInv, IsReachable
  <2>2. QueuesExact'
    BY <1>0, <1>1, <1>2, <1>3 DEF ArenaIInv, SweepInv, QueuesExact
  <2> QED BY <2>1, <2>2
<1>7. HandlesLead' /\ CountsExactTwice' /\ MapExact' /\ EntryInv'
  <2>1. \A t : /\ Named(t)' <=> Named(t)
               /\ HandlesInBoxes(t)' = HandlesInBoxes(t) /\ HandlesInValues(t)' = HandlesInValues(t)
    BY <1>1, <1>3 DEF Named, Stored, HandlesInBoxes, HandlesInValues
  <2>2. HandlesLead' /\ CountsExactTwice'
    BY <1>1, <1>3, <2>1 DEF ArenaIInv, HandlesLead, CountsExactTwice
  <2> QED BY <1>1, <1>3, <2>2 DEF ArenaIInv, MapExact, EntryInv
<1>8. DropInv'
  <2>1. phase' = "free_boxes" /\ current' # None /\ current' \notin short => ~Named(current')
    <3> SUFFICES ASSUME phase' = "free_boxes", current' # None, current' \notin short
                 PROVE  ~Named(current')
      OBVIOUS
    <3>1. current' \in live \ short /\ root_count[current'] = 0
      BY <1>1, <1>2, <1>3
    <3> QED BY <1>3, <3>1, Counted
  <2>2. \A t : Named(t)' <=> Named(t)
    BY <1>1 DEF Named, Stored
  <2>3. phase' = "free_boxes" /\ current' # None /\ current' \notin short' => ~Named(current)'
    <3>1. PICK c : c = current'
      OBVIOUS
    <3>2. phase' = "free_boxes" /\ c # None /\ c \notin short' => ~Named(c)'
      BY <1>1, <2>1, <2>2, <3>1
    <3> QED BY <3>1, <3>2
  <2> QED BY <1>1, <1>3, <2>3 DEF ArenaIInv, DropInv
<1>9. KeyInv'
  <2>1. phase' \in {"ephemerons", "free_ephemerons", "free_boxes"} =>
          \A e \in ephemeron_queue' \ unvisited' : KeyReachable(e)'
    BY <1>1, <1>2 DEF ArenaIInv, KeyInv, KeyReachable, IsReachable
  <2> QED BY <1>1, <1>3, <2>1 DEF ArenaIInv, KeyInv, Kept, KeyReachable, IsReachable
<1>10. ArenasInv'
  BY <1>1, <1>3 DEF ArenaIInv, ArenasInv, Items, Held, EmptyArenasGo, is_collecting
<1>11. MissedInv'
  <2> SUFFICES ASSUME NEW s \in live, s \notin short PROVE Missed(s)'
    BY <1>1 DEF MissedInv
  <2>1. Missed(s)
    BY DEF ArenaIInv, MissedInv
  <2>2. s \in root_queue' /\ misses[s] > 0 => color[s] = trace_color
    BY <1>2, <1>3, <2>1 DEF Missed, IsReachable
  <2>3. phase' # "idle" /\ phase # "idle"
    BY <1>2, <1>3
  <2> QED BY <1>1, <1>3, <2>1, <2>2, <2>3 DEF Missed, IsReachable
<1> QED BY <1>4, <1>5, <1>6, <1>7, <1>8, <1>9, <1>10, <1>11 DEF ArenaIInv

\* The second drop of a value counts its handles out again: where the first drop has
\* done so already, a count that is left is that of another handle.  The slot is freed.
LEMMA DropReturnsInv ==
  ASSUME ArenaIInv, DropReturns
  PROVE  ArenaIInv'
<1>0. TypeOK /\ PhaseInv /\ QueuesExact
  BY DEF ArenaIInv, ArenaTypeOK
<1>1. /\ UNCHANGED <<color, wraps, eph_key, collect_needed, queues, weakmap, phase, unvisited,
                     trace_color, held, weaks, misses, active, arenas, removed, stale>>
      /\ again /\ current # None /\ current' = None /\ again' = FALSE /\ gone' = {}
  BY DEF DropReturns, Return, client
<1>2. Open /\ is_collecting /\ phase \in {"free_ephemerons", "free_boxes"}
  BY <1>1, Dropping
<1>3. PICK x, H : x = current /\ H = HandlesIn(current)
  OBVIOUS
<1>4. \/ /\ phase = "free_ephemerons" /\ x \in eph_dead /\ x \in eph_live /\ x \in Eph
         /\ H = eph_value[x] /\ x \notin Slot
         /\ eph_live' = eph_live \ {x} /\ eph_dead' = eph_dead \ {x}
         /\ root_count' = Dec(root_count, H) /\ eph_value' = [eph_value EXCEPT ![x] = {}]
         /\ UNCHANGED <<live, fields, droppables>>
      \/ /\ phase = "free_boxes" /\ x \in droppables /\ x \in live /\ x \in Slot
         /\ H = fields[x] /\ x \notin Eph
         /\ live' = live \ {x} /\ droppables' = droppables \ {x}
         /\ root_count' = Dec(root_count, H) /\ fields' = [fields EXCEPT ![x] = {}]
         /\ UNCHANGED <<eph_live, eph_value, eph_dead>>
         /\ x \notin short => ~Named(x)
  <2>1. CASE phase = "free_ephemerons"
    <3>1. x \in eph_dead /\ x \in eph_live /\ x \in Eph /\ x \notin Slot /\ H = eph_value[x]
      BY <1>1, <1>3, <2>1, Dropping
    <3> QED BY <1>3, <2>1, <3>1 DEF DropReturns, Return, DropEphemeronValue
  <2>2. CASE phase = "free_boxes"
    <3>1. x \in droppables /\ x \in live /\ x \in Slot /\ H = fields[x] /\ x \notin Eph
      BY <1>1, <1>3, <2>2, Dropping, SlotsDistinct
    <3>2. x \notin short => ~Named(x)
      BY <1>1, <1>3, <2>2 DEF ArenaIInv, DropInv
    <3> QED BY <1>3, <2>2, <3>1, <3>2 DEF DropReturns, Return, DropBoxValue
  <2> QED BY <1>2, <2>1, <2>2
<1>5. /\ live' \subseteq live /\ eph_live' \subseteq eph_live
      /\ live \subseteq Slot /\ eph_live \subseteq Eph /\ H \subseteq Slot
      /\ \A p \in live' : fields'[p] = fields[p]
      /\ \A e \in eph_live' : eph_value'[e] = eph_value[e]
      /\ \A t \in Slot : root_count'[t] = IF t \in H /\ root_count[t] > 0
                                          THEN root_count[t] - 1 ELSE root_count[t]
  BY <1>0, <1>2, <1>4 DEF Dec, TypeOK
<1>6. /\ short \subseteq short' /\ short' \subseteq Slot
      /\ \A t \in H \cap gone : t \notin short' => ~(root_count[t] > 0)
      /\ gone \subseteq H
  <2>1. short' = short \cup Taken(H)
    BY <1>3 DEF DropReturns
  <2>2. gone \subseteq H
    BY <1>1, <1>3 DEF ArenaIInv, DropInv
  <2> QED BY <1>5, <2>1, <2>2 DEF Taken, ArenaIInv, ArenaTypeOK
<1> USE DEF queues, weakmap
<1>7. ArenaTypeOK'
  <2>1. root_count' \in [Slot -> Nat]
    <3>1. root_count' = Dec(root_count, H)
      BY <1>4
    <3> QED BY <1>0, <3>1 DEF Dec, TypeOK
  <2>2. /\ live' \in SUBSET Slot /\ eph_live' \in SUBSET Eph /\ droppables' \in SUBSET Slot
        /\ eph_dead' \in SUBSET Eph
        /\ fields' \in [Slot -> SUBSET Slot] /\ eph_value' \in [Eph -> SUBSET Slot]
    BY <1>0, <1>4 DEF TypeOK
  <2>3. TypeOK'
    BY <1>0, <1>1, <2>1, <2>2 DEF TypeOK
  <2> QED BY <1>1, <1>6, <2>3 DEF ArenaIInv, ArenaTypeOK
<1>8. PhaseInv'
  BY <1>0, <1>1, <1>2, <1>4 DEF PhaseInv, is_collecting, Open
<1>9. SweepInv' /\ QueuesExact'
  <2>1. SweepInv'
    BY <1>1, <1>4 DEF ArenaIInv, SweepInv, IsReachable
  <2>2. QueuesExact'
    BY <1>0, <1>1, <1>2, <1>4 DEF ArenaIInv, SweepInv, QueuesExact, Open
  <2> QED BY <2>1, <2>2
<1>10. HandlesLead' /\ DropInv'
  <2>1. \A t : Named(t)' => Named(t)
    BY <1>1, <1>5 DEF Named, Stored
  <2>2. HandlesLead'
    BY <1>2, <1>4, <1>6, <2>1 DEF ArenaIInv, HandlesLead
  <2>3. \A p \in Slot \ live' : fields'[p] = {}
    BY <1>0, <1>4 DEF ArenaIInv, DropInv, TypeOK
  <2> QED BY <1>1, <2>2, <2>3 DEF DropInv
<1>11. \A t \in H \ gone :
         \/ /\ HandlesInBoxes(t)' = HandlesInBoxes(t) \ {x} /\ x \in HandlesInBoxes(t)
            /\ HandlesInValues(t)' = HandlesInValues(t)
         \/ /\ HandlesInValues(t)' = HandlesInValues(t) \ {x} /\ x \in HandlesInValues(t)
            /\ HandlesInBoxes(t)' = HandlesInBoxes(t)
  BY <1>1, <1>3, <1>4, <1>5 DEF HandlesInBoxes, HandlesInValues
<1>12. \A t : t \notin H \ gone => /\ HandlesInBoxes(t)' = HandlesInBoxes(t)
                                  /\ HandlesInValues(t)' = HandlesInValues(t)
  BY <1>1, <1>3, <1>4, <1>5, <1>6 DEF HandlesInBoxes, HandlesInValues
<1>13. CountsExactTwice'
  <2> SUFFICES ASSUME NEW t \in live, t \notin short'
               PROVE  root_count'[t] = held[t] + Cardinality(HandlesInBoxes(t)')
                                               + Cardinality(HandlesInValues(t)')
    BY <1>1, <1>5 DEF CountsExactTwice
  <2>1. /\ root_count[t] = held[t] + Cardinality(HandlesInBoxes(t)) + Cardinality(HandlesInValues(t))
        /\ t \in Slot /\ held[t] \in Nat /\ root_count[t] \in Nat
    BY <1>2, <1>6, Counted
  <2>2. CASE t \notin H \ gone
    <3>1. root_count'[t] = root_count[t]
      BY <1>5, <1>6, <2>1, <2>2
    <3> QED BY <1>12, <2>1, <2>2, <3>1
  <2>3. CASE t \in H \ gone
    <3>1. PICK B, V : B = HandlesInBoxes(t) /\ V = HandlesInValues(t)
      OBVIOUS
    <3>2. /\ IsFiniteSet(B) /\ Cardinality(B) \in Nat /\ IsFiniteSet(V) /\ Cardinality(V) \in Nat
          /\ root_count[t] = held[t] + Cardinality(B) + Cardinality(V)
      BY <1>0, <2>1, <3>1, HandlesFinite
    <3>3. \/ HandlesInBoxes(t)' = B \ {x} /\ x \in B /\ HandlesInValues(t)' = V
          \/ HandlesInValues(t)' = V \ {x} /\ x \in V /\ HandlesInBoxes(t)' = B
      BY <1>11, <2>3, <3>1
    <3>4. /\ x \in B => Cardinality(B \ {x}) = Cardinality(B) - 1 /\ Cardinality(B) # 0
          /\ x \in V => Cardinality(V \ {x}) = Cardinality(V) - 1 /\ Cardinality(V) # 0
      BY <3>2, OneLess, FS_EmptySet
    <3>5. root_count[t] > 0
      BY <2>1, <3>2, <3>3, <3>4
    <3>6. root_count'[t] = root_count[t] - 1
      BY <1>5, <2>1, <2>3, <3>5
    <3>7. \/ /\ Cardinality(HandlesInBoxes(t)') = Cardinality(B) - 1
             /\ Cardinality(HandlesInValues(t)') = Cardinality(V)
          \/ /\ Cardinality(HandlesInBoxes(t)') = Cardinality(B)
             /\ Cardinality(HandlesInValues(t)') = Cardinality(V) - 1
      BY <3>3, <3>4
    <3> QED BY <2>1, <3>2, <3>6, <3>7
  <2> QED BY <2>2, <2>3
<1>14. KeyInv'
  BY <1>1, <1>2, <1>4 DEF ArenaIInv, KeyInv, Kept, KeyReachable, IsReachable, is_collecting
<1>15. \A e \in eph_live' : eph_key[e] \in live'
  <2>1. CASE phase = "free_ephemerons"
    BY <1>4, <1>5, <2>1 DEF ArenaIInv, EntryInv
  <2>2. CASE phase = "free_boxes"
    <3>1. \A e \in eph_live : eph_key[e] \in live /\ eph_key[e] \notin droppables
      BY <2>2, KeysKept
    <3> QED BY <1>4, <2>2, <3>1
  <2> QED BY <1>2, <2>1, <2>2
<1>16. MapExact'
  <2>1. map_state = "alive" => \A k \in Slot : map[k] # None => map[k] \in eph_live' /\ eph_key[map[k]] = k
    <3>1. map_state = "alive" => \A k \in Slot : map[k] # None =>
            map[k] \in eph_live /\ eph_key[map[k]] = k /\ map[k] \notin eph_dead
      BY <1>2 DEF ArenaIInv, MapExact, KeyInv
    <3> QED BY <1>4, <3>1
  <2> QED BY <1>1, <1>15, <2>1 DEF MapExact
<1>17. EntryInv'
  BY <1>1, <1>4, <1>5, <1>15 DEF ArenaIInv, EntryInv
<1>18. ArenasInv'
  BY <1>1, <1>2, <1>5 DEF ArenaIInv, ArenasInv, Items, Held, EmptyArenasGo, is_collecting
<1>19. MissedInv'
  <2> SUFFICES ASSUME NEW t \in live, t \notin short' PROVE Missed(t)'
    BY <1>5 DEF MissedInv
  <2>1. Missed(t) /\ (root_count[t] = 0 => root_count'[t] = 0)
    BY <1>5, <1>6 DEF ArenaIInv, MissedInv
  <2>2. phase # "idle"
    BY <1>2
  <2> QED BY <1>1, <1>2, <2>1, <2>2 DEF Missed, IsReachable, is_collecting
<1> QED BY <1>7, <1>8, <1>9, <1>10, <1>13, <1>14, <1>16, <1>17, <1>18, <1>19 DEF ArenaIInv

\* With the flip of the trace colour what was marked is unmarked, and the arenas
\* without an item go.
LEMMA FinishCollectionInv ==
  ASSUME ArenaIInv, FinishCollection
  PROVE  ArenaIInv'
<1>0. TypeOK /\ PhaseInv /\ QueuesExact
  BY DEF ArenaIInv, ArenaTypeOK
<1>1. /\ UNCHANGED <<live, eph_live, color, root_count, fields, wraps, eph_key, eph_value, map,
                     map_state, unvisited, droppables, eph_dead, current, held, weaks,
                     collect_needed, misses, active, again, gone, short, removed, stale>>
      /\ phase = "free_boxes" /\ current = None /\ droppables = {}
      /\ phase' = "idle" /\ trace_color' = Flip(trace_color)
      /\ root_queue' = root_queue \cup pending_root_queue
      /\ ephemeron_queue' = ephemeron_queue \cup pending_ephemeron_queue
      /\ pending_root_queue' = {} /\ pending_ephemeron_queue' = {}
      /\ arenas' = LiveArenas
  BY DEF FinishCollection, Finish, Flipped, JoinedPending, pool, boxes, ephemerons, weakmap, client
<1>2. Open /\ Open' /\ is_collecting /\ ~is_collecting' /\ eph_dead = {} /\ unvisited = {}
  BY <1>0, <1>1 DEF Open, is_collecting, PhaseInv
<1>3. arenas' \in Seq(SUBSET (Slot \cup Eph)) /\ ArenasInv'
  <2>1. /\ arenas' \in Seq(SUBSET (Slot \cup Eph))
        /\ \A k \in DOMAIN arenas' : arenas'[k] \cap Items # {}
        /\ \A x \in Items \cap Held : \E k \in DOMAIN arenas' : x \in arenas'[k]
        /\ \A j, k \in DOMAIN arenas' : j # k => arenas'[j] \cap arenas'[k] = {}
    BY <1>1, LiveArenasFacts
  <2>2. Items' = Items
    BY <1>1 DEF Items
  <2>3. \A x \in Items : \E k \in DOMAIN arenas' : x \in arenas'[k]
    BY <2>1 DEF ArenaIInv, ArenasInv
  <2>4. Items \subseteq Held'
    BY <2>3 DEF Held
  <2> QED BY <2>1, <2>2, <2>4 DEF ArenasInv, EmptyArenasGo
<1>4. ArenaTypeOK'
  <2>1. trace_color' \in TraceColor
    BY <1>1 DEF Flip, TraceColor
  <2>2. TypeOK'
    BY <1>0, <1>1, <2>1 DEF TypeOK
  <2> QED BY <1>1, <1>3, <2>2 DEF ArenaIInv, ArenaTypeOK
<1>5. PhaseInv'
  BY <1>0, <1>1, <1>2 DEF PhaseInv
<1>6. SweepInv' /\ QueuesExact'
  BY <1>0, <1>1, <1>2 DEF SweepInv, QueuesExact
<1>7. HandlesLead' /\ CountsExactTwice' /\ MapExact' /\ EntryInv'
  BY <1>1, <1>2 DEF ArenaIInv, HandlesLead, Named, Stored, CountsExactTwice, HandlesInBoxes,
     HandlesInValues, MapExact, EntryInv
<1>8. DropInv'
  BY <1>1 DEF ArenaIInv, DropInv
<1>9. KeyInv'
  BY <1>1, <1>2 DEF KeyInv
<1>10. MissedInv'
  <2> SUFFICES ASSUME NEW s \in live, s \notin short PROVE Missed(s)'
    BY <1>1 DEF MissedInv
  <2>1. color[s] = trace_color <=> color[s] # trace_color'
    BY <1>0, <1>1 DEF TypeOK, TraceColor, Flip
  <2>2. s \in root_queue \cup pending_root_queue
    BY <1>0, <1>1, <1>2 DEF QueuesExact
  <2>3. /\ misses[s] \in Nat /\ misses[s] <= 2
        /\ misses[s] > 0 => color[s] = trace_color /\ root_count[s] = 0 /\ s \notin gone
        /\ misses[s] = 2 => color[s] # trace_color
    BY <1>0, <1>2, <2>2 DEF ArenaIInv, MissedInv, Missed, IsReachable, TypeOK
  <2>4. misses[s] <= 1
    BY <2>3
  <2> QED BY <1>1, <1>2, <2>1, <2>3, <2>4 DEF Missed, IsReachable
<1> QED BY <1>3, <1>4, <1>5, <1>6, <1>7, <1>8, <1>9, <1>10 DEF ArenaIInv

\* The end of the collector leaves nothing to be wrong about.
LEMMA DropGarbageCollectorInv ==
  ASSUME ArenaIInv, DropGarbageCollector
  PROVE  ArenaIInv'
<1>0. TypeOK /\ PhaseInv
  BY DEF ArenaIInv, ArenaTypeOK
<1>1. /\ UNCHANGED <<color, root_count, wraps, eph_key, collect_needed, pending_root_queue,
                     pending_ephemeron_queue, unvisited, droppables, eph_dead, current,
                     trace_color, held, weaks, misses, active, again, gone, short, removed, stale>>
      /\ phase = "idle" /\ phase' \in {"leaked", "dropped"}
      /\ live' = {} /\ eph_live' = {} /\ root_queue' = {} /\ ephemeron_queue' = {}
      /\ fields' = [s \in Slot |-> {}] /\ eph_value' = [e \in Eph |-> {}]
      /\ map' = [k \in Slot |-> None] /\ map_state' = "reclaimed" /\ arenas' = <<>>
  BY DEF DropGarbageCollector, TagAll, client
<1>2. /\ current = None /\ unvisited = {} /\ droppables = {} /\ eph_dead = {}
      /\ pending_root_queue = {} /\ pending_ephemeron_queue = {} /\ wraps = {}
      /\ again = FALSE /\ gone = {}
  <2>1. ~is_collecting /\ phase \notin {"boxes", "ephemerons", "free_ephemerons"}
    BY <1>1 DEF is_collecting
  <2> QED BY <1>0, <2>1 DEF PhaseInv, ArenaIInv, ArenaTypeOK, DropInv
<1>3. ~is_collecting' /\ ~Open'
  BY <1>1 DEF is_collecting, Open
<1>4. ArenaTypeOK'
  <2>1. TypeOK'
    BY <1>0, <1>1 DEF TypeOK
  <2>2. arenas' \in Seq(SUBSET (Slot \cup Eph))
    BY <1>1, EmptySeq
  <2> QED BY <1>1, <2>1, <2>2 DEF ArenaIInv, ArenaTypeOK
<1>5. PhaseInv' /\ SweepInv' /\ QueuesExact'
  BY <1>1, <1>2, <1>3 DEF PhaseInv, SweepInv, QueuesExact
<1>6. HandlesLead' /\ CountsExactTwice' /\ DropInv' /\ KeyInv' /\ MapExact' /\ EntryInv'
  BY <1>1, <1>2, <1>3 DEF HandlesLead, CountsExactTwice, DropInv, KeyInv, MapExact, EntryInv
<1>7. ArenasInv' /\ MissedInv'
  BY <1>1, <1>2, <1>3 DEF ArenasInv, MissedInv, Items, EmptyArenasGo
<1> QED BY <1>4, <1>5, <1>6, <1>7 DEF ArenaIInv

\* A step of anything but the collector and its client changes nothing.
LEMMA ArenaStutterInv ==
  ASSUME ArenaIInv, UNCHANGED vars2
  PROVE  ArenaIInv'
<1> USE DEF vars2, vars, arena, pool, boxes, ephemerons, queues, weakmap, collection, client
<1>1. ArenaTypeOK'
  BY DEF ArenaIInv, ArenaTypeOK, TypeOK
<1>2. PhaseInv' /\ SweepInv' /\ QueuesExact'
  BY DEF ArenaIInv, PhaseInv, SweepInv, QueuesExact, is_collecting, Open, IsReachable
<1>3. HandlesLead' /\ CountsExactTwice' /\ DropInv'
  <2>1. HandlesLead' /\ CountsExactTwice'
    BY DEF ArenaIInv, HandlesLead, Named, Stored, CountsExactTwice, HandlesInBoxes, HandlesInValues,
       Open
  <2>2. DropInv'
    BY DEF ArenaIInv, DropInv, Named, Stored, HandlesIn
  <2> QED BY <2>1, <2>2
<1>4. KeyInv'
  BY DEF ArenaIInv, KeyInv, Kept, KeyReachable, IsReachable, is_collecting
<1>5. MapExact' /\ EntryInv'
  BY DEF ArenaIInv, MapExact, EntryInv, Open
<1>6. ArenasInv' /\ MissedInv'
  BY DEF ArenaIInv, ArenasInv, Items, Held, EmptyArenasGo, MissedInv, Missed, is_collecting,
     IsReachable
<1> QED BY <1>1, <1>2, <1>3, <1>4, <1>5, <1>6 DEF ArenaIInv

\* Every step preserves the invariant.
LEMMA ArenaNextInv ==
  ASSUME ArenaIInv, PlainClient, [ArenaNext]_vars2
  PROVE  ArenaIInv'
<1>1. CASE ArenaClient
  <2>1. CASE \E s \in Slot : NewGc(s) \/ CloneGc(s) \/ DropGc(s)
    BY <2>1, NewGcInv, HandlesMadeInv, DropGcInv
  <2>2. CASE \E p \in Slot, s \in Slot : StoreGc(p, s) \/ ClearGc(p, s)
    BY <2>2, StoreGcInv, ClearGcInv
  <2>3. CASE \E e \in Eph, k \in Slot : NewWeakGc(e, k)
    BY <2>3, ArenaEphemeronInv
  <2>4. CASE \E e \in Eph : UpgradeWeakGc(e) \/ DropWeakGc(e)
    BY <2>4, HandlesMadeInv, ArenaForgetInv
  <2>5. CASE \E e \in Eph, k \in Slot : \E value \in {{}} \cup {{s} : s \in Slot} :
               InsertEntry(e, k, value)
    BY <2>5, ArenaEphemeronInv
  <2>6. CASE (\E k \in Slot : RemoveEntry(k)) \/ DropWeakMap
    BY <2>6, ArenaForgetInv
  <2>7. CASE StartCollection
    BY <2>7, StartCollectionInv
  <2>8. CASE DropGarbageCollector
    BY <2>8, DropGarbageCollectorInv
  <2>9. CASE \E k \in Slot, s \in Slot : GetEntry(k, s)
    BY <2>9, HandlesMadeInv
  <2> QED BY <1>1, <2>1, <2>2, <2>3, <2>4, <2>5, <2>6, <2>7, <2>8, <2>9 DEF ArenaClient
<1>2. CASE ArenaCollector
  <2>1. CASE \/ \E e \in Eph : FreeEphemeron(e)
             \/ LastEphemeron
             \/ \E s \in Slot : FreeBox(s)
    BY <2>1, ArenaDropStartsInv
  <2>2. CASE DropAgain \/ DropReturns
    BY <2>2, DropAgainInv, DropReturnsInv
  <2>3. CASE FinishCollection
    BY <2>3, FinishCollectionInv
  <2> QED BY <1>2, <2>1, <2>2, <2>3 DEF ArenaCollector
<1>3. CASE UNCHANGED vars2
  BY <1>3, ArenaStutterInv
<1> QED BY <1>1, <1>2, <1>3 DEF ArenaNext

\* ArenaIInv holds of every state such a client can reach.
THEOREM ArenaInvariant ==
  ASSUME PlainClient
  PROVE  ArenaSpec => []ArenaIInv
<1>1. ArenaIInv /\ [ArenaNext]_vars2 => ArenaIInv'
  BY ArenaNextInv
<1> QED BY <1>1, ArenaInitInv, PTL DEF ArenaSpec

\* KeepsPromises: over arenas too no key or map entry dangles and no item is in two
\* queues or in none; and, of boxes from which no second drop took the count of another
\* handle, none is freed under a handle and none without one stays, however values share
\* them (collector.rs: the sweep; vtable.rs: drop_fn).
THEOREM PromisesKept ==
  ASSUME PlainClient
  PROVE  ArenaSpec => []KeepsPromises
<1>1. ArenaIInv => KeepsPromises
  <2> SUFFICES ASSUME ArenaIInv PROVE KeepsPromises
    OBVIOUS
  <2>1. KeysIntact
    BY DEF ArenaIInv, EntryInv, KeysIntact
  <2>2. phase = "idle" => \A s \in live \ short : misses[s] <= 1
    BY DEF ArenaIInv, MissedInv, Missed, is_collecting
  <2> QED BY <2>1, <2>2 DEF ArenaIInv, KeepsPromises
<1> QED BY <1>1, ArenaInvariant, PTL

\* CountsExactTwice: every box but those counts exactly its handles, in the middle of a
\* drop as well, and boxes that several values and the stack share (vtable.rs: drop_fn;
\* gc.rs: Clone, Drop).
THEOREM TwiceDroppedCounts ==
  ASSUME PlainClient
  PROVE  ArenaSpec => []CountsExactTwice
<1>1. ArenaIInv => CountsExactTwice
  BY DEF ArenaIInv
<1> QED BY <1>1, ArenaInvariant, PTL

\* NoArenaUnderItem: no arena is recycled under a box or an ephemeron it holds.
THEOREM NoItemLosesItsArena ==
  ASSUME PlainClient
  PROVE  ArenaSpec => []NoArenaUnderItem
<1>1. ArenaIInv => NoArenaUnderItem
  BY DEF ArenaIInv, ArenasInv, NoArenaUnderItem
<1> QED BY <1>1, ArenaInvariant, PTL

\* EmptyArenasGo: a collection gives back every arena that it emptied.
THEOREM EmptyArenasReturned ==
  ASSUME PlainClient
  PROVE  ArenaSpec => []EmptyArenasGo
<1>1. ArenaIInv => EmptyArenasGo
  BY DEF ArenaIInv, ArenasInv
<1> QED BY <1>1, ArenaInvariant, PTL

\* RemovedEntriesGo: an ephemeron taken out of its map goes with the next collection,
\* one that the map finds is active.
THEOREM RemovedEntriesFreed ==
  ASSUME PlainClient
  PROVE  ArenaSpec => []RemovedEntriesGo
<1>1. ArenaIInv => RemovedEntriesGo
  <2> SUFFICES ASSUME ArenaIInv PROVE RemovedEntriesGo
    OBVIOUS
  <2>1. phase = "idle" => eph_dead = {}
    BY DEF ArenaIInv, PhaseInv
  <2> QED BY <2>1 DEF ArenaIInv, EntryInv, RemovedEntriesGo
<1> QED BY <1>1, ArenaInvariant, PTL

-----------------------------------------------------------------------------
(* GcRefCell, for every set of cells, every finite number of borrow        *)
(* objects and every width of the flag.  FlagExact and WriterAlone are     *)
(* inductive together with the type invariant: an addition needs the       *)
(* refusals of CanRead and CanWrite, a drop needs only the flag to be      *)
(* exact before it, wherever the dropped borrow objects were.              *)

\* A sum that fits the word does not wrap.
LEMMA IncrementFits ==
  ASSUME NEW f \in 0 .. WRITING, Borrowed(f) # "Writing"
  PROVE  Increment(f) = f + 1 /\ Increment(f) \in 1 .. WRITING
<1>1. f # WRITING
  BY WidthAssumption DEF Borrowed, UNUSED
<1>2. f + 1 \in 0 .. WRITING
  BY <1>1, WidthAssumption
<1>3. \A n \in Nat : \A k \in 0 .. n : k % (n + 1) = k
  OBVIOUS
<1>4. Increment(f) = f + 1
  BY <1>2, <1>3, WidthAssumption DEF Increment
<1> QED
  BY <1>1, <1>4, WidthAssumption

\* What CanRead accepts is a count that can go up by one and still be read
\* as a count.
LEMMA ReadFits ==
  ASSUME NEW fl \in [Cell -> 0 .. WRITING], NEW c \in Cell, CanRead(fl, c)
  PROVE  /\ AddReading(fl, c) \in [Cell -> 0 .. WRITING]
         /\ AddReading(fl, c) = [fl EXCEPT ![c] = fl[c] + 1]
         /\ fl[c] + 1 < WRITING
<1>1. fl[c] \in 0 .. WRITING
  OBVIOUS
<1>2. Increment(fl[c]) = fl[c] + 1 /\ Increment(fl[c]) \in 1 .. WRITING
  BY <1>1, IncrementFits DEF CanRead
<1>3. Increment(fl[c]) # WRITING
  BY WidthAssumption DEF CanRead, Borrowed, UNUSED
<1> QED
  BY <1>1, <1>2, <1>3, WidthAssumption DEF AddReading

\* The part of FlagExact and WriterAlone that one cell contributes.
Exact(fl, r, w) ==
  /\ w # {} => fl = WRITING /\ r = {} /\ \E b \in Borrow : w = {b}
  /\ w = {} => fl = Cardinality(r) /\ fl < WRITING

CellIInv == CellTypeOK /\ \A c \in Cell : Exact(flag[c], readers[c], writers[c])

\* The borrows of a cell can be counted.
LEMMA BorrowsFinite ==
  ASSUME NEW S \in SUBSET Borrow
  PROVE  IsFiniteSet(S) /\ Cardinality(S) \in Nat
BY FS_Subset, FS_CardinalityType, BorrowAssumption

\* One more reader, by an object that was not in use.
LEMMA ExactAdd ==
  ASSUME NEW fl \in 0 .. WRITING, NEW r \in SUBSET Borrow, NEW w \in SUBSET Borrow,
         NEW b \in Borrow, b \notin r, Exact(fl, r, w), fl + 1 < WRITING
  PROVE  Exact(fl + 1, r \cup {b}, w)
<1>1. w = {}
  BY WidthAssumption DEF Exact
<1>2. Cardinality(r \cup {b}) = Cardinality(r) + 1
  BY FS_AddElement, BorrowsFinite
<1> QED
  BY <1>1, <1>2 DEF Exact

\* Any set of objects is dropped, of one cell or of several.
LEMMA ExactDrop ==
  ASSUME NEW fl \in 0 .. WRITING, NEW r \in SUBSET Borrow, NEW w \in SUBSET Borrow,
         Exact(fl, r, w), NEW S,
         NEW g, g = IF w \cap S # {} THEN UNUSED ELSE fl - Cardinality(r \cap S)
  PROVE  g \in 0 .. WRITING /\ Exact(g, r \ S, w \ S)
<1>1. CASE w = {}
  <2>1. Cardinality(r \ S) = Cardinality(r) - Cardinality(r \cap S)
    BY FS_Difference, BorrowsFinite
  <2>2. Cardinality(r \ S) \in Nat /\ Cardinality(r \cap S) \in Nat
    BY BorrowsFinite
  <2> QED
    BY <1>1, <2>1, <2>2, WidthAssumption DEF Exact
<1>2. CASE w # {}
  <2>1. PICK b \in Borrow : w = {b}
    BY <1>2 DEF Exact
  <2>2. fl = WRITING /\ r = {}
    BY <1>2 DEF Exact
  <2>3. CASE b \in S
    BY <2>1, <2>2, <2>3, FS_EmptySet, WidthAssumption DEF Exact, UNUSED
  <2>4. CASE b \notin S
    BY <2>1, <2>2, <2>4, FS_EmptySet, WidthAssumption DEF Exact
  <2> QED
    BY <2>3, <2>4
<1> QED
  BY <1>1, <1>2

AllExact(fl, rd, wr) ==
  /\ fl \in [Cell -> 0 .. WRITING]
  /\ rd \in [Cell -> SUBSET Borrow]
  /\ wr \in [Cell -> SUBSET Borrow]
  /\ \A c \in Cell : Exact(fl[c], rd[c], wr[c])

\* A borrow, a clone or a split adds one reader to one cell; a comparison
\* does so twice.
LEMMA AddKeepsExact ==
  ASSUME NEW fl, NEW rd, NEW wr, AllExact(fl, rd, wr),
         NEW c \in Cell, NEW b \in Borrow, b \notin rd[c], CanRead(fl, c)
  PROVE  AllExact(AddReading(fl, c), [rd EXCEPT ![c] = rd[c] \cup {b}], wr)
<1> DEFINE f == AddReading(fl, c)
           r == [rd EXCEPT ![c] = rd[c] \cup {b}]
<1>1. /\ f \in [Cell -> 0 .. WRITING]
      /\ f = [fl EXCEPT ![c] = fl[c] + 1]
      /\ fl[c] + 1 < WRITING
  BY ReadFits DEF AllExact
<1>2. r \in [Cell -> SUBSET Borrow]
  BY DEF AllExact
<1>3. Exact(fl[c] + 1, rd[c] \cup {b}, wr[c])
  BY <1>1, ExactAdd DEF AllExact
<1>4. ASSUME NEW d \in Cell
      PROVE  Exact(f[d], r[d], wr[d])
  <2>1. CASE d = c
    <3>1. f[d] = fl[c] + 1 /\ r[d] = rd[c] \cup {b}
      BY <1>1, <2>1 DEF AllExact
    <3> QED
      BY <3>1, <2>1, <1>3
  <2>2. CASE d # c
    <3>1. f[d] = fl[d] /\ r[d] = rd[d]
      BY <1>1, <2>2 DEF AllExact
    <3> QED
      BY <3>1 DEF AllExact
  <2> QED
    BY <2>1, <2>2
<1> QED
  BY <1>1, <1>2, <1>4 DEF AllExact

\* Whatever set of borrow objects an action drops.
LEMMA DropKeepsExact ==
  ASSUME AllExact(flag, readers, writers), NEW S, Dropped(S)
  PROVE  AllExact(flag', readers', writers')
<1>1. ASSUME NEW c \in Cell
      PROVE  /\ AfterDrops(c, S) \in 0 .. WRITING
             /\ Exact(AfterDrops(c, S), readers[c] \ S, writers[c] \ S)
  <2>1. /\ flag[c] \in 0 .. WRITING
        /\ readers[c] \in SUBSET Borrow
        /\ writers[c] \in SUBSET Borrow
        /\ Exact(flag[c], readers[c], writers[c])
    BY DEF AllExact
  <2>2. AfterDrops(c, S) = IF writers[c] \cap S # {} THEN UNUSED
                           ELSE flag[c] - Cardinality(readers[c] \cap S)
    BY DEF AfterDrops
  <2> HIDE DEF AfterDrops
  <2> QED
    BY <2>1, <2>2, ExactDrop
<1>2. /\ flag' = [c \in Cell |-> AfterDrops(c, S)]
      /\ readers' = [c \in Cell |-> readers[c] \ S]
      /\ writers' = [c \in Cell |-> writers[c] \ S]
  BY DEF Dropped
<1>3. /\ flag' \in [Cell -> 0 .. WRITING]
      /\ readers' \in [Cell -> SUBSET Borrow]
      /\ writers' \in [Cell -> SUBSET Borrow]
  BY <1>1, <1>2 DEF AllExact
<1> QED
  BY <1>1, <1>2, <1>3 DEF AllExact

-----------------------------------------------------------------------------
(* The rest of the type invariant.                                         *)

\* Returning from operations leaves a stack of frames, ...
LEMMA PopTyped ==
  ASSUME frames \in Seq(Frame), NEW n \in 0 .. Depth, Pop(n)
  PROVE  frames' \in Seq(Frame)
<1>1. Depth \in Nat /\ Depth - n \in 0 .. Len(frames)
  BY DEF Depth
<1> QED
  BY <1>1 DEF Pop

\* ... and so does entering one.
LEMMA PushTyped ==
  ASSUME frames \in Seq(Frame), NEW op \in Op, NEW S \in SUBSET Borrow, Push(op, S)
  PROVE  frames' \in Seq(Frame)
<1>1. [op |-> op, borrows |-> S] \in Frame
  BY DEF Frame
<1> QED
  BY <1>1 DEF Push

Shape ==
  /\ cells \in SUBSET Cell
  /\ contents \in [Cell -> BOOLEAN]
  /\ forgotten \in SUBSET Borrow
  /\ frames \in Seq(Frame)

\* The invariant, cut into what the cells contribute and the rest.
LEMMA Parts == CellIInv <=> Shape /\ AllExact(flag, readers, writers)
BY DEF CellIInv, CellTypeOK, Shape, AllExact

\* The same after a step.
LEMMA PartsPrime == CellIInv' <=> Shape' /\ AllExact(flag', readers', writers')
BY DEF CellIInv, CellTypeOK, Shape, AllExact

\* No cell, no borrow: the invariant holds.
LEMMA CellInitIInv == CellInit => CellIInv
<1> SUFFICES ASSUME CellInit PROVE CellIInv
  OBVIOUS
<1>1. CellTypeOK
  BY WidthAssumption DEF CellInit, CellTypeOK, UNUSED
<1>2. \A c \in Cell : Exact(flag[c], readers[c], writers[c])
  BY FS_EmptySet, WidthAssumption DEF CellInit, Exact, UNUSED
<1> QED
  BY <1>1, <1>2 DEF CellIInv

\* A borrow object not in use borrows nothing.
LEMMA FreshIsNew ==
  ASSUME NEW c \in Cell, NEW b \in Borrow \ Used
  PROVE  b \notin readers[c] /\ b \notin writers[c]
BY DEF Used

-----------------------------------------------------------------------------
(* Every action preserves the invariant.                                   *)

\* No operation, nested in others or not, leaves the invariant.
LEMMA CellNextIInv == CellIInv /\ [CellNext]_cell_vars => CellIInv'
<1> SUFFICES ASSUME CellIInv, [CellNext]_cell_vars
             PROVE  Shape' /\ AllExact(flag', readers', writers')
  BY PartsPrime
<1>0. Shape /\ AllExact(flag, readers, writers)
  BY Parts
<1>1. ASSUME NEW c \in Cell, NEW v \in BOOLEAN, New(c, v)
      PROVE  Shape' /\ AllExact(flag', readers', writers')
  BY <1>0, <1>1 DEF New, Shape, AllExact
<1>2. ASSUME NEW c \in Cell, NEW v \in BOOLEAN, Write(c, v)
      PROVE  Shape' /\ AllExact(flag', readers', writers')
  BY <1>0, <1>2 DEF Write, Shape, AllExact
<1>3. ASSUME NEW c \in Cell, IntoInner(c)
      PROVE  Shape' /\ AllExact(flag', readers', writers')
  <2>1. Exact(UNUSED, {}, {})
    BY FS_EmptySet, WidthAssumption DEF Exact, UNUSED
  <2>2. /\ flag' = [flag EXCEPT ![c] = UNUSED]
        /\ readers' = [readers EXCEPT ![c] = {}]
        /\ writers' = [writers EXCEPT ![c] = {}]
    BY <1>3 DEF IntoInner
  <2>3. UNUSED \in 0 .. WRITING
    BY WidthAssumption DEF UNUSED
  <2>4. ASSUME NEW d \in Cell PROVE Exact(flag'[d], readers'[d], writers'[d])
    <3>1. CASE d = c
      BY <1>0, <2>1, <2>2, <3>1 DEF AllExact
    <3>2. CASE d # c
      BY <1>0, <2>2, <3>2 DEF AllExact
    <3> QED
      BY <3>1, <3>2
  <2>5. AllExact(flag', readers', writers')
    BY <1>0, <2>2, <2>3, <2>4 DEF AllExact
  <2> QED
    BY <1>0, <1>3, <2>5 DEF IntoInner, Shape
<1>4. ASSUME NEW c \in Cell, NEW b \in Borrow, TryBorrow(c, b)
      PROVE  Shape' /\ AllExact(flag', readers', writers')
  <2>1. b \notin readers[c]
    BY <1>4, FreshIsNew DEF TryBorrow
  <2>2. AllExact(AddReading(flag, c), [readers EXCEPT ![c] = readers[c] \cup {b}], writers)
    BY <1>0, <1>4, <2>1, AddKeepsExact DEF TryBorrow
  <2> QED
    BY <1>0, <1>4, <2>2 DEF TryBorrow, Shape
<1>5. ASSUME NEW c \in Cell, NEW b \in Borrow, TryBorrowMut(c, b)
      PROVE  Shape' /\ AllExact(flag', readers', writers')
  <2>1. flag[c] = UNUSED /\ WRITING # UNUSED
    BY <1>5, WidthAssumption DEF TryBorrowMut, CanWrite, Borrowed, UNUSED
  <2>2. writers[c] = {} /\ Cardinality(readers[c]) = 0
    BY <1>0, <2>1 DEF AllExact, Exact, UNUSED
  <2>3. readers[c] = {}
    BY <1>0, <2>2, FS_EmptySet, BorrowsFinite DEF AllExact
  <2>4. Exact(WRITING, readers[c], writers[c] \cup {b})
    BY <2>2, <2>3 DEF Exact
  <2>5. /\ flag' = [flag EXCEPT ![c] = WRITING]
        /\ writers' = [writers EXCEPT ![c] = @ \cup {b}]
        /\ readers' = readers
    BY <1>5 DEF TryBorrowMut
  <2>6. ASSUME NEW d \in Cell PROVE Exact(flag'[d], readers'[d], writers'[d])
    <3>1. CASE d = c
      BY <1>0, <2>4, <2>5, <3>1 DEF AllExact
    <3>2. CASE d # c
      BY <1>0, <2>5, <3>2 DEF AllExact
    <3> QED
      BY <3>1, <3>2
  <2>7. WRITING \in 0 .. WRITING
    BY WidthAssumption
  <2>8. AllExact(flag', readers', writers')
    BY <1>0, <2>5, <2>6, <2>7 DEF AllExact
  <2> QED
    BY <1>0, <1>5, <2>8 DEF TryBorrowMut, Shape
<1>6. ASSUME NEW c \in Cell, NEW g \in Borrow, NEW b \in Borrow, CloneRef(c, g, b)
      PROVE  Shape' /\ AllExact(flag', readers', writers')
  <2>1. b \notin readers[c]
    BY <1>6, FreshIsNew DEF CloneRef
  <2>2. AllExact(AddReading(flag, c), [readers EXCEPT ![c] = readers[c] \cup {b}], writers)
    BY <1>0, <1>6, <2>1, AddKeepsExact DEF CloneRef
  <2> QED
    BY <1>0, <1>6, <2>2 DEF CloneRef, Shape
<1>7. ASSUME NEW g \in Borrow, DropGuard(g)
      PROVE  Shape' /\ AllExact(flag', readers', writers')
  <2>1. AllExact(flag', readers', writers')
    BY <1>0, <1>7, DropKeepsExact DEF DropGuard
  <2> QED
    BY <1>0, <1>7, <2>1 DEF DropGuard, Shape
<1>8. ASSUME NEW g \in Borrow, Forget(g)
      PROVE  Shape' /\ AllExact(flag', readers', writers')
  BY <1>0, <1>8 DEF Forget, Shape, AllExact
<1>9. ASSUME NEW op \in Op, NEW c \in Cell, NEW b \in Borrow, BeginRead(op, c, b)
      PROVE  Shape' /\ AllExact(flag', readers', writers')
  <2>1. b \notin readers[c]
    BY <1>9, FreshIsNew DEF BeginRead
  <2>2. AllExact(AddReading(flag, c), [readers EXCEPT ![c] = readers[c] \cup {b}], writers)
    BY <1>0, <1>9, <2>1, AddKeepsExact DEF BeginRead
  <2>3. frames' \in Seq(Frame)
    BY <1>0, <1>9, PushTyped DEF BeginRead, Shape
  <2> QED
    BY <1>0, <1>9, <2>2, <2>3 DEF BeginRead, Shape
<1>10. ASSUME NEW c \in Cell, NEW d \in Cell, NEW b1 \in Borrow, NEW b2 \in Borrow,
              BeginCompare(c, d, b1, b2)
       PROVE  Shape' /\ AllExact(flag', readers', writers')
  <2> DEFINE r == [readers EXCEPT ![c] = readers[c] \cup {b1}]
  <2>1. b1 \notin readers[c] /\ b2 \notin readers[d] /\ b1 # b2
    BY <1>10, FreshIsNew DEF BeginCompare
  <2>2. AllExact(AddReading(flag, c), r, writers)
    BY <1>0, <1>10, <2>1, AddKeepsExact DEF BeginCompare
  <2>3. b2 \notin r[d]
    BY <1>0, <2>1 DEF AllExact
  <2>4. CanRead(AddReading(flag, c), d)
    BY <1>10 DEF BeginCompare
  <2>5. readers' = [r EXCEPT ![d] = r[d] \cup {b2}]
    BY <1>10 DEF BeginCompare
  <2> HIDE DEF r
  <2>6. AllExact(AddReading(AddReading(flag, c), d), [r EXCEPT ![d] = r[d] \cup {b2}], writers)
    BY <2>2, <2>3, <2>4, AddKeepsExact
  <2>7. AllExact(flag', readers', writers')
    BY <1>10, <2>5, <2>6 DEF BeginCompare
  <2>8. frames' \in Seq(Frame)
    <3>1. "read" \in Op /\ {b1, b2} \in SUBSET Borrow
      BY DEF Op
    <3> QED
      BY <1>0, <1>10, <3>1, PushTyped DEF BeginCompare, Shape
  <2> QED
    BY <1>0, <1>10, <2>7, <2>8 DEF BeginCompare, Shape
<1>11. ASSUME NEW op \in Op, NEW g \in Borrow, BeginMap(op, g)
       PROVE  Shape' /\ AllExact(flag', readers', writers')
  <2>1. frames' \in Seq(Frame)
    BY <1>0, <1>11, PushTyped DEF BeginMap, Shape
  <2> QED
    BY <1>0, <1>11, <2>1 DEF BeginMap, Shape, AllExact
<1>12. CASE EndDropping
  <2>1. AllExact(flag', readers', writers')
    BY <1>0, <1>12, DropKeepsExact DEF EndDropping
  <2>2. 1 \in 0 .. Depth
    BY <1>0, <1>12 DEF EndDropping, Depth, Shape
  <2>3. frames' \in Seq(Frame)
    BY <1>0, <1>12, <2>2, PopTyped DEF EndDropping, Shape
  <2> QED
    BY <1>0, <1>12, <2>1, <2>3 DEF EndDropping, Shape
<1>13. CASE EndMap
  <2>2. 1 \in 0 .. Depth
    BY <1>0, <1>13 DEF EndMap, Depth, Shape
  <2>3. frames' \in Seq(Frame)
    BY <1>0, <1>13, <2>2, PopTyped DEF EndMap, Shape
  <2> QED
    BY <1>0, <1>13, <2>3 DEF EndMap, Shape, AllExact
<1>14. ASSUME NEW c \in Cell, NEW b \in Borrow, EndMapSplit(c, b)
       PROVE  Shape' /\ AllExact(flag', readers', writers')
  <2>1. b \notin readers[c]
    BY <1>14, FreshIsNew DEF EndMapSplit
  <2>2. AllExact(AddReading(flag, c), [readers EXCEPT ![c] = readers[c] \cup {b}], writers)
    BY <1>0, <1>14, <2>1, AddKeepsExact DEF EndMapSplit
  <2>3. 1 \in 0 .. Depth
    BY <1>0, <1>14 DEF EndMapSplit, Depth, Shape
  <2>4. frames' \in Seq(Frame)
    BY <1>0, <1>14, <2>3, PopTyped DEF EndMapSplit, Shape
  <2> QED
    BY <1>0, <1>14, <2>2, <2>4 DEF EndMapSplit, Shape
<1>15. ASSUME NEW d \in Cell, EndClone(d)
       PROVE  Shape' /\ AllExact(flag', readers', writers')
  <2>1. AllExact(flag', readers', writers')
    BY <1>0, <1>15, DropKeepsExact DEF EndClone
  <2>2. 1 \in 0 .. Depth
    BY <1>0, <1>15 DEF EndClone, Depth, Shape
  <2>3. frames' \in Seq(Frame)
    BY <1>0, <1>15, <2>2, PopTyped DEF EndClone, Shape
  <2>4. PICK c \in Cell : contents' = [contents EXCEPT ![d] = contents[c]]
    BY <1>15 DEF EndClone
  <2> QED
    BY <1>0, <1>15, <2>1, <2>3, <2>4 DEF EndClone, Shape
<1>16. ASSUME NEW n \in 1 .. MaxFrames, Unwind(n)
       PROVE  Shape' /\ AllExact(flag', readers', writers')
  <2>1. AllExact(flag', readers', writers')
    BY <1>0, <1>16, DropKeepsExact DEF Unwind
  <2>2. n \in 0 .. Depth
    BY <1>0, <1>16, BorrowAssumption DEF Unwind, Depth, Shape
  <2>3. frames' \in Seq(Frame)
    BY <1>0, <1>16, <2>2, PopTyped DEF Unwind, Shape
  <2> QED
    BY <1>0, <1>16, <2>1, <2>3 DEF Unwind, Shape
<1>17. CASE UNCHANGED cell_vars
  BY <1>0, <1>17 DEF cell_vars, Shape, AllExact
<1> QED
  BY <1>1, <1>2, <1>3, <1>4, <1>5, <1>6, <1>7, <1>8, <1>9, <1>10, <1>11, <1>12,
     <1>13, <1>14, <1>15, <1>16, <1>17 DEF CellNext

\* CellIInv holds of every reachable state.
LEMMA CellSpecIInv == CellSpec => []CellIInv
BY CellInitIInv, CellNextIInv, PTL DEF CellSpec

-----------------------------------------------------------------------------
(* The theorems.                                                           *)

\* The invariant is stronger than what the theorems state.
LEMMA CellIInvImplies ==
  ASSUME CellIInv
  PROVE  CellTypeOK /\ FlagExact /\ WriterAlone /\ TracedUnlessWritten
<1>1. CellTypeOK /\ \A c \in Cell : Exact(flag[c], readers[c], writers[c])
  BY DEF CellIInv
<1>2. FlagExact
  BY <1>1 DEF FlagExact, Exact
<1>3. WriterAlone
  BY <1>1 DEF WriterAlone, Exact
<1>4. TracedUnlessWritten
  <2>1. ASSUME NEW c \in cells PROVE CellTraced(c) <=> writers[c] = {}
    <3>1. c \in Cell
      BY <1>1 DEF CellTypeOK
    <3>2. flag[c] = WRITING <=> writers[c] # {}
      BY <1>1, <3>1, WidthAssumption DEF Exact
    <3> QED
      BY <3>2, WidthAssumption DEF CellTraced, Borrowed, UNUSED
  <2> QED
    BY <2>1 DEF TracedUnlessWritten
<1> QED
  BY <1>1, <1>2, <1>3, <1>4

\* The variables keep their types; the flag stays within its word.
\* (cell.rs: BorrowFlag)
THEOREM GcRefCellTypes == CellSpec => []CellTypeOK
BY CellSpecIInv, CellIInvImplies, PTL

\* The flag counts the readers and shows the writer, for a flag of any width
\* and any nesting of operations.  (cell.rs: BorrowFlag, its two guards)
THEOREM FlagAlwaysExact == CellSpec => []FlagExact
BY CellSpecIInv, CellIInvImplies, PTL

\* Nothing else borrows a cell that is borrowed to be written.
\* (cell.rs: try_borrow, try_borrow_mut)
THEOREM WriterAlwaysAlone == CellSpec => []WriterAlone
BY CellSpecIInv, CellIInvImplies, PTL

\* The collector looks into a cell exactly when nobody writes to it.
\* (cell.rs: Trace for GcRefCell)
THEOREM TracedExactly == CellSpec => []TracedUnlessWritten
BY CellSpecIInv, CellIInvImplies, PTL

\* No step changes a value under a reader.  (cell.rs: Deref for GcRef)
THEOREM SharedValuesStay == CellSpec => SharedValueStays
<1> DEFINE Keeps == \A c \in cells : readers[c] \ forgotten # {} => contents'[c] = contents[c]
<1>1. ASSUME CellIInv, [CellNext]_cell_vars
      PROVE  [Keeps]_cell_vars
  <2>0. CellTypeOK /\ WriterAlone
    BY <1>1, CellIInvImplies
  <2>1. ASSUME NEW c \in Cell, NEW v \in BOOLEAN, New(c, v)
        PROVE  Keeps
    BY <2>0, <2>1 DEF New, CellTypeOK
  <2>2. ASSUME NEW c \in Cell, NEW v \in BOOLEAN, Write(c, v)
        PROVE  Keeps
    BY <2>0, <2>2 DEF Write, CellTypeOK, WriterAlone
  <2>3. ASSUME NEW d \in Cell, EndClone(d)
        PROVE  Keeps
    BY <2>0, <2>3 DEF EndClone, CellTypeOK
  <2>4. ASSUME NEW c \in Cell, NEW b \in Borrow,
               \/ IntoInner(c) \/ TryBorrow(c, b) \/ TryBorrowMut(c, b) \/ EndMapSplit(c, b)
               \/ \E op \in Op : BeginRead(op, c, b)
               \/ \E g \in Borrow : CloneRef(c, g, b)
               \/ \E d \in Cell, b2 \in Borrow : BeginCompare(c, d, b, b2)
        PROVE  contents' = contents
    BY <2>4 DEF IntoInner, TryBorrow, TryBorrowMut, EndMapSplit, BeginRead,
                CloneRef, BeginCompare
  <2>5. ASSUME NEW c \in Cell, IntoInner(c)
        PROVE  contents' = contents
    BY <2>5 DEF IntoInner
  <2>6. ASSUME NEW g \in Borrow,
               DropGuard(g) \/ Forget(g) \/ \E op \in Op : BeginMap(op, g)
        PROVE  contents' = contents
    BY <2>6 DEF DropGuard, Forget, BeginMap
  <2>7. ASSUME EndDropping \/ EndMap \/ \E n \in 1 .. MaxFrames : Unwind(n)
        PROVE  contents' = contents
    BY <2>7 DEF EndDropping, EndMap, Unwind
  <2>8. ASSUME contents' = contents PROVE Keeps
    BY <2>8
  <2>9. CellNext \/ UNCHANGED cell_vars
    BY <1>1
  <2> HIDE DEF Keeps
  <2>10. CASE UNCHANGED cell_vars
    BY <2>10
  <2>11. CASE CellNext
    BY <2>11, <2>1, <2>2, <2>3, <2>4, <2>5, <2>6, <2>7, <2>8 DEF CellNext
  <2> QED
    BY <2>9, <2>10, <2>11
<1> QED
  BY <1>1, CellSpecIInv, PTL DEF CellSpec, SharedValueStays
=============================================================================
