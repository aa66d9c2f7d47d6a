-------------------------- MODULE BrandedGc_proofs --------------------------
(***************************************************************************)
(* Proofs about BrandedGc: for every set of slots and root nodes and every *)
(* bound, a client that keeps no undeclared Gc over a collection never     *)
(* meets a dangling Root, Gc, WeakGc or Ephemeron.                         *)
(***************************************************************************)
EXTENDS BrandedGc, TLAPS

\* A number below the modulus is its own remainder: the id counter does not wrap
\* while the check against FREED_ALLOC_ID holds it back.
LEMMA ModSmall ==
  ASSUME NEW a \in Nat, NEW b \in Nat, a < b
  PROVE  a % b = a
OBVIOUS

\* Allocation gives a fresh id to a free slot and preserves the invariant.
LEMMA AllocInv ==
  ASSUME IInv, NEW s \in Slot, Alloc(s)
  PROVE  IInv'
<1> DEFINE o == [slot |-> s, id |-> generic_alloc_id]
<1> USE DEF Alloc, IInv, Mutating, AllocIdExhausted
<1>1. generic_alloc_id \in 0 .. FREED_ALLOC_ID - 1
  BY IdAssumption DEF TypeOK, AllocId
<1>2. generic_alloc_id' = generic_alloc_id + 1
  <2>1. /\ generic_alloc_id + 1 \in Nat
        /\ FREED_ALLOC_ID + 1 \in Nat
        /\ generic_alloc_id + 1 < FREED_ALLOC_ID + 1
    BY <1>1, IdAssumption
  <2> HIDE DEF IInv
  <2> QED BY <2>1, ModSmall
<1>3. o \in Ptr /\ o.slot = s /\ o.id = generic_alloc_id
  BY <1>1, IdAssumption DEF Ptr, AllocId
<1>4. \A p \in objs : p.slot # s /\ p.id < generic_alloc_id
  BY DEF IdInv
<1>5. TypeOK'
  BY <1>1, <1>2, <1>3, IdAssumption DEF TypeOK, Color, AllocId
<1>6. PhaseInv'
  BY DEF PhaseInv, Marking, TypeOK
<1>7. IdInv'
  <2>1. live' = {p.slot : p \in objs'}
    BY <1>3 DEF IdInv
  <2>2. \A p \in objs' : IdAt(p)' = p.id /\ p.id < generic_alloc_id'
    BY <1>1, <1>2, <1>4 DEF IdInv, IdAt, TypeOK, Ptr, AllocId
  <2>3. \A p, q \in objs' : p.id = q.id => p = q
    BY <1>1, <1>3, <1>4 DEF IdInv
  <2>4. \A t \in Slot \ live' : alloc_id'[t] = FREED_ALLOC_ID
    BY DEF IdInv, TypeOK
  <2> QED BY <2>1, <2>2, <2>3, <2>4 DEF IdInv
<1>8. PointerInv'
  BY <1>3, <1>4 DEF PointerInv, Survives, PhaseInv, TypeOK
<1>9. EntryInv'
  BY <1>1, <1>2, <1>3, <1>4 DEF EntryInv, Survives, PhaseInv, TypeOK, Pair, Ptr, AllocId
<1>10. MarkInv'
  BY DEF MarkInv, Marking
<1> QED BY <1>5, <1>6, <1>7, <1>8, <1>9, <1>10

\* The check of WeakGc::upgrade and Ephemeron::get_value is sound: a slot that
\* shows a once allocated id still holds the box that id was given to.
LEMMA FreshIdIntact ==
  ASSUME IInv, NEW p \in Ptr, p.id < generic_alloc_id, IdAt(p) = p.id
  PROVE  p \in objs
<1>1. p.id # FREED_ALLOC_ID
  BY DEF IInv, TypeOK, AllocId, Ptr
<1>2. p.slot \in live
  BY <1>1 DEF IInv, IdInv, IdAt, Ptr
<1>3. PICK o \in objs : o.slot = p.slot
  BY <1>2 DEF IInv, IdInv
<1>4. o = p
  BY <1>3 DEF IInv, IdInv, IdAt, TypeOK, Ptr
<1> QED BY <1>4

\* Reading a field of a held box yields a surviving box.
LEMMA LoadInv ==
  ASSUME IInv, NEW p \in held, NEW q \in fields[p.slot], Load(p, q)
  PROVE  IInv'
<1> USE DEF Load, IInv, Mutating
<1>1. TypeOK'
  BY DEF TypeOK, heap, tracing, Ptr
<1>2. PhaseInv'
  BY DEF PhaseInv, Marking, heap, tracing
<1>3. IdInv'
  BY DEF IdInv, IdAt, heap
<1>4. PointerInv'
  BY DEF PointerInv, Survives, PhaseInv, IdInv, TypeOK, Ptr, heap, tracing
<1>5. EntryInv'
  BY DEF EntryInv, Survives, heap, tracing, handles
<1>6. MarkInv'
  BY DEF MarkInv, Marking, tracing
<1> QED BY <1>1, <1>2, <1>3, <1>4, <1>5, <1>6

\* Writing a held Gc into a held box keeps every field surviving.
LEMMA StoreInv ==
  ASSUME IInv, NEW p \in held, NEW q \in held, Store(p, q)
  PROVE  IInv'
<1> USE DEF Store, IInv, Mutating
<1>1. TypeOK'
  BY DEF TypeOK, tracing, handles, Ptr
<1>2. PhaseInv'
  BY DEF PhaseInv, Marking, heap, tracing
<1>3. IdInv'
  BY DEF IdInv, IdAt
<1>4. PointerInv'
  BY DEF PointerInv, Survives, PhaseInv, TypeOK, Ptr, tracing, handles
<1>5. EntryInv'
  BY DEF EntryInv, Survives, heap, tracing, handles
<1>6. MarkInv'
  BY DEF MarkInv, Marking, tracing
<1> QED BY <1>1, <1>2, <1>3, <1>4, <1>5, <1>6

\* Removing a field preserves the invariant.
LEMMA ClearInv ==
  ASSUME IInv, NEW p \in held, NEW q \in fields[p.slot], Clear(p, q)
  PROVE  IInv'
<1> USE DEF Clear, IInv, Mutating
<1>1. TypeOK'
  BY DEF TypeOK, tracing, handles, Ptr
<1>2. PhaseInv'
  BY DEF PhaseInv, Marking, heap, tracing
<1>3. IdInv'
  BY DEF IdInv, IdAt, heap
<1>4. PointerInv'
  BY DEF PointerInv, Survives, PhaseInv, TypeOK, Ptr, tracing, handles
<1>5. EntryInv'
  BY DEF EntryInv, Survives, heap, tracing, handles
<1>6. MarkInv'
  BY DEF MarkInv, Marking, tracing
<1> QED BY <1>1, <1>2, <1>3, <1>4, <1>5, <1>6

\* Letting a Gc go out of scope preserves the invariant.
LEMMA ReleaseInv ==
  ASSUME IInv, NEW p \in held, Release(p)
  PROVE  IInv'
<1> USE DEF Release, IInv, Mutating
<1>1. TypeOK'
  BY DEF TypeOK, heap, tracing, handles
<1>2. PhaseInv'
  BY DEF PhaseInv, Marking, heap, tracing
<1>3. IdInv'
  BY DEF IdInv, IdAt, heap
<1>4. PointerInv'
  BY DEF PointerInv, Survives, PhaseInv, heap, tracing, handles
<1>5. EntryInv'
  BY DEF EntryInv, Survives, heap, tracing, handles
<1>6. MarkInv'
  BY DEF MarkInv, Marking, tracing
<1> QED BY <1>1, <1>2, <1>3, <1>4, <1>5, <1>6

\* Rooting a held Gc preserves the invariant.
LEMMA MakeRootInv ==
  ASSUME IInv, NEW n \in RootNode, NEW p \in held, MakeRoot(n, p)
  PROVE  IInv'
<1> USE DEF MakeRoot, IInv, Mutating
<1>1. TypeOK'
  BY DEF TypeOK, heap, tracing, handles
<1>2. PhaseInv'
  BY DEF PhaseInv, Marking, heap, tracing, TypeOK
<1>3. IdInv'
  BY DEF IdInv, IdAt, heap
<1>4. PointerInv'
  BY DEF PointerInv, Survives, TypeOK, heap, tracing, handles
<1>5. EntryInv'
  BY DEF EntryInv, Survives, heap, tracing, handles
<1>6. MarkInv'
  BY DEF MarkInv, Marking, tracing
<1> QED BY <1>1, <1>2, <1>3, <1>4, <1>5, <1>6

\* Root::get hands out a surviving box.
LEMMA RootGetInv ==
  ASSUME IInv, NEW n \in RootNode, RootGet(n)
  PROVE  IInv'
<1> USE DEF RootGet, IInv, Mutating
<1>1. TypeOK'
  BY DEF TypeOK, heap, tracing, handles
<1>2. PhaseInv'
  BY DEF PhaseInv, Marking, heap, tracing
<1>3. IdInv'
  BY DEF IdInv, IdAt, heap
<1>4. PointerInv'
  BY DEF PointerInv, Survives, PhaseInv, heap, tracing, handles
<1>5. EntryInv'
  BY DEF EntryInv, Survives, heap, tracing, handles
<1>6. MarkInv'
  BY DEF MarkInv, Marking, tracing
<1> QED BY <1>1, <1>2, <1>3, <1>4, <1>5, <1>6

\* Dropping a Root preserves the invariant.
LEMMA DropRootInv ==
  ASSUME IInv, NEW n \in RootNode, DropRoot(n)
  PROVE  IInv'
<1> USE DEF DropRoot, IInv, Mutating
<1>1. TypeOK'
  BY DEF TypeOK, heap, tracing, handles
<1>2. PhaseInv'
  BY DEF PhaseInv, Marking, heap, tracing, TypeOK
<1>3. IdInv'
  BY DEF IdInv, IdAt, heap
<1>4. PointerInv'
  BY DEF PointerInv, Survives, TypeOK, heap, tracing, handles
<1>5. EntryInv'
  BY DEF EntryInv, Survives, heap, tracing, handles
<1>6. MarkInv'
  BY DEF MarkInv, Marking, tracing
<1> QED BY <1>1, <1>2, <1>3, <1>4, <1>5, <1>6

\* alloc_weak copies an id below the counter.
LEMMA AllocWeakInv ==
  ASSUME IInv, NEW p \in held, AllocWeak(p)
  PROVE  IInv'
<1> USE DEF AllocWeak, IInv, Mutating
<1>1. TypeOK'
  BY DEF TypeOK, heap, tracing, IdAt, Ptr
<1>2. PhaseInv'
  BY DEF PhaseInv, Marking, heap, tracing
<1>3. IdInv'
  BY DEF IdInv, IdAt, heap
<1>4. PointerInv'
  BY DEF PointerInv, Survives, PhaseInv, heap, tracing, handles
<1>5. EntryInv'
  BY DEF EntryInv, PointerInv, IdInv, Survives, heap, tracing
<1>6. MarkInv'
  BY DEF MarkInv, Marking, tracing
<1> QED BY <1>1, <1>2, <1>3, <1>4, <1>5, <1>6

\* A successful upgrade hands out a surviving box.
LEMMA UpgradeInv ==
  ASSUME IInv, NEW w \in weaks, Upgrade(w)
  PROVE  IInv'
<1>1. Survives(w)
  BY FreshIdIntact DEF IInv, EntryInv, PhaseInv, Survives, Upgrade, Mutating, IsUpgradable, TypeOK
<1> USE DEF Upgrade, IInv, Mutating
<1>2. TypeOK'
  BY DEF TypeOK, heap, tracing
<1>3. PhaseInv'
  BY DEF PhaseInv, Marking, heap, tracing
<1>4. IdInv'
  BY DEF IdInv, IdAt, heap
<1>5. PointerInv'
  BY <1>1 DEF PointerInv, Survives, heap, tracing
<1>6. EntryInv'
  BY DEF EntryInv, Survives, heap, tracing, handles
<1>7. MarkInv'
  BY DEF MarkInv, Marking, tracing
<1> QED BY <1>2, <1>3, <1>4, <1>5, <1>6, <1>7

\* alloc_ephemeron pairs two surviving boxes.
LEMMA AllocEphemeronInv ==
  ASSUME IInv, NEW k \in held, NEW v \in held, AllocEphemeron(k, v)
  PROVE  IInv'
<1>1. /\ [slot |-> k.slot, id |-> IdAt(k)] = k
      /\ k \in Ptr /\ v \in Ptr
  BY DEF IInv, IdInv, PointerInv, Survives, TypeOK, Ptr, AllocId
<1> USE DEF AllocEphemeron, IInv, Mutating
<1>2. TypeOK'
  BY <1>1 DEF TypeOK, heap, tracing, Pair
<1>3. PhaseInv'
  BY <1>1 DEF PhaseInv, Marking, heap, tracing
<1>4. IdInv'
  BY DEF IdInv, IdAt, heap
<1>5. PointerInv'
  BY DEF PointerInv, Survives, PhaseInv, heap, tracing, handles
<1>6. EntryInv'
  BY <1>1 DEF EntryInv, PointerInv, IdInv, Survives, heap, tracing
<1>7. MarkInv'
  BY DEF MarkInv, Marking, tracing
<1> QED BY <1>2, <1>3, <1>4, <1>5, <1>6, <1>7

\* get_value and key hand out surviving boxes.
LEMMA EphemeronGetInv ==
  ASSUME IInv, NEW e \in pairs, EphemeronGet(e)
  PROVE  IInv'
<1>1. Survives(e.key) /\ Survives(e.value)
  BY FreshIdIntact DEF IInv, EntryInv, PhaseInv, Survives, EphemeronGet, Mutating, HasValue, TypeOK, Pair
<1> USE DEF EphemeronGet, IInv, Mutating
<1>2. TypeOK'
  BY DEF TypeOK, heap, tracing, Pair
<1>3. PhaseInv'
  BY DEF PhaseInv, Marking, heap, tracing
<1>4. IdInv'
  BY DEF IdInv, IdAt, heap
<1>5. PointerInv'
  BY <1>1 DEF PointerInv, Survives, heap, tracing
<1>6. EntryInv'
  BY DEF EntryInv, Survives, heap, tracing, handles
<1>7. MarkInv'
  BY DEF MarkInv, Marking, tracing
<1> QED BY <1>2, <1>3, <1>4, <1>5, <1>6, <1>7

\* Losing a handle leaves its entry and the invariant alone.
LEMMA ForgetEphemeronInv ==
  ASSUME IInv, NEW e \in pairs, ForgetEphemeron(e)
  PROVE  IInv'
<1> USE DEF ForgetEphemeron, IInv, Mutating
<1>1. TypeOK'
  BY DEF TypeOK, heap, tracing, handles
<1>2. PhaseInv'
  BY DEF PhaseInv, Marking, heap, tracing
<1>3. IdInv'
  BY DEF IdInv, IdAt, heap
<1>4. PointerInv'
  BY DEF PointerInv, Survives, PhaseInv, heap, tracing, handles
<1>5. EntryInv'
  BY DEF EntryInv, Survives, heap, tracing, handles
<1>6. MarkInv'
  BY DEF MarkInv, Marking, tracing
<1> QED BY <1>1, <1>2, <1>3, <1>4, <1>5, <1>6

-----------------------------------------------------------------------------
(* The steps of a collection. *)

\* A collection starts from a white heap and greys every root, and the client
\* keeps only the pointers it declared.
LEMMA StartCollectInv ==
  ASSUME IInv, KeepAcross = FALSE, NEW ext \in SUBSET held, StartCollect(ext)
  PROVE  IInv'
<1> USE DEF StartCollect, IInv, Mutating
<1>1. /\ ext \subseteq Ptr
      /\ held' = ext
      /\ StartSlots(ext) \subseteq live
  BY DEF StartSlots, RootSlots, PointerInv, Survives, IdInv, TypeOK
<1>2. TypeOK'
  BY <1>1 DEF TypeOK, heap, Mark, Newly, Color, IdInv
<1>3. PhaseInv'
  BY DEF PhaseInv, Marking, heap
<1>4. IdInv'
  BY DEF IdInv, IdAt, heap
<1>5. PointerInv'
  BY <1>1 DEF PointerInv, Survives, heap
<1>6. EntryInv'
  BY DEF EntryInv, Survives, heap
<1>7. MarkInv'
  <2>1. \A s \in Slot : color[s] = "White"
    BY DEF PhaseInv, Marking
  <2>2. worklist = {} /\ worklist' = StartSlots(ext)
    BY <1>1, <2>1 DEF Mark, Newly, PhaseInv, Marking, TypeOK
  <2>3. \A s \in Slot : color'[s] = IF s \in StartSlots(ext) THEN "Gray" ELSE "White"
    BY <2>1 DEF Mark, Newly
  <2>4. \A p \in held' : p \in Ptr /\ p.slot \in StartSlots(ext)
    BY <1>1 DEF StartSlots
  <2>5. \A n \in RootNode : roots[n] # NoPtr =>
          roots[n] \in Ptr /\ roots[n].slot \in StartSlots(ext)
    BY DEF StartSlots, RootSlots, TypeOK
  <2> QED BY <1>1, <2>2, <2>3, <2>4, <2>5 DEF MarkInv, Marking, heap, Ptr, TypeOK
<1> QED BY <1>2, <1>3, <1>4, <1>5, <1>6, <1>7

\* Blackening a box after greying its white children keeps the tri-colour
\* invariant.
LEMMA DrainInv ==
  ASSUME IInv, NEW s \in worklist, Drain(s)
  PROVE  IInv'
<1> USE DEF Drain, IInv
<1>1. s \in Slot /\ color[s] = "Gray" /\ s \in live
  BY DEF MarkInv, Marking, TypeOK
<1>2. \A q \in fields[s] : q \in objs /\ q.slot \in live /\ q.slot \in Slot
  BY <1>1 DEF PointerInv, PhaseInv, Survives, IdInv, TypeOK
<1>3. Children(s) \subseteq live /\ Children(s) \subseteq Slot
  BY <1>2 DEF Children
<1>4. TypeOK'
  BY <1>3 DEF TypeOK, heap, handles, Newly, Color
<1>5. PhaseInv'
  BY DEF PhaseInv, Marking, heap
<1>6. IdInv'
  BY DEF IdInv, IdAt, heap
<1>7. PointerInv'
  BY DEF PointerInv, Survives, heap, handles
<1>8. EntryInv'
  BY DEF EntryInv, Survives, heap, handles
<1>9. MarkInv'
  <2>1. \A t \in Slot : color'[t] = IF t = s THEN "Black"
                                    ELSE IF t \in Newly(Children(s)) THEN "Gray"
                                    ELSE color[t]
    OBVIOUS
  <2>2. \A t \in Slot : color[t] # "White" => color'[t] # "White"
    BY <2>1
  <2>3. worklist' = {t \in Slot : color'[t] = "Gray"}
    BY <1>1, <1>3, <2>1 DEF MarkInv, Marking, Newly
  <2>4. \A t \in Slot : color'[t] # "White" => t \in live'
    BY <1>1, <1>3, <2>1 DEF MarkInv, Marking, Newly, heap
  <2>5. ASSUME NEW t \in Slot, color'[t] = "Black", NEW q \in fields[t]
        PROVE  color'[q.slot] # "White"
    <3>0. q.slot \in Slot
      BY DEF TypeOK, Ptr
    <3>1. CASE t = s
      BY <3>0, <3>1, <1>2, <2>1 DEF Newly, Children
    <3>2. CASE t # s
      <4>1. color[t] = "Black"
        BY <3>2, <2>1, <2>5
      <4>2. color[q.slot] # "White"
        BY <4>1 DEF MarkInv, Marking
      <4> QED BY <3>0, <4>2, <2>2
    <3> QED BY <3>1, <3>2
  <2>6. \A p \in held' : color'[p.slot] # "White"
    BY <2>2 DEF MarkInv, Marking, handles, TypeOK, Ptr
  <2>7. \A n \in RootNode : roots[n] # NoPtr => color'[roots[n].slot] # "White"
    BY <2>2 DEF MarkInv, Marking, TypeOK, Ptr
  <2> QED BY <2>3, <2>4, <2>5, <2>6, <2>7 DEF MarkInv, Marking, heap
<1> QED BY <1>4, <1>5, <1>6, <1>7, <1>8, <1>9

\* An empty worklist lets an ephemeron pass begin.
LEMMA DrainDoneInv ==
  ASSUME IInv, DrainDone
  PROVE  IInv'
<1> USE DEF DrainDone, IInv
<1>1. TypeOK'
  BY DEF TypeOK, heap, handles
<1>2. PhaseInv'
  BY DEF PhaseInv, Marking, heap
<1>3. IdInv'
  BY DEF IdInv, IdAt, heap
<1>4. PointerInv'
  BY DEF PointerInv, Survives, heap, handles
<1>5. EntryInv'
  BY DEF EntryInv, Survives, heap, handles
<1>6. MarkInv'
  BY DEF MarkInv, Marking, heap, handles
<1> QED BY <1>1, <1>2, <1>3, <1>4, <1>5, <1>6

\* One visited entry keeps the tri-colour invariant and what the pass secured.
LEMMA VisitEntryInv ==
  ASSUME IInv, NEW e \in pending, VisitEntry(e)
  PROVE  IInv'
<1> USE DEF VisitEntry, IInv
<1> DEFINE v == e.value.slot
<1>1. e \in ephemerons /\ e \in Pair /\ e.key.slot \in Slot /\ v \in Slot
  BY DEF PhaseInv, TypeOK, Pair, Ptr
<1>2. dead = {} /\ e.key \in objs /\ e.value \in objs /\ v \in live
  BY <1>1 DEF EntryInv, PhaseInv, Survives, IdInv
<1>3. TypeOK'
  BY <1>1 DEF TypeOK, heap, handles, Mark, MarkedValue, Newly, Color
<1>4. PhaseInv'
  BY DEF PhaseInv, Marking, heap
<1>5. IdInv'
  BY DEF IdInv, IdAt, heap
<1>6. PointerInv'
  BY DEF PointerInv, Survives, heap, handles
<1>7. EntryInv'
  BY DEF EntryInv, Survives, heap, handles
<1>8. MarkInv'
  <2>1. CASE color[e.key.slot] # "White" /\ color[v] = "White"
    <3>1. /\ newly_marked' = TRUE
          /\ worklist' = worklist \cup {v}
          /\ \A t \in Slot : color'[t] = IF t = v THEN "Gray" ELSE color[t]
      BY <1>1, <2>1 DEF Mark, MarkedValue, Newly
    <3>2. \A t \in Slot : color[t] # "White" => color'[t] # "White"
      BY <3>1
    <3>3. \A t \in Slot : color'[t] = "Black" => color[t] = "Black"
      BY <3>1
    <3>4. \A t \in Slot : \A q \in fields[t] : q.slot \in Slot
      BY DEF TypeOK, Ptr
    <3>5. \A p \in held' : p \in held /\ p.slot \in Slot
      BY DEF handles, TypeOK, Ptr
    <3>6. \A n \in RootNode : roots[n] # NoPtr => roots[n].slot \in Slot
      BY DEF TypeOK, Ptr
    <3> QED BY <1>1, <1>2, <3>1, <3>2, <3>3, <3>4, <3>5, <3>6 DEF MarkInv, Marking, heap
  <2>2. CASE color[e.key.slot] = "White" \/ color[v] # "White"
    <3>1. color' = color /\ worklist' = worklist /\ newly_marked' = newly_marked
      BY <1>1, <2>2 DEF Mark, MarkedValue, Newly, TypeOK
    <3> QED BY <1>1, <2>2, <3>1 DEF MarkInv, Marking, heap, handles
  <2> QED BY <2>1, <2>2
<1> QED BY <1>3, <1>4, <1>5, <1>6, <1>7, <1>8

\* A pass that marked something goes back to draining.
LEMMA PassAgainInv ==
  ASSUME IInv, PassAgain
  PROVE  IInv'
<1> USE DEF PassAgain, IInv
<1>1. TypeOK'
  BY DEF TypeOK, heap, handles
<1>2. PhaseInv'
  BY DEF PhaseInv, Marking, heap
<1>3. IdInv'
  BY DEF IdInv, IdAt, heap
<1>4. PointerInv'
  BY DEF PointerInv, Survives, heap, handles
<1>5. EntryInv'
  BY DEF EntryInv, Survives, heap, handles
<1>6. MarkInv'
  BY DEF MarkInv, Marking, heap, handles
<1> QED BY <1>1, <1>2, <1>3, <1>4, <1>5, <1>6

\* The sweep selects no box that a root, a held pointer, a surviving field or a
\* surviving key leads to: the step the whole marking is for.
LEMMA SelectDeadInv ==
  ASSUME IInv, SelectDead
  PROVE  IInv'
<1> USE DEF SelectDead, IInv
<1>1. dead = {} /\ worklist = {}
  BY DEF PhaseInv, MarkInv, Marking
<1>2. \A s \in Slot : color[s] \in {"White", "Black"}
  BY <1>1 DEF MarkInv, Marking, TypeOK, Color
<1>3. \A p \in objs : color[p.slot] # "White" => Survives(p)'
  BY <1>2 DEF Survives, heap, TypeOK, Ptr
<1>4. \A p \in objs : Survives(p)' => color[p.slot] = "Black"
  BY DEF Survives, heap, IdInv
<1>5. TypeOK'
  BY DEF TypeOK, heap, handles, Unmarked, Color
<1>6. PhaseInv'
  <2>1. \A s \in Slot : color'[s] = "White"
    BY <1>2 DEF Unmarked, MarkInv, Marking
  <2> QED BY <1>1, <2>1 DEF PhaseInv, Marking, heap
<1>7. IdInv'
  BY DEF IdInv, IdAt, heap
<1>8. PointerInv'
  <2>1. \A p \in held' : Survives(p)'
    BY <1>3 DEF PointerInv, Survives, MarkInv, Marking, handles
  <2>2. \A n \in RootNode : roots'[n] # NoPtr => Survives(roots[n])'
    BY <1>3 DEF PointerInv, Survives, MarkInv, Marking
  <2>3. ASSUME NEW s \in live' \ dead', NEW q \in fields'[s]
        PROVE  Survives(q)'
    <3>1. s \in Slot /\ s \in live \ dead /\ color[s] = "Black" /\ q \in fields[s]
      BY <1>1 DEF heap, TypeOK
    <3>2. q \in objs /\ color[q.slot] # "White"
      BY <3>1 DEF PointerInv, Survives, MarkInv, Marking
    <3> QED BY <1>3, <3>2
  <2> QED BY <2>1, <2>2, <2>3 DEF PointerInv
<1>9. EntryInv'
  <2>1. ASSUME NEW e \in ephemerons, Survives(e.key)'
        PROVE  Survives(e.value)'
    <3>1. e.key \in objs /\ e.value \in objs
      BY <1>1 DEF EntryInv, Survives, PhaseInv
    <3>2. color[e.key.slot] # "White"
      BY <1>4, <2>1, <3>1
    <3>3. color[e.value.slot] # "White"
      BY <3>2 DEF MarkInv, Marking
    <3> QED BY <1>3, <3>1, <3>3
  <2> QED BY <2>1 DEF EntryInv, heap, handles
<1>10. MarkInv'
  BY DEF MarkInv, Marking
<1> QED BY <1>5, <1>6, <1>7, <1>8, <1>9, <1>10

\* Freeing one selected box touches no surviving pointer.
LEMMA FreeBoxInv ==
  ASSUME IInv, NEW s \in dead, FreeBox(s)
  PROVE  IInv'
<1> USE DEF FreeBox, IInv
<1>1. s \in live /\ s \in Slot
  BY DEF PhaseInv, TypeOK
<1>2. \A p \in objs : p.slot # s => p \in objs' /\ IdAt(p)' = IdAt(p)
  BY <1>1 DEF IdAt, Invalidated, TypeOK, Ptr
<1>3. \A p : Survives(p) => Survives(p)'
  BY DEF Survives
<1>4. \A p : Survives(p)' => Survives(p)
  BY DEF Survives
<1>5. TypeOK'
  BY IdAssumption DEF TypeOK, Invalidated, handles, AllocId
<1>6. PhaseInv'
  BY DEF PhaseInv, Marking
<1>7. IdInv'
  BY <1>1, <1>2 DEF IdInv, Invalidated, TypeOK
<1>8. PointerInv'
  BY <1>1, <1>3 DEF PointerInv, handles, TypeOK
<1>9. EntryInv'
  BY <1>3, <1>4 DEF EntryInv, handles
<1>10. MarkInv'
  BY DEF MarkInv, Marking
<1> QED BY <1>5, <1>6, <1>7, <1>8, <1>9, <1>10

\* Every registered entry whose key was swept shows FREED_ALLOC_ID and goes.
LEMMA RetainEntriesInv ==
  ASSUME IInv, RetainEntries
  PROVE  IInv'
<1> USE DEF RetainEntries, IInv
<1>1. TypeOK'
  BY DEF TypeOK, heap, handles, Retained
<1>2. PhaseInv'
  <2>1. pending = {}
    BY DEF PhaseInv
  <2> QED BY <2>1 DEF PhaseInv, Marking, heap
<1>3. IdInv'
  BY DEF IdInv, IdAt, heap
<1>4. PointerInv'
  BY DEF PointerInv, Survives, heap, handles
<1>5. EntryInv'
  <2>1. \A e \in ephemerons : e.key \in objs <=> IdAt(e.key) # FREED_ALLOC_ID
    BY DEF EntryInv, IdInv, IdAt, TypeOK, Pair, Ptr, AllocId
  <2> QED BY <2>1 DEF EntryInv, Survives, heap, handles, Retained
<1>6. MarkInv'
  BY DEF MarkInv, Marking
<1> QED BY <1>1, <1>2, <1>3, <1>4, <1>5, <1>6

\* Dropping the collector frees the roots and selects every box.
LEMMA DropCollectorInv ==
  ASSUME IInv, DropCollector
  PROVE  IInv'
<1> USE DEF DropCollector, IInv, Mutating
<1>1. TypeOK'
  BY DEF TypeOK, heap, Owned
<1>2. PhaseInv'
  BY DEF PhaseInv, Marking, heap, Owned
<1>3. IdInv'
  BY DEF IdInv, IdAt, heap
<1>4. PointerInv'
  BY DEF PointerInv, Survives, heap, Owned
<1>5. EntryInv'
  BY DEF EntryInv, Survives, heap, Owned, IdInv
<1>6. MarkInv'
  BY DEF MarkInv, Marking
<1> QED BY <1>1, <1>2, <1>3, <1>4, <1>5, <1>6

\* The dropped collector owns nothing.
LEMMA DropDoneInv ==
  ASSUME IInv, DropDone
  PROVE  IInv'
<1> USE DEF DropDone, IInv
<1>1. TypeOK'
  BY DEF TypeOK, heap, handles
<1>2. live = {} /\ objs = {} /\ held = {}
  <2>1. live = {}
    BY DEF PhaseInv
  <2>2. objs = {}
    BY <2>1 DEF IdInv
  <2>3. held = {}
    BY <2>2 DEF PointerInv, Survives
  <2> QED BY <2>1, <2>2, <2>3
<1>3. PhaseInv'
  BY <1>2 DEF PhaseInv, Marking, heap
<1>4. IdInv'
  BY DEF IdInv, IdAt, heap
<1>5. PointerInv'
  BY DEF PointerInv, Survives, heap, handles
<1>6. EntryInv'
  BY <1>2 DEF EntryInv, Survives, heap, handles
<1>7. MarkInv'
  BY DEF MarkInv, Marking
<1> QED BY <1>1, <1>3, <1>4, <1>5, <1>6, <1>7

\* The invariant holds of an empty collector.
LEMMA InitInv == Init => IInv
<1> SUFFICES ASSUME Init PROVE IInv
  OBVIOUS
<1> USE DEF Init
<1>1. TypeOK
  <2>1. 0 \in AllocId /\ FREED_ALLOC_ID \in AllocId
    BY IdAssumption DEF AllocId
  <2>2. color \in [Slot -> Color] /\ alloc_id \in [Slot -> AllocId]
    BY <2>1 DEF Color
  <2> QED BY <2>1, <2>2 DEF TypeOK
<1>2. PhaseInv
  BY DEF PhaseInv, Marking
<1>3. IdInv
  BY DEF IdInv
<1>4. PointerInv
  BY DEF PointerInv
<1>5. EntryInv
  BY DEF EntryInv
<1>6. MarkInv
  BY DEF MarkInv, Marking
<1> QED BY <1>1, <1>2, <1>3, <1>4, <1>5, <1>6 DEF IInv

\* The invariant only speaks of the variables.
LEMMA StutterInv ==
  ASSUME IInv, UNCHANGED vars
  PROVE  IInv'
<1> USE DEF IInv, vars, heap, tracing, handles
<1>1. TypeOK'
  BY DEF TypeOK
<1>2. PhaseInv'
  BY DEF PhaseInv, Marking
<1>3. IdInv'
  BY DEF IdInv, IdAt
<1>4. PointerInv'
  BY DEF PointerInv, Survives
<1>5. EntryInv'
  BY DEF EntryInv, Survives
<1>6. MarkInv'
  BY DEF MarkInv, Marking
<1> QED BY <1>1, <1>2, <1>3, <1>4, <1>5, <1>6

\* Every step preserves the invariant, of a client that declares what it keeps.
LEMMA NextInv ==
  ASSUME KeepAcross = FALSE, IInv, [Next]_vars
  PROVE  IInv'
<1>1. CASE Client
  <2>1. CASE \E s \in Slot : Alloc(s)
    BY <2>1, AllocInv
  <2>2. CASE \E p \in held, q \in held : Store(p, q)
    BY <2>2, StoreInv
  <2>3. CASE \E p \in held : \E q \in fields[p.slot] : Load(p, q) \/ Clear(p, q)
    BY <2>3, LoadInv, ClearInv
  <2>4. CASE \E p \in held : Release(p) \/ AllocWeak(p)
    BY <2>4, ReleaseInv, AllocWeakInv
  <2>5. CASE \E n \in RootNode : \E p \in held : MakeRoot(n, p)
    BY <2>5, MakeRootInv
  <2>6. CASE \E n \in RootNode : RootGet(n) \/ DropRoot(n)
    BY <2>6, RootGetInv, DropRootInv
  <2>7. CASE \E w \in weaks : Upgrade(w)
    BY <2>7, UpgradeInv
  <2>8. CASE \E k \in held, v \in held : AllocEphemeron(k, v)
    BY <2>8, AllocEphemeronInv
  <2>9. CASE \E e \in pairs : EphemeronGet(e) \/ ForgetEphemeron(e)
    BY <2>9, EphemeronGetInv, ForgetEphemeronInv
  <2>10. CASE \E ext \in SUBSET held : StartCollect(ext)
    BY <2>10, StartCollectInv
  <2>11. CASE DropCollector
    BY <2>11, DropCollectorInv
  <2> QED BY <1>1, <2>1, <2>2, <2>3, <2>4, <2>5, <2>6, <2>7, <2>8, <2>9, <2>10,
             <2>11 DEF Client
<1>2. CASE Collector
  BY <1>2, DrainInv, DrainDoneInv, VisitEntryInv, PassAgainInv, SelectDeadInv,
     FreeBoxInv, RetainEntriesInv, DropDoneInv DEF Collector
<1>3. CASE UNCHANGED vars
  BY <1>3, StutterInv
<1> QED BY <1>1, <1>2, <1>3 DEF Next

\* The inductive invariant holds in every reachable state, for every pool, root
\* pool and id width.
THEOREM Invariant ==
  ASSUME KeepAcross = FALSE
  PROVE  Spec => []IInv
<1>1. IInv /\ [Next]_vars => IInv'
  BY NextInv
<1> QED BY InitInv, <1>1, PTL DEF Spec

\* Every variable stays within its type: no id passes FREED_ALLOC_ID.
THEOREM BrandedGcTypes ==
  ASSUME KeepAcross = FALSE
  PROVE  Spec => []TypeOK
<1>1. IInv => TypeOK
  BY DEF IInv
<1> QED BY <1>1, Invariant, PTL

\* A Root keeps its box, at every step and in the middle of a collection.
THEOREM RootsKeepBoxes ==
  ASSUME KeepAcross = FALSE
  PROVE  Spec => []RootedIntact
<1>1. IInv => RootedIntact
  BY DEF IInv, PointerInv, Survives, RootedIntact, Intact
<1> QED BY <1>1, Invariant, PTL

\* A Gc the client holds, having kept none undeclared over a collection, points
\* to the box it was made for.
THEOREM HeldPointersIntact ==
  ASSUME KeepAcross = FALSE
  PROVE  Spec => []HeldIntact
<1>1. IInv => HeldIntact
  BY DEF IInv, PointerInv, Survives, HeldIntact, Intact
<1> QED BY <1>1, Invariant, PTL

\* No surviving box holds a dangling field.
THEOREM FieldsStayIntact ==
  ASSUME KeepAcross = FALSE
  PROVE  Spec => []FieldsIntact
<1>1. IInv => FieldsIntact
  BY DEF IInv, PointerInv, Survives, FieldsIntact, Intact
<1> QED BY <1>1, Invariant, PTL

\* No pointer of the client, of a root node or of a surviving box dangles, in any
\* state of a collection.
THEOREM NothingDangles ==
  ASSUME KeepAcross = FALSE
  PROVE  Spec => []HeapIntact
<1>1. RootedIntact /\ HeldIntact /\ FieldsIntact => HeapIntact
  BY DEF HeapIntact
<1> QED BY <1>1, RootsKeepBoxes, HeldPointersIntact, FieldsStayIntact, PTL

\* WeakGc::upgrade succeeds exactly as long as the box exists, however often its
\* slot is reused.
THEOREM WeakUpgradesExactly ==
  ASSUME KeepAcross = FALSE
  PROVE  Spec => []WeakExact
<1>1. IInv => WeakExact
  <2> SUFFICES ASSUME IInv, NEW w \in weaks
               PROVE  IsUpgradable(w) <=> Intact(w)
    BY DEF WeakExact
  <2>1. w \in Ptr /\ w.id < generic_alloc_id
    BY DEF IInv, TypeOK, EntryInv
  <2>2. w \in objs => IdAt(w) = w.id
    BY DEF IInv, IdInv
  <2> QED BY <2>1, <2>2, FreshIdIntact DEF IsUpgradable, Intact
<1> QED BY <1>1, Invariant, PTL

\* An ephemeron handle shows its value exactly as long as the key exists, and
\* between collections that value is intact.
THEOREM EphemeronsShowLiveValues ==
  ASSUME KeepAcross = FALSE
  PROVE  Spec => []EphemeronExact
<1>1. IInv => EphemeronExact
  <2> SUFFICES ASSUME IInv, NEW e \in pairs
               PROVE  /\ HasValue(e) <=> Intact(e.key)
                      /\ Mutating /\ HasValue(e) =>
                           Intact(e.value) /\ e \in ephemerons
    BY DEF EphemeronExact
  <2>1. e.key \in Ptr /\ e.key.id < generic_alloc_id
    BY DEF IInv, TypeOK, EntryInv, Pair
  <2>2. HasValue(e) <=> Intact(e.key)
    <3>1. e.key \in objs => IdAt(e.key) = e.key.id
      BY DEF IInv, IdInv
    <3> QED BY <2>1, <3>1, FreshIdIntact DEF HasValue, Intact
  <2>3. Mutating /\ HasValue(e) => Intact(e.value) /\ e \in ephemerons
    BY <2>2 DEF IInv, EntryInv, PhaseInv, Survives, Mutating, Intact
  <2> QED BY <2>2, <2>3
<1> QED BY <1>1, Invariant, PTL

\* Ids identify objects: the counter stops before it could repeat one.
THEOREM IdsIdentifyObjects ==
  ASSUME KeepAcross = FALSE
  PROVE  Spec => []IdentityOfObjects
<1>1. IInv => IdentityOfObjects
  <2> SUFFICES ASSUME IInv PROVE IdentityOfObjects
    OBVIOUS
  <2>1. \A p \in objs : IdAt(p) = p.id /\ p.id # FREED_ALLOC_ID
    BY IdAssumption DEF IInv, IdInv, TypeOK, AllocId, Ptr
  <2>2. \A p, q \in objs : p.slot = q.slot => p.id = q.id
    BY DEF IInv, IdInv, IdAt
  <2> QED BY <2>1, <2>2 DEF IInv, IdInv, IdentityOfObjects
<1> QED BY <1>1, Invariant, PTL

\* Every collection leaves every box White for the next one.
THEOREM CollectionsEndWhite ==
  ASSUME KeepAcross = FALSE
  PROVE  Spec => []AllWhite
<1>1. IInv => AllWhite
  BY DEF IInv, PhaseInv, Marking, Mutating, AllWhite, TypeOK
<1> QED BY <1>1, Invariant, PTL

\* The collector's drop leaves no box undropped.
THEOREM DropLeaksNothing ==
  ASSUME KeepAcross = FALSE
  PROVE  Spec => []NothingLeaked
<1>1. IInv => NothingLeaked
  BY DEF IInv, PhaseInv, IdInv, NothingLeaked
<1> QED BY <1>1, Invariant, PTL

-----------------------------------------------------------------------------
(***************************************************************************)
(* The proof that BrandedGc implements GcContract, for every set of slots  *)
(* and root nodes and every bound: colours, worklist, ephemeron passes and *)
(* the sweep box by box come to one step that removes exactly the boxes no *)
(* root, no Gc of the client and no ephemeron with a reached key leads to. *)
(*                                                                         *)
(* The invariant IInv says that what is reachable gets marked.  That only  *)
(* what is reachable gets marked is ReachInv, below.                       *)
(***************************************************************************)

\* The boxes a collection may start from, and the sets closed under what keeps a
\* box alive.
Start == Pinned \cup held
ClosedSets ==
  {T \in SUBSET Existing : Start \subseteq T /\ Contract!Closed(T, Edges, Associated)}

\* While marking, every box that is not White is in every closed set.
ReachInv ==
  Marking =>
    \A T \in ClosedSets : \A p \in objs : color[p.slot] # "White" => p \in T

-----------------------------------------------------------------------------
(* Facts about the refinement mapping.                                     *)

\* A slot holds one object.
LEMMA OneBoxPerSlot ==
  ASSUME IInv, NEW p \in objs, NEW q \in objs, p.slot = q.slot
  PROVE  p = q
BY DEF IInv, IdInv, IdAt

\* What the client holds, and what is rooted, exists.
LEMMA StartExists ==
  ASSUME IInv
  PROVE  held \subseteq Existing /\ Pinned \subseteq Existing
BY DEF IInv, PointerInv, Survives, Existing, Pinned

\* A field of a box that exists leads to a box that exists.
LEMMA EdgesExist ==
  ASSUME IInv, NEW e \in Edges
  PROVE  e[1] \in Existing /\ e[2] \in Existing /\ e[2] \in fields[e[1].slot]
<1>1. e[1] \in Existing /\ e[2] \in fields[e[1].slot]
  BY DEF Edges
<1>2. e[1].slot \in live \ dead
  BY <1>1 DEF Existing, IInv, IdInv
<1> QED BY <1>1, <1>2 DEF IInv, PointerInv, Survives, Existing

\* Both ends of an associated pair exist.
LEMMA AssociatedExist ==
  ASSUME IInv, NEW e \in Associated
  PROVE  e.key \in Existing /\ e.value \in Existing
BY DEF Associated, Existing, IInv, EntryInv, Survives

\* Where no box is being swept, what exists is what was allocated and not dropped.
LEMMA ExistingIsAll ==
  ASSUME IInv, phase \notin {"free", "shutdown"}
  PROVE  Existing = objs
BY DEF IInv, PhaseInv, Existing

-----------------------------------------------------------------------------
(* The steps of the client, one by one.                                    *)

\* A new box is an object the contract has not seen: its id is fresh.
LEMMA AllocNew ==
  ASSUME IInv, NEW s \in Slot, Alloc(s)
  PROVE  \E o \in Ptr : Contract!New(o)
<1> DEFINE o == [slot |-> s, id |-> generic_alloc_id]
<1>1. o \in Ptr /\ o.slot = s /\ o.id = generic_alloc_id
  BY DEF IInv, TypeOK, Ptr
<1>2. dead = {} /\ dead' = {} /\ Existing = objs /\ Existing' = objs \cup {o}
  BY DEF IInv, PhaseInv, Alloc, Mutating, Existing
<1>3. o \notin objs /\ o \notin weaks /\ \A p \in objs : p.slot # s
  <2>1. \A p \in objs : p.id < generic_alloc_id /\ p.slot # s
    BY DEF IInv, IdInv, Alloc
  <2>2. \A w \in weaks : w.id < generic_alloc_id
    BY DEF IInv, EntryInv
  <2>3. ~(generic_alloc_id < generic_alloc_id)
    BY IdAssumption DEF IInv, TypeOK, AllocId
  <2> QED BY <1>1, <2>1, <2>2, <2>3
<1>4. Edges' = Edges
  <2>1. fields' = [fields EXCEPT ![s] = {}]
    BY DEF Alloc
  <2>2. \A p \in objs : fields'[p.slot] = fields[p.slot]
    BY <1>3, <2>1 DEF IInv, TypeOK, Ptr
  <2>3. fields'[o.slot] = {}
    BY <1>1, <2>1 DEF IInv, TypeOK
  <2> QED BY <1>2, <2>2, <2>3 DEF Edges
<1>5. Pinned' = Pinned
  BY DEF Pinned, Alloc
<1>6. Associated' = Associated
  <2>1. \A e \in ephemerons : e.key # o
    BY <1>3 DEF IInv, EntryInv, Alloc, Mutating
  <2> QED BY <1>2, <2>1 DEF Associated, Alloc
<1>7. held' = held \cup {o} /\ weaks' = weaks
  BY DEF Alloc
<1> QED BY <1>1, <1>2, <1>3, <1>4, <1>5, <1>6, <1>7 DEF Contract!New

\* What a step that leaves the heap, the roots and the entries alone keeps.
LEMMA HeapKept ==
  ASSUME UNCHANGED <<objs, fields, dead, roots, ephemerons>>
  PROVE  UNCHANGED <<Existing, Edges, Pinned, Associated>>
BY DEF Existing, Edges, Pinned, Associated

\* A load from a field gives the client an object of the contract.
LEMMA LoadObtains ==
  ASSUME IInv, NEW p \in held, NEW q \in fields[p.slot], Load(p, q)
  PROVE  Contract!Obtain(q) /\ q \in Ptr
<1>1. p \in Existing /\ q \in Ptr
  BY StartExists DEF IInv, TypeOK, Ptr
<1>2. <<p, q>> \in Edges
  BY <1>1 DEF Edges
<1>3. q \in Existing
  BY <1>2, EdgesExist
<1> QED BY <1>1, <1>2, <1>3, HeapKept DEF Load, heap, tracing, Contract!Obtain

\* A store into a field makes a reference.
LEMMA StoreSetsRef ==
  ASSUME IInv, NEW p \in held, NEW q \in held, Store(p, q)
  PROVE  Contract!SetRef(p, q)
<1>1. p \in Existing /\ q \in Ptr
  BY StartExists DEF IInv, TypeOK
<1>2. Existing' = Existing /\ Pinned' = Pinned /\ Associated' = Associated
  BY DEF Store, tracing, Existing, Pinned, Associated
<1>3. Edges' = Edges \cup {<<p, q>>}
  <2>1. fields' = [fields EXCEPT ![p.slot] = @ \cup {q}]
    BY DEF Store
  <2>2. \A o \in Existing : fields'[o.slot] = IF o = p THEN fields[o.slot] \cup {q}
                                                    ELSE fields[o.slot]
    BY <1>1, <2>1, OneBoxPerSlot DEF IInv, TypeOK, Ptr, Existing
  <2>3. \A o \in Existing, t \in Ptr :
          <<o, t>> \in Edges' <=> <<o, t>> \in Edges \cup {<<p, q>>}
    <3> TAKE o \in Existing, t \in Ptr
    <3>1. <<o, t>> \in Edges <=> t \in fields[o.slot]
      BY DEF Edges
    <3>2. <<o, t>> \in Edges' <=> t \in fields'[o.slot]
      BY <1>2 DEF Edges
    <3>3. t \in fields'[o.slot] <=> t \in fields[o.slot] \/ (o = p /\ t = q)
      BY <2>2
    <3> QED BY <3>1, <3>2, <3>3
  <2>4. Edges \subseteq Existing \X Ptr /\ Edges' \subseteq Existing \X Ptr
    BY <1>2 DEF Edges
  <2>5. <<p, q>> \in Existing \X Ptr
    BY <1>1
  <2> QED BY <2>3, <2>4, <2>5
<1> QED BY <1>2, <1>3 DEF Store, tracing, handles, Contract!SetRef

\* A cleared field takes the reference away.
LEMMA ClearClearsRef ==
  ASSUME IInv, NEW p \in held, NEW q \in fields[p.slot], Clear(p, q)
  PROVE  Contract!ClearRef(p, q) /\ q \in Ptr
<1>1. p \in Existing /\ q \in Ptr
  BY StartExists DEF IInv, TypeOK, Ptr
<1>2. Existing' = Existing /\ Pinned' = Pinned /\ Associated' = Associated
  BY DEF Clear, tracing, Existing, Pinned, Associated
<1>3. Edges' = Edges \ {<<p, q>>}
  <2>1. fields' = [fields EXCEPT ![p.slot] = @ \ {q}]
    BY DEF Clear
  <2>2. \A o \in Existing : fields'[o.slot] = IF o = p THEN fields[o.slot] \ {q}
                                                    ELSE fields[o.slot]
    BY <1>1, <2>1, OneBoxPerSlot DEF IInv, TypeOK, Ptr, Existing
  <2>3. \A o \in Existing, t \in Ptr :
          <<o, t>> \in Edges' <=> <<o, t>> \in Edges \ {<<p, q>>}
    BY <1>1, <1>2, <2>2 DEF Edges
  <2>4. Edges \subseteq Existing \X Ptr /\ Edges' \subseteq Existing \X Ptr
    BY <1>2 DEF Edges
  <2>5. <<p, q>> \in Existing \X Ptr
    BY <1>1
  <2> QED BY <2>3, <2>4, <2>5
<1> QED BY <1>1, <1>2, <1>3 DEF Clear, tracing, handles, Contract!ClearRef

\* The client forgets an object.
LEMMA ReleaseForgets ==
  ASSUME NEW p \in held, Release(p)
  PROVE  Contract!Forget(held \ {p})
BY HeapKept DEF Release, heap, tracing, Contract!Forget

\* A new root pins its object.
LEMMA MakeRootPins ==
  ASSUME IInv, NEW n \in RootNode, NEW p \in held, MakeRoot(n, p)
  PROVE  Contract!Pin(p)
<1>1. p # NoPtr
  BY DEF IInv, TypeOK, Ptr, NoPtr
<1>2. Pinned' = Pinned \cup {p}
  BY <1>1 DEF MakeRoot, IInv, TypeOK, Pinned
<1>3. UNCHANGED <<Existing, Edges, Associated>>
  BY DEF MakeRoot, heap, tracing, Existing, Edges, Associated
<1> QED BY <1>2, <1>3 DEF MakeRoot, handles, Contract!Pin

\* A root gives its object back.
LEMMA RootGetObtains ==
  ASSUME IInv, NEW n \in RootNode, RootGet(n)
  PROVE  Contract!Obtain(roots[n]) /\ roots[n] \in Ptr
<1>1. roots[n] \in Pinned /\ roots[n] \in Ptr
  BY DEF RootGet, Pinned, IInv, TypeOK
<1>2. roots[n] \in Existing
  BY <1>1, StartExists
<1> QED BY <1>1, <1>2, HeapKept DEF RootGet, heap, tracing, Contract!Obtain

\* Another node may still hold the same box: then nothing changes for the contract.
LEMMA DropRootUnpins ==
  ASSUME IInv, NEW n \in RootNode, DropRoot(n)
  PROVE  \/ \E o \in Ptr : Contract!Unpin(o)
         \/ UNCHANGED Contract!vars
<1>1. UNCHANGED <<Existing, Edges, Associated, held, weaks>>
  BY DEF DropRoot, heap, tracing, handles, Existing, Edges, Associated
<1>2. roots[n] \in Ptr
  BY DEF DropRoot, IInv, TypeOK
<1>3. roots' = [roots EXCEPT ![n] = NoPtr] /\ roots \in [RootNode -> Ptr \cup {NoPtr}]
  BY DEF DropRoot, IInv, TypeOK
<1>4. CASE \E m \in RootNode \ {n} : roots[m] = roots[n]
  <2>1. Pinned' = Pinned
    BY <1>2, <1>3, <1>4 DEF Pinned
  <2> QED BY <1>1, <2>1 DEF Contract!vars
<1>5. CASE \A m \in RootNode \ {n} : roots[m] # roots[n]
  <2>1. Pinned' = Pinned \ {roots[n]}
    BY <1>3, <1>5 DEF Pinned
  <2> QED BY <1>1, <1>2, <2>1 DEF Contract!Unpin
<1> QED BY <1>4, <1>5

\* A new WeakGc watches its object.
LEMMA AllocWeakWatches ==
  ASSUME IInv, NEW p \in held, AllocWeak(p)
  PROVE  Contract!Watch(p)
<1>1. p \in objs /\ IdAt(p) = p.id /\ p \in Ptr
  BY DEF IInv, PointerInv, Survives, IdInv, TypeOK
<1>2. [slot |-> p.slot, id |-> IdAt(p)] = p
  BY <1>1 DEF Ptr
<1>3. weaks' = weaks \cup {p}
  BY <1>2 DEF AllocWeak
<1> QED BY <1>3, HeapKept DEF AllocWeak, heap, tracing, Contract!Watch

\* An upgrade succeeds only for an object that is alive.
LEMMA UpgradeObtains ==
  ASSUME IInv, NEW w \in weaks, Upgrade(w)
  PROVE  Contract!Obtain(w) /\ w \in Ptr
<1>1. w \in Ptr /\ w.id < generic_alloc_id
  BY DEF IInv, TypeOK, EntryInv
<1>2. w \in objs
  BY <1>1, FreshIdIntact DEF Upgrade, IsUpgradable
<1>3. w \in Existing
  BY <1>2, ExistingIsAll DEF Upgrade, Mutating
<1> QED BY <1>1, <1>3, HeapKept DEF Upgrade, heap, tracing, Contract!Obtain

\* An ephemeron associates its value with its key.
LEMMA AllocEphemeronAssociates ==
  ASSUME IInv, NEW k \in held, NEW v \in held, AllocEphemeron(k, v)
  PROVE  Contract!Associate(k, v)
<1>1. k \in Existing /\ k \in Ptr
  BY StartExists DEF IInv, TypeOK
<1>2. IdAt(k) = k.id
  BY <1>1 DEF Existing, IInv, IdInv
<1>3. [slot |-> k.slot, id |-> IdAt(k)] = k
  BY <1>1, <1>2 DEF Ptr
<1>4. ephemerons' = ephemerons \cup {[key |-> k, value |-> v]}
  BY <1>3 DEF AllocEphemeron
<1>5. UNCHANGED <<Existing, Edges, Pinned, held, weaks>>
  BY DEF AllocEphemeron, heap, tracing, Existing, Edges, Pinned
<1>6. Associated' = Associated \cup {[key |-> k, value |-> v]}
  BY <1>1, <1>4, <1>5 DEF Associated
<1> QED BY <1>5, <1>6 DEF Contract!Associate

\* An ephemeron gives its value while its key is alive.
LEMMA EphemeronGetObtains ==
  ASSUME IInv, NEW e \in pairs, EphemeronGet(e)
  PROVE  \E o \in Ptr : Contract!Obtain(o)
<1>1. e.key \in Ptr /\ e.value \in Ptr /\ e.key.id < generic_alloc_id
  BY DEF IInv, TypeOK, Pair, EntryInv
<1>2. e.key \in objs
  BY <1>1, FreshIdIntact DEF EphemeronGet, HasValue
<1>3. e \in Associated
  BY <1>2, ExistingIsAll DEF EphemeronGet, Mutating, Associated, IInv, EntryInv
<1>4. e.key \in Existing /\ e.value \in Existing
  BY <1>3, AssociatedExist
<1>5. UNCHANGED <<Existing, Edges, Pinned, Associated, weaks>>
  BY HeapKept DEF EphemeronGet, heap, tracing
<1>6. held' = held \cup {e.key} \/ held' = held \cup {e.value}
  BY DEF EphemeronGet
<1>7. Contract!Obtain(e.key) \/ Contract!Obtain(e.value)
  BY <1>3, <1>4, <1>5, <1>6 DEF Contract!Obtain
<1> QED BY <1>1, <1>7

\* collect takes the context mutably, so the client keeps no Gc.
LEMMA StartCollectForgets ==
  ASSUME KeepAcross = FALSE, NEW ext \in SUBSET held, StartCollect(ext)
  PROVE  Contract!Forget(ext)
BY HeapKept DEF StartCollect, heap, Contract!Forget

\* Drop for Collector shuts the contract.
LEMMA DropCollectorShuts ==
  ASSUME IInv, DropCollector
  PROVE  Contract!Shutdown
<1>1. Existing' = {}
  BY DEF DropCollector, Owned, heap, Existing, IInv, IdInv
<1>2. Pinned' = {}
  BY DEF DropCollector, Pinned
<1>3. Edges' = {} /\ Associated' = {}
  BY <1>1 DEF Edges, Associated
<1> QED BY <1>1, <1>2, <1>3 DEF DropCollector, Contract!Shutdown

-----------------------------------------------------------------------------
(* The steps of a collection: all but one of them stutter.                 *)

\* Marking changes nothing the client can see.
LEMMA MarkingStutters ==
  ASSUME \/ \E s \in worklist : Drain(s)
         \/ DrainDone
         \/ \E e \in pending : VisitEntry(e)
         \/ PassAgain
         \/ \E e \in pairs : ForgetEphemeron(e)
  PROVE  UNCHANGED Contract!vars
<1>1. UNCHANGED <<objs, fields, dead, roots, ephemerons, held, weaks>>
  BY DEF Drain, DrainDone, VisitEntry, PassAgain, ForgetEphemeron, heap, handles, tracing
<1> QED BY <1>1, HeapKept DEF Contract!vars

\* A box that is freed did not exist for the contract any more.
LEMMA FreeBoxStutters ==
  ASSUME IInv, NEW s \in dead, FreeBox(s)
  PROVE  UNCHANGED Contract!vars
<1>1. Existing' = Existing
  BY DEF FreeBox, Existing
<1>2. \A p \in Existing : fields'[p.slot] = fields[p.slot]
  BY DEF FreeBox, Existing, IInv, TypeOK, Ptr
<1>3. Edges' = Edges
  BY <1>1, <1>2 DEF Edges
<1>4. Pinned' = Pinned /\ Associated' = Associated
  BY <1>1 DEF FreeBox, Pinned, Associated
<1> QED BY <1>1, <1>3, <1>4 DEF FreeBox, handles, Contract!vars

\* The entries that are removed had lost their key when the sweep selected it.
LEMMA RetainEntriesStutters ==
  ASSUME IInv, RetainEntries
  PROVE  UNCHANGED Contract!vars
<1>1. UNCHANGED <<Existing, Edges, Pinned, held, weaks>>
  BY DEF RetainEntries, heap, handles, Existing, Edges, Pinned
<1>2. \A e \in ephemerons : e.key \in Existing => IdAt(e.key) # FREED_ALLOC_ID
  BY IdAssumption DEF Existing, IInv, IdInv, TypeOK, AllocId
<1>3. Associated' = Associated
  BY <1>1, <1>2 DEF RetainEntries, Retained, Associated
<1> QED BY <1>1, <1>3 DEF Contract!vars

\* Nor does the end of a value's drop, whose slot was dead already.
LEMMA DropDoneStutters ==
  ASSUME IInv, DropDone
  PROVE  UNCHANGED Contract!vars
<1>1. UNCHANGED <<Existing, Edges, Pinned, held, weaks>>
  BY DEF DropDone, heap, handles, Existing, Edges, Pinned
<1>2. Existing = {}
  BY DEF DropDone, Existing, IInv, IdInv, PhaseInv
<1> QED BY <1>1, <1>2 DEF Associated, Contract!vars

-----------------------------------------------------------------------------
(* ReachInv is inductive.                                                  *)

\* A step that leaves objects, fields, roots, entries and the held pointers alone
\* leaves the closed sets alone.
LEMMA ClosedSetsKept ==
  ASSUME UNCHANGED <<objs, fields, dead, roots, ephemerons, held>>
  PROVE  ClosedSets' = ClosedSets
<1>1. UNCHANGED <<Existing, Edges, Pinned, Associated, held>>
  BY HeapKept
<1> QED BY <1>1 DEF ClosedSets, Start, Contract!Closed

\* What a collection greys first is what it starts from.
LEMMA StartCollectReach ==
  ASSUME IInv, KeepAcross = FALSE, NEW ext \in SUBSET held, StartCollect(ext)
  PROVE  ReachInv'
<1> SUFFICES ASSUME NEW T \in ClosedSets', NEW p \in objs', color'[p.slot] # "White"
             PROVE  p \in T
  BY DEF ReachInv
<1>1. p \in objs /\ p \in Ptr
  BY DEF StartCollect, heap, IInv, TypeOK
<1>2. color[p.slot] = "White"
  BY <1>1 DEF StartCollect, Mutating, IInv, PhaseInv, Marking, Ptr
<1>3. p.slot \in StartSlots(ext)
  BY <1>1, <1>2 DEF StartCollect, Mark, Newly, Ptr
<1>4. PICK q \in ext \cup Pinned : q.slot = p.slot
  BY <1>3 DEF StartSlots, RootSlots, Pinned
<1>5. q \in objs
  BY StartExists DEF Existing
<1>6. q = p
  BY <1>1, <1>4, <1>5, OneBoxPerSlot
<1>7. q \in Start'
  BY <1>4 DEF Start, StartCollect, Pinned
<1> QED BY <1>6, <1>7 DEF ClosedSets

\* A popped box is in every closed set, and so is what its fields lead to.
LEMMA DrainReach ==
  ASSUME IInv, ReachInv, NEW s \in worklist, Drain(s)
  PROVE  ReachInv'
<1> SUFFICES ASSUME NEW T \in ClosedSets', NEW p \in objs', color'[p.slot] # "White"
             PROVE  p \in T
  BY DEF ReachInv
<1>1. T \in ClosedSets /\ p \in objs /\ p \in Ptr
  BY ClosedSetsKept DEF Drain, heap, handles, IInv, TypeOK
<1>2. Marking /\ s \in Slot /\ color[s] = "Gray" /\ s \in live
  BY DEF Drain, Marking, IInv, MarkInv, TypeOK
<1>3. \A o \in objs : color[o.slot] # "White" => o \in T
  BY <1>1, <1>2 DEF ReachInv
<1>4. CASE color[p.slot] # "White"
  BY <1>1, <1>3, <1>4
<1>5. CASE color[p.slot] = "White"
  <2>1. p.slot \in Newly(Children(s))
    BY <1>1, <1>2, <1>5 DEF Drain, Ptr
  <2>2. PICK q \in fields[s] : q.slot = p.slot
    BY <2>1 DEF Newly, Children
  <2>3. PICK o \in objs : o.slot = s
    BY <1>2 DEF IInv, IdInv
  <2>4. o \in T /\ o \in Existing
    BY <1>1, <1>2, <1>3, <2>3 DEF ClosedSets
  <2>5. <<o, q>> \in Edges
    BY <1>2, <2>2, <2>3, <2>4 DEF Edges, IInv, TypeOK
  <2>6. q \in T /\ q \in Existing
    BY <1>1, <2>4, <2>5 DEF ClosedSets, Contract!Closed
  <2>7. q = p
    BY <1>1, <2>2, <2>6, OneBoxPerSlot DEF Existing
  <2> QED BY <2>6, <2>7
<1> QED BY <1>4, <1>5

\* An entry marks its value only once its key is in every closed set.
LEMMA VisitEntryReach ==
  ASSUME IInv, ReachInv, NEW e \in pending, VisitEntry(e)
  PROVE  ReachInv'
<1> SUFFICES ASSUME NEW T \in ClosedSets', NEW p \in objs', color'[p.slot] # "White"
             PROVE  p \in T
  BY DEF ReachInv
<1>1. T \in ClosedSets /\ p \in objs /\ p \in Ptr
  BY ClosedSetsKept DEF VisitEntry, heap, handles, IInv, TypeOK
<1>2. Marking /\ \A o \in objs : color[o.slot] # "White" => o \in T
  BY <1>1 DEF VisitEntry, Marking, ReachInv
<1>3. CASE color[p.slot] # "White"
  BY <1>1, <1>2, <1>3
<1>4. CASE color[p.slot] = "White"
  <2>1. color[e.key.slot] # "White" /\ p.slot = e.value.slot
    BY <1>1, <1>4 DEF VisitEntry, Mark, Newly, Ptr
  <2>2. e \in ephemerons /\ e.key \in objs
    BY DEF IInv, PhaseInv, EntryInv, VisitEntry
  <2>3. e.key \in T
    BY <1>2, <2>1, <2>2
  <2>4. e \in Associated
    BY <1>1, <2>2, <2>3 DEF Associated, ClosedSets
  <2>5. e.value \in T /\ e.value \in objs
    BY <1>1, <2>3, <2>4, AssociatedExist DEF ClosedSets, Contract!Closed, Existing
  <2>6. e.value = p
    BY <1>1, <2>1, <2>5, OneBoxPerSlot
  <2> QED BY <2>5, <2>6
<1> QED BY <1>3, <1>4

\* The two steps between drains and passes mark nothing.
LEMMA BetweenPassesReach ==
  ASSUME ReachInv, DrainDone \/ PassAgain
  PROVE  ReachInv'
<1>1. ClosedSets' = ClosedSets
  BY ClosedSetsKept DEF DrainDone, PassAgain, heap, handles
<1>2. objs' = objs /\ color' = color /\ Marking
  BY DEF DrainDone, PassAgain, heap, Marking
<1> QED BY <1>1, <1>2 DEF ReachInv

\* Every step preserves ReachInv; all but the marking ones end outside the marking.
LEMMA NextReach ==
  ASSUME IInv, ReachInv, KeepAcross = FALSE, [Next]_vars
  PROVE  ReachInv'
<1>1. CASE Client
  <2>1. CASE \E ext \in SUBSET held : StartCollect(ext)
    BY <2>1, StartCollectReach
  <2>2. CASE ~ \E ext \in SUBSET held : StartCollect(ext)
    <3>1. phase' \in {"mutator", "shutdown"}
      BY <1>1, <2>2 DEF Client, Alloc, Store, Load, Clear, Release, AllocWeak,
         MakeRoot, RootGet, DropRoot, Upgrade, AllocEphemeron, EphemeronGet,
         ForgetEphemeron, DropCollector, Mutating, tracing
    <3> QED BY <3>1 DEF ReachInv, Marking
  <2> QED BY <2>1, <2>2
<1>2. CASE \/ \E s \in worklist : Drain(s)
           \/ \E e \in pending : VisitEntry(e)
           \/ DrainDone
           \/ PassAgain
  BY <1>2, DrainReach, VisitEntryReach, BetweenPassesReach
<1>3. CASE SelectDead \/ (\E s \in dead : FreeBox(s)) \/ RetainEntries \/ DropDone
  BY <1>3 DEF ReachInv, Marking, SelectDead, FreeBox, RetainEntries, DropDone
<1>4. CASE UNCHANGED vars
  <2>1. ClosedSets' = ClosedSets
    BY <1>4, ClosedSetsKept DEF vars, heap, tracing, handles
  <2> QED BY <1>4, <2>1 DEF ReachInv, Marking, vars, heap, tracing
<1> QED BY <1>1, <1>2, <1>3, <1>4 DEF Next, Collector

-----------------------------------------------------------------------------
(* The step at which a collection takes effect.                            *)

\* When the last pass ends, the marked boxes are the least closed set.
LEMMA MarkedIsReached ==
  ASSUME IInv, ReachInv, SelectDead
  PROVE  {p \in objs : color[p.slot] # "White"} = Contract!Reach(Start)
<1> DEFINE M == {p \in objs : color[p.slot] # "White"}
<1>1. Marking /\ phase = "ephemeron" /\ pending = {} /\ ~newly_marked /\ Existing = objs
  BY ExistingIsAll DEF SelectDead, Marking
<1>2. \A s \in Slot : color[s] # "White" => color[s] = "Black"
  BY <1>1 DEF IInv, MarkInv, TypeOK, Color
<1>3. M \in ClosedSets
  <2>1. Start \subseteq M
    BY <1>1, StartExists DEF Start, Pinned, IInv, MarkInv
  <2>2. ASSUME NEW e \in Edges, e[1] \in M PROVE e[2] \in M
    <3>1. e[2] \in Existing /\ e[2] \in fields[e[1].slot] /\ e[1].slot \in Slot
      BY EdgesExist DEF Existing, IInv, TypeOK, Ptr
    <3>2. color[e[1].slot] = "Black"
      BY <1>2, <2>2, <3>1
    <3> QED BY <1>1, <3>1, <3>2 DEF IInv, MarkInv
  <2>3. ASSUME NEW e \in Associated, e.key \in M PROVE e.value \in M
    <3>1. e \in ephemerons \ pending /\ e.value \in objs
      BY <1>1, AssociatedExist DEF Associated, Existing
    <3> QED BY <1>1, <2>3, <3>1 DEF IInv, MarkInv
  <2> QED BY <1>1, <2>1, <2>2, <2>3 DEF ClosedSets, Contract!Closed
<1>4. Start \cap Existing = Start
  BY StartExists DEF Start
<1>5. Contract!Reach(Start) = {o \in Existing : \A T \in ClosedSets : o \in T}
  BY <1>4 DEF Contract!Reach, Contract!ReachFrom, ClosedSets
<1>6. Contract!Reach(Start) \subseteq M
  BY <1>3, <1>5
<1>7. M \subseteq Contract!Reach(Start)
  BY <1>1, <1>5 DEF ReachInv
<1> QED BY <1>6, <1>7

\* The sweep's selection is the contract's collection.
LEMMA SelectDeadCollects ==
  ASSUME IInv, ReachInv, SelectDead
  PROVE  Contract!Collect
<1>1. phase = "ephemeron" /\ Marking /\ pending = {} /\ ~newly_marked /\ Existing = objs
  BY ExistingIsAll DEF SelectDead, Marking
<1>2. \A p \in objs : p \in Ptr /\ p.slot \in live /\ p.slot \in Slot
  BY DEF IInv, IdInv, TypeOK, Ptr
<1>3. \A s \in Slot : color[s] # "White" <=> color[s] = "Black"
  BY <1>1 DEF IInv, MarkInv, TypeOK, Color
<1>4. Existing' = {p \in objs : color[p.slot] # "White"}
  BY <1>2, <1>3 DEF SelectDead, heap, Existing
<1>5. Existing' = Contract!Reach(Pinned \cup held)
  BY <1>4, MarkedIsReached DEF Start
<1>6. Edges' = {e \in Edges : e[1] \in Existing'}
  <2>1. Existing' \subseteq Existing /\ fields' = fields
    BY <1>1, <1>4 DEF SelectDead, heap
  <2>2. Edges' = {e \in Existing' \X Ptr : e[2] \in fields[e[1].slot]}
    BY <2>1 DEF Edges
  <2> QED BY <2>1, <2>2 DEF Edges
<1>7. Associated' = {e \in Associated : e.key \in Existing'}
  BY <1>1, <1>4 DEF SelectDead, Associated
<1>8. Pinned' = Pinned /\ held' = held /\ weaks' = weaks
  BY DEF SelectDead, handles, Pinned
<1> QED BY <1>5, <1>6, <1>7, <1>8 DEF Contract!Collect

-----------------------------------------------------------------------------
(* The refinement.                                                         *)

\* The initial states of the collector are initial states of the contract.
LEMMA InitRefines == Init => Contract!Init /\ ReachInv
<1> SUFFICES ASSUME Init PROVE Contract!Init /\ ReachInv
  OBVIOUS
<1>1. Existing = {} /\ Pinned = {}
  BY DEF Init, Existing, Pinned
<1>2. Edges = {} /\ Associated = {}
  BY <1>1 DEF Edges, Associated
<1> QED BY <1>1, <1>2 DEF Init, Contract!Init, ReachInv, Marking

\* Every step of the collector and its client is a step of the contract, or one it
\* does not see.
LEMMA NextRefines ==
  ASSUME IInv, ReachInv, KeepAcross = FALSE, [Next]_vars
  PROVE  [Contract!Next]_Contract!vars
<1>1. held \subseteq Ptr /\ \A p \in held : p \in Ptr
  BY DEF IInv, TypeOK
<1>2. CASE Client
  <2>1. CASE \E s \in Slot : Alloc(s)
    BY <2>1, AllocNew DEF Contract!Next
  <2>2. CASE \E p \in held, q \in held : Store(p, q)
    BY <1>1, <2>2, StoreSetsRef DEF Contract!Next
  <2>3. CASE \E p \in held : \E q \in fields[p.slot] : Load(p, q) \/ Clear(p, q)
    BY <1>1, <2>3, LoadObtains, ClearClearsRef DEF Contract!Next
  <2>4. CASE \E p \in held : Release(p)
    BY <2>4, ReleaseForgets DEF Contract!Next
  <2>5. CASE \E p \in held : AllocWeak(p)
    BY <1>1, <2>5, AllocWeakWatches DEF Contract!Next
  <2>6. CASE \E n \in RootNode : \E p \in held : MakeRoot(n, p)
    BY <1>1, <2>6, MakeRootPins DEF Contract!Next
  <2>7. CASE \E n \in RootNode : RootGet(n)
    BY <2>7, RootGetObtains DEF Contract!Next
  <2>8. CASE \E n \in RootNode : DropRoot(n)
    BY <2>8, DropRootUnpins DEF Contract!Next
  <2>9. CASE \E w \in weaks : Upgrade(w)
    BY <2>9, UpgradeObtains DEF Contract!Next
  <2>10. CASE \E k \in held, v \in held : AllocEphemeron(k, v)
    BY <1>1, <2>10, AllocEphemeronAssociates DEF Contract!Next
  <2>11. CASE \E e \in pairs : EphemeronGet(e)
    BY <2>11, EphemeronGetObtains DEF Contract!Next
  <2>12. CASE \E e \in pairs : ForgetEphemeron(e)
    BY <2>12, MarkingStutters
  <2>13. CASE \E ext \in SUBSET held : StartCollect(ext)
    BY <2>13, StartCollectForgets DEF Contract!Next
  <2>14. CASE DropCollector
    BY <2>14, DropCollectorShuts DEF Contract!Next
  <2> QED BY <1>2, <2>1, <2>2, <2>3, <2>4, <2>5, <2>6, <2>7, <2>8, <2>9, <2>10,
             <2>11, <2>12, <2>13, <2>14 DEF Client
<1>3. CASE Collector
  <2>1. CASE SelectDead
    BY <2>1, SelectDeadCollects DEF Contract!Next
  <2>2. CASE ~SelectDead
    <3>1. UNCHANGED Contract!vars
      BY <1>3, <2>2, MarkingStutters, FreeBoxStutters, RetainEntriesStutters,
         DropDoneStutters DEF Collector
    <3> QED BY <3>1
  <2> QED BY <2>1, <2>2
<1>4. CASE UNCHANGED vars
  <2>1. UNCHANGED <<objs, fields, dead, roots, ephemerons, held, weaks>>
    BY <1>4 DEF vars, heap, tracing, handles
  <2> QED BY <2>1, HeapKept DEF Contract!vars
<1> QED BY <1>2, <1>3, <1>4 DEF Next

\* While a collection marks, it marks only what the program can reach.
THEOREM OnlyReachableMarked ==
  ASSUME KeepAcross = FALSE
  PROVE  Spec => []ReachInv
<1>1. Init => ReachInv
  BY InitRefines
<1>2. IInv /\ ReachInv /\ [Next]_vars => ReachInv'
  BY NextReach
<1> QED BY Invariant, <1>1, <1>2, PTL DEF Spec

\* The collector implements the contract, for a client that declares the pointers
\* it keeps: a collection removes exactly what the program can no longer reach.
THEOREM Refinement ==
  ASSUME KeepAcross = FALSE
  PROVE  Spec => ImplementsContract
<1>1. Init => Contract!Init
  BY InitRefines
<1>2. IInv /\ ReachInv /\ [Next]_vars => [Contract!Next]_Contract!vars
  BY NextRefines
<1> QED BY Invariant, OnlyReachableMarked, <1>1, <1>2, PTL
        DEF Spec, ImplementsContract, Contract!Spec
=============================================================================
