------------------------------ MODULE BrandedGc ------------------------------
(***************************************************************************)
(* The lifetime-branded mark and sweep collector                           *)
(* (collectors/mark_sweep_branded): Collector, its Tracer, Gc, Root, WeakGc*)
(* and Ephemeron handles, and the client that uses them.                   *)
(*                                                                         *)
(* A box lives in a slot of the pool.  The collector is single-threaded    *)
(* and stops the world, so a collection is one call; it is cut into the    *)
(* steps of its loops (one popped box, one ephemeron entry, one freed box) *)
(* so that what holds in the middle of it can be stated: that is where the *)
(* Trace, Finalize and Drop code of the client's types runs.               *)
(*                                                                         *)
(* A pointer is a slot together with the id of the box it was made for.    *)
(* WeakGc and the key of an Ephemeron really store that id; for Gc, Root,  *)
(* a field and an ephemeron value it is a ghost the code cannot see and no *)
(* guard below reads.                                                      *)
(***************************************************************************)
EXTENDS Naturals, FiniteSets

CONSTANTS
  Slot,             \* the slots of the pool
  RootNode,         \* the nodes of the root pool
  FREED_ALLOC_ID,   \* usize::MAX in the code: the id counter stops here
  KeepAcross,       \* may the client keep a Gc it did not declare as an
                    \* external root over a call of collect?
  MaxFields,        \* bound: Gc fields of one box
  MaxPairs,         \* bound: ephemerons registered or in use
  MaxWeaks          \* bound: distinct weak references

ASSUME IdAssumption == FREED_ALLOC_ID \in Nat \ {0}
ASSUME KeepAssumption == KeepAcross \in BOOLEAN
ASSUME BoundAssumption == {MaxFields, MaxPairs, MaxWeaks} \subseteq Nat

AllocId == 0 .. FREED_ALLOC_ID
Ptr == [slot : Slot, id : AllocId]
NoPtr == [none |-> "none"]
Pair == [key : Ptr, value : Ptr]
Color == {"White", "Gray", "Black"}

VARIABLES
  live,              \* the pool's bitmap: the slots in use
  color,             \* GcBox.color
  alloc_id,          \* GcBox.alloc_id
  fields,            \* the Gc fields of GcBox.value
  generic_alloc_id,  \* the id counter
  roots,             \* the linked root nodes and what each points to
  ephemerons,        \* the collector's registered entries
  phase,             \* where the collector is
  worklist,          \* Tracer.worklist
  pending,           \* the entries the current ephemeron pass has not visited
  newly_marked,      \* has the current ephemeron pass marked a value?
  dead,              \* the boxes the sweep selected and has not freed yet
  objs,              \* history: boxes allocated and not yet dropped
  held,              \* client: its Gc values
  weaks,             \* client: its WeakGc values
  pairs,             \* client: its Ephemeron values
  external           \* client: the Gc values it declared to this collection

heap == <<live, alloc_id, fields, generic_alloc_id, objs>>
tracing == <<color, worklist, pending, newly_marked, dead, phase, external>>
handles == <<held, weaks, pairs>>
vars == <<heap, tracing, handles, roots, ephemerons>>

TypeOK ==
  /\ live \in SUBSET Slot
  /\ color \in [Slot -> Color]
  /\ alloc_id \in [Slot -> AllocId]
  /\ fields \in [Slot -> SUBSET Ptr]
  /\ generic_alloc_id \in AllocId
  /\ roots \in [RootNode -> Ptr \cup {NoPtr}]
  /\ ephemerons \in SUBSET Pair
  /\ phase \in {"mutator", "drain", "ephemeron", "free", "shutdown", "dropped"}
  /\ worklist \in SUBSET Slot
  /\ pending \in SUBSET Pair
  /\ newly_marked \in BOOLEAN
  /\ dead \in SUBSET Slot
  /\ objs \in SUBSET Ptr
  /\ held \in SUBSET Ptr
  /\ weaks \in SUBSET Ptr
  /\ pairs \in SUBSET Pair
  /\ external \in SUBSET Ptr

-----------------------------------------------------------------------------
(* The client, between collections.                                        *)

Init ==
  /\ live = {}
  /\ color = [s \in Slot |-> "White"]
  /\ alloc_id = [s \in Slot |-> FREED_ALLOC_ID]
  /\ fields = [s \in Slot |-> {}]
  /\ generic_alloc_id = 0
  /\ roots = [n \in RootNode |-> NoPtr]
  /\ ephemerons = {}
  /\ phase = "mutator"
  /\ worklist = {}
  /\ pending = {}
  /\ newly_marked = FALSE
  /\ dead = {}
  /\ objs = {}
  /\ held = {}
  /\ weaks = {}
  /\ pairs = {}
  /\ external = {}

Mutating == phase = "mutator"

\* The id the code finds in the box a pointer points to.
IdAt(p) == alloc_id[p.slot]

\* Collector::try_alloc.  The value's fields are filled in afterwards by Store;
\* the call fails once the counter, a wrapping one, has reached FREED_ALLOC_ID.
AllocIdExhausted == generic_alloc_id = FREED_ALLOC_ID

Alloc(s) ==
  /\ Mutating
  /\ s \in Slot \ live
  /\ ~AllocIdExhausted
  /\ generic_alloc_id' = (generic_alloc_id + 1) % (FREED_ALLOC_ID + 1)
  /\ live' = live \cup {s}
  /\ alloc_id' = [alloc_id EXCEPT ![s] = generic_alloc_id]
  /\ color' = [color EXCEPT ![s] = "White"]
  /\ fields' = [fields EXCEPT ![s] = {}]
  /\ objs' = objs \cup {[slot |-> s, id |-> generic_alloc_id]}
  /\ held' = held \cup {[slot |-> s, id |-> generic_alloc_id]}
  /\ UNCHANGED <<roots, ephemerons, phase, worklist, pending, newly_marked,
                 dead, external, weaks, pairs>>

\* Reading a Gc out of, writing one into, and removing one from a GcRefCell.
Load(p, q) ==
  /\ Mutating
  /\ p \in held
  /\ q \in fields[p.slot]
  /\ held' = held \cup {q}
  /\ UNCHANGED <<heap, tracing, weaks, pairs, roots, ephemerons>>

Store(p, q) ==
  /\ Mutating
  /\ {p, q} \subseteq held
  /\ Cardinality(fields[p.slot] \cup {q}) <= MaxFields
  /\ fields' = [fields EXCEPT ![p.slot] = @ \cup {q}]
  /\ UNCHANGED <<live, alloc_id, generic_alloc_id, objs, tracing, handles,
                 roots, ephemerons>>

Clear(p, q) ==
  /\ Mutating
  /\ p \in held
  /\ q \in fields[p.slot]
  /\ fields' = [fields EXCEPT ![p.slot] = @ \ {q}]
  /\ UNCHANGED <<live, alloc_id, generic_alloc_id, objs, tracing, handles,
                 roots, ephemerons>>

\* A Gc goes out of scope; it is Copy and has no Drop.
Release(p) ==
  /\ Mutating
  /\ p \in held
  /\ held' = held \ {p}
  /\ UNCHANGED <<heap, tracing, weaks, pairs, roots, ephemerons>>

\* MutationContext::root, Root::get, and the drop of a Root.
MakeRoot(n, p) ==
  /\ Mutating
  /\ roots[n] = NoPtr
  /\ p \in held
  /\ roots' = [roots EXCEPT ![n] = p]
  /\ UNCHANGED <<heap, tracing, handles, ephemerons>>

RootGet(n) ==
  /\ Mutating
  /\ roots[n] # NoPtr
  /\ held' = held \cup {roots[n]}
  /\ UNCHANGED <<heap, tracing, weaks, pairs, roots, ephemerons>>

DropRoot(n) ==
  /\ Mutating
  /\ roots[n] # NoPtr
  /\ roots' = [roots EXCEPT ![n] = NoPtr]
  /\ UNCHANGED <<heap, tracing, handles, ephemerons>>

\* alloc_weak copies the id out of the box; upgrade compares it with the id the
\* slot holds now.
AllocWeak(p) ==
  /\ Mutating
  /\ p \in held
  /\ LET w == [slot |-> p.slot, id |-> IdAt(p)] IN
       /\ Cardinality(weaks \cup {w}) <= MaxWeaks
       /\ weaks' = weaks \cup {w}
  /\ UNCHANGED <<heap, tracing, held, pairs, roots, ephemerons>>

IsUpgradableIfLive(w) == w.slot \in live
IsUpgradable(w) == IdAt(w) = w.id

Upgrade(w) ==
  /\ Mutating
  /\ w \in weaks
  /\ IsUpgradable(w)
  /\ held' = held \cup {w}
  /\ UNCHANGED <<heap, tracing, weaks, pairs, roots, ephemerons>>

\* alloc_ephemeron registers an entry with the collector and returns a handle
\* that remembers the key's id; get_value and key compare it with the slot's.
AllocEphemeron(k, v) ==
  /\ Mutating
  /\ {k, v} \subseteq held
  /\ LET e == [key |-> [slot |-> k.slot, id |-> IdAt(k)], value |-> v] IN
       /\ Cardinality(pairs \cup ephemerons \cup {e}) <= MaxPairs
       /\ pairs' = pairs \cup {e}
       /\ ephemerons' = ephemerons \cup {e}
  /\ UNCHANGED <<heap, tracing, held, weaks, roots>>

HasValue(e) == IdAt(e.key) = e.key.id

EphemeronGet(e) ==
  /\ Mutating
  /\ e \in pairs
  /\ HasValue(e)
  /\ held' \in {held \cup {e.key}, held \cup {e.value}}
  /\ UNCHANGED <<heap, tracing, weaks, pairs, roots, ephemerons>>

\* The client loses its copies of an Ephemeron; the entry stays registered.
ForgetEphemeron(e) ==
  /\ Mutating
  /\ e \in pairs
  /\ pairs' = pairs \ {e}
  /\ UNCHANGED <<heap, tracing, held, weaks, roots, ephemerons>>

-----------------------------------------------------------------------------
(* The collection.                                                         *)

\* Tracer::mark and mark_raw on every box of S: White -> Gray, and queued.
Newly(S) == {s \in S : color[s] = "White"}

Mark(S) ==
  /\ color' = [s \in Slot |-> IF s \in Newly(S) THEN "Gray" ELSE color[s]]
  /\ worklist' = worklist \cup Newly(S)

RootSlots == {roots[n].slot : n \in {m \in RootNode : roots[m] # NoPtr}}

\* collect_with_roots: the external roots, then every linked root node.
OnlyLinkedRoots(ext) == RootSlots
StartSlots(ext) == {p.slot : p \in ext} \cup RootSlots

StartCollect(ext) ==
  /\ Mutating
  /\ ext \subseteq held
  /\ external' = ext
  /\ held' = IF KeepAcross THEN held ELSE ext
  /\ Mark(StartSlots(ext))
  /\ phase' = "drain"
  /\ UNCHANGED <<heap, pending, newly_marked, dead, weaks, pairs, roots,
                 ephemerons>>

NoChildren(s) == {}
Children(s) == {q.slot : q \in fields[s]}

\* One turn of Tracer::drain: a popped box turns Black and its Trace marks the
\* boxes it points to.  The order of the pops is left open.
Drain(s) ==
  /\ phase = "drain"
  /\ s \in worklist
  /\ color' = [t \in Slot |-> IF t = s THEN "Black"
                              ELSE IF t \in Newly(Children(s)) THEN "Gray"
                              ELSE color[t]]
  /\ worklist' = (worklist \ {s}) \cup (Newly(Children(s)) \ {s})
  /\ UNCHANGED <<heap, phase, pending, newly_marked, dead, external, handles,
                 roots, ephemerons>>

DrainDone ==
  /\ phase = "drain"
  /\ worklist = {}
  /\ phase' = "ephemeron"
  /\ pending' = ephemerons
  /\ newly_marked' = FALSE
  /\ UNCHANGED <<heap, color, worklist, dead, external, handles, roots,
                 ephemerons>>

KeyReached(e) == TRUE
MarkedValue(e) == e.value.slot \in Newly({e.value.slot})

\* One entry of an ephemeron pass: a key that is not White marks its value.
VisitEntry(e) ==
  /\ phase = "ephemeron"
  /\ e \in pending
  /\ pending' = pending \ {e}
  /\ IF color[e.key.slot] # "White"
     THEN /\ Mark({e.value.slot})
          /\ newly_marked' = (newly_marked \/ MarkedValue(e))
     ELSE UNCHANGED <<color, worklist, newly_marked>>
  /\ UNCHANGED <<heap, phase, dead, external, handles, roots, ephemerons>>

\* A pass that marked something is followed by a drain and another pass.
PassAgain ==
  /\ phase = "ephemeron"
  /\ pending = {}
  /\ newly_marked
  /\ phase' = "drain"
  /\ UNCHANGED <<heap, color, worklist, pending, newly_marked, dead, external,
                 handles, roots, ephemerons>>

\* A dead box's id is invalidated before its value is dropped.
Invalidated(s) == [alloc_id EXCEPT ![s] = FREED_ALLOC_ID]

\* The sweep: Black boxes turn White again, the others are collected.
ColorsKept == color
Unmarked == [s \in Slot |-> IF s \in live /\ color[s] = "Black"
                            THEN "White" ELSE color[s]]

SelectDead ==
  /\ phase = "ephemeron"
  /\ pending = {}
  /\ ~newly_marked
  /\ dead' = {s \in live : color[s] # "Black"}
  /\ color' = Unmarked
  /\ phase' = "free"
  /\ UNCHANGED <<heap, worklist, pending, newly_marked, external, handles,
                 roots, ephemerons>>

\* One dead box: its id is invalidated, its value finalized and dropped, its
\* slot returned to the pool.
FreeBox(s) ==
  /\ phase \in {"free", "shutdown"}
  /\ s \in dead
  /\ alloc_id' = Invalidated(s)
  /\ fields' = [fields EXCEPT ![s] = {}]
  /\ objs' = {p \in objs : p.slot # s}
  /\ live' = live \ {s}
  /\ dead' = dead \ {s}
  /\ UNCHANGED <<generic_alloc_id, color, worklist, pending, newly_marked,
                 phase, external, handles, roots, ephemerons>>

\* The last phase: entries whose key was swept are removed.
NoEntries == {}
Retained == {e \in ephemerons : IdAt(e.key) # FREED_ALLOC_ID}

RetainEntries ==
  /\ phase = "free"
  /\ dead = {}
  /\ ephemerons' = Retained
  /\ phase' = "mutator"
  /\ external' = {}
  /\ UNCHANGED <<heap, color, worklist, pending, newly_marked, dead, handles,
                 roots>>

-----------------------------------------------------------------------------
(* Drop for Collector: the root nodes are freed, then every box.           *)

Owned == live

DropCollector ==
  /\ Mutating
  /\ roots' = [n \in RootNode |-> NoPtr]
  /\ held' = {}
  /\ dead' = Owned
  /\ phase' = "shutdown"
  /\ UNCHANGED <<heap, color, worklist, pending, newly_marked, external,
                 weaks, pairs, ephemerons>>

DropDone ==
  /\ phase = "shutdown"
  /\ dead = {}
  /\ ephemerons' = {}
  /\ phase' = "dropped"
  /\ UNCHANGED <<heap, color, worklist, pending, newly_marked, dead, external,
                 handles, roots>>

-----------------------------------------------------------------------------
Client ==
  \/ \E s \in Slot : Alloc(s)
  \/ \E p \in held, q \in held : Store(p, q)
  \/ \E p \in held : \E q \in fields[p.slot] : Load(p, q) \/ Clear(p, q)
  \/ \E p \in held : Release(p) \/ AllocWeak(p)
  \/ \E n \in RootNode : \E p \in held : MakeRoot(n, p)
  \/ \E n \in RootNode : RootGet(n) \/ DropRoot(n)
  \/ \E w \in weaks : Upgrade(w)
  \/ \E k \in held, v \in held : AllocEphemeron(k, v)
  \/ \E e \in pairs : EphemeronGet(e) \/ ForgetEphemeron(e)
  \/ \E ext \in SUBSET held : StartCollect(ext)
  \/ DropCollector

\* The steps of a call of collect, or of the collector's drop, once it runs.
Collector ==
  \/ \E s \in worklist : Drain(s)
  \/ DrainDone
  \/ \E e \in pending : VisitEntry(e)
  \/ PassAgain
  \/ SelectDead
  \/ \E s \in dead : FreeBox(s)
  \/ RetainEntries
  \/ DropDone

Next == Client \/ Collector

Spec == Init /\ [][Next]_vars

\* A call that has started runs to its end: the collector never waits.
FairSpec == Spec /\ WF_vars(Collector)

-----------------------------------------------------------------------------
(* Properties.                                                             *)

Intact(p) == p \in objs

\* A Root keeps its box: in no state, the middle of a collection included, does
\* a linked root node point to a box that was dropped or whose slot was reused
\* (Root::get hands the pointer out with no check).
RootedIntact == \A n \in RootNode : roots[n] # NoPtr => Intact(roots[n])

\* A Gc the client may use points to the box it was made for (Gc::inner_ref
\* reads through it with no check).
HeldIntact == \A p \in held : Intact(p)

\* Every field of a box that is not about to be freed points to an intact box:
\* what a Trace or a client reads out of a surviving box is never dangling.
FieldsIntact == \A s \in live \ dead : \A q \in fields[s] : Intact(q)

\* Nothing dangles: each pointer that a root node, the client or a surviving box
\* can be followed through leads to the box it was made for, in every state in
\* which destructors may look.  (mod.rs: collect_with_roots)
HeapIntact == RootedIntact /\ HeldIntact /\ FieldsIntact

\* A WeakGc upgrades exactly as long as its own box exists: not once the box was
\* dropped, and not to another box that took over the slot.
WeakExact == \A w \in weaks : IsUpgradable(w) <=> Intact(w)

\* An Ephemeron shows its value exactly as long as its key exists, and between
\* collections the value it shows is intact: the registered entry still pairs
\* the two, although the handle itself keeps neither alive.
EphemeronExact ==
  \A e \in pairs :
    /\ HasValue(e) <=> Intact(e.key)
    /\ Mutating /\ HasValue(e) => Intact(e.value) /\ e \in ephemerons

\* Ids tell objects apart: a slot holds one object, whose id is the one stored
\* in the box, and no two objects ever alive together share an id.
IdentityOfObjects ==
  /\ live = {p.slot : p \in objs}
  /\ \A p \in objs : IdAt(p) = p.id /\ p.id # FREED_ALLOC_ID
  /\ \A p, q \in objs : p.id = q.id \/ p.slot = q.slot => p = q

\* Outside a collection every box is White: a box left Gray or Black would not
\* be traced by the next collection, and its children would be swept.
AllWhite == Mutating => \A s \in live : color[s] = "White"

\* Once the collector is dropped nothing it owned is left undropped.
NothingLeaked == phase = "dropped" => objs = {} /\ live = {}

\* A collection that has started ends, however ephemerons and fields are wired:
\* the fixpoint loop does not run for ever.
CollectionEnds ==
  phase \in {"drain", "ephemeron", "free", "shutdown"}
     ~> phase \in {"mutator", "dropped"}

-----------------------------------------------------------------------------
(* The inductive invariant behind the safety properties, in named parts.   *)

Marking == phase \in {"drain", "ephemeron"}

\* p will still be intact when the current sweep, if one runs, is over.
Survives(p) == p \in objs /\ p.slot \notin dead

\* What each phase has put away when it ends.
PhaseInv ==
  /\ dead \subseteq live
  /\ phase \notin {"free", "shutdown"} => dead = {}
  /\ phase = "shutdown" => dead = live
  /\ phase = "dropped" => live = {}
  /\ phase \in {"shutdown", "dropped"} => \A n \in RootNode : roots[n] = NoPtr
  /\ ~Marking => worklist = {} /\ \A s \in Slot : color[s] = "White"
  /\ pending \subseteq ephemerons
  /\ phase # "ephemeron" => pending = {}

\* Objects, slots and ids match one to one; ids are below the counter, and a slot
\* in no use carries FREED_ALLOC_ID.
IdInv ==
  /\ live = {p.slot : p \in objs}
  /\ \A p \in objs : IdAt(p) = p.id /\ p.id < generic_alloc_id
  /\ \A p, q \in objs : p.id = q.id => p = q
  /\ \A s \in Slot \ live : alloc_id[s] = FREED_ALLOC_ID

\* Every pointer a surviving box, a root or the client can follow survives.
PointerInv ==
  /\ \A p \in held : Survives(p)
  /\ \A n \in RootNode : roots[n] # NoPtr => Survives(roots[n])
  /\ \A s \in live \ dead : \A q \in fields[s] : Survives(q)

\* Ephemeron entries and the handles that rely on them.
EntryInv ==
  /\ \A e \in ephemerons : Survives(e.key) => Survives(e.value)
  /\ \A e \in ephemerons :
       \/ e.key \in objs
       \/ phase \notin {"mutator", "drain", "ephemeron"} /\ e.key.slot \notin live
  /\ \A e \in pairs : e.key.id < generic_alloc_id
  /\ \A e \in pairs : e.key \in objs => e \in ephemerons
  /\ \A w \in weaks : w.id < generic_alloc_id

\* The tri-colour invariant and what each marking step has already secured.
MarkInv ==
  Marking =>
    /\ worklist = {s \in Slot : color[s] = "Gray"}
    /\ \A s \in Slot : color[s] # "White" => s \in live
    /\ \A s \in Slot : color[s] = "Black" =>
         \A q \in fields[s] : color[q.slot] # "White"
    /\ \A p \in held : color[p.slot] # "White"
    /\ \A n \in RootNode : roots[n] # NoPtr => color[roots[n].slot] # "White"
    /\ phase = "ephemeron" /\ ~newly_marked =>
         /\ worklist = {}
         /\ \A e \in ephemerons \ pending :
              color[e.key.slot] # "White" => color[e.value.slot] # "White"

\* The invariant every step of a client that declares the pointers it keeps
\* preserves: together its parts imply each safety property above.
IInv == TypeOK /\ PhaseInv /\ IdInv /\ PointerInv /\ EntryInv /\ MarkInv

-----------------------------------------------------------------------------
(* The collector implements GcContract.  The collection takes effect, for  *)
(* the contract, at the step that selects the dead boxes.                  *)

Existing == {p \in objs : p.slot \notin dead}
Edges == {e \in Existing \X Ptr : e[2] \in fields[e[1].slot]}
Pinned == {roots[n] : n \in {m \in RootNode : roots[m] # NoPtr}}
Associated == {e \in ephemerons : e.key \in Existing}

Contract == INSTANCE GcContract WITH
  Object  <- Ptr,
  objects <- Existing,
  refs    <- Edges,
  pins    <- Pinned,
  assoc   <- Associated

\* The collector implements the contract: a collection removes exactly the
\* boxes that cannot be reached from roots, external roots and ephemerons whose
\* key is reached, and every pointer the client obtains is to an existing box.
ImplementsContract == Contract!Spec
=============================================================================
