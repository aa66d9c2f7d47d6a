------------------------------ MODULE MarkSweep ------------------------------
(***************************************************************************)
(* The collector whose Gc handles count themselves                         *)
(* (collectors/mark_sweep): MarkSweepGarbageCollector, Gc, WeakGc, WeakMap *)
(* and the ephemerons behind the last two.                                 *)
(*                                                                         *)
(* Every Gc counts in the root_count of its box, on the stack and in the   *)
(* heap alike, so the count and not the trace decides what lives.  Boxes   *)
(* and ephemerons are slots of the pool; a collection is cut where it      *)
(* calls code of the client: a finalizer, or the drop of a value.  Inside  *)
(* such a call (current # None) the client may do what it can do outside,  *)
(* except collect.  Marking is one step: it calls no client code.          *)
(***************************************************************************)
EXTENDS Naturals, FiniteSets, FiniteSetsExt

CONSTANTS
  Slot,             \* slots for boxes
  Eph,              \* slots for ephemerons
  MayBoxHandles,    \* may the client box a bare Gc (a Gc<Gc<U>>)?
  MayResurrect,     \* may its finalizers upgrade WeakGcs?
  MayBindUnmarked,  \* may its finalizers make ephemerons for keys that the
                    \* running collection did not mark?
  MaxHeld,          \* bound: stack handles to one box
  MaxFields         \* bound: handles in one value

ASSUME ClientAssumption == {MayBoxHandles, MayResurrect, MayBindUnmarked} \subseteq BOOLEAN
ASSUME BoundAssumption == {MaxHeld, MaxFields} \subseteq Nat
ASSUME SlotAssumption == IsFiniteSet(Slot) /\ IsFiniteSet(Eph) /\ Slot \cap Eph = {}

None == "none"
ASSUME NoneAssumption == None \notin Slot \cup Eph

TraceColor == {"Black", "White"}
Flip(color) == IF color = "Black" THEN "White" ELSE "Black"

VARIABLES
  live, eph_live,               \* the pool's slots in use
  color, root_count,            \* GcBox.header
  fields,                       \* the Gc handles in GcBox.value
  wraps,                        \* the boxes whose value is itself a Gc
  eph_key, eph_value,           \* Ephemeron.key, the handles in Ephemeron.value
  trace_color, collect_needed,
  root_queue, pending_root_queue, ephemeron_queue, pending_ephemeron_queue,
  map, map_state,               \* a WeakMap: its entries by key address
  phase,                        \* where the collection is
  unvisited,                    \* queue entries the current loop has not come to
  droppables, eph_dead,         \* extracted by the sweep, not freed yet
  current,                      \* the slot whose finalizer or drop is running
  held,                         \* client: number of its stack handles to a box
  weaks,                        \* client: ephemerons its WeakGcs point to
  misses                        \* history: collections begun since a box lost
                                \* its last handle

pool == <<live, eph_live>>
boxes == <<color, root_count, fields, wraps>>
ephemerons == <<eph_key, eph_value>>
queues == <<root_queue, pending_root_queue, ephemeron_queue, pending_ephemeron_queue>>
weakmap == <<map, map_state>>
collection == <<phase, unvisited, droppables, eph_dead, current, trace_color>>
client == <<held, weaks>>
vars == <<pool, boxes, ephemerons, collect_needed, queues, weakmap, collection,
          client, misses>>

TypeOK ==
  /\ live \in SUBSET Slot /\ eph_live \in SUBSET Eph
  /\ color \in [Slot -> TraceColor]
  /\ root_count \in [Slot -> Nat]
  /\ fields \in [Slot -> SUBSET Slot]
  /\ wraps \in SUBSET Slot
  /\ eph_key \in [Eph -> Slot \cup {None}]
  /\ eph_value \in [Eph -> SUBSET Slot]
  /\ trace_color \in TraceColor
  /\ collect_needed \in BOOLEAN
  /\ {root_queue, pending_root_queue, droppables} \subseteq SUBSET Slot
  /\ {ephemeron_queue, pending_ephemeron_queue, eph_dead} \subseteq SUBSET Eph
  /\ map \in [Slot -> Eph \cup {None}]
  /\ map_state \in {"alive", "dropped", "reclaimed"}
  /\ phase \in {"idle", "boxes", "ephemerons", "free_ephemerons", "free_boxes",
                "leaked", "dropped"}
  /\ unvisited \in SUBSET (Slot \cup Eph)
  /\ current \in Slot \cup Eph \cup {None}
  /\ held \in [Slot -> Nat]
  /\ weaks \in SUBSET Eph
  /\ misses \in [Slot -> Nat]

Init ==
  /\ live = {} /\ eph_live = {}
  /\ color = [s \in Slot |-> "White"]
  /\ root_count = [s \in Slot |-> 0]
  /\ fields = [s \in Slot |-> {}]
  /\ wraps = {}
  /\ eph_key = [e \in Eph |-> None]
  /\ eph_value = [e \in Eph |-> {}]
  /\ trace_color = "Black"
  /\ collect_needed = FALSE
  /\ root_queue = {} /\ pending_root_queue = {}
  /\ ephemeron_queue = {} /\ pending_ephemeron_queue = {}
  /\ map = [s \in Slot |-> None]
  /\ map_state = "alive"
  /\ phase = "idle"
  /\ unvisited = {} /\ droppables = {} /\ eph_dead = {}
  /\ current = None
  /\ held = [s \in Slot |-> 0]
  /\ weaks = {}
  /\ misses = [s \in Slot |-> 0]

-----------------------------------------------------------------------------
(* What a box and a handle can do.                                         *)

is_collecting == phase \notin {"idle", "leaked", "dropped"}
Running == phase = "idle" \/ current # None

IsRooted(s) == root_count[s] > 0
IsReachable(s) == color[s] = trace_color
KeyReachable(e) == eph_key[e] # None /\ IsReachable(eph_key[e])

\* Ephemeron::value, which is there as long as the key is.
HasValue(e) == eph_key[e] # None

\* GcBox::new_in: a new box has the colour that is not the trace colour.
NewColor == Flip(trace_color)

\* A new box is counted once, by Gc::new_in; inc_roots for every further handle.
CountNew(s) == [root_count EXCEPT ![s] = 1]
Inc(s) == [root_count EXCEPT ![s] = @ + 1]

DecForgotten(count, S) == count

\* dec_roots, once for every handle to a box; it saturates.
Dec(count, S) == [s \in Slot |-> IF s \in S /\ count[s] > 0 THEN count[s] - 1
                                                             ELSE count[s]]

\* Client code can reach a value through a handle, or when it is being finalized
\* or dropped.
Access(s) == held[s] > 0 \/ current = s

\* A handle to s in a value that client code can reach, that of an ephemeron which
\* is being finalized or dropped included.
InReach(s) == \/ \E p \in live : Access(p) /\ s \in fields[p]
              \/ current \in Eph /\ s \in eph_value[current]

-----------------------------------------------------------------------------
(* The client.                                                             *)

\* alloc_gc_node once no deferred collection is due; Gc::new_in counts the handle.
AllocBox(s, wrapped) ==
  /\ Running
  /\ ~collect_needed \/ is_collecting
  /\ s \in Slot \ live
  /\ wrapped \in {{}} \cup (IF MayBoxHandles THEN {{t} : t \in live} ELSE {})
  /\ \A t \in wrapped : held[t] > 0
  /\ collect_needed' \in {collect_needed, TRUE}
  /\ live' = live \cup {s}
  /\ color' = [color EXCEPT ![s] = NewColor]
  /\ root_count' = CountNew(s)
  /\ fields' = [fields EXCEPT ![s] = wrapped]
  /\ wraps' = IF wrapped = {} THEN wraps \ {s} ELSE wraps \cup {s}
  /\ held' = [t \in Slot |-> IF t = s THEN 1
                             ELSE IF t \in wrapped THEN held[t] - 1 ELSE held[t]]
  /\ IF is_collecting
     THEN pending_root_queue' = pending_root_queue \cup {s} /\ UNCHANGED root_queue
     ELSE root_queue' = root_queue \cup {s} /\ UNCHANGED pending_root_queue
  /\ misses' = [misses EXCEPT ![s] = 0]
  /\ UNCHANGED <<eph_live, ephemerons, ephemeron_queue, pending_ephemeron_queue,
                 weakmap, collection, weaks>>

\* Gc::clone, of a stack handle or of one in a value the client can reach.
Clone(s) ==
  /\ Running
  /\ held[s] < MaxHeld
  /\ held[s] > 0 \/ InReach(s)
  /\ held' = [held EXCEPT ![s] = @ + 1]
  /\ root_count' = Inc(s)
  /\ UNCHANGED <<pool, color, fields, wraps, ephemerons, collect_needed, queues,
                 weakmap, collection, weaks, misses>>

\* Drop for Gc.
DropHandle(s) ==
  /\ Running
  /\ held[s] > 0
  /\ held' = [held EXCEPT ![s] = @ - 1]
  /\ root_count' = Dec(root_count, {s})
  /\ UNCHANGED <<pool, color, fields, wraps, ephemerons, collect_needed, queues,
                 weakmap, collection, weaks, misses>>

\* Moving a stack handle into a value, and dropping one that is in a value.
Store(p, s) ==
  /\ Running
  /\ p \in live \ wraps /\ Access(p)
  /\ held[s] > 0
  /\ s \notin fields[p] /\ Cardinality(fields[p]) < MaxFields
  /\ fields' = [fields EXCEPT ![p] = @ \cup {s}]
  /\ held' = [held EXCEPT ![s] = @ - 1]
  /\ UNCHANGED <<pool, color, root_count, wraps, ephemerons, collect_needed,
                 queues, weakmap, collection, weaks, misses>>

Clear(p, s) ==
  /\ Running
  /\ p \in live \ wraps /\ Access(p)
  /\ s \in fields[p]
  /\ fields' = [fields EXCEPT ![p] = @ \ {s}]
  /\ root_count' = Dec(root_count, {s})
  /\ UNCHANGED <<pool, color, wraps, ephemerons, collect_needed, queues,
                 weakmap, collection, client, misses>>

\* Ephemeron::new
NewEphemeron(e, k, value) ==
  /\ eph_key' = [eph_key EXCEPT ![e] = k]
  /\ eph_value' = [eph_value EXCEPT ![e] = value]

\* alloc_ephemeron_node for a key the client holds and a value (a structure, not
\* a bare Gc) that takes over some of its handles.  A WeakGc has the value (); the
\* slot of a dangling one is not used again.
AllocEphemeron(e, k, value) ==
  /\ Running
  /\ ~collect_needed \/ is_collecting
  /\ is_collecting /\ ~MayBindUnmarked => IsReachable(k) \/ k \in pending_root_queue
  /\ e \in Eph \ (eph_live \cup weaks)
  /\ held[k] > 0
  /\ \A s \in value : held[s] > 0
  /\ collect_needed' \in {collect_needed, TRUE}
  /\ eph_live' = eph_live \cup {e}
  /\ NewEphemeron(e, k, value)
  /\ held' = [s \in Slot |-> IF s \in value THEN held[s] - 1 ELSE held[s]]
  /\ IF is_collecting
     THEN /\ pending_ephemeron_queue' = pending_ephemeron_queue \cup {e}
          /\ UNCHANGED ephemeron_queue
     ELSE /\ ephemeron_queue' = ephemeron_queue \cup {e}
          /\ UNCHANGED pending_ephemeron_queue
  /\ UNCHANGED <<live, boxes, root_queue, pending_root_queue, collection,
                 map_state, misses>>

NewWeak(e, k) ==
  /\ AllocEphemeron(e, k, {})
  /\ weaks' = weaks \cup {e}
  /\ UNCHANGED map

\* An entry replaces the one for the same address; the old ephemeron stays with
\* the collector.
WithEntry(k, e) == [map EXCEPT ![k] = e]

Insert(e, k, value) ==
  /\ map_state = "alive"
  /\ AllocEphemeron(e, k, value)
  /\ map' = WithEntry(k, e)
  /\ UNCHANGED weaks

MapRemove(k) ==
  /\ Running
  /\ map_state = "alive" /\ held[k] > 0 /\ map[k] # None
  /\ map' = [map EXCEPT ![k] = None]
  /\ UNCHANGED <<pool, boxes, ephemerons, collect_needed, queues, map_state,
                 collection, client, misses>>

\* WeakMap::get, and a clone of a handle in the value it returns.
Get(k, s) ==
  /\ Running
  /\ map_state = "alive" /\ held[k] > 0 /\ map[k] # None
  /\ HasValue(map[k])
  /\ s \in eph_value[map[k]] /\ held[s] < MaxHeld
  /\ held' = [held EXCEPT ![s] = @ + 1]
  /\ root_count' = Inc(s)
  /\ UNCHANGED <<pool, color, fields, wraps, ephemerons, collect_needed, queues,
                 weakmap, collection, weaks, misses>>

DropMap ==
  /\ Running
  /\ map_state = "alive"
  /\ map_state' = "dropped"
  /\ UNCHANGED <<pool, boxes, ephemerons, collect_needed, queues, map,
                 collection, client, misses>>

\* WeakGc::upgrade: defined while the ephemeron it points to exists.
Upgrade(e) ==
  /\ phase = "idle" \/ (MayResurrect /\ current # None)
  /\ e \in weaks \cap eph_live
  /\ eph_key[e] # None
  /\ held[eph_key[e]] < MaxHeld
  /\ held' = [held EXCEPT ![eph_key[e]] = @ + 1]
  /\ root_count' = Inc(eph_key[e])
  /\ misses' = [misses EXCEPT ![eph_key[e]] = 0]
  /\ UNCHANGED <<pool, color, fields, wraps, ephemerons, collect_needed, queues,
                 weakmap, collection, weaks>>

DropWeak(e) ==
  /\ Running
  /\ e \in weaks
  /\ weaks' = weaks \ {e}
  /\ UNCHANGED <<pool, boxes, ephemerons, collect_needed, queues, weakmap,
                 collection, held, misses>>

-----------------------------------------------------------------------------
(* The collection: mark, then the weak maps, then the boxes the mark did   *)
(* not reach are finalized, then ephemerons, and last the boxes are freed. *)

\* trace_fn from the boxes of S: a box that is already marked is not entered.  What
\* it comes to is the least set that holds S and the children of what it enters.
Entered(T) == {t \in T : ~IsReachable(t)}
Closed(T) == \A t \in Entered(T) : fields[t] \subseteq T
Reached(S) == {s \in Slot : \A T \in SUBSET Slot : S \subseteq T /\ Closed(T) => s \in T}

Traced(S) == [s \in Slot |-> IF s \in Reached(S) THEN trace_color ELSE color[s]]

\* The loop over the ephemerons comes after the roots; the handles in a value
\* whose key is marked are traced too.
MarkRoots == {s \in root_queue : IsRooted(s)}
ReachedKey(e, marked) == HasValue(e) /\ marked[eph_key[e]] = trace_color
TracedValues(marked) ==
  UNION {eph_value[e] : e \in {x \in ephemeron_queue : ReachedKey(x, marked)}}

MarkPhase == Traced(MarkRoots \cup TracedValues(Traced(MarkRoots)))

\* prune_dead_entries
Unpruned(marked) == map
Pruned(marked) ==
  [k \in Slot |-> IF map[k] # None /\ ReachedKey(map[k], marked) THEN map[k] ELSE None]

\* Maps are pruned, and what a dropped one has left is taken back.
PruneMaps ==
  IF map_state = "alive"
  THEN map' = Pruned(MarkPhase) /\ UNCHANGED map_state
  ELSE map' = [k \in Slot |-> None] /\ map_state' = "reclaimed"

\* collect, called by the client or by the allocation that finds one due.
Collect ==
  /\ phase = "idle"
  /\ collect_needed' \in {collect_needed, FALSE}
  /\ color' = MarkPhase
  /\ PruneMaps
  /\ phase' = "boxes"
  /\ unvisited' = root_queue
  /\ misses' = [s \in Slot |-> IF s \in live /\ ~IsRooted(s) THEN misses[s] + 1 ELSE 0]
  /\ UNCHANGED <<pool, root_count, fields, wraps, ephemerons, queues, droppables,
                 eph_dead, current, trace_color, client>>

\* run_finalizer asks the outermost value only: a boxed Gc drops the count of its
\* handle, which the drop of the value will do again.
CountFinalized(s) == IF s \in wraps THEN Dec(root_count, fields[s]) ELSE root_count

\* A box that was not reached is finalized.
FinalizeBox(s) ==
  /\ phase = "boxes"
  /\ current = None
  /\ s \in unvisited
  /\ unvisited' = unvisited \ {s}
  /\ IF IsReachable(s)
     THEN UNCHANGED <<root_count, current>>
     ELSE /\ current' = s
          /\ root_count' = CountFinalized(s)
  /\ UNCHANGED <<pool, color, fields, wraps, ephemerons, collect_needed, queues,
                 weakmap, phase, droppables, eph_dead, trace_color, client, misses>>

\* The recheck after the finalizer: a box that is rooted again is traced, the
\* others are extracted.
Recheck(s) ==
  /\ phase = "boxes"
  /\ current = s
  /\ current' = None
  /\ color' = IF IsRooted(s) THEN Traced({s}) ELSE color
  /\ IF color'[s] = trace_color
     THEN UNCHANGED <<root_queue, droppables>>
     ELSE /\ root_queue' = root_queue \ {s}
          /\ droppables' = droppables \cup {s}
  /\ UNCHANGED <<pool, root_count, fields, wraps, ephemerons, collect_needed,
                 pending_root_queue, ephemeron_queue, pending_ephemeron_queue,
                 weakmap, phase, unvisited, eph_dead, trace_color, client, misses>>

\* A loop that has come to its end gives way to the next one.
NextLoop ==
  /\ current = None
  /\ \/ /\ phase = "boxes" /\ unvisited = {}
        /\ phase' = "ephemerons" /\ unvisited' = ephemeron_queue
     \/ /\ phase = "ephemerons" /\ unvisited = {}
        /\ phase' = "free_ephemerons" /\ UNCHANGED unvisited
     \/ /\ phase = "free_ephemerons" /\ eph_dead = {}
        /\ phase' = "free_boxes" /\ UNCHANGED unvisited
  /\ UNCHANGED <<pool, boxes, ephemerons, collect_needed, queues, weakmap,
                 droppables, eph_dead, current, trace_color, client, misses>>

\* Ephemerons whose key was not reached are finalized, which clears the key, ...
AllKept(e) == FALSE
KeyLost(e) == ~KeyReachable(e)

\* Finalize of a WeakGcBox takes its pointer.
KeyTaken(e) == [eph_key EXCEPT ![e] = None]

FinalizeEphemeron(e) ==
  /\ phase = "ephemerons"
  /\ current = None
  /\ e \in unvisited
  /\ unvisited' = unvisited \ {e}
  /\ IF KeyLost(e)
     THEN /\ eph_key' = KeyTaken(e)
          /\ ephemeron_queue' = ephemeron_queue \ {e}
          /\ eph_dead' = eph_dead \cup {e}
          /\ current' = e
     ELSE UNCHANGED <<eph_key, ephemeron_queue, eph_dead, current>>
  /\ UNCHANGED <<pool, boxes, eph_value, collect_needed, root_queue,
                 pending_root_queue, pending_ephemeron_queue, weakmap, phase,
                 droppables, trace_color, client, misses>>

\* ... and then dropped.
DropEphemeron(e) ==
  /\ phase = "free_ephemerons"
  /\ current = None
  /\ e \in eph_dead
  /\ current' = e
  /\ UNCHANGED <<pool, boxes, ephemerons, collect_needed, queues, weakmap, phase,
                 unvisited, droppables, eph_dead, trace_color, client, misses>>

\* A finalized box that is still not rooted is dropped; the others stay.
DroppedAnyway(s) == FALSE
SavedByHandle(s) == IsRooted(s)

DropBox(s) ==
  /\ phase = "free_boxes"
  /\ current = None
  /\ s \in droppables
  /\ IF SavedByHandle(s)
     THEN /\ root_queue' = root_queue \cup {s}
          /\ droppables' = droppables \ {s}
          /\ UNCHANGED current
     ELSE /\ current' = s
          /\ UNCHANGED <<root_queue, droppables>>
  /\ UNCHANGED <<pool, boxes, ephemerons, collect_needed, pending_root_queue,
                 ephemeron_queue, pending_ephemeron_queue, weakmap, phase,
                 unvisited, eph_dead, trace_color, client, misses>>

\* drop_fn of an ephemeron, and of a box: the handles in the value are dropped.
DropEphemeronValue(e) ==
  /\ root_count' = Dec(root_count, eph_value[e])
  /\ eph_value' = [eph_value EXCEPT ![e] = {}]

DropBoxValue(s) ==
  /\ root_count' = Dec(root_count, fields[s])
  /\ fields' = [fields EXCEPT ![s] = {}]

\* The client's code has returned: after a Drop the slot is freed, after a
\* finalizer of an ephemeron there is nothing left to do.
Return ==
  /\ current # None
  /\ current' = None
  /\ \/ /\ phase = "ephemerons"
        /\ UNCHANGED <<pool, root_count, fields, eph_value, droppables, eph_dead>>
     \/ /\ phase = "free_ephemerons"
        /\ eph_live' = eph_live \ {current}
        /\ eph_dead' = eph_dead \ {current}
        /\ DropEphemeronValue(current)
        /\ UNCHANGED <<live, fields, droppables>>
     \/ /\ phase = "free_boxes"
        /\ live' = live \ {current}
        /\ droppables' = droppables \ {current}
        /\ DropBoxValue(current)
        /\ UNCHANGED <<eph_live, eph_value, eph_dead>>
  /\ UNCHANGED <<color, wraps, eph_key, collect_needed, queues, weakmap, phase,
                 unvisited, trace_color, client, misses>>

\* The end: the trace colour flips and what was allocated meanwhile joins in.
Unflipped == trace_color
Flipped == Flip(trace_color)

LostPending == {}
JoinedPending == pending_root_queue

Finish ==
  /\ phase = "free_boxes"
  /\ current = None
  /\ droppables = {}
  /\ phase' = "idle"
  /\ trace_color' = Flipped
  /\ root_queue' = root_queue \cup JoinedPending
  /\ ephemeron_queue' = ephemeron_queue \cup pending_ephemeron_queue
  /\ pending_root_queue' = {}
  /\ pending_ephemeron_queue' = {}
  /\ UNCHANGED <<pool, boxes, ephemerons, collect_needed, weakmap, unvisited,
                 droppables, eph_dead, current, client, misses>>

NoneRooted == FALSE
HasRooted == \E s \in root_queue \cup pending_root_queue : IsRooted(s)

\* sweep_all_queues: every value is finalized and dropped, every slot freed.  The
\* client's drops do nothing here but drop what is in their values.
SweepAllQueues ==
  /\ live' = {} /\ eph_live' = {}
  /\ root_queue' = {} /\ ephemeron_queue' = {}
  /\ fields' = [s \in Slot |-> {}]
  /\ eph_value' = [e \in Eph |-> {}]

ReclaimDeadWeakMaps ==
  IF map_state = "dropped"
  THEN map_state' = "reclaimed" /\ map' = [k \in Slot |-> None]
  ELSE UNCHANGED weakmap

\* Drop for MarkSweepGarbageCollector.  With a rooted box in a queue nothing is
\* dropped, but the pools are returned to the OS all the same, so that nothing
\* more is left of the boxes than after the sweep.
DropCollector ==
  /\ phase = "idle"
  /\ SweepAllQueues
  /\ \/ HasRooted /\ phase' = "leaked" /\ UNCHANGED weakmap
     \/ ~HasRooted /\ phase' = "dropped" /\ ReclaimDeadWeakMaps
  /\ UNCHANGED <<color, root_count, wraps, eph_key, collect_needed,
                 pending_root_queue, pending_ephemeron_queue, unvisited,
                 droppables, eph_dead, current, trace_color, client, misses>>

-----------------------------------------------------------------------------
Client ==
  \/ \E s \in Slot : \E wrapped \in {{}} \cup {{t} : t \in Slot} : AllocBox(s, wrapped)
  \/ \E s \in Slot : Clone(s) \/ DropHandle(s)
  \/ \E p \in Slot, s \in Slot : Store(p, s) \/ Clear(p, s)
  \/ \E e \in Eph, k \in Slot : NewWeak(e, k)
  \/ \E e \in Eph, k \in Slot : \E value \in {{}} \cup {{s} : s \in Slot} :
       Insert(e, k, value)
  \/ \E k \in Slot : MapRemove(k)
  \/ \E k \in Slot, s \in Slot : Get(k, s)
  \/ DropMap
  \/ \E e \in Eph : Upgrade(e) \/ DropWeak(e)
  \/ Collect
  \/ DropCollector

Collector ==
  \/ \E s \in Slot : FinalizeBox(s) \/ Recheck(s) \/ DropBox(s)
  \/ \E e \in Eph : FinalizeEphemeron(e) \/ DropEphemeron(e)
  \/ NextLoop
  \/ Return
  \/ Finish

Next == Client \/ Collector

Spec == Init /\ [][Next]_vars

-----------------------------------------------------------------------------
(* Properties.                                                             *)

Open == phase \notin {"leaked", "dropped"}

\* The boxes and the ephemerons whose value has a handle to s.
InBoxes(s) == {p \in live : s \in fields[p]}
InValues(s) == {e \in eph_live : s \in eph_value[e]}

\* Counting is exact in every state, the middle of a collection included: what
\* a box counts is the handles on the stack, in boxes not yet dropped and in the
\* values of ephemerons not yet dropped.
CountsExact ==
  Open => \A s \in live :
    root_count[s] = held[s] + Cardinality(InBoxes(s)) + Cardinality(InValues(s))

\* No handle dangles: neither a sweep nor the drop of a value frees a box some
\* Gc, wherever it is stored, still points to ("safe because the gc tracks
\* this", Gc::new_in).
HandlesIntact ==
  Open =>
    /\ \A s \in Slot : held[s] > 0 => s \in live
    /\ \A p \in live : fields[p] \subseteq live
    /\ \A e \in eph_live : eph_value[e] \subseteq live

\* Every box and every ephemeron is in exactly one queue: none is lost to the
\* collector, none can be swept twice, whatever is allocated in a finalizer.
QueuesExact ==
  /\ Open => /\ live = root_queue \cup pending_root_queue \cup droppables
             /\ eph_live = ephemeron_queue \cup pending_ephemeron_queue \cup eph_dead
  /\ root_queue \cap (pending_root_queue \cup droppables) = {}
  /\ ephemeron_queue \cap (pending_ephemeron_queue \cup eph_dead) = {}

\* An ephemeron's key exists or has been cleared: WeakGc::upgrade and the sweep
\* itself read the box through it.
KeysIntact == Open => \A e \in eph_live : eph_key[e] \in live \cup {None}

\* A map entry, found by the key's address, is for that very key: an address
\* that is used again never finds what was stored for the box before it.
MapExact ==
  Open /\ map_state = "alive" =>
    \A k \in Slot : map[k] # None =>
      k \in live /\ map[k] \in eph_live /\ eph_key[map[k]] = k

\* A box without a handle survives one collection at most: it may be one that
\* was allocated, or saved, during the collection before.
GarbageGoes == phase = "idle" => \A s \in live : misses[s] <= 1

\* Values are dropped with the collector only when no handle can see it.
NoDropUnderHandle == phase = "dropped" => \A s \in Slot : held[s] = 0

\* The next two do not hold: an invariant check of either finds a short trace.
\* "if the GC drops while rooted values still exist, we leak memory to prevent
\* UAF" (Drop for MarkSweepGarbageCollector): the memory goes all the same.
LeakKeepsHandlesValid == phase = "leaked" => \A s \in Slot : held[s] > 0 => s \in live

\* "safe because the gc tracks this" (WeakGc::new_in): a WeakGc points to an
\* ephemeron that exists.  The ephemeron goes with its key.
WeakHandlesValid == Open => weaks \subseteq eph_live

-----------------------------------------------------------------------------
(* The inductive invariant behind them, for a client that brings nothing   *)
(* back from the dead (MayResurrect and MayBindUnmarked are false) and     *)
(* boxes no bare handles (MayBoxHandles is false).                         *)

\* What each phase of a collection works on.
PhaseInv ==
  /\ wraps = {}
  /\ phase = "boxes" =>
       /\ unvisited \subseteq root_queue
       /\ current # None => current \in root_queue \ unvisited /\ ~IsReachable(current)
  /\ phase = "ephemerons" => unvisited \subseteq ephemeron_queue
  /\ phase \notin {"boxes", "ephemerons"} => unvisited = {}
  /\ phase \in {"ephemerons", "free_ephemerons"} => current \in eph_dead \cup {None}
  /\ phase \notin {"ephemerons", "free_ephemerons"} => eph_dead = {}
  /\ phase = "free_boxes" => current \in droppables \cup {None}
  /\ ~is_collecting => /\ droppables = {} /\ current = None
                       /\ pending_root_queue = {} /\ pending_ephemeron_queue = {}
  /\ ~Open => live = {} /\ eph_live = {} /\ root_queue = {} /\ ephemeron_queue = {}

\* A box that was extracted has no handle left and gets none.
Extracted == \A s \in droppables : root_count[s] = 0 /\ ~IsReachable(s)

\* A key is safe from the running collection: it was marked, or allocated since.
Kept(k) == IsReachable(k) \/ k \in pending_root_queue

\* What keeps keys and map entries alive until the boxes are freed.
KeyInv ==
  /\ \A e \in ephemeron_queue : eph_key[e] \notin pending_root_queue
  /\ \A e \in pending_ephemeron_queue : eph_key[e] # None /\ Kept(eph_key[e])
  /\ phase \in {"ephemerons", "free_ephemerons", "free_boxes"} =>
       \A e \in ephemeron_queue \ unvisited : KeyReachable(e)
  /\ is_collecting /\ map_state = "alive" =>
       \A k \in Slot : map[k] # None => map[k] \notin eph_dead /\ Kept(k)

IInv ==
  /\ TypeOK /\ PhaseInv /\ QueuesExact /\ pending_root_queue \cap droppables = {}
  /\ pending_ephemeron_queue \cap eph_dead = {}
  /\ CountsExact /\ HandlesIntact /\ Extracted
  /\ KeysIntact /\ KeyInv /\ MapExact
=============================================================================
