--------------------------- MODULE MarkSweepArena2 ---------------------------
(***************************************************************************)
(* The copy of the counting collector that allocates from arenas           *)
(* (collectors/mark_sweep_arena2).  Boxes, ephemerons, counts and queues   *)
(* are those of MarkSweep; this module says what the copy does otherwise:  *)
(*                                                                         *)
(*  - nothing is finalized: the finalizers that the sweep calls are those  *)
(*    of NonTraceable and Ephemeron, which do nothing, so marking and      *)
(*    extraction call no client code and are one step;                     *)
(*  - an ephemeron taken out of its map is inactive and goes at the next   *)
(*    collection;                                                          *)
(*  - drop_fn drops the item of the arena, whose own Drop drops the value, *)
(*    and then the value as its field: every value is dropped twice;       *)
(*  - the address of a freed item is used again only when its whole arena  *)
(*    is recycled.                                                         *)
(***************************************************************************)
EXTENDS MarkSweep, VecOps

CONSTANTS
  Room,        \* items an arena has room for; all count one
  Threshold    \* heap_threshold less one arena, in arenas

ASSUME ArenaAssumption ==
  /\ Room \in Nat \ {0} /\ Threshold \in Nat

VARIABLES
  active,      \* Ephemeron.active
  arenas,      \* ArenaAllocator.arenas, the active one first: their items
  again,       \* is the value of `current` being dropped for the second time?
  gone,        \* the handles in it that the first time has dropped
  short,       \* history: boxes from which a second drop took the count of a
               \* handle that was not its own
  removed,     \* history: ephemerons taken out of the map, ...
  stale        \* ... those of them there were when the last collection began

arena == <<active, arenas, again, gone, short, removed, stale>>
vars2 == <<vars, arena>>

Items == live \cup eph_live
Held == UNION {arenas[i] : i \in DOMAIN arenas}

ArenaTypeOK ==
  /\ TypeOK
  /\ active \in [Eph -> BOOLEAN]
  /\ arenas \in Seq(SUBSET (Slot \cup Eph))
  /\ again \in BOOLEAN /\ {gone, short} \subseteq SUBSET Slot
  /\ {removed, stale} \subseteq SUBSET Eph

ArenaInit ==
  /\ Init
  /\ active = [e \in Eph |-> TRUE]
  /\ arenas = <<>>
  /\ again = FALSE /\ gone = {} /\ short = {}
  /\ removed = {} /\ stale = {}

-----------------------------------------------------------------------------
(* The client.  It may share boxes between values as it likes.  Once a     *)
(* second drop has freed a box in use (short), the handles that dangle are *)
(* moved, cloned and dropped like others, but nothing is bound to the box  *)
(* and its address is not used again: what they find there is undefined.   *)

\* Some value holds a handle to s.
Stored(s) == \/ \E p \in live : s \in fields[p]
             \/ \E e \in eph_live : s \in eph_value[e]
Named(s) == held[s] > 0 \/ Stored(s)

\* An item goes to the active arena, or closes it and opens another one.  The
\* address is none that an arena in use has given out.
Placed(x) ==
  /\ x \notin Held
  /\ arenas' = IF arenas # <<>> /\ Cardinality(Head(arenas)) < Room
               THEN [arenas EXCEPT ![1] = @ \cup {x}]
               ELSE <<{x}>> \o arenas

\* is_below_threshold, after the allocation.
NeedsCollect == collect_needed' = (collect_needed \/ Len(arenas') > Threshold)

AllocGcNode(s) == AllocBox(s, {}) /\ Placed(s) /\ NeedsCollect

NewGc(s) ==
  /\ ~Named(s)
  /\ AllocGcNode(s)
  /\ short' = short \ {s}
  /\ UNCHANGED <<active, again, gone, removed, stale>>

CloneGc(s) == Clone(s) /\ UNCHANGED arena

DropGc(s) == DropHandle(s) /\ UNCHANGED arena

StoreGc(p, s) == Store(p, s) /\ UNCHANGED arena

\* Of the handles in S, those the second drop finds with the count of another.
Taken(S) == {s \in S \cap gone : root_count[s] > 0}

ClearGc(p, s) ==
  /\ Clear(p, s)
  /\ gone' = IF p = current THEN gone \ {s} ELSE gone
  /\ short' = IF p = current THEN short \cup Taken({s}) ELSE short
  /\ UNCHANGED <<active, arenas, again, removed, stale>>

NewActive(e) == TRUE

\* alloc_ephemeron_node; `dead` are the ephemerons the caller then invalidates.
AllocEphemeronNode(e, k, dead) ==
  /\ k \in live
  /\ Placed(e) /\ NeedsCollect
  /\ active' = [d \in Eph |-> IF d = e THEN NewActive(e) ELSE active[d] /\ d \notin dead]
  /\ stale' = stale \ {e}
  /\ UNCHANGED <<again, gone, short>>

NewWeakGc(e, k) ==
  /\ NewWeak(e, k)
  /\ AllocEphemeronNode(e, k, {})
  /\ removed' = removed \ {e}

\* A WeakGc whose ephemeron has been freed still finds a key there while its
\* arena is in use, a freed one: the client does not ask then.
UpgradeWeakGc(e) == Upgrade(e) /\ UNCHANGED arena

DropWeakGc(e) == DropWeak(e) /\ UNCHANGED arena

ReplacedBy(k) == {map[k]} \ {None}

InsertEntry(e, k, value) ==
  /\ Insert(e, k, value)
  /\ AllocEphemeronNode(e, k, ReplacedBy(k))
  /\ removed' = (removed \cup {map[k]}) \ {e, None}

GetEntry(k, s) == Get(k, s) /\ UNCHANGED arena

RemoveEntry(k) ==
  /\ MapRemove(k)
  /\ active' = [active EXCEPT ![map[k]] = FALSE]
  /\ removed' = removed \cup {map[k]}
  /\ UNCHANGED <<arenas, again, gone, short, stale>>

DropWeakMap == DropMap /\ UNCHANGED arena

-----------------------------------------------------------------------------
(* The collection.                                                         *)

\* is_reachable of an ephemeron, which also asks whether it is active.
KeyReached(e, marked) == marked[eph_key[e]] = trace_color
EphReachable(e, marked) == active[e] /\ KeyReached(e, marked)

\* trace_impl, line for line that of mark_sweep.
TracedFrom(S) == Traced(S)

\* run_mark_phase: the rooted boxes, then the ephemerons with a marked key.
Marked ==
  LET marked == TracedFrom(MarkRoots)
  IN TracedFrom(MarkRoots \cup
                UNION {eph_value[e] : e \in {x \in ephemeron_queue : EphReachable(x, marked)}})

\* The weak maps drop the entries of unmarked keys, active or not.
PrunedEntries(marked) ==
  [k \in Slot |-> IF map[k] # None /\ KeyReached(map[k], marked) THEN map[k] ELSE None]

SweepMaps(marked) ==
  IF map_state = "alive"
  THEN map' = PrunedEntries(marked) /\ UNCHANGED map_state
  ELSE map' = [k \in Slot |-> None] /\ map_state' = "reclaimed"

\* What run_sweep_phase extracts from the two queues.
DeadBoxes(marked) == {s \in root_queue : marked[s] # trace_color}
DeadEphemerons(marked) == {e \in ephemeron_queue : ~EphReachable(e, marked)}

StartCollection ==
  /\ phase = "idle"
  /\ collect_needed' \in {collect_needed, FALSE}
  /\ color' = Marked
  /\ SweepMaps(Marked)
  /\ droppables' = DeadBoxes(Marked)
  /\ root_queue' = root_queue \ DeadBoxes(Marked)
  /\ eph_dead' = DeadEphemerons(Marked)
  /\ ephemeron_queue' = ephemeron_queue \ DeadEphemerons(Marked)
  /\ phase' = "free_ephemerons"
  /\ misses' = [s \in Slot |-> IF s \in live \ short /\ ~IsRooted(s) THEN misses[s] + 1 ELSE 0]
  /\ stale' = removed \cap eph_live
  /\ UNCHANGED <<pool, root_count, fields, wraps, ephemerons, pending_root_queue,
                 pending_ephemeron_queue, unvisited, current, trace_color, client,
                 active, arenas, again, gone, short, removed>>

\* The ephemerons are freed first, ...
FreeEphemeron(e) == DropEphemeron(e) /\ UNCHANGED arena

LastEphemeron ==
  /\ phase = "free_ephemerons" /\ current = None /\ eph_dead = {}
  /\ phase' = "free_boxes"
  /\ UNCHANGED <<pool, boxes, ephemerons, collect_needed, queues, weakmap, unvisited,
                 droppables, eph_dead, current, trace_color, client, misses, arena>>

\* ... then the boxes; one that a drop has upgraded meanwhile stays.
FreeBox(s) == DropBox(s) /\ UNCHANGED arena

HandlesIn(x) == IF x \in Slot THEN fields[x] ELSE eph_value[x]

\* The item's Drop has dropped the value: what it held has lost a handle.
DropAgain ==
  /\ current # None /\ ~again
  /\ again' = TRUE
  /\ gone' = HandlesIn(current)
  /\ root_count' = Dec(root_count, HandlesIn(current))
  /\ UNCHANGED <<pool, color, fields, wraps, ephemerons, collect_needed, queues,
                 weakmap, collection, client, misses, active, arenas, short,
                 removed, stale>>

\* The value has been dropped as a field of the item too, and the item is
\* marked as dropped.
DropReturns ==
  /\ again
  /\ Return
  /\ again' = FALSE /\ gone' = {}
  /\ short' = short \cup Taken(HandlesIn(current))
  /\ UNCHANGED <<active, arenas, removed, stale>>

\* drop_dead_arenas: an arena goes when all of its items have been dropped.
ActiveKept == Retain(arenas, {a \in ToSet(arenas) : a = Head(arenas) \/ a \cap Items # {}})
NoBoxLeft == Retain(arenas, {a \in ToSet(arenas) : a \cap live # {}})
LiveArenas == Retain(arenas, {a \in ToSet(arenas) : a \cap Items # {}})

FinishCollection ==
  /\ Finish
  /\ arenas' = LiveArenas
  /\ UNCHANGED <<active, again, gone, short, removed, stale>>

BoxesLeft == arenas # <<>> /\ root_queue \cup pending_root_queue # {}

\* The erased sweep_all_queues drops values as NonTraceables, that is not at all,
\* and marks the items as dropped.
TagAll ==
  /\ live' = {} /\ eph_live' = {}
  /\ root_queue' = {} /\ ephemeron_queue' = {}
  /\ fields' = [s \in Slot |-> {}]
  /\ eph_value' = [e \in Eph |-> {}]

\* Drop for MarkSweepGarbageCollector: with a box left, rooted or not, nothing
\* is dropped, but the arenas go in any case, and with them all that TagAll
\* clears; so do the maps, dropped or not.
DropGarbageCollector ==
  /\ phase = "idle"
  /\ phase' = IF BoxesLeft THEN "leaked" ELSE "dropped"
  /\ TagAll
  /\ map' = [k \in Slot |-> None] /\ map_state' = "reclaimed"
  /\ arenas' = <<>>
  /\ UNCHANGED <<color, root_count, wraps, eph_key, collect_needed,
                 pending_root_queue, pending_ephemeron_queue, unvisited, droppables,
                 eph_dead, current, trace_color, client, misses, active, again,
                 gone, short, removed, stale>>

-----------------------------------------------------------------------------
ArenaClient ==
  \/ \E s \in Slot : NewGc(s) \/ CloneGc(s) \/ DropGc(s)
  \/ \E p \in Slot, s \in Slot : StoreGc(p, s) \/ ClearGc(p, s)
  \/ \E e \in Eph, k \in Slot : NewWeakGc(e, k)
  \/ \E e \in Eph : UpgradeWeakGc(e) \/ DropWeakGc(e)
  \/ \E e \in Eph, k \in Slot : \E value \in {{}} \cup {{s} : s \in Slot} :
       InsertEntry(e, k, value)
  \/ \E k \in Slot : RemoveEntry(k)
  \/ \E k \in Slot, s \in Slot : GetEntry(k, s)
  \/ DropWeakMap
  \/ StartCollection
  \/ DropGarbageCollector

ArenaCollector ==
  \/ \E e \in Eph : FreeEphemeron(e)
  \/ LastEphemeron
  \/ \E s \in Slot : FreeBox(s)
  \/ DropAgain \/ DropReturns
  \/ FinishCollection

ArenaNext == ArenaClient \/ ArenaCollector

ArenaSpec == ArenaInit /\ [][ArenaNext]_vars2

-----------------------------------------------------------------------------
(* Properties; QueuesExact, KeysIntact and MapExact are stated in          *)
(* MarkSweep, and so is HandlesIntact, which does not hold here.           *)

\* The handles to s in values, less those of the value being dropped that the
\* first drop has dropped already.
HandlesInBoxes(s) == {p \in live : s \in fields[p] /\ ~(p = current /\ s \in gone)}
HandlesInValues(s) == {e \in eph_live : s \in eph_value[e] /\ ~(e = current /\ s \in gone)}

\* A box counts its handles, unless a second drop has taken a count that was
\* another handle's: nothing else puts a count wrong, whatever values share and
\* drops do.  (gc.rs: Clone, Drop; vtable.rs: drop_fn)
CountsExactTwice ==
  Open => \A s \in live \ short :
    root_count[s] = held[s] + Cardinality(HandlesInBoxes(s))
                            + Cardinality(HandlesInValues(s))

\* Every box and ephemeron lies in exactly one arena that is in use: no arena
\* is recycled, and zeroed, under one of its items.  (mod.rs: drop_dead_arenas,
\* called before the pending queues are drained)
NoArenaUnderItem ==
  /\ Open => Items \subseteq Held
  /\ \A i, j \in DOMAIN arenas : i # j => arenas[i] \cap arenas[j] = {}

\* Between collections each arena in use has an item that is: a collection gives
\* back every arena it emptied, whichever queue the items came from.
\* (mod.rs: run_sweep_phase, drop_dead_arenas)
EmptyArenasGo ==
  phase = "idle" => \A i \in DOMAIN arenas : arenas[i] \cap Items # {}

\* An ephemeron that was removed from its map, or replaced in it, is freed by
\* the next collection although its key lives on ("An inactive ephemeron should be
\* dropped", mod.rs:350-351; weak_map.rs:79-80 and tests.rs:583 say that it stays
\* queued until its key is collected); one the map still finds is active, so that
\* it is kept with its key, at a reused address too.
\* (weak_map.rs: insert, remove; ephemeron.rs: is_reachable_fn)
RemovedEntriesGo ==
  /\ phase = "idle" => stale \cap eph_live = {}
  /\ Open => \A k \in Slot : map[k] # None => active[map[k]]

\* No handle to a box leads nowhere, unless a second drop took a count of it.
HandlesLead == Open => \A s \in Slot \ short : Named(s) => s \in live

\* What MarkSweep promises holds over arenas as well, where an address comes
\* back with its arena only: no key or map entry dangles and no item is in no queue
\* or two; handles dangle, and boxes without one stay, only where a second drop
\* took a count.
KeepsPromises ==
  /\ ArenaTypeOK
  /\ QueuesExact
  /\ KeysIntact
  /\ MapExact
  /\ HandlesLead
  /\ phase = "idle" => \A s \in live \ short : misses[s] <= 1

-----------------------------------------------------------------------------
(* The inductive invariant behind them, for a client that boxes no bare    *)
(* handles (MayBoxHandles is false) and makes no ephemerons for unmarked   *)
(* keys (MayBindUnmarked is false); it may share boxes between values and  *)
(* bring boxes back from the dead.                                         *)

\* While a box is dropped it has no handle, and then it holds none.
DropInv ==
  /\ again => current # None
  /\ gone # {} => again /\ gone \subseteq HandlesIn(current)
  /\ phase = "free_boxes" /\ current # None /\ current \notin short => ~Named(current)
  /\ \A s \in Slot \ live : fields[s] = {}

\* What the sweep extracted is unmarked; what is new is not extracted.
SweepInv ==
  /\ phase \notin {"boxes", "ephemerons"}
  /\ \A s \in droppables : ~IsReachable(s)
  /\ pending_root_queue \cap droppables = {}
  /\ pending_ephemeron_queue \cap eph_dead = {}

\* Keys exist as long as their ephemerons, which are active until removed.
EntryInv ==
  /\ \A e \in eph_live : eph_key[e] \in live
  /\ \A k \in Slot : map[k] # None => active[map[k]]
  /\ \A e \in removed \cap eph_live : ~active[e]
  /\ stale \cap eph_live \subseteq eph_dead

ArenasInv ==
  /\ Items \subseteq Held
  /\ \A i, j \in DOMAIN arenas : i # j => arenas[i] \cap arenas[j] = {}
  /\ EmptyArenasGo

\* Between collections a box has been missed once at most, and then it is not
\* marked; in the root queue a collection leaves what it marked and what has
\* been given a handle again.  Handles that are gone were no misses.
Missed(s) ==
  /\ misses[s] <= IF is_collecting THEN 2 ELSE 1
  /\ misses[s] > 0 => root_count[s] = 0 /\ s \notin gone
  /\ phase = "idle" /\ misses[s] > 0 => ~IsReachable(s)
  /\ is_collecting =>
       /\ s \in root_queue /\ misses[s] > 0 => IsReachable(s)
       /\ misses[s] = 2 => ~IsReachable(s)
       /\ s \in pending_root_queue => misses[s] = 0

MissedInv == \A s \in live \ short : Missed(s)

ArenaIInv ==
  /\ ArenaTypeOK /\ PhaseInv /\ SweepInv /\ QueuesExact
  /\ HandlesLead /\ CountsExactTwice /\ DropInv
  /\ KeyInv /\ MapExact /\ EntryInv
  /\ ArenasInv /\ MissedInv
=============================================================================
