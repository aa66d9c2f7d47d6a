# Oscar's Emporium in TLA+

`oscars` is a testing ground for garbage collectors and the allocators under
them. This directory holds TLA+ models of its collectors and allocators,
TLC runs that check them on small instances, and proofs, checked by the TLA+
proof system, for any number of objects: that the branded collector implements
its one-step contract and its root list a registry, that both allocators under
the collectors hand out disjoint blocks and know which, that byte pages are
never given up under a block, and that the counting collector and the
dynamically checked cell keep their promises.

Paths below are relative to `src/oscars/src/`.

## The system

| component | state | operations | what makes it hard |
|---|---|---|---|
| `collectors/mark_sweep_branded` `Collector` | box pool, root pool, sentinel, ephemeron list, id counter | `try_alloc`, `collect_with_roots`, `register_ephemeron`, `Drop` | ephemeron fixpoint; destructors run between the frees; slots and ids are reused |
| its handles (`Gc`, `Root`, `WeakGc`, `Ephemeron`, `MutationContext`) | pointer, remembered id | `get`, `upgrade`, `get_value`, `root`, `Drop` | a handle decides by comparing an id in memory that may have been freed |
| its root list (`root.rs`) | links of pinned nodes, back pointer to the collector | `link_after`, `unlink`, `iter`, `Drop for Root` | unlinking anywhere, the context moving or going first |
| `collectors/mark_sweep` `MarkSweepGarbageCollector` | pool, trace colour, two queues and their pending copies, weak maps | `alloc_gc_node`, `alloc_ephemeron_node`, `collect`, `Drop` | finalizers and drops are client code that runs in the middle of the sweep |
| its handles (`Gc`, `WeakGc`, `WeakMap`) | count in the box, ephemeron, entries by address | `clone`, `drop`, `upgrade`, `insert`, `get`, `remove` | one count for stack and heap handles; addresses are reused; finalizers resurrect |
| `collectors/mark_sweep_arena2` | the same over arenas, and an active flag in the ephemerons | the same | memory comes back only arena by arena; a value is dropped twice |
| `alloc/mempool3` `PoolAllocator` | slot pools, caches, sorted address index, recycled pools, heap size | `try_alloc`, `free_slot`, `drop_empty_pools` | indices are renumbered; bitmap arithmetic |
| `alloc/mempool3` `BumpPage` | byte pages | `try_alloc_bytes`, `dealloc_bytes`, `grow`, `shrink` | alignment, zero-size blocks |
| `alloc/arena2` `ArenaAllocator` | arenas, recycled arenas, item chain with tags | `try_alloc`, `mark_dropped`, `drop_dead_arenas` | an arena goes as a whole; alignment upgrades |
| `alloc/mempool4` | pools by id, index handles, byte image | `alloc`, `free`, `resolve`, `serialize`, `deserialize` | ids and indices across a restart; a round trip with holes |
| `mark_sweep/cell.rs` `GcRefCell` | borrow flag | `borrow`, `borrow_mut`, guards, trace | guards are cloned, split, mapped and forgotten while client code runs and panics |
| `null_collector`, `null_collector_branded` | a pool | `alloc` | none: nothing is ever freed |
| `alloc/mempool`, `mempool2`, `arena` | earlier generations | | not used by a collector |
| `common.rs`, `trace.rs`, `oscars_derive` | none | trait implementations, macros | generated or boilerplate |

How they interact. A mutation allocates through its collector, which allocates
through its allocator, in one thread. The branded collector is called by the
client only (`collect`), finds the live boxes from its root list and the
external roots the client passes, and frees the others slot by slot. The
counting collector may also be called by an allocation, when an earlier one
crossed the heap threshold; it decides by counts, marks from counted boxes, and
calls the client back (finalizers, drops) before it frees. After a sweep a
counting collector tells its allocator to give up memory that holds nothing
(`drop_empty_pools`, `drop_dead_arenas`); the branded one returns slots to its
pools and keeps those.

There are no threads and nothing is persisted. The hard behaviour is reentrance
(client code in the middle of a sweep), order (what is freed before what),
stale references (ids, addresses and indices that are used again), and limits
(the id counter, recycle lists, arena ends). `PROJECT.json` lists each place
under `hazards`.

What each part must guarantee: a collector frees nothing reachable and keeps
nothing unreachable that it promises to find; weak references and ephemerons
show their target exactly while it exists; an allocator hands out disjoint,
aligned blocks inside its buffers, finds the block again when it is freed, and
knows what it holds.

## The modules

| module | models | refines |
|---|---|---|
| `GcContract` | what a tracing collector with roots, weak references and ephemerons promises: one step that removes exactly the objects that cannot be reached | |
| `BrandedGc` | `mark_sweep_branded`: collector, tracer, handles | `GcContract` |
| `RootRegistry` | what the collector needs of a root list: a sequence, newest first | |
| `RootList` | `mark_sweep_branded/root.rs` link by link, and the life of a `GcContext` | `RootRegistry` |
| `MarkSweep` | `mark_sweep`: collector, counting handles, weak references, a weak map | |
| `MarkSweepArena2` | `mark_sweep_arena2`: `MarkSweep` with what the copy does otherwise, composed with the arenas its items live in | |
| `GcRefCell` | `mark_sweep/cell.rs`: the borrow flag, its guards, nested operations that panic | |
| `BlockHeap` | what an allocator promises: disjoint blocks, and an exact enumeration of them | |
| `PoolAllocator` | `mempool3`: slot pools and the allocator over them | `BlockHeap` |
| `BumpPages` | `mempool3`: the raw byte pages of the same allocator | |
| `Arena` | `arena2` | `BlockHeap` |
| `Mempool4` | `mempool4`: pools, handles, the image of a heap | |
| `VecOps` | the operations of `Vec` the allocators use (`insert`, `swap_remove`, `retain`), as operators on sequences | |
| `BrandedGc_proofs`, `RootList_proofs`, `MarkSweep_proofs`, `PoolAllocator_proofs`, `BumpPages_proofs`, `Arena_proofs`, `Mempool4_proofs` | the proofs about the module of that name; `MarkSweep_proofs` those about `MarkSweepArena2` and `GcRefCell` too | |
| `VecOps_proofs` | lemmas that several of these cite: least and greatest naturals, vectors as sets, alignment, counted words | |
| `MC...` | instances and symmetry for TLC | |

`BrandedGc` abstracts the root list to a set of nodes that a collection marks
from; `RootList` shows that the intrusive list is such a registry. Collectors
take slots from a set; `PoolAllocator` and `Arena` show that slots are disjoint
blocks of memory. `MarkSweepArena2` extends `MarkSweep` and adds the arenas as
sets of items, because there an address comes back with its whole arena.

### How state and actions correspond to the code

**BrandedGc.** A slot is a slot of `Collector.pool`; `live`, `color`,
`alloc_id` and `fields` are the pool's bitmap, `GcBox.color`, `GcBox.alloc_id`
and the handles in a value. An id stays readable after a slot was freed, as in
the code, which writes `FREED_ALLOC_ID` there. `collect_with_roots` is cut at
every turn of its loops: `StartCollect` (mark the roots and what the callback
passes), `Drain` (one work item of the tracer), `VisitEntry` (one ephemeron),
`PassAgain` (the fixpoint test), `SelectDead`, `FreeBox` (one dead box: destructor,
id, slot) and `RetainEntries`. Cutting there makes the intermediate states
visible, which destructors can observe and where the invariants must hold.
`Drop for Collector` is `DropCollector` and `DropDone`. The client of the model
holds `Gc`s on its stack (`held`), as roots, in fields, as external roots, weak
or in ephemerons. Rust's borrow rules are part of the model where the code
relies on them; `KeepAcross` says whether the client keeps a `Gc` over a
collection without declaring it, which the code's types do not forbid.

**RootList.** `prev` and `next` are the links of `RootLink`, of the sentinel and
of every node. `link_after` and `unlink` write them as the code does.
`collector_ptr` is the address of the collector when the node was made, `here`
the place it is at now. Dropping a `Root` is defined only while its node and its
collector are where the node says.

**MarkSweep.** `root_count` is the one count of a box, raised and lowered by
every handle, wherever it is stored. A collection is cut where client code runs:
`FinalizeBox` until `Recheck` is the finalizer of a box, `FinalizeEphemeron` and
`DropEphemeron` until `Return` those of an ephemeron, `DropBox` until `Return` the
drop of a value. While such code runs (`current`), every client action but a
collection may happen, and handles can be cloned out of any value the code can
reach, that of an ephemeron that goes included (`InReach`). Marking is a single step, since it calls no client code
that could change state. `MayBoxHandles`, `MayResurrect` and `MayBindUnmarked`
say what the client does that the code permits but may not survive. `misses`
counts the collections a box without a handle has seen begin; no action reads
it. The value of an ephemeron keeps the handles it was made with until it is
dropped (in the code, too, it is only reached by reference), and its header has
no colour in the model: nothing asks for it.

**MarkSweepArena2.** The client's actions are those of `MarkSweep`, joined with
what they do to the arenas (`Placed`), to `collect_needed` (`NeedsCollect`, the
threshold of `ArenaAllocator`) and to `Ephemeron.active`, which here is read.
The finalizers this copy calls are those of `NonTraceable` and of `Ephemeron`,
which do nothing, so marking and extraction are one step; drops of values are
client code as before. `drop_fn` drops the arena's item, whose own `Drop` drops
the value, and then the value as its field: `again` and `gone` are that second
time. Where the value holds a `Gc` to a box with another handle, the second drop
takes the count of that one; the history variable `short` has these boxes. The
client shares boxes between values as it likes, and once a shared box has been
freed in use, the handles to it are still moved, cloned and dropped. Only what
is undefined from then on is left out: nothing is bound to the freed box, and its
address is not given out again while a handle names it. All items count one, so an
allocation that fails for its size, and the empty arenas it leaves, are in
`Arena` only.
`LiveArenas` is `drop_dead_arenas`, a `retain` over the vector of arenas.

**GcRefCell.** `flag` is the borrow word; `readers` and `writers` are the guard
objects there are, which the code does not keep. `frames` is the stack of the
operations that call client code while they hold a borrow of their own
(`clone`, comparisons, `map`, `map_split`); inside one everything may happen
again, and `Unwind` drops a frame, giving its borrows back. A forgotten guard
never does.

**PoolAllocator.** Words of 8 bytes are the unit of addresses. Every pool keeps
bump index, free list, bitmap and live count; the allocator its vector of
pools, allocation and free caches, the sorted address index, the parked pools
and the heap size. The layout of a buffer (`BitmapWords`, `SlotCount`,
`SlotPtrIn`) is the arithmetic of `SlotPool::try_init`.

**Arena.** The header words of the items are modelled as memory: `next` by
address, and the tag as a set of addresses. `Dead` walks the chain as
`run_drop_check` does. `Fresh` is what is assumed of the OS: a new buffer has
the alignment asked for and overlaps none the allocator has. Alignments are powers of two
(`AlignsAssumption` states what follows from it: the greater of two is a
multiple of the smaller). `NewArenas` is `initialize_new_arena`, `AllocFails` the
path of `try_alloc` on which the second attempt fails too and leaves empty
arenas behind.

**BumpPages.** A page has its bump offset and its count of live blocks, no more,
as in the code; `given` are the client's blocks with the page each came from.
`AllocLast`, `AllocNewPage`, `DeallocBytes`, `ShrinkBytesInPlace` and
`GrowBytesInPlace` work on addresses, as the code does,
so a block of no bytes at the end of a page is owned by none, which `unowned`
records.

**Mempool4.** `CustomPtr` is the packed word of pool id and slot index plus one,
with its overflow; the widths of its two parts are constants. A slot taken for a
handle that cannot be made is in `lost`: it stays live, as in the code, and
nothing can free it. `Serialize` takes the image of the heap, `Deserialize` makes
pools of it again, slot by slot, with the capacity worked out anew, or fails;
between the two everything else may happen to the heap, as if the program had
gone on and was then restarted from an older image. The page size is not in the
image: after `Deserialize` new pools have the default.

## The runs

| run | question | answer |
|---|---|---|
| `branded_mixed` | does any step of a collection lose a reachable box or make a reference lie, does it implement `GcContract`, is the proofs' invariant true? | holds |
| `branded_chain` | are chains of ephemerons followed to the end, and does the fixpoint end? | holds |
| `root_list` | does a collection visit each registered root once, whatever was linked and unlinked? | holds |
| `marksweep_heap` | are counts, queues, keys and map entries exact with client code inside the sweep? | holds with two boxes |
| `marksweep_revived` | does a key outlive its ephemeron when finalizers resurrect? | no, with three boxes |
| `arena_heap` | the same questions over arenas, and: does an arena go exactly when it is empty, and a removed map entry with the next collection? | holds; of handles and counts, but for the boxes a second drop takes a count from |
| `arena_twice` | is a `Gc` safe when a value holds a clone of it? | no |
| `cell_borrow` | does the flag tell who borrows, whatever is nested, cloned, forgotten or panics? | holds |
| `pool_two` | are blocks disjoint, found again and accounted for, over parking, release and reuse? | holds |
| `bump_pages` | does a resized block keep its bytes, and a page its blocks? | holds |
| `arena_three` | does an arena never go under a live item, and does an item that fits get a place? | holds |
| `pool4_image` | does a handle lead to its value, before and after a round trip? | holds |

What the passing runs check is

- `branded_mixed`: `HeapIntact` (what a root, the client or a surviving box can
  follow is never dropped or reused), `WeakExact`, `IInv`, `ImplementsContract`;
- `branded_chain`: `EphemeronExact`, `CollectionEnds`;
- `root_list`: `VisitsEveryRoot`, `IInv`, `ImplementsRegistry`;
- `marksweep_heap`: `CountsExact`, `HandlesIntact`, `QueuesExact`, `KeysIntact`,
  `MapExact`, `GarbageGoes` (a box without a handle survives one collection at
  most), `NoDropUnderHandle`;
- `arena_heap`: `KeepsPromises`, the same over arenas, with handles and garbage
  judged for the boxes that are not `short`; `CountsExactTwice`, which says that only
  second drops put counts wrong; `NoArenaUnderItem`, `EmptyArenasGo`,
  `RemovedEntriesGo`;
- `cell_borrow`: `FlagExact`, `WriterAlone`, `TracedUnlessWritten`,
  `SharedValueStays`;
- `pool_two`: `FreeFindsPool`, `PoolsExact`, `HeapSizeExact`, `NoBufferWhileRoom`,
  `ImplementsHeap`;
- `bump_pages`: `BlocksPlaced`, `PagesCountBlocks`, `HeapSizeExact`;
- `arena_three`: `ArenasExact`, `SecondAttemptFits`, `SweptArenasLive`,
  `ImplementsHeap`;
- `pool4_image`: `HandlesResolve`, `SlotsExact`, `DenseImageLoads`.

The type invariants are conjuncts of these (`IInv`, `PoolsExact`, `ArenasExact`,
`PagesCountBlocks`, `SlotsExact`, `KeepsPromises`); those of `MarkSweep` and
`GcRefCell` are proved.

The two runs whose answer is no show what the code does against what a comment
of the repository says; `PROJECT.json` quotes each under `findings`.

- `marksweep_revived`: `run_sweep_phase` decides by colour which ephemerons go
  and by count which extracted boxes go. A finalizer that upgrades `WeakGc`s to
  its own box and to one extracted before it, and stores the second in the
  first, gets the second marked by the recheck; its ephemeron stays. When the
  stored handle goes before the drops, so does the box, and the ephemeron keeps
  its address. A client that upgrades the `WeakGc` of that ephemeron while the
  box is dropped has a handle to a freed box: with three boxes `HandlesIntact`
  fails in the same way. The run checks a part of `Spec` (`OneCollection`): the pool is
  filled, handles go, one collection.
- `arena_twice`: a `Gc` in a swept value lowers the count of its box twice. A
  value that owns memory (a `Vec`) would free it twice; the model has handles
  only.

### What else does not hold

These are definitions of the modules, marked there, or follow from the models;
no listed run checks them.

- `BrandedGc` with `KeepAcross`: `MutationContext::collect` takes `&self`, so
  `Gc`s of the same context stay usable, and their boxes may be freed.
- `RootList.CollectorPtrValid`: `GcContext` is a plain value; the closure of
  `with_gc` owns it and may move it, and then the nodes name its old address.
- `MarkSweep.LeakKeepsHandlesValid`: the values are leaked but the pools are
  fields of the collector and are dropped.
- `MarkSweep.WeakHandlesValid`: an ephemeron is freed when its key dies, also
  while a `WeakGc` points to it. Over arenas `upgrade` then returns a handle to
  the freed key while the arena is in use; the test at
  `mark_sweep_arena2/tests.rs:226` sees `None` only because its arena was recycled
  and zeroed.
- `MarkSweep` with `MayBoxHandles`: `Finalize for Gc` decrements, and `Drop for Gc`
  does so again. A boxed `Gc` meets both.
- `MarkSweep` with `MayBindUnmarked` and `MayResurrect`: an ephemeron made in a
  finalizer for a key the collection did not mark outlives it.
- `PoolAllocator.ItemsAligned`: the slots follow a bitmap of 8-byte words, with no
  padding, so an item aligned to 16 bytes is not when the bitmap is odd.
- `Mempool4.ImageLoads`: `serialize` writes live slots, whichever they are;
  `deserialize` refuses an image in which a free slot is below a live one. It also
  works out the capacity again: where that needs one more bitmap word (16-byte
  slots, a pool of exactly 128) a full pool does not load. `DenseImageLoads`
  says what does load: images of pools that are `Dense`, full or not.
- `pointers/weak_map.rs:79-80` and `tests.rs:583` of `mark_sweep_arena2` say that
  the ephemeron of a removed entry stays queued until its key is collected. The code
  invalidates it (`weak_map.rs:86`) and drops inactive ephemerons in the next sweep
  (`mod.rs:350-352`, where the comment says so), and `RemovedEntriesGo` states what
  the code does. The test drops the key first and passes either way. In
  `mark_sweep`, whose `weak_map.rs:79` has the same comment, nothing reads the flag, and the comment is
  right. `PROJECT.json` has this as a finding of `arena_heap`.
- The comments at `mark_sweep/cell.rs:305`, `320`, `342` and `362` say that `clone`
  and the maps of a guard cannot fail, as the cell is borrowed already. Those of `try_map` and
  `map` (320, 342) move the guard's own count; but `clone` (305) and `map_split` (362)
  take another and panic when the flag is at its limit, as in the model.
- Boxes in a cycle count each other, in both counting collectors: no collection
  frees them. Drop of the arena copy drops no value at all.

### Bounds

- `branded_mixed` (574,478 states): two slots, one root node, one field, two
  ephemerons, one weak reference; ids run out at 3. Two slots make self-loops,
  two-cycles and sharing; three ids for two slots let one slot be used again, so a
  stale id, a reused slot and an exhausted counter all happen, but not the reuse of
  both slots. Three slots of plain fields
  were run while the model was built and showed nothing new; the proofs cover
  every number.
- `branded_chain` (about 596,000): three slots and two ephemerons without
  fields, so that the value of one is the key of the next and either is
  registered first; a third slot is the value at the end. One pass of the fixpoint is not
  enough here.
- `root_list` (about 27,000): four nodes give unlinking at both ends and in the
  middle of a list of three, with a fourth left; two addresses, for the move.
- `marksweep_heap` (1,535,692): two boxes, two ephemerons, two stack handles to a
  box, one handle in a value. A count has all three of its sources: a stack handle, a handle in
  the other box (or in the box itself) and one in the value of an ephemeron. The
  finalizer or drop of one box can reach the other through a handle, a weak
  reference or the map, and slots are used again by allocations in the sweep.
  Two boxes are too few for a finalizer to resurrect a box extracted before and
  for a third to take the handle away: `marksweep_revived` has three, of which it
  needs about 10,900 states to show a lost key.
- `arena_heap` (1,724,012): two boxes and one ephemeron in arenas of two items, so
  that an arena holds a live and a dead item, is closed by a third, and goes; a
  threshold of one arena, so that a collection falls due by allocation; one stack
  handle to a box, two handles in a value. A box is shared by the other box, by itself, by
  the ephemeron's value and the stack. A map entry replaced by another takes two
  ephemerons. With two, one handle in a value, and no more than two handles to
  a box, the same invariants were checked while the model was built (9,902,936
  states), and so were two stack handles with one ephemeron (2,649,124); the theorems
  cover any number. `arena_twice` has two ephemerons and two stack handles.
- `cell_borrow` (5,035): two cells, four borrow objects, a flag of two bits that
  counts to 2 and is 3 when written, three operations deep: the flag is at its
  limit, and the inner operation can meet the outer's borrow. The proofs cover
  every width and depth.
- `pool_two`: two buffers, classes of 4 and 6 words, one parked pool. Both
  buffers empty at once means one is parked and one released; they come back in
  both orders of address and in another class.
- `arena_three` (62,624): three buffers with bases of alignment 8, 1 and 4 words,
  six-word arenas, two parked. All three empty at once means one is released;
  the items need padding, an alignment upgrade, and more than an arena.
- `bump_pages` (762,944): two pages, one with a larger alignment, and three blocks of
  no, one or two words at alignments 1, 2 and 4; growing at the end of a page, in its
  middle and past it, and releases in any order. The buffers leave a gap: no page
  begins where another ends.
- `pool4_image` (345,229): handles of one id bit and two index bits, so that the
  second pool's last slot is the one without a handle, bitmap words of two bits;
  two small values and one of a larger class, and an image saved and loaded at
  any time.

Symmetry is used on slots, root nodes, ephemerons, borrow objects, handles and
values of one size, which the models only compare, and not in the run with the liveness property. `CHECK_DEADLOCK FALSE`
is set where the program really may stop: a collector that was dropped, or a
`GcContext` that is gone.

### Fairness

Only `branded_chain` checks liveness. Its specification assumes weak fairness of
the collector's own steps: `collect_with_roots` is a function that runs to its
end in the thread that called it, so once started its next step is taken. The
client is never forced to do anything.

## What is proved

**`BrandedGc_proofs`** proves, for every number of slots, root nodes, fields,
ephemerons, weak references and ids, under the assumptions `BrandedGc` declares
about its constants and for a client that declares the pointers it keeps
(`KeepAcross` is false): `TypeOK`, the inductive invariant `IInv`, and from it
`RootedIntact`, `HeldIntact` and `FieldsIntact`, which are `HeapIntact`,
`WeakExact`, `EphemeronExact`, `IdentityOfObjects`, `AllWhite`, `NothingLeaked`.
The last three are implied by `IInv`, so `branded_mixed` does not list them.

`IInv` is needed because hardly any of these is inductive: that a box in the
sweep was unreachable follows only from what marking did. Its parts are

- `MarkInv`, while marking: the worklist is the gray boxes, a black box has no
  white child, what is rooted or held is not white, and once a pass over the
  ephemerons marks nothing, the visited ones with a marked key have a marked
  value;
- `PointerInv`, which `MarkInv` gives at `SelectDead`: nothing that survives the
  sweep, no root and no `Gc` of the client points to a box selected as dead;
- `EntryInv`: the same for ephemerons, and entries whose key is gone name a
  freed slot, so that `RetainEntries` recognises them;
- `IdInv`: boxes, slots in use and ids match one to one, ids are below the
  counter, and a slot in no use carries `FREED_ALLOC_ID`;
- `PhaseInv`: what each phase has put away when it ends.

Initial states satisfy it, each action preserves it (one lemma per action), and
each property follows from it.

It also proves `Refinement`: `Spec` implements `GcContract`. `IInv`
says that what is reachable is marked; the contract also forbids keeping what is
not. That is `ReachInv`: while marking, a box that is not white is in every set
that holds the roots and is closed under fields and ephemerons. With both,
`SelectDead` is the contract's `Collect`, the steps of marking and freeing
stutter, and each action of the client is the contract's action.

**`RootList_proofs`** proves `LinksAlwaysAgree`: the two directions of the list agree
in every state, and its `TypeOK`. Its `IInv` adds that exactly the nodes in use
are linked and that the sentinel has no predecessor, without which `unlink` could
write through a link of a node that was freed. It then proves
`EveryRootVisited` (`VisitsEveryRoot`) and `ListImplementsRegistry`: the walk of
`iter` is the sequence of the registered nodes, newest first, so `link_after` and
`unlink` are the registry's actions. A linked list says this of one walk; the
proof carries it from each state to the next by an order of the nodes, a
sequence that an insertion or a removal changes in one place.

**`MarkSweep_proofs`** proves, for any number of boxes and ephemerons and any
bounds, with client code running inside the sweep, for a client that brings
nothing back from the dead and boxes no bare `Gc` (`CautiousClient`): `TypeOK`,
`CountsExact`, `HandlesIntact`, `QueuesExact`, `KeysIntact`, `MapExact`,
`NoDropUnderHandle`, `GarbageGoes`. Its `IInv` adds

- `PhaseInv`: which queue each loop of the sweep still walks and what
  `current` is;
- `Extracted`: an extracted box counts no handle and is not marked. With
  `CountsExact` nothing can reach it, so no client code raises its count, and
  tracing from another box does not colour it (`TracedByHandle`, from the
  definition of what is reached as a least closed set);
- `KeyInv`: keys of kept ephemerons and of map entries are marked or were
  allocated since, so none is an extracted box.

`GarbageGoes` speaks of two collections: a box without a handle when one begins is gone
when the next does. What carries it is that such a box is not marked by the one and,
once extracted, never leaves the list of what is dropped (`MissInv`).

`Extracted` is what resurrection breaks, and `marksweep_revived` shows that
`KeysIntact` goes with it: the assumption is needed. The counts are sums of
cardinalities, which change by one at a time (`OneMore`, `OneLess`). While the
proof was made, TLC checked `IInv` on two boxes and two ephemerons with
`MayResurrect` false (850,072 states); `marksweep_heap` has `MayResurrect` true,
under which `IInv` does not hold, so it is not among its invariants.

About `MarkSweepArena2` it proves, for any number of boxes, ephemerons and
arenas, any size of an arena and any threshold, `KeepsPromises`,
`CountsExactTwice`, `NoArenaUnderItem`, `EmptyArenasGo` and `RemovedEntriesGo`. The
client of these theorems (`PlainClient`) boxes no bare `Gc` and makes no ephemeron,
during a collection, for a key it did not mark, although `alloc_ephemeron_node`
asks for neither (the run leaves both out as well). It shares boxes between
values and the stack as it likes, and it may upgrade `WeakGc`s from a drop. What is proved of
handles and counts excepts the boxes in `short`, from which a second drop has
taken the count of another handle: `arena_twice` shows that such a box is freed in
use, and the theorems say that nothing but such a drop brings that about, and that
arenas, queues, keys and map entries stay right all the same. Extraction is a single step in this copy, so what a drop brings
back was extracted already, its ephemeron goes all the same, and no key is lost. The
invariant is `ArenaIInv`. It shares `PhaseInv`, `KeyInv`, `QueuesExact` and
`MapExact` with `IInv`, and adds

- `HandlesLead` and `CountsExactTwice`: a box that is not `short` exists as long as
  it is named, and its count is the number of its handles, less those of the value
  being dropped that the first drop has dropped (`gone`). A second drop finds the
  count of such a handle at 0, where `Dec` saturates, or takes one that is
  another's, and then the box is `short` from then on;
- `DropInv`: what `again` and `gone` say of the value being dropped, and that the
  box being dropped has no handle: a drop cannot bring its own box back;
- `EntryInv`: keys live as long as their ephemerons, entries the map finds are
  active and removed ephemerons are not. Once boxes are freed no key is one of those
  extracted (`KeysKept`);
- `ArenasInv`: every item lies in an arena and no two arenas have an item in
  common, which a placement preserves (`PlacedFacts`) and so does the `retain` at
  the end of a collection (`LiveArenasFacts`);
- `MissedInv`: what a collection finds without a handle for the second time was
  left unmarked by the flip of the trace colour, is not marked again
  (`TracedThroughHandle`) and so is extracted.

About `GcRefCell` it proves, for a flag of any width of at least two values, any
number of cells and guards and any nesting: `CellTypeOK`, `FlagExact`, `WriterAlone`,
`TracedUnlessWritten` and the action property `SharedValueStays`.

**`PoolAllocator_proofs`** proves, for any buffers, size classes and items,
`FreeFindsPool`, `PoolsExact`, `HeapSizeExact`, `NoBufferWhileRoom` and that the
allocator implements `BlockHeap`. Its lemmas are of three kinds.

- Layout: bitmap and slots of a buffer fit it (`Layout`, `Slots`), and two slots
  overlap only if they are the same (`SlotsDisjoint`). This is the arithmetic of
  `try_init`: divisions that round up and down, shown once for all classes.
- Index: the sorted address index, searched by bisection, finds the pool that
  owns an address (`PoolFound`), and is again sorted and complete after an
  insertion in the middle and after the rebuild (`RebuiltIndex`).
- Vectors: what `swap_remove`, `insert`, `retain` and `split_off` do to a vector
  without repetitions, as sets (`VecOps_proofs`).

`IInv` joins what each pool knows of itself (bump index, free list, bitmap, live
count) to what the allocator knows of its pools: no pool is in two vectors, the
parked ones are as new, the caches name a pool or `NoIndex`, and `heap_size` is the words of
all buffers held. The words are counted as the cardinality of a set of pairs,
which a new buffer enlarges by a disjoint set (`MoreWords`, `FewerWords`): a sum
over a vector would need induction over data.

**`BumpPages_proofs`** proves `BlocksPlaced`, `PagesCountBlocks` and
`HeapSizeExact` for any buffers, sizes and alignments, if no block of no bytes can lie where
a page ends and another begins (`NoEdgeBlocks`: no two buffers adjoin, or no
block is empty). The condition is needed. With buffers that adjoin and blocks of no
bytes TLC shows `PagesCountBlocks` violated: `owns` asks for an address below the end of the
page, so an empty block at the end of one page is released from the page that begins
there, which then counts a block too few. `GrowBytesInPlace` needs the fact that
only the newest block of a page ends at its bump offset, and that is a part of
the `IInv`.

**`Arena_proofs`** proves, for any buffers, items and bounds, `ArenasExact`,
`SecondAttemptFits`, the action property `SweptArenasLive` and that the
allocator implements `BlockHeap`. A chain is defined by a recursive function,
the walk of `run_drop_check`. `ChainUnique` says that it is the one set of
addresses that holds the last item, is closed under links that go down, and has
nothing but what is linked to (`Linked`); it is shown by the least position, and the greatest
address, at which the walk and the set could differ. From then on no proof looks
at the walk: each action says what its set is afterwards. `IInv` adds

- `ListInv`: no arena is twice in the two lists, none overlaps another, and no
  more are parked than `MAX_RECYCLED_ARENAS`;
- `AlignInv` and `CleanInv`: an arena lies at its alignment, and what is parked or
  not held has no items. Both together make the second attempt succeed: in a
  clean arena aligned enough the item lies at the start;
- `PlacedInv`, `FoundInv`, `DisjointInv`: the client's items are exactly what is
  chained without a tag, each inside the used part of its arena, no two with a
  common word.

**`Mempool4_proofs`** proves, for any size classes, values and page sizes, any
number of pools and any width of a handle, `TypeOK`, `HandlesResolve`,
`SlotsExact` and `DenseImageLoads`. None of them is inductive: that a handle's slot is
not handed out again follows from what is live being what the client can name,
and what a handle finds after `Deserialize` from what `Serialize` wrote when it did. `IInv`
says both through one notion, triples of a pool id, a slot index and a value:

- `Held`: each pool is sound in itself (`Sane`: bump index, free list, bitmap and
  live count agree), no two have one id, and the triples live in the pools
  (`Contents`) are those of the client's handles and of the lost slots
  (`Entrusted`). Every operation changes one pool and the client's side by the same
  triples (`Alike`, `HeldReplaced`), or adds a pool under an id that no triple has
  (`HeldNew`);
- `SavedHeap`: the triples of a saved image are those the client had entrusted
  when it was written.

What the proof rests on are

- packing: a pool id and an index are the quotient and the remainder of what they
  were packed to, and so two handles to one slot are one (`PtrFacts`, `OneHandle`);
- layout: a page of four slots has room for one next to the bitmap (`FirstSlot`),
  which needs bitmap words of at least two bits, and the capacity worked out from a slot
  count gives that count again where the bitmap takes no further word
  (`FreshRoom`);
- the loop of `deserialize`: after `n` turns the pool is `Filled(m, n)`, a closed
  form. The loop is a recursive function, and `LoadedIsFilled` shows the two
  equal by the least turn at which they could differ.

TLC checked each `IInv` on the instance of its run before it was proved.

Model-checked only:

- `CollectionEnds`, as liveness is beyond the proof system here;
- `MarkSweep` with a resurrecting client.

Every invariant and action property of the passing runs is the statement of a
theorem. Induction over the naturals is possible where it can be put as the least
element of a set of counterexamples (`LeastNat`); the proofs of chains, of the
bisection, of counting and of the loading loop use it. What it does not reach are operators that the
library defines by recursion over a set or a sequence.

## What is not modelled

- Panics and failing allocations of the collectors (pool exhaustion, root count
  overflow at 65,535, borrowing a queue twice from a nested collection).
- A `Drop` or `Finalize` of the branded collector's values that calls back into it,
  and a `Root` stored inside a GC value.
- Client code that runs while a `MarkSweepGarbageCollector` itself is dropped,
  beyond the drop of the handles in its values; a collection started by a
  finalizer or a drop; several weak maps.
- The `active` flag of `mark_sweep`'s ephemerons, which nothing reads there.
- `null_collector`, `null_collector_branded`: nothing is ever freed and their
  weak references never change.
- `mempool`, `mempool2`, `arena`: earlier generations that no collector uses.
- Altered or truncated images of `mempool4`.
- Type erasure, `Trace` implementations, the derive macros: the models take the
  handles of a value as given.

## Plan

Done: the contract; the branded collector with its invariant and the proof that
it implements the contract; the root list and the proof that it is a registry;
both counting collectors, the cell, the slot allocator, bump pages, arenas and the
pools with a saved image, all with their proofs. In order of importance, what
could follow:

1. `KeysIntact` for clients that resurrect: it needs a condition weaker than
   `CautiousClient`, for instance that a resurrected box takes no other with it.
2. Several weak maps and collections started from a drop.
3. `null_collector_branded` as an implementation of `GcContract` that never
   drops a box.
