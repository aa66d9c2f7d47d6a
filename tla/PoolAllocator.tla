---------------------------- MODULE PoolAllocator ----------------------------
(***************************************************************************)
(* The size-class allocator under the branded and the mark_sweep           *)
(* collectors (alloc/mempool3): slot pools, one OS buffer each, with a     *)
(* bitmap, a bump index and an intrusive free list; the allocator's list   *)
(* of pools, its two index caches, its sorted address index and its list   *)
(* of parked empty pools.                                                  *)
(*                                                                         *)
(* Addresses and sizes count 8-byte words.  A vector index is its position *)
(* from 1, so that NoIndex, the code's usize::MAX, is in no vector.  The   *)
(* free list is the sequence its `next` links spell.                       *)
(***************************************************************************)
EXTENDS Naturals, Sequences, FiniteSets, SequencesExt, VecOps

CONSTANTS
  Buffer,        \* addresses of the buffers the OS allocator can return
  SIZE_CLASSES,  \* the slot sizes
  page_size,
  max_recycled,  \* parked pools at most
  Item           \* the sizes and alignments of what the client allocates

ASSUME SizesAssumption ==
  /\ Buffer \subseteq Nat
  /\ SIZE_CLASSES \subseteq Nat \ {0}
  /\ page_size \in Nat
  /\ max_recycled \in Nat
  /\ \A t \in Item : t.size \in Nat /\ \E c \in SIZE_CLASSES : t.size <= c

NoIndex == 0

-----------------------------------------------------------------------------
(* SlotPool::try_init: how a buffer divides into bitmap and slots.         *)

BufferSize(size) == Max({page_size, 4 * size})

\* One word of bitmap for every 64 estimated slots, rounded up.
BitmapWords(size) == (BufferSize(size) \div size + 63) \div 64

SlotCount(size) == (BufferSize(size) - BitmapWords(size)) \div size

SlotPtrIn(b, size, i) == b + BitmapWords(size) + i * size

-----------------------------------------------------------------------------
VARIABLES
  \* of each buffer's SlotPool (slot_size is 0 while the OS has the buffer)
  slot_size, bump, free_list, bitmap, live,
  \* of the allocator
  slot_pools, recycled_pools, sorted_ranges, free_cache, alloc_cache,
  current_heap_size,
  \* of the client: the items it has not freed yet
  given

pools == <<slot_size, bump, free_list, bitmap, live>>
index == <<slot_pools, recycled_pools, sorted_ranges, free_cache, alloc_cache>>
vars == <<pools, index, current_heap_size, given>>

IndexEntry == [base : Nat, end : Nat, idx : Nat]

TypeOK ==
  /\ slot_size \in [Buffer -> SIZE_CLASSES \cup {0}]
  /\ bump \in [Buffer -> Nat]
  /\ free_list \in [Buffer -> Seq(Nat)]
  /\ bitmap \in [Buffer -> SUBSET Nat]
  /\ live \in [Buffer -> Nat]
  /\ slot_pools \in Seq(Buffer)
  /\ recycled_pools \in Seq(Buffer)
  /\ sorted_ranges \in Seq(IndexEntry)
  /\ free_cache \in Nat
  /\ alloc_cache \in [SIZE_CLASSES -> Nat]
  /\ current_heap_size \in Nat
  /\ given \subseteq [ptr : Nat, item : Item, pool : Buffer]

Init ==
  /\ slot_size = [b \in Buffer |-> 0]
  /\ bump = [b \in Buffer |-> 0]
  /\ free_list = [b \in Buffer |-> <<>>]
  /\ bitmap = [b \in Buffer |-> {}]
  /\ live = [b \in Buffer |-> 0]
  /\ slot_pools = <<>>
  /\ recycled_pools = <<>>
  /\ sorted_ranges = <<>>
  /\ free_cache = NoIndex
  /\ alloc_cache = [c \in SIZE_CLASSES |-> NoIndex]
  /\ current_heap_size = 0
  /\ given = {}

-----------------------------------------------------------------------------
(* SlotPool.                                                               *)

SlotPtr(b, i) == SlotPtrIn(b, slot_size[b], i)
SlotEnd(b) == SlotPtr(b, SlotCount(slot_size[b]))
SlotIndex(b, ptr) == (ptr - SlotPtr(b, 0)) \div slot_size[b]
Owns(b, ptr) == SlotPtr(b, 0) <= ptr /\ ptr < SlotEnd(b)

Full(b) == free_list[b] = <<>> /\ bump[b] >= SlotCount(slot_size[b])
NextSlot(b) == IF free_list[b] # <<>> THEN Head(free_list[b])
                                      ELSE SlotPtr(b, bump[b])

AllocSlot(b) ==
  /\ IF free_list[b] # <<>>
     THEN free_list' = [free_list EXCEPT ![b] = Tail(@)] /\ UNCHANGED bump
     ELSE bump' = [bump EXCEPT ![b] = @ + 1] /\ UNCHANGED free_list
  /\ bitmap' = [bitmap EXCEPT ![b] = @ \cup {SlotIndex(b, NextSlot(b))}]
  /\ live' = [live EXCEPT ![b] = @ + 1]

BitLeftSet(b, ptr) == bitmap
BitCleared(b, ptr) == [bitmap EXCEPT ![b] = @ \ {SlotIndex(b, ptr)}]

FreeInPool(b, ptr) ==
  /\ bitmap' = BitCleared(b, ptr)
  /\ free_list' = [free_list EXCEPT ![b] = <<ptr>> \o @]
  /\ live' = [live EXCEPT ![b] = IF @ = 0 THEN 0 ELSE @ - 1]
  /\ UNCHANGED <<slot_size, bump>>

-----------------------------------------------------------------------------
(* PoolAllocator::try_alloc: the cached pool or, from the newest, any pool *)
(* of the class with room; else a parked pool; else a buffer from the OS.  *)

\* size_class_index_for: the first class not smaller than the item.
ClassBelow(item) == Max({c \in SIZE_CLASSES : c <= item.size} \cup
                        {Min(SIZE_CLASSES)})
ClassFor(item) == Min({c \in SIZE_CLASSES : c >= item.size})

Roomy(c) == {i \in DOMAIN slot_pools :
               slot_size[slot_pools[i]] = c /\ ~Full(slot_pools[i])}
NoneParked(c) == {}
Parked(c) == {j \in DOMAIN recycled_pools : slot_size[recycled_pools[j]] = c}

Give(item, b, ptr) == given' = given \cup {[ptr |-> ptr, item |-> item, pool |-> b]}

AllocFromPool(item) ==
  LET c == ClassFor(item)
      i == IF alloc_cache[c] \in Roomy(c) THEN alloc_cache[c] ELSE Max(Roomy(c))
      b == slot_pools[i]
  IN
  /\ Roomy(c) # {}
  /\ AllocSlot(b)
  /\ Give(item, b, NextSlot(b))
  /\ alloc_cache' = [alloc_cache EXCEPT ![c] = i]
  /\ UNCHANGED <<slot_size, slot_pools, recycled_pools, sorted_ranges,
                 free_cache, current_heap_size>>

\* A pool joins the vector and, at its sorted place, the address index.
InsertedRanges(entry) ==
  InsertAt(sorted_ranges,
           1 + Cardinality({k \in DOMAIN sorted_ranges :
                              sorted_ranges[k].base < entry.base}),
           entry)

AddPool(b, c) ==
  /\ slot_pools' = Append(slot_pools, b)
  /\ sorted_ranges' = InsertedRanges([base |-> SlotPtrIn(b, c, 0),
                                      end |-> SlotPtrIn(b, c, SlotCount(c)),
                                      idx |-> Len(slot_pools) + 1])
  /\ alloc_cache' = [alloc_cache EXCEPT ![c] = Len(slot_pools) + 1]
  /\ UNCHANGED free_cache

AllocRecycled(item) ==
  LET c == ClassFor(item)
      pos == Max(Parked(c))
      b == recycled_pools[pos]
  IN
  /\ Roomy(c) = {}
  /\ Parked(c) # {}
  /\ recycled_pools' = SwapRemove(recycled_pools, pos)
  /\ AddPool(b, c)
  /\ AllocSlot(b)
  /\ Give(item, b, NextSlot(b))
  /\ UNCHANGED <<slot_size, current_heap_size>>

\* The OS returns a buffer that overlaps none it has given out before.
Overlap(a, c, b, d) == a < b + BufferSize(d) /\ b < a + BufferSize(c)
FromOs(c) == {b \in Buffer :
                /\ slot_size[b] = 0
                /\ \A p \in Buffer : slot_size[p] # 0 => ~Overlap(b, c, p, slot_size[p])}

\* What one costs the heap size.
Uncharged(c) == 0
Charged(c) == BufferSize(c)

AllocFresh(item, b) ==
  LET c == ClassFor(item) IN
  /\ Roomy(c) = {}
  /\ Parked(c) = {}
  /\ b \in FromOs(c)
  /\ current_heap_size' = current_heap_size + Charged(c)
  /\ slot_size' = [slot_size EXCEPT ![b] = c]
  /\ bump' = [bump EXCEPT ![b] = 1]
  /\ free_list' = [free_list EXCEPT ![b] = <<>>]
  /\ bitmap' = [bitmap EXCEPT ![b] = {0}]
  /\ live' = [live EXCEPT ![b] = 1]
  /\ AddPool(b, c)
  /\ Give(item, b, SlotPtrIn(b, c, 0))
  /\ UNCHANGED recycled_pools

-----------------------------------------------------------------------------
(* PoolAllocator::free_slot: the pool of the last free, else the index.    *)

FindPoolIdx(ptr) ==
  LET k == Cardinality({j \in DOMAIN sorted_ranges :
                          sorted_ranges[j].base <= ptr})
  IN IF k > 0 /\ ptr < sorted_ranges[k].end THEN sorted_ranges[k].idx
                                            ELSE NoIndex

CacheHits(ptr) == /\ free_cache \in DOMAIN slot_pools
                  /\ Owns(slot_pools[free_cache], ptr)

PoolOf(ptr) == IF CacheHits(ptr) THEN free_cache ELSE FindPoolIdx(ptr)

\* A pointer no pool owns fails a debug_assert: FreeFindsPool says there is none.
FreeSlot(g) ==
  /\ g \in given
  /\ PoolOf(g.ptr) # NoIndex
  /\ FreeInPool(slot_pools[PoolOf(g.ptr)], g.ptr)
  /\ free_cache' = PoolOf(g.ptr)
  /\ given' = given \ {g}
  /\ UNCHANGED <<slot_pools, recycled_pools, sorted_ranges, alloc_cache,
                 current_heap_size>>

-----------------------------------------------------------------------------
(* PoolAllocator::drop_empty_pools, after a sweep: empty pools are parked, *)
(* in order while there is room, or go back to the OS.                     *)

EmptyPools == {b \in Buffer : live[b] = 0}

\* rebuild_sorted_ranges: one entry for each pool, by ascending base.
Bases(seq) == {SlotPtr(seq[i], 0) : i \in DOMAIN seq}
StaleRanges(seq) == sorted_ranges
RebuiltRanges(seq) ==
  LET pool(k) == CHOOSE i \in DOMAIN seq : SlotPtr(seq[i], 0) = Nth(Bases(seq), k)
  IN [k \in 1 .. Cardinality(Bases(seq)) |->
        [base |-> Nth(Bases(seq), k), end |-> SlotEnd(seq[pool(k)]), idx |-> pool(k)]]
ParkedCount(n) == Min({n, max_recycled - Len(recycled_pools)})

ResetBump(parked) == [b \in Buffer |-> IF b \in parked THEN 0 ELSE bump[b]]

\* The sizes of some buffers, added up: the number of their words.
WordsOf(B) == UNION {{b} \X (1 .. BufferSize(slot_size[b])) : b \in B}
TotalSize(B) == Cardinality(WordsOf(B))

DropEmptyPools ==
  LET empty == Retain(slot_pools, EmptyPools)
      n == ParkedCount(Len(empty))
      parked == ToSet(SubSeq(empty, 1, n))
      released == ToSet(SubSeq(empty, n + 1, Len(empty)))
  IN
  /\ slot_pools' = Retain(slot_pools, Buffer \ EmptyPools)
  /\ recycled_pools' = recycled_pools \o SubSeq(empty, 1, n)
  /\ bump' = ResetBump(parked)
  /\ free_list' = [b \in Buffer |-> IF b \in parked THEN <<>> ELSE free_list[b]]
  /\ bitmap' = [b \in Buffer |-> IF b \in parked THEN {} ELSE bitmap[b]]
  /\ slot_size' = [b \in Buffer |-> IF b \in released THEN 0 ELSE slot_size[b]]
  /\ current_heap_size' = current_heap_size - TotalSize(released)
  /\ free_cache' = NoIndex
  /\ alloc_cache' = [c \in SIZE_CLASSES |-> NoIndex]
  /\ sorted_ranges' = RebuiltRanges(slot_pools')
  /\ UNCHANGED <<live, given>>

-----------------------------------------------------------------------------
Next ==
  \/ \E item \in Item : AllocFromPool(item) \/ AllocRecycled(item)
  \/ \E item \in Item, b \in Buffer : AllocFresh(item, b)
  \/ \E g \in given : FreeSlot(g)
  \/ DropEmptyPools

Spec == Init /\ [][Next]_vars

-----------------------------------------------------------------------------
(* Properties.                                                             *)

\* Freeing finds the pool the item came from, and its own slot in it, whichever
\* of cache and index answers, however pools were added, parked and renumbered.
\* The slot is behind the bitmap, inside the buffer, and has a bit of its own.
\* (mod.rs: free_slot, rebuild_sorted_ranges; alloc.rs: try_init)
FreeFindsPool ==
  \A g \in given :
    /\ PoolOf(g.ptr) \in DOMAIN slot_pools
    /\ slot_pools[PoolOf(g.ptr)] = g.pool
    /\ SlotPtr(g.pool, SlotIndex(g.pool, g.ptr)) = g.ptr
    /\ g.pool + BitmapWords(slot_size[g.pool]) <= g.ptr
    /\ g.ptr + g.item.size <= g.pool + BufferSize(slot_size[g.pool])
    /\ SlotIndex(g.pool, g.ptr) < 64 * BitmapWords(slot_size[g.pool])

\* No slot is lost and none is listed twice: of the slots a pool ever bumped,
\* the free list holds each one that is not in use exactly once.
FreeListExact ==
  \A b \in ToSet(slot_pools \o recycled_pools) :
    /\ live[b] = Cardinality(bitmap[b])
    /\ Len(free_list[b]) + live[b] = bump[b]
    /\ ToSet(free_list[b]) =
         {SlotPtr(b, i) : i \in 0 .. bump[b] - 1} \ {SlotPtr(b, i) : i \in bitmap[b]}

\* A parked pool is as good as new.
ParkedPristine == \A b \in ToSet(recycled_pools) : bump[b] = 0

\* The pools account for every slot, used, parked or free, and each is in one
\* list only, whatever was parked, released and taken back.
\* (alloc.rs: alloc_slot, free_slot, reset; mod.rs: drop_empty_pools)
PoolsExact ==
  /\ TypeOK
  /\ IsInjective(slot_pools \o recycled_pools)
  /\ Len(recycled_pools) <= max_recycled
  /\ FreeListExact /\ ParkedPristine

\* "exact heap size in bytes": what the collector compares with its threshold is
\* the size of the buffers it holds, parked ones included.
HeapSizeExact ==
  current_heap_size = TotalSize(ToSet(slot_pools \o recycled_pools))

\* The OS is asked for a buffer only when every slot the allocator holds in that
\* class is in use: no freed slot is forgotten.
NoBufferWhileRoom ==
  [][\A b \in Buffer :
       slot_size[b] = 0 /\ slot_size'[b] # 0 =>
         \A p \in Buffer :
           slot_size[p] = slot_size'[b] =>
             Cardinality({g \in given : g.pool = p}) = SlotCount(slot_size[p])]_vars

\* Does not hold: "SAFETY: pointer is valid and properly aligned"
\* (PoolPointer::as_inner_ref), that is, an item lies at a multiple of its
\* alignment.  A 16-byte aligned item in a pool with an odd bitmap does not.
ItemsAligned == \A g \in given : g.ptr % g.item.align = 0

\* The allocator implements BlockHeap: client blocks never overlap and
\* iter_live_slots yields exactly them.
Heap == INSTANCE BlockHeap WITH
  Block <- [start : UNION {b .. b + BufferSize(c) : b \in Buffer, c \in SIZE_CLASSES},
            size : {t.size : t \in Item}],
  blocks <- {[start |-> g.ptr, size |-> g.item.size] : g \in given},
  enumerated <- UNION {{SlotPtr(b, i) : i \in bitmap[b]} : b \in ToSet(slot_pools)}

ImplementsHeap == Heap!Spec
=============================================================================
