------------------------------ MODULE Mempool4 ------------------------------
(***************************************************************************)
(* PoolAllocator4 (alloc/mempool4): size-class pools whose handles are not *)
(* addresses but a pool id and a slot index packed in one word, so that    *)
(* they survive serialize and deserialize.                                 *)
(*                                                                         *)
(* Sizes count 8-byte words, a slot is its index, and the free list is the *)
(* sequence its `next` links spell.  A pool is never given back, and its   *)
(* slots are found by id and index only, so no address is modelled.        *)
(***************************************************************************)
EXTENDS Integers, Sequences, FiniteSets, SequencesExt, VecOps

CONSTANTS
  SIZE_CLASSES,
  Value,         \* what the client stores
  SizeOf,        \* the size of each value; values of a size are of one type
  PageSizes,     \* the page sizes it can ask for
  DEFAULT_PAGE,
  MAX_POOL_ID, MAX_SLOT_IDX,  \* the two parts of a handle, all bits set
  WORD_BITS,     \* bits of a bitmap word
  MaxGiven       \* bound: handles in use

ASSUME PoolsAssumption ==
  /\ SIZE_CLASSES \subseteq Nat \ {0}
  /\ SizeOf \in [Value -> Nat]
  /\ \A v \in Value : \E c \in SIZE_CLASSES : SizeOf[v] <= c
  /\ PageSizes \cup {DEFAULT_PAGE, MaxGiven} \subseteq Nat
  /\ MAX_POOL_ID \in Nat
  /\ {MAX_SLOT_IDX, WORD_BITS} \subseteq Nat \ {0}
  /\ WORD_BITS # 1

Free == "free"

-----------------------------------------------------------------------------
(* CustomPtr: the packed pair plus one, so that zero is no handle.         *)

SLOTS == MAX_SLOT_IDX + 1
PTR_LIMIT == (MAX_POOL_ID + 1) * SLOTS

CustomPtr(id, idx) == id * SLOTS + idx + 1

\* checked_add: the last slot of the last pool has no handle.
HasPtr(id, idx) ==
  /\ id <= MAX_POOL_ID /\ idx <= MAX_SLOT_IDX
  /\ CustomPtr(id, idx) < PTR_LIMIT

PoolIdOf(ptr) == (ptr - 1) \div SLOTS
SlotIdxOf(ptr) == (ptr - 1) % SLOTS

-----------------------------------------------------------------------------
(* Pool4::try_init.                                                        *)

ClassFor(size) == Min({c \in SIZE_CLASSES : c >= size})

DivCeil(n, d) == (n + d - 1) \div d

SlotCount(capacity, size) ==
  LET bitmap_words == DivCeil(capacity \div size, WORD_BITS) IN
  IF capacity <= bitmap_words THEN 0 ELSE (capacity - bitmap_words) \div size

NewPool(id, size, capacity) ==
  [pool_id |-> id, slot_size |-> size, slot_count |-> SlotCount(capacity, size),
   bump |-> 0, free_list |-> <<>>, bitmap |-> {}, live |-> 0,
   slots |-> [i \in 0 .. SlotCount(capacity, size) - 1 |-> Free]]

-----------------------------------------------------------------------------
VARIABLES
  pools, next_pool_id, page_size,   \* PoolAllocator4
  given,     \* client: the value it stored behind each of its handles
  lost,      \* history: pool id and index of slots taken for a handle that could not be made
  image      \* what serialize wrote, with the client's view then: one record or none

vars == <<pools, next_pool_id, page_size, given, lost, image>>

Pools == Range(pools)

PoolType(n) ==
  [pool_id : 0 .. MAX_POOL_ID, slot_size : SIZE_CLASSES, slot_count : {n},
   bump : Nat, free_list : Seq(Nat), bitmap : SUBSET Nat, live : Nat,
   slots : [0 .. n - 1 -> Value \cup {Free}]]

TypeOK ==
  /\ pools \in Seq(Pools)
  /\ \A p \in Pools : p.slot_count \in Nat /\ p \in PoolType(p.slot_count)
  /\ next_pool_id \in 0 .. MAX_POOL_ID + 1
  /\ page_size \in PageSizes \cup {DEFAULT_PAGE}
  /\ DOMAIN given \subseteq 1 .. PTR_LIMIT - 1
  /\ Range(given) \subseteq Value
  /\ lost \subseteq (0 .. MAX_POOL_ID) \X Nat

Init ==
  /\ pools = <<>>
  /\ next_pool_id = 0
  /\ page_size \in PageSizes
  /\ given = <<>>
  /\ lost = {}
  /\ image = <<>>

-----------------------------------------------------------------------------
(* Pool4.                                                                  *)

HasSlot(p) == p.free_list # <<>> \/ p.bump < p.slot_count
NextSlot(p) == IF p.free_list # <<>> THEN Head(p.free_list) ELSE p.bump

WithSlot(p, v) ==
  LET i == NextSlot(p) IN
  [p EXCEPT !.bump = IF p.free_list # <<>> THEN @ ELSE @ + 1,
            !.free_list = IF @ # <<>> THEN Tail(@) ELSE @,
            !.bitmap = @ \cup {i}, !.live = @ + 1, !.slots[i] = v]

BitLeftSet(p, i) ==
  [p EXCEPT !.live = @ - 1, !.free_list = <<i>> \o @, !.slots[i] = Free]
WithoutSlot(p, i) ==
  [p EXCEPT !.live = @ - 1, !.free_list = <<i>> \o @, !.slots[i] = Free,
            !.bitmap = @ \ {i}]

-----------------------------------------------------------------------------
(* PoolAllocator4.                                                         *)

Gives(ptr, v) ==
  given' = [q \in DOMAIN given \cup {ptr} |-> IF q = ptr THEN v ELSE given[q]]

FindPools(id) == {i \in DOMAIN pools : pools[i].pool_id = id}
FindPool(id) == Min(FindPools(id))

Roomy(size) == {i \in DOMAIN pools : pools[i].slot_size = size /\ HasSlot(pools[i])}

\* The pools of a class are tried oldest first.  The slot is taken before the
\* handle is made; without a handle it stays taken, and nothing is written.
AllocInPool(v) ==
  LET c == ClassFor(SizeOf[v])
      i == Min(Roomy(c))
      p == pools[i]
  IN
  /\ Roomy(c) # {}
  /\ \/ /\ HasPtr(p.pool_id, NextSlot(p))
        /\ Cardinality(DOMAIN given) < MaxGiven
        /\ pools' = [pools EXCEPT ![i] = WithSlot(p, v)]
        /\ Gives(CustomPtr(p.pool_id, NextSlot(p)), v)
        /\ UNCHANGED lost
     \/ /\ ~HasPtr(p.pool_id, NextSlot(p))
        /\ pools' = [pools EXCEPT ![i] = WithSlot(p, Free)]
        /\ lost' = lost \cup {<<p.pool_id, NextSlot(p)>>}
        /\ UNCHANGED given
  /\ UNCHANGED <<next_pool_id, page_size, image>>

IdsLeft == next_pool_id <= MAX_POOL_ID

\* With MAX_POOL_ID used up the allocation fails without a change.  The first
\* slot of a new pool always has a handle.
AllocNewPool(v) ==
  LET c == ClassFor(SizeOf[v])
      p == NewPool(next_pool_id, c, Max({page_size, 4 * c}))
  IN
  /\ Cardinality(DOMAIN given) < MaxGiven
  /\ Roomy(c) = {}
  /\ IdsLeft
  /\ next_pool_id' = next_pool_id + 1
  /\ pools' = Append(pools, WithSlot(p, v))
  /\ Gives(CustomPtr(p.pool_id, 0), v)
  /\ UNCHANGED <<page_size, lost, image>>

ResolveMut(ptr, v) ==
  /\ ptr \in DOMAIN given /\ SizeOf[v] = SizeOf[given[ptr]]
  /\ pools' = [pools EXCEPT ![FindPool(PoolIdOf(ptr))].slots[SlotIdxOf(ptr)] = v]
  /\ Gives(ptr, v)
  /\ UNCHANGED <<next_pool_id, page_size, lost, image>>

FreeGc(ptr) ==
  /\ ptr \in DOMAIN given
  /\ LET i == FindPool(PoolIdOf(ptr)) IN
       pools' = [pools EXCEPT ![i] = WithoutSlot(@, SlotIdxOf(ptr))]
  /\ given' = Restrict(given, DOMAIN given \ {ptr})
  /\ UNCHANGED <<next_pool_id, page_size, lost, image>>

-----------------------------------------------------------------------------
(* serialize and deserialize.                                              *)

\* iter_live: the bitmap, in ascending order.
LiveSlots(p) == [k \in 1 .. Cardinality(p.bitmap) |-> Nth(p.bitmap, k)]

PoolImage(p) ==
  [id |-> p.pool_id, size |-> p.slot_size, count |-> p.slot_count,
   live |-> [k \in DOMAIN LiveSlots(p) |->
               [idx |-> LiveSlots(p)[k], data |-> p.slots[LiveSlots(p)[k]]]]]

Serialize ==
  /\ image = <<>>
  /\ image' = <<[pools |-> [i \in DOMAIN pools |-> PoolImage(pools[i])],
                 given |-> given, lost |-> lost]>>
  /\ UNCHANGED <<pools, next_pool_id, page_size, given, lost>>

\* The capacity is worked out again from the slot count.
WithoutBitmap(m) == NewPool(m.id, m.size, m.size * m.count)
FreshPool(m) == NewPool(m.id, m.size, m.size * m.count + DivCeil(m.count, WORD_BITS))

\* A fresh pool hands out its slots from 0 upwards, and deserialize insists
\* that each is the one the image names.
PoolLoads(m) ==
  /\ m.count <= MAX_SLOT_IDX /\ Len(m.live) <= m.count
  /\ Len(m.live) <= FreshPool(m).slot_count
  /\ \A k \in DOMAIN m.live : m.live[k].idx = k - 1

Loads(im) == \A i \in DOMAIN im.pools : PoolLoads(im.pools[i])

LoadedPool(m) ==
  LET filled[n \in 0 .. Len(m.live)] ==
        IF n = 0 THEN FreshPool(m) ELSE WithSlot(filled[n - 1], m.live[n].data)
  IN filled[Len(m.live)]

GreatestId(im) == Max({0} \cup {im.pools[i].id : i \in DOMAIN im.pools})
NextPoolId(im) == Max({0} \cup {im.pools[i].id + 1 : i \in DOMAIN im.pools})

\* The client goes on with the loaded allocator; its page size is the default.
Deserialize ==
  /\ image # <<>>
  /\ LET im == image[1] IN
     /\ Loads(im)
     /\ pools' = [i \in DOMAIN im.pools |-> LoadedPool(im.pools[i])]
     /\ next_pool_id' = NextPoolId(im)
     /\ given' = im.given
     /\ lost' = im.lost
  /\ page_size' = DEFAULT_PAGE
  /\ image' = <<>>

DeserializeFails ==
  /\ image # <<>> /\ ~Loads(image[1])
  /\ image' = <<>>
  /\ UNCHANGED <<pools, next_pool_id, page_size, given, lost>>

Next ==
  \/ \E v \in Value :
       \/ AllocInPool(v) \/ AllocNewPool(v)
       \/ \E ptr \in DOMAIN given : ResolveMut(ptr, v)
  \/ \E ptr \in DOMAIN given : FreeGc(ptr)
  \/ Serialize \/ Deserialize \/ DeserializeFails

Spec == Init /\ [][Next]_vars

-----------------------------------------------------------------------------
(* Correctness.                                                            *)

\* Pool ids are never used twice, also after deserialize has taken over ids
\* it did not hand out.  (mod.rs: "pool_id must be unique"; serialize.rs)
IdsUnique ==
  /\ \A i, j \in DOMAIN pools : i # j => pools[i].pool_id # pools[j].pool_id
  /\ \A p \in Pools : p.pool_id < next_pool_id

\* A handle names one pool and one slot of it, and the value the client
\* stored is there, before and after a round trip through bytes.  A pool with
\* the id of another would answer to its handles.
\* (ptr.rs: CustomPtr; mod.rs: resolve; serialize.rs: deserialize)
HandlesResolve ==
  /\ IdsUnique
  /\ \A ptr \in DOMAIN given :
       /\ FindPools(PoolIdOf(ptr)) # {}
       /\ LET p == pools[FindPool(PoolIdOf(ptr))] IN
            SlotIdxOf(ptr) \in p.bitmap /\ p.slots[SlotIdxOf(ptr)] = given[ptr]

\* The live slots are those the handles name and those lost to handles that
\* could not be made: none is behind two handles, and none without one is kept.
\* (mod.rs: try_alloc_raw, free)
LiveExact ==
  LET named == {<<PoolIdOf(ptr), SlotIdxOf(ptr)>> : ptr \in DOMAIN given} IN
  /\ UNION {{p.pool_id} \X p.bitmap : p \in Pools} = named \cup lost
  /\ named \cap lost = {}

\* Of the slots below the bump index each is either live or once on the free
\* list, so none is lost or handed out twice.  (mod.rs: alloc_slot, free_slot)
EachSlotOnce ==
  \A p \in Pools :
    /\ p.bump <= p.slot_count
    /\ IsInjective(p.free_list)
    /\ Range(p.free_list) \cap p.bitmap = {}
    /\ Range(p.free_list) \cup p.bitmap = 0 .. p.bump - 1
    /\ p.live = Cardinality(p.bitmap)

\* Pools, slots and handles agree, before and after a round trip: no slot is
\* forgotten or handed out twice.  (mod.rs: alloc_slot, free_slot)
SlotsExact == TypeOK /\ LiveExact /\ EachSlotOnce

\* No free slot is below a live one, and where the bitmap words, counted as
\* slots, are added to the slots once more, the bitmap takes no further word.
Dense(m) ==
  LET words == DivCeil(m.count, WORD_BITS) IN
  /\ m.count <= MAX_SLOT_IDX
  /\ DivCeil(m.count + words \div m.size, WORD_BITS) = words
  /\ \A k \in DOMAIN m.live : m.live[k].idx = k - 1

\* An image of dense pools can be loaded again, full pools included: the
\* capacity worked out from the slot count has room for as many slots.
\* (serialize.rs: deserialize)
DenseImageLoads ==
  \A k \in DOMAIN image :
    (\A i \in DOMAIN image[k].pools : Dense(image[k].pools[i])) => Loads(image[k])

\* The next one does not hold: an invariant check of it finds a short trace, in
\* which a slot below a live one is free.  It is what deserialize is documented to
\* do with the bytes of serialize.  (serialize.rs:84, :103)
ImageLoads == \A k \in DOMAIN image : Loads(image[k])
=============================================================================
