------------------------- MODULE PoolAllocator_proofs -------------------------
(***************************************************************************)
(* Proofs about PoolAllocator, for any buffers, size classes, page size,   *)
(* number of parked pools and items.  The inductive invariant IInv says    *)
(* what each field means: the vectors hold each buffer once, a pool's free *)
(* list and bitmap divide the slots it ever bumped, the address index is   *)
(* the vector of pools sorted by base, the buffers are apart.              *)
(***************************************************************************)
EXTENDS PoolAllocator, VecOps_proofs

-----------------------------------------------------------------------------
(* The layout of a buffer.                                                 *)

\* Rounding down to a multiple.
LEMMA Divide ==
  ASSUME NEW n \in Nat, NEW d \in Nat \ {0}
  PROVE  /\ n \div d \in Nat
         /\ (n \div d) * d <= n /\ n < (n \div d) * d + d
         /\ n * d \in Nat /\ (n * d) \div d = n
OBVIOUS

\* Rounding up to whole words of 64 bits.
LEMMA DivideUp ==
  ASSUME NEW n \in Nat
  PROVE  /\ (n + 63) \div 64 \in Nat
         /\ n <= 64 * ((n + 63) \div 64)
         /\ 64 * ((n + 63) \div 64) <= n + 63
OBVIOUS

\* Multiples of a number are that number apart.
LEMMA Multiples ==
  ASSUME NEW d \in Nat \ {0}, NEW i \in Nat, NEW j \in Nat
  PROVE  /\ i * d \in Nat
         /\ i < j => i * d + d <= j * d
OBVIOUS

\* A class is a positive number, and a buffer of it holds four slots of it.
LEMMA BufferSizeFacts ==
  ASSUME NEW c \in SIZE_CLASSES
  PROVE  c \in Nat \ {0} /\ BufferSize(c) \in Nat /\ 4 * c <= BufferSize(c)
<1> DEFINE S == {page_size, 4 * c}
<1>1. c \in Nat \ {0} /\ page_size \in Nat /\ 4 * c \in Nat
  BY SizesAssumption
<1>2. S \in SUBSET Nat /\ S # {} /\ page_size + 4 * c \in Nat
  BY <1>1
<1>3. \A x \in S : x <= page_size + 4 * c
  BY <1>1
<1>4. 4 * c \in S
  OBVIOUS
<1> HIDE DEF S
<1>5. Max(S) \in S /\ \A x \in S : x <= Max(S)
  BY <1>2, <1>3, MaxFacts
<1> QED BY <1>1, <1>2, <1>4, <1>5 DEF BufferSize, S

\* A buffer has room for its bitmap and at least one slot, the slots end before
\* it does, and each slot has a bit: although the bitmap is sized from an estimate
\* that ignores the bitmap itself.
LEMMA Layout ==
  ASSUME NEW c \in SIZE_CLASSES
  PROVE  /\ BitmapWords(c) \in Nat /\ SlotCount(c) \in Nat
         /\ SlotCount(c) >= 1
         /\ BitmapWords(c) + SlotCount(c) * c <= BufferSize(c)
         /\ SlotCount(c) <= 64 * BitmapWords(c)
<1> DEFINE S == BufferSize(c)
           q == S \div c
           W == BitmapWords(c)
<1>1. c \in Nat \ {0} /\ S \in Nat /\ 4 * c <= S
  BY BufferSizeFacts
<1>2. q \in Nat /\ q * c <= S /\ S < q * c + c
  BY <1>1, Divide
<1>3. W \in Nat /\ q <= 64 * W /\ 64 * W <= q + 63
  BY <1>2, DivideUp DEF BitmapWords
<1> HIDE DEF S, W, q
<1>4. q >= 4
  <2>1. SUFFICES ASSUME q < 4 PROVE FALSE
    BY <1>2
  <2>2. q * c + c <= 4 * c
    BY <1>1, <1>2, <2>1, Multiples
  <2> QED BY <1>1, <1>2, <2>2
<1>5. W <= q - 1
  BY <1>2, <1>3, <1>4
<1>6. S - W \in Nat /\ c <= S - W
  <2>1. (q - 1) * c + c = q * c
    BY <1>1, <1>2, <1>4
  <2>2. q - 1 <= (q - 1) * c
    BY <1>1, <1>2, <1>4
  <2> QED BY <1>1, <1>2, <1>3, <1>5, <2>1, <2>2
<1>7. SlotCount(c) = (S - W) \div c
  BY DEF SlotCount, S, W
<1>8. SlotCount(c) \in Nat /\ SlotCount(c) * c <= S - W /\ S - W < SlotCount(c) * c + c
  BY <1>1, <1>6, <1>7, Divide
<1>9. SlotCount(c) >= 1
  <2>1. SUFFICES ASSUME SlotCount(c) = 0 PROVE FALSE
    BY <1>8
  <2> QED BY <1>1, <1>6, <1>8, <2>1
<1>10. SlotCount(c) <= q
  <2>1. SUFFICES ASSUME q < SlotCount(c) PROVE FALSE
    BY <1>2, <1>8
  <2>2. q * c + c <= SlotCount(c) * c
    BY <1>1, <1>2, <1>8, <2>1, Multiples
  <2> QED BY <1>1, <1>2, <1>3, <1>6, <1>8, <2>2
<1> QED BY <1>1, <1>2, <1>3, <1>6, <1>8, <1>9, <1>10 DEF S, W

\* Where the slots are: behind the bitmap, a class apart, inside the buffer, and
\* the index of a slot is found again from its address.
LEMMA Slots ==
  ASSUME NEW b \in Buffer, NEW c \in SIZE_CLASSES, NEW i \in Nat
  PROVE  /\ b \in Nat /\ SlotPtrIn(b, c, i) \in Nat
         /\ SlotPtrIn(b, c, 0) = b + BitmapWords(c)
         /\ SlotPtrIn(b, c, 0) <= SlotPtrIn(b, c, i)
         /\ \A j \in Nat : i < j => SlotPtrIn(b, c, i) + c <= SlotPtrIn(b, c, j)
         /\ i < SlotCount(c) => SlotPtrIn(b, c, i) + c <= SlotPtrIn(b, c, SlotCount(c))
         /\ SlotPtrIn(b, c, SlotCount(c)) <= b + BufferSize(c)
         /\ (SlotPtrIn(b, c, i) - SlotPtrIn(b, c, 0)) \div c = i
<1> DEFINE W == BitmapWords(c)
           N == SlotCount(c)
<1>1. c \in Nat \ {0} /\ b \in Nat /\ BufferSize(c) \in Nat
  BY BufferSizeFacts, SizesAssumption
<1>2. W \in Nat /\ N \in Nat /\ W + N * c <= BufferSize(c)
  BY Layout
<1> HIDE DEF W, N
<1>3. \A j \in Nat : SlotPtrIn(b, c, j) = b + W + j * c /\ j * c \in Nat
  BY <1>1, Multiples DEF SlotPtrIn, W
<1>4. SlotPtrIn(b, c, 0) = b + W
  BY <1>1, <1>2, <1>3
<1>5. \A j \in Nat : i < j => SlotPtrIn(b, c, i) + c <= SlotPtrIn(b, c, j)
  <2> TAKE j \in Nat
  <2> HAVE i < j
  <2>1. i * c + c <= j * c
    BY <1>1, Multiples
  <2> QED BY <1>1, <1>2, <1>3, <2>1
<1>6. SlotPtrIn(b, c, N) <= b + BufferSize(c)
  BY <1>1, <1>2, <1>3
<1>7. (SlotPtrIn(b, c, i) - SlotPtrIn(b, c, 0)) \div c = i
  <2>1. SlotPtrIn(b, c, i) - SlotPtrIn(b, c, 0) = i * c
    BY <1>1, <1>2, <1>3, <1>4
  <2> QED BY <1>1, <2>1, Divide
<1>8. SlotPtrIn(b, c, i) \in Nat /\ SlotPtrIn(b, c, 0) <= SlotPtrIn(b, c, i)
  BY <1>1, <1>2, <1>3, <1>4
<1> QED BY <1>1, <1>2, <1>4, <1>5, <1>6, <1>7, <1>8 DEF W, N

\* An item fits the slots of its class.
LEMMA ClassFits ==
  ASSUME NEW item \in Item
  PROVE  ClassFor(item) \in SIZE_CLASSES /\ item.size \in Nat /\ item.size <= ClassFor(item)
<1> DEFINE C == {c \in SIZE_CLASSES : c >= item.size}
<1>1. item.size \in Nat /\ SIZE_CLASSES \subseteq Nat /\ \E c \in SIZE_CLASSES : item.size <= c
  BY SizesAssumption
<1>2. C \in SUBSET Nat /\ C # {}
  BY <1>1
<1>3. Min(C) \in C
  BY <1>2, MinFacts
<1> QED BY <1>1, <1>3 DEF ClassFor

-----------------------------------------------------------------------------
(* The invariant.                                                          *)

Held == {b \in Buffer : slot_size[b] # 0}

\* The vectors hold each buffer the OS gave exactly once, in one of them.
VectorsInv ==
  /\ NoDup(slot_pools) /\ NoDup(recycled_pools)
  /\ Len(recycled_pools) <= max_recycled
  /\ \A b \in Buffer : b \in Held <=> Contains(slot_pools, b) \/ Contains(recycled_pools, b)
  /\ \A b \in Buffer : ~(Contains(slot_pools, b) /\ Contains(recycled_pools, b))

\* Bitmap and free list divide the slots below the bump index.
PoolInv(b) ==
  /\ bump[b] <= SlotCount(slot_size[b])
  /\ bitmap[b] \subseteq 0 .. bump[b] - 1
  /\ live[b] = Cardinality(bitmap[b])
  /\ Len(free_list[b]) + live[b] = bump[b]
  /\ NoDup(free_list[b])
  /\ \A i \in 1 .. Len(free_list[b]) :
       \E k \in 0 .. bump[b] - 1 : k \notin bitmap[b] /\ free_list[b][i] = SlotPtr(b, k)
  /\ \A k \in 0 .. bump[b] - 1 : k \notin bitmap[b] => Contains(free_list[b], SlotPtr(b, k))

PoolsInv == \A b \in Held : PoolInv(b)
ParkedInv == \A i \in 1 .. Len(recycled_pools) : bump[recycled_pools[i]] = 0

\* The slots whose bit is set are the items the client has.
GivenInv ==
  /\ \A g \in given :
       /\ g.item \in Item /\ g.item.size <= slot_size[g.pool]
       /\ Contains(slot_pools, g.pool)
       /\ \E k \in bitmap[g.pool] : g.ptr = SlotPtr(g.pool, k)
  /\ \A g, h \in given : g.ptr = h.ptr => g = h
  /\ \A b \in Held : \A k \in bitmap[b] : \E g \in given : g.pool = b /\ g.ptr = SlotPtr(b, k)

\* ranges is the address index of the pools of s.
IndexOf(ranges, s) ==
  /\ Len(ranges) = Len(s)
  /\ \A j, k \in 1 .. Len(ranges) : j < k => ranges[j].base < ranges[k].base
  /\ \A k \in 1 .. Len(ranges) :
       /\ ranges[k].idx \in 1 .. Len(s)
       /\ ranges[k].base = SlotPtr(s[ranges[k].idx], 0)
       /\ ranges[k].end = SlotEnd(s[ranges[k].idx])
  /\ \A i \in 1 .. Len(s) : \E k \in 1 .. Len(ranges) : ranges[k].idx = i

ApartInv == \A a, b \in Held : a # b => ~Overlap(a, slot_size[a], b, slot_size[b])

HeapInv == IsFiniteSet(WordsOf(Held)) /\ current_heap_size = TotalSize(Held)

IInv ==
  /\ TypeOK
  /\ VectorsInv
  /\ PoolsInv
  /\ ParkedInv
  /\ GivenInv
  /\ IndexOf(sorted_ranges, slot_pools)
  /\ ApartInv
  /\ HeapInv

-----------------------------------------------------------------------------
(* Slots and pools.                                                        *)

\* A buffer the allocator holds has a class.
LEMMA HeldClass ==
  ASSUME TypeOK, NEW b \in Held
  PROVE  b \in Buffer /\ slot_size[b] \in SIZE_CLASSES /\ slot_size[b] \in Nat \ {0}
BY SizesAssumption DEF TypeOK, Held

\* Slots of the buffers held do not overlap.
LEMMA SlotsDisjoint ==
  ASSUME TypeOK, ApartInv, NEW a \in Held, NEW b \in Held,
         NEW i \in Nat, i < SlotCount(slot_size[a]),
         NEW j \in Nat, j < SlotCount(slot_size[b]),
         SlotPtr(a, i) < SlotPtr(b, j) + slot_size[b],
         SlotPtr(b, j) < SlotPtr(a, i) + slot_size[a]
  PROVE  a = b /\ i = j
<1> DEFINE c == slot_size[a]
           d == slot_size[b]
<1>1. a \in Buffer /\ b \in Buffer /\ c \in SIZE_CLASSES /\ d \in SIZE_CLASSES
      /\ c \in Nat /\ d \in Nat
  BY HeldClass
<1>2. BufferSize(c) \in Nat /\ BufferSize(d) \in Nat /\ BitmapWords(c) \in Nat /\ BitmapWords(d) \in Nat
  BY <1>1, BufferSizeFacts, Layout
<1>3. SlotPtr(a, i) = SlotPtrIn(a, c, i) /\ SlotPtr(b, j) = SlotPtrIn(b, d, j)
  BY DEF SlotPtr
<1> HIDE DEF c, d
<1>4. /\ a \in Nat /\ SlotPtrIn(a, c, i) \in Nat
      /\ a <= SlotPtrIn(a, c, i) /\ SlotPtrIn(a, c, i) + c <= a + BufferSize(c)
  <2>1. SlotCount(c) \in Nat
    BY <1>1, Layout
  <2>2. /\ a \in Nat /\ SlotPtrIn(a, c, i) \in Nat
        /\ SlotPtrIn(a, c, 0) = a + BitmapWords(c)
        /\ SlotPtrIn(a, c, 0) <= SlotPtrIn(a, c, i)
        /\ SlotPtrIn(a, c, i) + c <= SlotPtrIn(a, c, SlotCount(c))
        /\ SlotPtrIn(a, c, SlotCount(c)) <= a + BufferSize(c)
    BY <1>1, Slots DEF c
  <2>3. SlotPtrIn(a, c, SlotCount(c)) \in Nat
    BY <1>1, <2>1, Slots
  <2> QED BY <1>1, <1>2, <2>2, <2>3
<1>5. /\ b \in Nat /\ SlotPtrIn(b, d, j) \in Nat
      /\ b <= SlotPtrIn(b, d, j) /\ SlotPtrIn(b, d, j) + d <= b + BufferSize(d)
  <2>1. SlotCount(d) \in Nat
    BY <1>1, Layout
  <2>2. /\ b \in Nat /\ SlotPtrIn(b, d, j) \in Nat
        /\ SlotPtrIn(b, d, 0) = b + BitmapWords(d)
        /\ SlotPtrIn(b, d, 0) <= SlotPtrIn(b, d, j)
        /\ SlotPtrIn(b, d, j) + d <= SlotPtrIn(b, d, SlotCount(d))
        /\ SlotPtrIn(b, d, SlotCount(d)) <= b + BufferSize(d)
    BY <1>1, Slots DEF d
  <2>3. SlotPtrIn(b, d, SlotCount(d)) \in Nat
    BY <1>1, <2>1, Slots
  <2> QED BY <1>1, <1>2, <2>2, <2>3
<1>6. a = b
  <2>1. Overlap(a, c, b, d)
    BY <1>1, <1>2, <1>3, <1>4, <1>5 DEF Overlap, c, d
  <2> QED BY <2>1 DEF ApartInv, c, d
<1>7. c = d
  BY <1>6 DEF c, d
<1>8. ~(i < j) /\ ~(j < i)
  <2>1. i < j => SlotPtrIn(a, c, i) + c <= SlotPtrIn(a, c, j)
    BY <1>1, Slots
  <2>2. j < i => SlotPtrIn(a, c, j) + c <= SlotPtrIn(a, c, i)
    BY <1>1, Slots
  <2> QED BY <1>1, <1>3, <1>4, <1>5, <1>6, <1>7, <2>1, <2>2 DEF c, d
<1> QED BY <1>6, <1>8

\* An address is that of one slot at most.
LEMMA SlotUnique ==
  ASSUME TypeOK, ApartInv, NEW a \in Held, NEW b \in Held,
         NEW i \in Nat, i < SlotCount(slot_size[a]),
         NEW j \in Nat, j < SlotCount(slot_size[b]),
         SlotPtr(a, i) = SlotPtr(b, j)
  PROVE  a = b /\ i = j
<1>1. /\ a \in Buffer /\ slot_size[a] \in SIZE_CLASSES /\ slot_size[a] \in Nat \ {0}
      /\ b \in Buffer /\ slot_size[b] \in SIZE_CLASSES /\ slot_size[b] \in Nat \ {0}
  BY HeldClass
<1>2. SlotPtr(a, i) \in Nat /\ SlotPtr(b, j) \in Nat
  BY <1>1, Slots DEF SlotPtr
<1>3. SlotPtr(a, i) < SlotPtr(b, j) + slot_size[b] /\ SlotPtr(b, j) < SlotPtr(a, i) + slot_size[a]
  BY <1>1, <1>2
<1> QED BY <1>3, SlotsDisjoint

\* The index of a slot of the pool is found again from its address.
LEMMA SlotFound ==
  ASSUME NEW b \in Buffer, slot_size[b] \in SIZE_CLASSES, NEW k \in Nat
  PROVE  SlotPtr(b, k) \in Nat /\ SlotIndex(b, SlotPtr(b, k)) = k
<1>1. PICK c \in SIZE_CLASSES : c = slot_size[b]
  OBVIOUS
<1>2. SlotPtrIn(b, c, k) \in Nat /\ (SlotPtrIn(b, c, k) - SlotPtrIn(b, c, 0)) \div c = k
  BY Slots
<1> QED BY <1>1, <1>2 DEF SlotPtr, SlotIndex

\* The slots in use are slots of the pool.
LEMMA BitFacts ==
  ASSUME TypeOK, NEW b \in Held, PoolInv(b)
  PROVE  /\ bump[b] \in Nat /\ SlotCount(slot_size[b]) \in Nat
         /\ IsFiniteSet(bitmap[b]) /\ Cardinality(bitmap[b]) \in Nat
         /\ \A k \in 0 .. bump[b] - 1 : k \in Nat /\ k < SlotCount(slot_size[b])
         /\ \A k \in bitmap[b] : k \in 0 .. bump[b] - 1 /\ k \in Nat /\ k < SlotCount(slot_size[b])
<1>1. b \in Buffer /\ slot_size[b] \in SIZE_CLASSES /\ SlotCount(slot_size[b]) \in Nat
  BY HeldClass, Layout
<1>2. bump[b] \in Nat
  BY <1>1 DEF TypeOK
<1>3. IsFiniteSet(0 .. bump[b] - 1)
  BY <1>2, FS_Interval
<1>4. IsFiniteSet(bitmap[b]) /\ Cardinality(bitmap[b]) \in Nat
  BY <1>3, FS_Subset, FS_CardinalityType DEF PoolInv
<1> QED BY <1>1, <1>2, <1>4 DEF PoolInv

\* A pool that is not full gives a slot that is not in use, and sets its bit.
LEMMA AllocSlotPool ==
  ASSUME TypeOK, NEW b \in Held, PoolInv(b), ~Full(b), AllocSlot(b), UNCHANGED slot_size
  PROVE  /\ PoolInv(b)'
         /\ \E k \in Nat : /\ k < SlotCount(slot_size[b]) /\ k \notin bitmap[b]
                           /\ NextSlot(b) = SlotPtr(b, k)
                           /\ bitmap' = [bitmap EXCEPT ![b] = @ \cup {k}]
         /\ bump' \in [Buffer -> Nat] /\ free_list' \in [Buffer -> Seq(Nat)]
         /\ bitmap' \in [Buffer -> SUBSET Nat] /\ live' \in [Buffer -> Nat]
         /\ \A a \in Buffer : a # b => /\ bump'[a] = bump[a] /\ free_list'[a] = free_list[a]
                                       /\ bitmap'[a] = bitmap[a] /\ live'[a] = live[a]
<1> DEFINE c == slot_size[b]
           F == free_list[b]
<1>1. /\ b \in Buffer /\ c \in SIZE_CLASSES /\ bump[b] \in Nat /\ SlotCount(c) \in Nat
      /\ IsFiniteSet(bitmap[b]) /\ Cardinality(bitmap[b]) \in Nat
      /\ bitmap[b] \in SUBSET Nat /\ live[b] \in Nat
      /\ F \in Seq(Nat) /\ Len(F) \in Nat /\ F \in [1 .. Len(F) -> Nat]
  BY HeldClass, BitFacts, LenProperties DEF TypeOK
<1>2. \A k \in Nat : SlotPtr(b, k) \in Nat /\ SlotIndex(b, SlotPtr(b, k)) = k
  BY HeldClass, SlotFound
<1>3. PICK k \in Nat : /\ k < SlotCount(c) /\ k \notin bitmap[b] /\ NextSlot(b) = SlotPtr(b, k)
                       /\ F = <<>> => k = bump[b]
                       /\ F # <<>> => k < bump[b] /\ F[1] = SlotPtr(b, k)
  <2>1. CASE F = <<>>
    <3>1. bump[b] < SlotCount(c) /\ NextSlot(b) = SlotPtr(b, bump[b])
      BY <1>1, <2>1 DEF Full, NextSlot
    <3>2. bump[b] \notin bitmap[b]
      BY <1>1 DEF PoolInv
    <3> QED BY <1>1, <2>1, <3>1, <3>2
  <2>2. CASE F # <<>>
    <3>1. 1 \in 1 .. Len(F) /\ NextSlot(b) = F[1]
      BY <1>1, <2>2, EmptySeq DEF NextSlot
    <3>2. PICK k \in 0 .. bump[b] - 1 : k \notin bitmap[b] /\ F[1] = SlotPtr(b, k)
      BY <3>1 DEF PoolInv
    <3>3. k < SlotCount(c) /\ k < bump[b] /\ k \in Nat
      BY <1>1, <3>2 DEF PoolInv
    <3> QED BY <2>2, <3>1, <3>2, <3>3
  <2> QED BY <2>1, <2>2
<1>4. /\ bitmap' = [bitmap EXCEPT ![b] = @ \cup {k}] /\ live' = [live EXCEPT ![b] = @ + 1]
  BY <1>2, <1>3 DEF AllocSlot
<1>5. bitmap' \in [Buffer -> SUBSET Nat] /\ live' \in [Buffer -> Nat]
  BY <1>1, <1>3, <1>4 DEF TypeOK
<1>6. /\ bump' \in [Buffer -> Nat] /\ free_list' \in [Buffer -> Seq(Nat)]
      /\ F = <<>> => free_list'[b] = <<>> /\ bump'[b] = bump[b] + 1
      /\ F # <<>> => free_list'[b] = Tail(F) /\ bump'[b] = bump[b]
      /\ \A a \in Buffer : a # b => bump'[a] = bump[a] /\ free_list'[a] = free_list[a]
  <2>1. CASE F = <<>>
    <3>1. bump' = [bump EXCEPT ![b] = @ + 1] /\ free_list' = free_list
      BY <2>1 DEF AllocSlot
    <3> QED BY <1>1, <2>1, <3>1 DEF TypeOK
  <2>2. CASE F # <<>>
    <3>1. bump' = bump /\ free_list' = [free_list EXCEPT ![b] = Tail(F)]
      BY <2>2 DEF AllocSlot
    <3>2. Tail(F) \in Seq(Nat)
      BY <1>1, <2>2, HeadTailProperties
    <3> QED BY <1>1, <2>2, <3>1, <3>2 DEF TypeOK
  <2> QED BY <2>1, <2>2
<1>7. bitmap'[b] = bitmap[b] \cup {k} /\ live'[b] = live[b] + 1
  BY <1>1, <1>4 DEF TypeOK
<1>8. Cardinality(bitmap'[b]) = Cardinality(bitmap[b]) + 1
  <2>1. PICK B : B = bitmap[b]
    OBVIOUS
  <2>2. IsFiniteSet(B) /\ k \notin B
    BY <1>1, <1>3, <2>1
  <2>3. Cardinality(B \cup {k}) = Cardinality(B) + 1
    BY <2>2, FS_AddElement
  <2> QED BY <1>7, <2>1, <2>3
<1>9. slot_size'[b] = c /\ \A j \in Nat : SlotPtr(b, j)' = SlotPtr(b, j)
  BY DEF SlotPtr
<1>10. PoolInv(b)'
  <2>1. CASE F = <<>>
    <3>1. free_list'[b] = <<>> /\ Len(free_list'[b]) = 0 /\ Len(F) = 0 /\ bump'[b] = bump[b] + 1 /\ k = bump[b]
      BY <2>1, <1>3, <1>6, EmptySeq
    <3>2. bitmap[b] = 0 .. bump[b] - 1
      <4>1. \A i \in 0 .. bump[b] - 1 : i \in bitmap[b]
        BY <1>1, <3>1 DEF PoolInv, Contains
      <4> QED BY <4>1 DEF PoolInv
    <3>3. bitmap'[b] = 0 .. bump'[b] - 1
      BY <1>1, <1>7, <3>1, <3>2
    <3>4. live'[b] = Cardinality(bitmap'[b]) /\ live[b] = bump[b]
      BY <1>1, <1>7, <1>8, <3>1 DEF PoolInv
    <3>5. bump'[b] <= SlotCount(slot_size'[b])
      BY <1>1, <1>3, <1>9, <3>1
    <3>6. Len(free_list'[b]) + live'[b] = bump'[b]
      BY <1>1, <1>7, <3>1, <3>4
    <3> QED BY <3>1, <3>3, <3>4, <3>5, <3>6 DEF PoolInv, NoDup
  <2>2. CASE F # <<>>
    <3> DEFINE T == free_list'[b]
    <3>1. /\ T = Tail(F) /\ bump'[b] = bump[b] /\ k < bump[b] /\ F[1] = SlotPtr(b, k) /\ Len(F) >= 1
      BY <1>1, <1>3, <1>6, <2>2, EmptySeq
    <3>2. Len(T) = Len(F) - 1 /\ \A i \in 1 .. Len(F) - 1 : T[i] = F[i + 1]
      BY <1>1, <2>2, <3>1, HeadTailProperties
    <3> HIDE DEF T, F
    <3>3. bitmap'[b] \subseteq 0 .. bump'[b] - 1
      BY <1>1, <1>3, <1>7, <3>1 DEF PoolInv
    <3>4. live'[b] = Cardinality(bitmap'[b]) /\ Len(T) + live'[b] = bump'[b]
      BY <1>1, <1>7, <1>8, <3>1, <3>2 DEF PoolInv, F
    <3>5. \A i, j \in 1 .. Len(F) : F[i] = F[j] => i = j
      BY DEF PoolInv, NoDup, F
    <3>6. NoDup(T)
      <4> SUFFICES ASSUME NEW i \in 1 .. Len(F) - 1, NEW j \in 1 .. Len(F) - 1, T[i] = T[j]
                   PROVE  i = j
        BY <3>2 DEF NoDup
      <4>1. i + 1 \in 1 .. Len(F) /\ j + 1 \in 1 .. Len(F) /\ F[i + 1] = F[j + 1]
        BY <1>1, <3>2
      <4>2. i + 1 = j + 1
        BY <4>1, <3>5
      <4> QED BY <4>2
    <3>7. ASSUME NEW i \in 1 .. Len(T)
          PROVE  \E m \in 0 .. bump'[b] - 1 : m \notin bitmap'[b] /\ T[i] = SlotPtr(b, m)'
      <4>1. i + 1 \in 1 .. Len(F) /\ T[i] = F[i + 1] /\ i + 1 # 1 /\ 1 \in 1 .. Len(F)
        BY <1>1, <3>1, <3>2
      <4>2. PICK m \in 0 .. bump[b] - 1 : m \notin bitmap[b] /\ F[i + 1] = SlotPtr(b, m)
        BY <4>1 DEF PoolInv, F
      <4>3. m # k
        BY <3>1, <3>5, <4>1, <4>2
      <4> QED BY <1>1, <1>7, <1>9, <3>1, <4>1, <4>2, <4>3, SMTT(30)
    <3>8. ASSUME NEW m \in 0 .. bump'[b] - 1, m \notin bitmap'[b]
          PROVE  \E i \in 1 .. Len(T) : T[i] = SlotPtr(b, m)'
      <4>1. m \in 0 .. bump[b] - 1 /\ m \notin bitmap[b] /\ m # k /\ m \in Nat
        BY <1>1, <1>7, <3>1, <3>8
      <4>2. PICK i \in 1 .. Len(F) : F[i] = SlotPtr(b, m)
        BY <4>1 DEF PoolInv, Contains, F
      <4>3. i # 1
        BY <1>2, <3>1, <4>1, <4>2
      <4>4. i - 1 \in 1 .. Len(F) - 1 /\ (i - 1) + 1 = i
        BY <1>1, <4>3
      <4>5. T[i - 1] = F[i]
        BY <3>2, <4>4
      <4> QED BY <1>9, <3>2, <4>1, <4>2, <4>4, <4>5
    <3>9. bump'[b] <= SlotCount(slot_size'[b])
      BY <1>9, <3>1 DEF PoolInv
    <3> QED BY <3>3, <3>4, <3>6, <3>7, <3>8, <3>9 DEF PoolInv, Contains, T
  <2> QED BY <2>1, <2>2
<1>11. \A a \in Buffer : a # b => bitmap'[a] = bitmap[a] /\ live'[a] = live[a]
  BY <1>4 DEF TypeOK
<1> QED BY <1>3, <1>4, <1>5, <1>6, <1>10, <1>11

\* Freeing a slot clears its bit and puts it on the free list.
LEMMA FreePool ==
  ASSUME TypeOK, NEW b \in Held, PoolInv(b), NEW k \in bitmap[b], FreeInPool(b, SlotPtr(b, k))
  PROVE  /\ PoolInv(b)'
         /\ bitmap' = [bitmap EXCEPT ![b] = @ \ {k}]
         /\ free_list' \in [Buffer -> Seq(Nat)]
         /\ bitmap' \in [Buffer -> SUBSET Nat] /\ live' \in [Buffer -> Nat]
         /\ \A a \in Buffer : a # b => /\ bump'[a] = bump[a] /\ free_list'[a] = free_list[a]
                                       /\ bitmap'[a] = bitmap[a] /\ live'[a] = live[a]
<1> DEFINE c == slot_size[b]
           F == free_list[b]
           p == SlotPtr(b, k)
           T == <<p>> \o F
<1>1. /\ b \in Buffer /\ c \in SIZE_CLASSES /\ bump[b] \in Nat /\ SlotCount(c) \in Nat
      /\ IsFiniteSet(bitmap[b]) /\ Cardinality(bitmap[b]) \in Nat
      /\ bitmap[b] \in SUBSET Nat /\ live[b] \in Nat
      /\ F \in Seq(Nat) /\ Len(F) \in Nat
      /\ k \in 0 .. bump[b] - 1 /\ k \in Nat
  BY HeldClass, BitFacts, LenProperties DEF TypeOK
<1>2. \A m \in Nat : SlotPtr(b, m) \in Nat /\ SlotIndex(b, SlotPtr(b, m)) = m
  BY HeldClass, SlotFound
<1>3. /\ bitmap' = [bitmap EXCEPT ![b] = @ \ {k}]
      /\ free_list' = [free_list EXCEPT ![b] = T]
      /\ live' = [live EXCEPT ![b] = IF @ = 0 THEN 0 ELSE @ - 1]
      /\ bump' = bump /\ slot_size' = slot_size
  BY <1>1, <1>2 DEF FreeInPool, BitCleared
<1>4. live[b] = Cardinality(bitmap[b]) /\ live[b] # 0
  <2>1. bitmap[b] # {}
    OBVIOUS
  <2> QED BY <1>1, <2>1, FS_EmptySet DEF PoolInv
<1>5. Cardinality(bitmap[b] \ {k}) = Cardinality(bitmap[b]) - 1
  BY <1>1, FS_RemoveElement
<1>6. /\ T \in Seq(Nat) /\ Len(T) = Len(F) + 1
      /\ T[1] = p
      /\ \A i \in 1 .. Len(F) : T[i + 1] = F[i]
      /\ \A i \in 1 .. Len(F) + 1 : i # 1 => i - 1 \in 1 .. Len(F) /\ T[i] = F[i - 1]
  <2>1. p \in Nat
    BY <1>1, <1>2
  <2> QED BY <1>1, <2>1, PrependFacts, SMTT(30)
<1> HIDE DEF T, F
<1>7. bitmap'[b] = bitmap[b] \ {k} /\ free_list'[b] = T /\ live'[b] = live[b] - 1
  BY <1>1, <1>3, <1>4 DEF TypeOK
<1>8. /\ free_list' \in [Buffer -> Seq(Nat)]
      /\ bitmap' \in [Buffer -> SUBSET Nat] /\ live' \in [Buffer -> Nat]
  <2>1. free_list' \in [Buffer -> Seq(Nat)]
    BY <1>3, <1>6 DEF TypeOK
  <2>2. bitmap' \in [Buffer -> SUBSET Nat]
    BY <1>1, <1>3 DEF TypeOK
  <2>3. live' \in [Buffer -> Nat]
    BY <1>1, <1>3, <1>4 DEF TypeOK
  <2> QED BY <2>1, <2>2, <2>3
<1>9. \A m \in Nat : SlotPtr(b, m)' = SlotPtr(b, m)
  BY <1>3 DEF SlotPtr
<1>10. live'[b] = Cardinality(bitmap'[b]) /\ Len(T) + live'[b] = bump'[b]
  <2>1. Len(F) + live[b] = bump[b] /\ bump'[b] = bump[b]
    BY <1>3 DEF PoolInv, F
  <2>2. live'[b] = Cardinality(bitmap'[b])
    BY <1>4, <1>5, <1>7
  <2>3. Len(T) = Len(F) + 1 /\ live'[b] = live[b] - 1
    BY <1>6, <1>7
  <2>4. Len(F) \in Nat /\ live[b] \in Nat
    BY <1>1
  <2>5. Len(T) + live'[b] = bump'[b]
    BY <2>1, <2>3, <2>4
  <2> QED BY <2>2, <2>5
<1>11. \A i \in 1 .. Len(F) :
         \E m \in 0 .. bump[b] - 1 : m \notin bitmap[b] /\ F[i] = SlotPtr(b, m)
  BY DEF PoolInv, F
<1>12. \A i \in 1 .. Len(F) : F[i] # p
  <2> TAKE i \in 1 .. Len(F)
  <2>1. PICK m \in 0 .. bump[b] - 1 : m \notin bitmap[b] /\ F[i] = SlotPtr(b, m)
    BY <1>11
  <2>2. m \in Nat /\ m # k
    BY <1>1, <2>1
  <2> QED BY <1>1, <1>2, <2>1, <2>2
<1>13. NoDup(T)
  <2> SUFFICES ASSUME NEW i \in 1 .. Len(F) + 1, NEW j \in 1 .. Len(F) + 1, T[i] = T[j]
               PROVE  i = j
    BY <1>6 DEF NoDup
  <2>1. \A m, n \in 1 .. Len(F) : F[m] = F[n] => m = n
    BY DEF PoolInv, NoDup, F
  <2> HIDE DEF p
  <2>2. CASE i = 1 /\ j = 1
    BY <2>2
  <2>3. CASE i = 1 /\ j # 1
    <3>1. j - 1 \in 1 .. Len(F) /\ T[j] = F[j - 1] /\ T[i] = p
      BY <1>6, <2>3
    <3> QED BY <1>12, <3>1
  <2>4. CASE i # 1 /\ j = 1
    <3>1. i - 1 \in 1 .. Len(F) /\ T[i] = F[i - 1] /\ T[j] = p
      BY <1>6, <2>4
    <3> QED BY <1>12, <3>1
  <2>5. CASE i # 1 /\ j # 1
    <3>1. i - 1 \in 1 .. Len(F) /\ j - 1 \in 1 .. Len(F) /\ F[i - 1] = F[j - 1]
      BY <1>1, <1>6, <2>5
    <3>2. i - 1 = j - 1
      BY <2>1, <3>1
    <3> QED BY <1>1, <3>2
  <2> QED BY <2>2, <2>3, <2>4, <2>5
<1>14. ASSUME NEW i \in 1 .. Len(T)
       PROVE  \E m \in 0 .. bump'[b] - 1 : m \notin bitmap'[b] /\ T[i] = SlotPtr(b, m)'
  <2>1. CASE i = 1
    BY <1>1, <1>3, <1>6, <1>7, <1>9, <2>1
  <2>2. CASE i # 1
    <3>1. i - 1 \in 1 .. Len(F) /\ T[i] = F[i - 1]
      BY <1>1, <1>6, <2>2
    <3>2. PICK m \in 0 .. bump[b] - 1 : m \notin bitmap[b] /\ F[i - 1] = SlotPtr(b, m)
      BY <1>11, <3>1
    <3> QED BY <1>1, <1>3, <1>7, <1>9, <3>1, <3>2, SMTT(30)
  <2> QED BY <2>1, <2>2
<1>15. ASSUME NEW m \in 0 .. bump'[b] - 1, m \notin bitmap'[b]
       PROVE  \E i \in 1 .. Len(T) : T[i] = SlotPtr(b, m)'
  <2>1. CASE m = k
    BY <1>1, <1>6, <1>9, <2>1
  <2>2. CASE m # k
    <3>1. m \in 0 .. bump[b] - 1 /\ m \notin bitmap[b] /\ m \in Nat
      BY <1>1, <1>3, <1>7, <1>15, <2>2
    <3>2. PICK i \in 1 .. Len(F) : F[i] = SlotPtr(b, m)
      BY <3>1 DEF PoolInv, Contains, F
    <3>3. i + 1 \in 1 .. Len(T) /\ T[i + 1] = F[i]
      BY <1>1, <1>6
    <3> QED BY <1>9, <3>1, <3>2, <3>3
  <2> QED BY <2>1, <2>2
<1>16. bitmap'[b] \subseteq 0 .. bump'[b] - 1 /\ bump'[b] <= SlotCount(slot_size'[b])
  BY <1>3, <1>7 DEF PoolInv
<1>17. PoolInv(b)'
  BY <1>7, <1>10, <1>13, <1>14, <1>15, <1>16 DEF PoolInv, Contains
<1>18. \A a \in Buffer : a # b => /\ bump'[a] = bump[a] /\ free_list'[a] = free_list[a]
                                  /\ bitmap'[a] = bitmap[a] /\ live'[a] = live[a]
  BY <1>3 DEF TypeOK
<1> QED BY <1>3, <1>8, <1>17, <1>18

\* A pool none of whose fields change stays as it was.
LEMMA SamePool ==
  ASSUME NEW a, PoolInv(a), slot_size'[a] = slot_size[a], bump'[a] = bump[a],
         free_list'[a] = free_list[a], bitmap'[a] = bitmap[a], live'[a] = live[a]
  PROVE  PoolInv(a)'
<1>1. \A k : SlotPtr(a, k)' = SlotPtr(a, k)
  BY DEF SlotPtr
<1> QED BY <1>1 DEF PoolInv, Contains, NoDup, SlotPtr

\* No two slots have an address in common.
SlotsUnique ==
  \A a, b \in Held : \A i, j \in Nat :
    i < SlotCount(slot_size[a]) /\ j < SlotCount(slot_size[b]) /\ SlotPtr(a, i) = SlotPtr(b, j)
      => a = b /\ i = j

\* The buffers are apart, so their slots are.
LEMMA UniqueSlots == TypeOK /\ ApartInv => SlotsUnique
BY SlotUnique DEF SlotsUnique

-----------------------------------------------------------------------------
(* What the client has.                                                    *)

\* An item in a slot that was not in use.
LEMMA GiveInv ==
  ASSUME TypeOK, PoolsInv, GivenInv, VectorsInv, TypeOK', ApartInv', PoolsInv',
         NEW item \in Item, NEW b \in Buffer, NEW k \in Nat, NEW ptr,
         b \in Held => k \notin bitmap[b],
         bitmap'[b] = IF b \in Held THEN bitmap[b] \cup {k} ELSE {k},
         k < SlotCount(slot_size'[b]),
         \A a \in Held : slot_size'[a] = slot_size[a] /\ (a # b => bitmap'[a] = bitmap[a]),
         Held' = Held \cup {b},
         Contains(slot_pools, b)',
         \A a \in Buffer : Contains(slot_pools, a) => Contains(slot_pools, a)',
         item.size <= slot_size'[b],
         ptr = SlotPtr(b, k)',
         Give(item, b, ptr)
  PROVE  GivenInv'
<1> DEFINE new == [ptr |-> ptr, item |-> item, pool |-> b]
<1>1. given' = given \cup {new}
  BY DEF Give
<1>2. SlotsUnique'
  BY UniqueSlots, PTL
<1>3. \A a \in Held : /\ a \in Buffer /\ slot_size'[a] = slot_size[a]
                      /\ \A i : SlotPtr(a, i)' = SlotPtr(a, i)
  BY DEF SlotPtr, Held
<1>4. ASSUME NEW g \in given
      PROVE  /\ g.item \in Item /\ g.item.size <= slot_size'[g.pool]
             /\ g.pool \in Held /\ Contains(slot_pools, g.pool)'
             /\ \E i \in bitmap[g.pool] : g.ptr = SlotPtr(g.pool, i)' /\ i \in bitmap'[g.pool]
                                          /\ i \in Nat /\ i < SlotCount(slot_size'[g.pool])
  <2>1. g.pool \in Buffer /\ Contains(slot_pools, g.pool) /\ g.item \in Item /\ g.item.size <= slot_size[g.pool]
    BY DEF GivenInv, TypeOK
  <2>2. g.pool \in Held
    BY <2>1 DEF VectorsInv
  <2>3. PICK i \in bitmap[g.pool] : g.ptr = SlotPtr(g.pool, i)
    BY DEF GivenInv
  <2>4. i \in Nat /\ i < SlotCount(slot_size[g.pool])
    BY <2>2, BitFacts DEF PoolsInv
  <2>5. i \in bitmap'[g.pool]
    BY <2>2
  <2> QED BY <1>3, <2>1, <2>2, <2>3, <2>4, <2>5
<1>5. ASSUME NEW g \in given PROVE g.ptr # ptr
  <2>1. SUFFICES ASSUME g.ptr = ptr PROVE FALSE
    OBVIOUS
  <2>2. PICK i \in bitmap[g.pool] : /\ g.ptr = SlotPtr(g.pool, i)' /\ i \in Nat
                                    /\ i < SlotCount(slot_size'[g.pool])
    BY <1>4
  <2>3. g.pool \in Held /\ g.pool \in Held' /\ b \in Held'
    BY <1>4
  <2>4. SlotPtr(g.pool, i)' = SlotPtr(b, k)'
    BY <2>1, <2>2
  <2>5. \A m, n \in Nat : m < SlotCount(slot_size'[g.pool]) /\ n < SlotCount(slot_size'[b])
                          /\ SlotPtr(g.pool, m)' = SlotPtr(b, n)' => g.pool = b /\ m = n
    BY <1>2, <2>3 DEF SlotsUnique, SlotPtr
  <2>6. g.pool = b /\ i = k
    BY <2>2, <2>4, <2>5 DEF SlotPtr
  <2> QED BY <2>2, <2>3, <2>6
<1>6. new.ptr = ptr /\ new.item = item /\ new.pool = b
  OBVIOUS
<1>7. k \in bitmap'[b]
  OBVIOUS
<1> HIDE DEF new
<1>8. ASSUME NEW g \in given'
      PROVE  /\ g.item \in Item /\ g.item.size <= slot_size'[g.pool]
             /\ Contains(slot_pools, g.pool)'
             /\ \E i \in bitmap'[g.pool] : g.ptr = SlotPtr(g.pool, i)'
  <2>1. CASE g = new
    BY <1>6, <1>7, <2>1
  <2>2. CASE g \in given
    BY <1>4, <2>2
  <2> QED BY <1>1, <2>1, <2>2
<1>9. \A g, h \in given' : g.ptr = h.ptr => g = h
  <2> SUFFICES ASSUME NEW g \in given', NEW h \in given', g.ptr = h.ptr
               PROVE  g = h
    OBVIOUS
  <2>1. g \in given /\ h \in given => g = h
    BY DEF GivenInv
  <2> QED BY <1>1, <1>5, <1>6, <2>1
<1>10. ASSUME NEW a \in Held', NEW i \in bitmap'[a]
       PROVE  \E g \in given' : g.pool = a /\ g.ptr = SlotPtr(a, i)'
  <2>1. CASE a = b /\ i = k
    BY <1>1, <1>6, <2>1
  <2>2. CASE ~(a = b /\ i = k)
    <3>1. a \in Held /\ i \in bitmap[a]
      BY <2>2
    <3>2. PICK g \in given : g.pool = a /\ g.ptr = SlotPtr(a, i)
      BY <3>1 DEF GivenInv
    <3> QED BY <1>1, <1>3, <3>1, <3>2
  <2> QED BY <2>1, <2>2
<1> QED BY <1>8, <1>9, <1>10 DEF GivenInv

\* An item that is freed, with its slot.
LEMMA TakeBackInv ==
  ASSUME TypeOK, PoolsInv, GivenInv, VectorsInv, ApartInv,
         NEW g \in given, NEW k \in bitmap[g.pool], g.ptr = SlotPtr(g.pool, k),
         bitmap' = [bitmap EXCEPT ![g.pool] = @ \ {k}],
         given' = given \ {g}, UNCHANGED <<slot_size, slot_pools>>
  PROVE  GivenInv'
<1>1. SlotsUnique
  BY UniqueSlots
<1>2. /\ \A a, i : SlotPtr(a, i)' = SlotPtr(a, i)
      /\ Held' = Held
      /\ \A a : Contains(slot_pools, a)' = Contains(slot_pools, a)
  BY DEF SlotPtr, Held, Contains
<1>3. ASSUME NEW h \in given
      PROVE  /\ h.pool \in Buffer /\ h.pool \in Held
             /\ \A i \in bitmap[h.pool] : i \in Nat /\ i < SlotCount(slot_size[h.pool])
  <2>1. h.pool \in Buffer /\ Contains(slot_pools, h.pool)
    BY DEF GivenInv, TypeOK
  <2>2. h.pool \in Held
    BY <2>1 DEF VectorsInv
  <2> QED BY <2>1, <2>2, BitFacts DEF PoolsInv
<1>4. \A a \in Buffer : bitmap'[a] = IF a = g.pool THEN bitmap[a] \ {k} ELSE bitmap[a]
  BY <1>3 DEF TypeOK
<1>5. ASSUME NEW h \in given'
      PROVE  /\ h.item \in Item /\ h.item.size <= slot_size'[h.pool]
             /\ Contains(slot_pools, h.pool)'
             /\ \E i \in bitmap'[h.pool] : h.ptr = SlotPtr(h.pool, i)'
  <2>1. h \in given /\ h # g
    OBVIOUS
  <2>2. h.item \in Item /\ h.item.size <= slot_size[h.pool] /\ Contains(slot_pools, h.pool)
    BY <2>1 DEF GivenInv
  <2>3. PICK i \in bitmap[h.pool] : h.ptr = SlotPtr(h.pool, i)
    BY <2>1 DEF GivenInv
  <2>4. i \in bitmap'[h.pool]
    <3>1. SUFFICES ASSUME h.pool = g.pool /\ i = k PROVE FALSE
      BY <1>3, <1>4, <2>1, <2>3
    <3>2. h.ptr = g.ptr
      BY <2>3, <3>1
    <3> QED BY <2>1, <3>2 DEF GivenInv
  <2> QED BY <1>2, <2>2, <2>3, <2>4
<1>6. \A h, i \in given' : h.ptr = i.ptr => h = i
  BY DEF GivenInv
<1>7. ASSUME NEW a \in Held', NEW i \in bitmap'[a]
      PROVE  \E h \in given' : h.pool = a /\ h.ptr = SlotPtr(a, i)'
  <2>1. a \in Held /\ a \in Buffer /\ i \in bitmap[a] /\ ~(a = g.pool /\ i = k)
    BY <1>2, <1>4 DEF Held
  <2>2. PICK h \in given : h.pool = a /\ h.ptr = SlotPtr(a, i)
    BY <2>1 DEF GivenInv
  <2>3. h # g
    <3>1. SUFFICES ASSUME h = g PROVE FALSE
      OBVIOUS
    <3>2. a = g.pool /\ SlotPtr(a, i) = SlotPtr(a, k)
      BY <2>2, <3>1
    <3> QED BY <1>1, <1>3, <2>1, <2>2, <3>2 DEF SlotsUnique
  <2> QED BY <1>2, <2>2, <2>3
<1> QED BY <1>5, <1>6, <1>7 DEF GivenInv

-----------------------------------------------------------------------------
(* The address index.                                                      *)

\* A pool that joins the vector joins the index at its place.
LEMMA AddPoolIndex ==
  ASSUME TypeOK, IndexOf(sorted_ranges, slot_pools),
         NEW b \in Buffer, NEW c \in SIZE_CLASSES, AddPool(b, c), slot_size'[b] = c,
         \A i \in 1 .. Len(slot_pools) :
           /\ slot_size'[slot_pools[i]] = slot_size[slot_pools[i]]
           /\ SlotPtr(slot_pools[i], 0) # SlotPtrIn(b, c, 0)
  PROVE  /\ IndexOf(sorted_ranges, slot_pools)'
         /\ sorted_ranges' \in Seq(IndexEntry) /\ slot_pools' \in Seq(Buffer)
         /\ Len(slot_pools') = Len(slot_pools) + 1
         /\ slot_pools'[Len(slot_pools) + 1] = b
         /\ \A i \in 1 .. Len(slot_pools) : slot_pools'[i] = slot_pools[i]
<1> DEFINE R == sorted_ranges
           n == Len(slot_pools)
           e == [base |-> SlotPtrIn(b, c, 0), end |-> SlotPtrIn(b, c, SlotCount(c)), idx |-> n + 1]
           B == {k \in DOMAIN R : R[k].base < e.base}
           p == Cardinality(B)
           Q == InsertAt(R, p + 1, e)
           s == slot_pools'
<1>1. /\ slot_pools \in Seq(Buffer) /\ n \in Nat /\ R \in Seq(IndexEntry) /\ Len(R) = n
      /\ DOMAIN R = 1 .. n
      /\ \A i \in 1 .. n : R[i] \in IndexEntry /\ slot_pools[i] \in Buffer
  BY LenProperties, ElementOfSeq DEF TypeOK, IndexOf
<1>2. /\ s \in Seq(Buffer) /\ Len(s) = n + 1 /\ s[n + 1] = b
      /\ \A i \in 1 .. n : s[i] = slot_pools[i]
  BY <1>1, AppendProperties DEF AddPool
<1>3. e.base \in Nat /\ e.end \in Nat /\ e \in IndexEntry
  BY <1>1, Layout, Slots DEF IndexEntry
<1>4. \A i \in 1 .. n : R[i].base \in Nat /\ R[i].base # e.base
  BY <1>1 DEF IndexEntry, IndexOf
<1>5. \A j, k \in 1 .. n : j < k => R[j].base < R[k].base
  BY <1>1 DEF IndexOf
<1>6. sorted_ranges' = InsertAt(R, 1 + p, e)
  BY DEF AddPool, InsertedRanges
<1>7. e.base = SlotPtrIn(b, c, 0) /\ e.end = SlotPtrIn(b, c, SlotCount(c)) /\ e.idx = n + 1
  OBVIOUS
<1> HIDE DEF e, R, n, s
<1>8. p \in 0 .. n /\ \A i \in 1 .. n : i <= p <=> R[i].base < e.base
  <2>1. B \in SUBSET (1 .. n)
    BY <1>1
  <2>2. \A i \in B : \A j \in 1 .. i : j \in B
    <3> TAKE i \in B
    <3> TAKE j \in 1 .. i
    <3>1. i \in 1 .. n /\ j \in 1 .. n /\ R[i].base < e.base /\ (j < i \/ j = i)
      BY <1>1
    <3>2. R[j].base < e.base
      BY <1>3, <1>4, <1>5, <3>1
    <3> QED BY <1>1, <3>1, <3>2
  <2>3. \A i \in 1 .. n : i \in B <=> R[i].base < e.base
    BY <1>1
  <2> HIDE DEF B
  <2>4. B = 1 .. p
    BY <1>1, <2>1, <2>2, DownClosed
  <2>5. p \in Nat /\ p <= n
    BY <1>1, <2>1, Positions
  <2> QED BY <1>1, <2>3, <2>4, <2>5
<1> HIDE DEF p
<1>9. /\ Q \in Seq(IndexEntry) /\ Len(Q) = n + 1
      /\ \A i \in 1 .. n + 1 :
           Q[i] = IF i < p + 1 THEN R[i] ELSE IF i = p + 1 THEN e ELSE R[i - 1]
  <2>1. p + 1 \in 1 .. Len(R) + 1
    BY <1>1, <1>8
  <2>2. /\ Q \in Seq(IndexEntry) /\ Len(Q) = Len(R) + 1
        /\ \A i \in 1 .. Len(R) + 1 :
             Q[i] = IF i < p + 1 THEN R[i] ELSE IF i = p + 1 THEN e ELSE R[i - 1]
    <3> HIDE DEF Q
    <3>1. PICK r, q, new : r = R /\ q = p + 1 /\ new = e
      OBVIOUS
    <3>2. r \in Seq(IndexEntry) /\ q \in 1 .. Len(r) + 1 /\ new \in IndexEntry
      BY <1>1, <1>3, <2>1, <3>1
    <3>3. /\ InsertAt(r, q, new) \in Seq(IndexEntry) /\ Len(InsertAt(r, q, new)) = Len(r) + 1
          /\ \A i \in 1 .. Len(r) + 1 :
               InsertAt(r, q, new)[i] = IF i < q THEN r[i] ELSE IF i = q THEN new ELSE r[i - 1]
      BY <3>2, InsertAtFacts
    <3>4. Q = InsertAt(r, q, new)
      BY <3>1 DEF Q
    <3> QED BY <3>1, <3>3, <3>4
  <2> HIDE DEF Q
  <2> QED BY <1>1, <2>2
<1>10. sorted_ranges' = Q
  <2>1. 1 + p = p + 1
    BY <1>8
  <2> QED BY <1>6, <2>1
<1> HIDE DEF Q
<1>11. /\ \A i \in 1 .. n + 1 : i < p + 1 => i \in 1 .. n /\ Q[i] = R[i] /\ R[i].base < e.base
       /\ Q[p + 1] = e
       /\ \A i \in 1 .. n + 1 : i > p + 1 => i - 1 \in 1 .. n /\ Q[i] = R[i - 1] /\ R[i - 1].base > e.base
  <2>1. ASSUME NEW i \in 1 .. n + 1, i < p + 1 PROVE i \in 1 .. n /\ Q[i] = R[i] /\ R[i].base < e.base
    BY <1>1, <1>8, <1>9, <2>1
  <2>2. Q[p + 1] = e
    BY <1>1, <1>8, <1>9
  <2>3. ASSUME NEW i \in 1 .. n + 1, i > p + 1
        PROVE  i - 1 \in 1 .. n /\ Q[i] = R[i - 1] /\ R[i - 1].base > e.base
    <3>1. i - 1 \in 1 .. n /\ ~(i - 1 <= p) /\ ~(i < p + 1) /\ i # p + 1
      BY <1>1, <1>8, <2>3
    <3>2. ~(R[i - 1].base < e.base)
      BY <1>8, <3>1
    <3> QED BY <1>3, <1>4, <1>9, <3>1, <3>2
  <2> QED BY <2>1, <2>2, <2>3
<1>12. \A j, k \in 1 .. n + 1 : j < k => Q[j].base < Q[k].base
  <2> SUFFICES ASSUME NEW j \in 1 .. n + 1, NEW k \in 1 .. n + 1, j < k
               PROVE  Q[j].base < Q[k].base
    OBVIOUS
  <2>1. CASE k < p + 1
    <3>1. j \in 1 .. n /\ k \in 1 .. n /\ Q[j] = R[j] /\ Q[k] = R[k]
      BY <1>1, <1>8, <1>11, <2>1
    <3> QED BY <1>5, <3>1
  <2>2. CASE k = p + 1
    BY <1>1, <1>8, <1>11, <2>2
  <2>3. CASE k > p + 1 /\ j < p + 1
    <3>1. /\ Q[j] = R[j] /\ R[j].base < e.base /\ j \in 1 .. n
          /\ Q[k] = R[k - 1] /\ R[k - 1].base > e.base /\ k - 1 \in 1 .. n
      BY <1>11, <2>3
    <3> QED BY <1>3, <1>4, <3>1
  <2>4. CASE k > p + 1 /\ j = p + 1
    <3>1. Q[j] = e /\ Q[k] = R[k - 1] /\ R[k - 1].base > e.base /\ k - 1 \in 1 .. n
      BY <1>11, <2>4
    <3> QED BY <1>3, <1>4, <3>1
  <2>5. CASE k > p + 1 /\ j > p + 1
    <3>1. j - 1 \in 1 .. n /\ k - 1 \in 1 .. n /\ Q[j] = R[j - 1] /\ Q[k] = R[k - 1] /\ j - 1 < k - 1
      BY <1>1, <1>8, <1>11, <2>5
    <3> QED BY <1>5, <3>1
  <2> QED BY <1>1, <1>8, <2>1, <2>2, <2>3, <2>4, <2>5
<1>13. \A i \in 1 .. n : /\ SlotPtr(slot_pools[i], 0)' = SlotPtr(slot_pools[i], 0)
                         /\ SlotEnd(slot_pools[i])' = SlotEnd(slot_pools[i])
                         /\ s[i] = slot_pools[i]
  <2> TAKE i \in 1 .. n
  <2>1. slot_size'[slot_pools[i]] = slot_size[slot_pools[i]] /\ s[i] = slot_pools[i]
    BY <1>2 DEF n
  <2>2. slot_pools'[i] = slot_pools[i]
    BY <2>1 DEF s
  <2> QED BY <2>1, <2>2 DEF SlotPtr, SlotEnd
<1>14. ASSUME NEW k \in 1 .. n + 1
       PROVE  /\ Q[k].idx \in 1 .. n + 1
              /\ Q[k].base = SlotPtrIn(s[Q[k].idx], slot_size'[s[Q[k].idx]], 0)
              /\ Q[k].end = SlotPtrIn(s[Q[k].idx], slot_size'[s[Q[k].idx]],
                                      SlotCount(slot_size'[s[Q[k].idx]]))
  <2>1. ASSUME NEW m \in 1 .. n
        PROVE  /\ R[m].idx \in 1 .. n
               /\ R[m].base = SlotPtrIn(s[R[m].idx], slot_size'[s[R[m].idx]], 0)
               /\ R[m].end = SlotPtrIn(s[R[m].idx], slot_size'[s[R[m].idx]],
                                       SlotCount(slot_size'[s[R[m].idx]]))
    <3>1. /\ R[m].idx \in 1 .. n
          /\ R[m].base = SlotPtr(slot_pools[R[m].idx], 0)
          /\ R[m].end = SlotEnd(slot_pools[R[m].idx])
      BY <1>1 DEF IndexOf, R, n
    <3>2. s[R[m].idx] = slot_pools[R[m].idx] /\ slot_size'[slot_pools[R[m].idx]] = slot_size[slot_pools[R[m].idx]]
      BY <1>2, <3>1 DEF n
    <3> QED BY <3>1, <3>2 DEF SlotPtr, SlotEnd
  <2>2. CASE k < p + 1
    <3>1. k \in 1 .. n /\ Q[k] = R[k]
      BY <1>11, <2>2
    <3> QED BY <1>1, <2>1, <3>1
  <2>3. CASE k = p + 1
    <3>1. Q[k] = e
      BY <1>11, <2>3
    <3> QED BY <1>1, <1>2, <1>7, <3>1
  <2>4. CASE k > p + 1
    <3>1. k - 1 \in 1 .. n /\ Q[k] = R[k - 1]
      BY <1>11, <2>4
    <3> QED BY <1>1, <2>1, <3>1
  <2> QED BY <1>1, <1>8, <2>2, <2>3, <2>4
<1>15. ASSUME NEW i \in 1 .. n + 1
       PROVE  \E k \in 1 .. n + 1 : Q[k].idx = i
  <2>1. CASE i = n + 1
    BY <1>1, <1>7, <1>8, <1>11, <2>1
  <2>2. CASE i # n + 1
    <3>1. i \in 1 .. n
      BY <1>1, <2>2
    <3>2. PICK k \in 1 .. n : R[k].idx = i
      BY <1>1, <3>1 DEF IndexOf, R, n
    <3>3. CASE k < p + 1
      BY <1>1, <1>11, <3>2, <3>3
    <3>4. CASE ~(k < p + 1)
      <4>1. k + 1 \in 1 .. n + 1 /\ k + 1 > p + 1 /\ (k + 1) - 1 = k
        BY <1>1, <1>8, <3>4
      <4>2. Q[k + 1] = R[k]
        BY <1>11, <4>1
      <4> QED BY <3>2, <4>1, <4>2
    <3> QED BY <3>3, <3>4
  <2> QED BY <2>1, <2>2
<1>16. IndexOf(sorted_ranges, slot_pools)'
  BY <1>2, <1>9, <1>10, <1>12, <1>14, <1>15 DEF IndexOf, SlotPtr, SlotEnd, s
<1> QED BY <1>2, <1>9, <1>10, <1>16 DEF s, n

\* The rebuilt index is the index of the vector it is built from.
LEMMA RebuiltIndex ==
  ASSUME TypeOK, NEW s \in Seq(Buffer), NoDup(s), \A i \in 1 .. Len(s) : s[i] \in Held,
         SlotsUnique
  PROVE  IndexOf(RebuiltRanges(s), s) /\ RebuiltRanges(s) \in Seq(IndexEntry)
<1> DEFINE n == Len(s)
           B == Bases(s)
           N == Cardinality(B)
           base(i) == SlotPtr(s[i], 0)
           pool(k) == CHOOSE i \in DOMAIN s : base(i) = Nth(B, k)
           f == [i \in 1 .. n |-> base(i)]
           R == RebuiltRanges(s)
<1>1. n \in Nat /\ DOMAIN s = 1 .. n /\ \A i \in 1 .. n : s[i] \in Buffer
  BY LenProperties, ElementOfSeq
<1>2. ASSUME NEW i \in 1 .. n
      PROVE  /\ s[i] \in Held /\ s[i] \in Buffer
             /\ base(i) \in Nat /\ SlotEnd(s[i]) \in Nat
             /\ 0 < SlotCount(slot_size[s[i]])
  <2>1. s[i] \in Held /\ s[i] \in Buffer /\ slot_size[s[i]] \in SIZE_CLASSES
    BY HeldClass
  <2>2. SlotCount(slot_size[s[i]]) \in Nat /\ SlotCount(slot_size[s[i]]) >= 1
    BY <2>1, Layout
  <2>3. SlotPtr(s[i], 0) \in Nat /\ SlotEnd(s[i]) \in Nat
    BY <2>1, <2>2, Slots DEF SlotPtr, SlotEnd
  <2> QED BY <2>1, <2>2, <2>3
<1>3. \A i, j \in 1 .. n : base(i) = base(j) => i = j
  <2> SUFFICES ASSUME NEW i \in 1 .. n, NEW j \in 1 .. n, base(i) = base(j)
               PROVE  i = j
    OBVIOUS
  <2>1. s[i] = s[j]
    BY <1>2 DEF SlotsUnique
  <2> QED BY <2>1 DEF NoDup
<1>4. B = {base(i) : i \in 1 .. n} /\ B \in SUBSET Nat
  BY <1>1, <1>2 DEF Bases
<1> HIDE DEF base, n
<1>5. IsFiniteSet(B) /\ N = n
  <2>1. f \in [1 .. n -> B] /\ \A y \in B : \E x \in 1 .. n : f[x] = y
    BY <1>4
  <2>2. f \in Surjection(1 .. n, B)
    BY <2>1, Fun_IsSurj
  <2>3. f \in Injection(1 .. n, B)
    BY <2>1, <1>3, Fun_IsInj
  <2> QED BY <1>1, <2>2, <2>3, CountUpTo, FS_Surjection DEF n
<1> HIDE DEF B
<1>6. /\ \A k \in 1 .. n : Nth(B, k) \in B
      /\ \A v \in B : \E k \in 1 .. n : Nth(B, k) = v
      /\ \A j, k \in 1 .. n : j < k => Nth(B, j) < Nth(B, k)
  BY <1>4, <1>5, NthFacts
<1>7. \A k \in 1 .. n : pool(k) \in 1 .. n /\ base(pool(k)) = Nth(B, k)
  <2> TAKE k \in 1 .. n
  <2>1. \E i \in DOMAIN s : base(i) = Nth(B, k)
    BY <1>1, <1>4, <1>6
  <2> QED BY <1>1, <2>1
<1>8. R = [k \in 1 .. n |-> [base |-> Nth(B, k), end |-> SlotEnd(s[pool(k)]), idx |-> pool(k)]]
  BY <1>5 DEF RebuiltRanges, B, base
<1> HIDE DEF pool, R
<1>9. \A k \in 1 .. n : R[k].base = Nth(B, k) /\ R[k].end = SlotEnd(s[pool(k)]) /\ R[k].idx = pool(k)
  BY <1>8
<1>10. R \in Seq(IndexEntry) /\ Len(R) = n
  <2>1. \A k \in 1 .. n : R[k] \in IndexEntry
    <3> TAKE k \in 1 .. n
    <3>1. pool(k) \in 1 .. n /\ Nth(B, k) \in B
      BY <1>6, <1>7
    <3>2. SlotEnd(s[pool(k)]) \in Nat
      BY <1>2, <3>1
    <3>3. Nth(B, k) \in Nat
      BY <1>4, <3>1
    <3> QED BY <1>8, <3>1, <3>2, <3>3 DEF IndexEntry
  <2>2. R \in [1 .. n -> IndexEntry]
    BY <1>8, <2>1
  <2> QED BY <1>1, <2>2, IsASeq, LenProperties
<1>11. \A j, k \in 1 .. n : j < k => R[j].base < R[k].base
  BY <1>6, <1>9
<1>12. \A k \in 1 .. n : /\ R[k].idx \in 1 .. n /\ R[k].base = SlotPtr(s[R[k].idx], 0)
                         /\ R[k].end = SlotEnd(s[R[k].idx])
  BY <1>7, <1>9 DEF base
<1>13. \A i \in 1 .. n : \E k \in 1 .. n : R[k].idx = i
  <2> TAKE i \in 1 .. n
  <2>1. base(i) \in B
    BY <1>4
  <2>2. PICK k \in 1 .. n : Nth(B, k) = base(i)
    BY <1>6, <2>1
  <2>3. pool(k) = i
    BY <1>3, <1>7, <2>2
  <2> QED BY <1>9, <2>3
<1>14. IndexOf(R, s)
  BY <1>10, <1>11, <1>12, <1>13 DEF IndexOf, n
<1> QED BY <1>10, <1>14 DEF R

-----------------------------------------------------------------------------
(* The steps.                                                              *)

\* An allocator without pools is well formed.
LEMMA InitInv == Init => IInv
<1> SUFFICES ASSUME Init PROVE IInv
  OBVIOUS
<1>1. /\ slot_pools = <<>> /\ recycled_pools = <<>> /\ sorted_ranges = <<>> /\ given = {}
      /\ slot_size = [b \in Buffer |-> 0] /\ current_heap_size = 0
  BY DEF Init
<1>2. Held = {}
  BY <1>1 DEF Held
<1>3. TypeOK
  BY SizesAssumption DEF Init, TypeOK, NoIndex
<1>4. VectorsInv
  BY <1>1, <1>2, SizesAssumption DEF VectorsInv, NoDup, Contains
<1>5. PoolsInv /\ ApartInv
  BY <1>2 DEF PoolsInv, ApartInv
<1>6. ParkedInv
  BY <1>1 DEF ParkedInv
<1>7. GivenInv
  BY <1>1, <1>2 DEF GivenInv
<1>8. IndexOf(sorted_ranges, slot_pools)
  BY <1>1 DEF IndexOf
<1>9. HeapInv
  <2>1. WordsOf(Held) = {}
    BY <1>2 DEF WordsOf
  <2> QED BY <1>1, <2>1, FS_EmptySet DEF HeapInv, TotalSize
<1> QED BY <1>3, <1>4, <1>5, <1>6, <1>7, <1>8, <1>9 DEF IInv

\* Where no buffer comes or goes, the buffers stay apart and the heap size right.
LEMMA SameHeap ==
  ASSUME ApartInv, HeapInv, UNCHANGED <<slot_size, current_heap_size>>
  PROVE  ApartInv' /\ HeapInv' /\ Held' = Held
BY DEF ApartInv, HeapInv, Held, WordsOf, TotalSize

\* A pool of the vector has a class, and the vectors' pools are those held.
LEMMA VectorFacts ==
  ASSUME TypeOK, VectorsInv
  PROVE  /\ Len(slot_pools) \in Nat /\ DOMAIN slot_pools = 1 .. Len(slot_pools)
         /\ Len(recycled_pools) \in Nat /\ DOMAIN recycled_pools = 1 .. Len(recycled_pools)
         /\ \A i \in 1 .. Len(slot_pools) :
              slot_pools[i] \in Held /\ Contains(slot_pools, slot_pools[i])
         /\ \A j \in 1 .. Len(recycled_pools) :
              recycled_pools[j] \in Held /\ Contains(recycled_pools, recycled_pools[j])
<1>1. /\ slot_pools \in Seq(Buffer) /\ recycled_pools \in Seq(Buffer)
  BY DEF TypeOK
<1>2. /\ Len(slot_pools) \in Nat /\ DOMAIN slot_pools = 1 .. Len(slot_pools)
      /\ Len(recycled_pools) \in Nat /\ DOMAIN recycled_pools = 1 .. Len(recycled_pools)
  BY <1>1, LenProperties
<1>3. ASSUME NEW i \in 1 .. Len(slot_pools)
      PROVE  slot_pools[i] \in Held /\ Contains(slot_pools, slot_pools[i])
  <2>1. slot_pools[i] \in Buffer
    BY <1>1, ElementOfSeq
  <2>2. Contains(slot_pools, slot_pools[i])
    BY DEF Contains
  <2> QED BY <2>1, <2>2 DEF VectorsInv
<1>4. ASSUME NEW i \in 1 .. Len(recycled_pools)
      PROVE  recycled_pools[i] \in Held /\ Contains(recycled_pools, recycled_pools[i])
  <2>1. recycled_pools[i] \in Buffer
    BY <1>1, ElementOfSeq
  <2>2. Contains(recycled_pools, recycled_pools[i])
    BY DEF Contains
  <2> QED BY <2>1, <2>2 DEF VectorsInv
<1> QED BY <1>2, <1>3, <1>4

\* The client is given an item.
LEMMA GivenType ==
  ASSUME TypeOK, NEW item \in Item, NEW b \in Buffer, NEW ptr \in Nat, Give(item, b, ptr)
  PROVE  given' \subseteq [ptr : Nat, item : Item, pool : Buffer]
BY DEF TypeOK, Give

\* The pool the search finds is one of the class with room.
LEMMA RoomyFacts ==
  ASSUME TypeOK, VectorsInv, NEW c, Roomy(c) # {}
  PROVE  LET i == IF alloc_cache[c] \in Roomy(c) THEN alloc_cache[c] ELSE Max(Roomy(c))
         IN i \in 1 .. Len(slot_pools) /\ slot_size[slot_pools[i]] = c /\ ~Full(slot_pools[i])
<1> DEFINE R == Roomy(c)
<1>1. Len(slot_pools) \in Nat /\ DOMAIN slot_pools = 1 .. Len(slot_pools)
  BY VectorFacts
<1>2. \A i \in R : /\ i \in 1 .. Len(slot_pools) /\ slot_size[slot_pools[i]] = c
                   /\ ~Full(slot_pools[i])
  BY <1>1 DEF Roomy
<1> HIDE DEF R
<1>3. R \in SUBSET Nat /\ R # {} /\ \A i \in R : i <= Len(slot_pools)
  BY <1>1, <1>2 DEF R
<1>4. Max(R) \in R
  BY <1>1, <1>3, MaxFacts
<1> QED BY <1>2, <1>4 DEF R

\* A pool with room gives the client a slot that is not in use.
LEMMA SlotGiven ==
  ASSUME TypeOK, VectorsInv, PoolsInv, GivenInv, ApartInv, HeapInv,
         NEW item \in Item, NEW b \in Held, ~Full(b), item.size <= slot_size[b],
         AllocSlot(b), Give(item, b, NextSlot(b)),
         UNCHANGED <<slot_size, current_heap_size>>,
         Contains(slot_pools, b)',
         \A a \in Buffer : Contains(slot_pools, a) => Contains(slot_pools, a)',
         slot_pools' \in Seq(Buffer), recycled_pools' \in Seq(Buffer),
         sorted_ranges' \in Seq(IndexEntry), free_cache' \in Nat,
         alloc_cache' \in [SIZE_CLASSES -> Nat]
  PROVE  /\ TypeOK' /\ PoolsInv' /\ GivenInv' /\ ApartInv' /\ HeapInv' /\ Held' = Held
         /\ \A a \in Buffer : a # b => bump'[a] = bump[a]
<1>1. b \in Buffer /\ slot_size[b] \in SIZE_CLASSES /\ PoolInv(b)
  BY HeldClass DEF PoolsInv
<1>2. slot_size' = slot_size
  OBVIOUS
<1>3. /\ PoolInv(b)'
      /\ \E k \in Nat : /\ k < SlotCount(slot_size[b]) /\ k \notin bitmap[b]
                        /\ NextSlot(b) = SlotPtr(b, k)
                        /\ bitmap' = [bitmap EXCEPT ![b] = @ \cup {k}]
      /\ bump' \in [Buffer -> Nat] /\ free_list' \in [Buffer -> Seq(Nat)]
      /\ bitmap' \in [Buffer -> SUBSET Nat] /\ live' \in [Buffer -> Nat]
      /\ \A a \in Buffer : a # b => /\ bump'[a] = bump[a] /\ free_list'[a] = free_list[a]
                                    /\ bitmap'[a] = bitmap[a] /\ live'[a] = live[a]
  BY <1>1, <1>2, AllocSlotPool
<1>4. PICK k \in Nat : /\ k < SlotCount(slot_size[b]) /\ k \notin bitmap[b]
                       /\ NextSlot(b) = SlotPtr(b, k)
                       /\ bitmap' = [bitmap EXCEPT ![b] = @ \cup {k}]
  BY <1>3
<1>5. SlotPtr(b, k)' = SlotPtr(b, k)
  BY <1>2 DEF SlotPtr
<1>6. SlotPtr(b, k) \in Nat
  BY <1>1, Slots DEF SlotPtr
<1>7. PICK ptr \in Nat : ptr = SlotPtr(b, k)
  BY <1>6
<1>8. Give(item, b, ptr)
  BY <1>4, <1>7
<1>9. TypeOK'
  <2>1. given' \subseteq [ptr : Nat, item : Item, pool : Buffer]
    BY <1>1, <1>8, GivenType
  <2> QED BY <1>2, <1>3, <2>1 DEF TypeOK
<1>10. ApartInv' /\ HeapInv' /\ Held' = Held
  BY SameHeap
<1>11. PoolsInv'
  <2>1. ASSUME NEW a \in Held PROVE PoolInv(a)'
    <3>1. CASE a = b
      BY <1>3, <3>1
    <3>2. CASE a # b
      <4>1. a \in Buffer /\ PoolInv(a)
        BY DEF Held, PoolsInv
      <4> QED BY <1>2, <1>3, <3>2, <4>1, SamePool
    <3> QED BY <3>1, <3>2
  <2> QED BY <1>10, <2>1 DEF PoolsInv
<1>12. GivenInv'
  <2>1. bitmap'[b] = bitmap[b] \cup {k} /\ \A a \in Held : a # b => bitmap'[a] = bitmap[a]
    BY <1>1, <1>3, <1>4 DEF TypeOK, Held
  <2>2. Held' = Held \cup {b}
    BY <1>10
  <2>3. k < SlotCount(slot_size'[b]) /\ item.size <= slot_size'[b] /\ k \notin bitmap[b]
    BY <1>2, <1>4
  <2>4. ptr = SlotPtr(b, k)'
    BY <1>5, <1>7
  <2>5. bitmap'[b] = IF b \in Held THEN bitmap[b] \cup {k} ELSE {k}
    BY <2>1
  <2>6. \A a \in Held : slot_size'[a] = slot_size[a] /\ (a # b => bitmap'[a] = bitmap[a])
    BY <1>2, <2>1
  <2> QED BY <1>1, <1>8, <1>9, <1>10, <1>11, <2>2, <2>3, <2>4, <2>5, <2>6, GiveInv
<1> QED BY <1>3, <1>9, <1>10, <1>11, <1>12

\* An item goes into a pool with room.
LEMMA AllocFromPoolInv ==
  ASSUME IInv, NEW item \in Item, AllocFromPool(item)
  PROVE  IInv'
<1>1. /\ TypeOK /\ VectorsInv /\ PoolsInv /\ ParkedInv /\ GivenInv /\ ApartInv /\ HeapInv
      /\ IndexOf(sorted_ranges, slot_pools)
  BY DEF IInv
<1>2. PICK c \in SIZE_CLASSES : c = ClassFor(item)
  BY ClassFits
<1>3. item.size \in Nat /\ item.size <= c
  BY <1>2, ClassFits
<1>4. Roomy(c) # {}
  BY <1>2 DEF AllocFromPool
<1>5. PICK i \in 1 .. Len(slot_pools) :
         i = IF alloc_cache[c] \in Roomy(c) THEN alloc_cache[c] ELSE Max(Roomy(c))
  BY <1>1, <1>4, RoomyFacts
<1>6. slot_pools[i] \in Held /\ Contains(slot_pools, slot_pools[i]) /\ i \in Nat
  BY <1>1, VectorFacts
<1>7. PICK b \in Held : b = slot_pools[i]
  BY <1>6
<1>8. slot_size[b] = c /\ ~Full(b) /\ Contains(slot_pools, b) /\ b \in Buffer
  BY <1>1, <1>4, <1>5, <1>6, <1>7, RoomyFacts DEF Held
<1>9. /\ AllocSlot(b) /\ Give(item, b, NextSlot(b))
      /\ alloc_cache' = [alloc_cache EXCEPT ![c] = i]
      /\ UNCHANGED <<slot_size, slot_pools, recycled_pools, sorted_ranges, free_cache, current_heap_size>>
  BY <1>2, <1>5, <1>7 DEF AllocFromPool
<1>10. /\ slot_pools' \in Seq(Buffer) /\ recycled_pools' \in Seq(Buffer)
       /\ sorted_ranges' \in Seq(IndexEntry) /\ free_cache' \in Nat
       /\ alloc_cache' \in [SIZE_CLASSES -> Nat]
  BY <1>1, <1>6, <1>9 DEF TypeOK
<1>11. \A a : Contains(slot_pools, a)' = Contains(slot_pools, a)
  BY <1>9 DEF Contains
<1>12. /\ TypeOK' /\ PoolsInv' /\ GivenInv' /\ ApartInv' /\ HeapInv' /\ Held' = Held
       /\ \A a \in Buffer : a # b => bump'[a] = bump[a]
  BY <1>1, <1>3, <1>8, <1>9, <1>10, <1>11, SlotGiven
<1>13. VectorsInv'
  BY <1>1, <1>9, <1>12 DEF VectorsInv, NoDup, Contains
<1>14. ParkedInv'
  <2>1. ASSUME NEW j \in 1 .. Len(recycled_pools) PROVE bump'[recycled_pools[j]] = 0
    <3>1. recycled_pools[j] \in Buffer /\ Contains(recycled_pools, recycled_pools[j])
      BY <1>1, VectorFacts DEF Held
    <3>2. recycled_pools[j] # b
      BY <1>1, <1>8, <3>1 DEF VectorsInv
    <3> QED BY <1>1, <1>12, <3>1, <3>2 DEF ParkedInv
  <2> QED BY <1>9, <2>1 DEF ParkedInv
<1>15. IndexOf(sorted_ranges, slot_pools)'
  BY <1>1, <1>9 DEF IndexOf, SlotPtr, SlotEnd
<1> QED BY <1>12, <1>13, <1>14, <1>15 DEF IInv

\* An item goes into a parked pool, which leaves the parked ones for the others.
LEMMA AllocRecycledInv ==
  ASSUME IInv, NEW item \in Item, AllocRecycled(item)
  PROVE  IInv'
<1>1. /\ TypeOK /\ VectorsInv /\ PoolsInv /\ ParkedInv /\ GivenInv /\ ApartInv /\ HeapInv
      /\ IndexOf(sorted_ranges, slot_pools)
  BY DEF IInv
<1>2. PICK c \in SIZE_CLASSES : c = ClassFor(item)
  BY ClassFits
<1>3. item.size \in Nat /\ item.size <= c
  BY <1>2, ClassFits
<1>4. PICK pos \in 1 .. Len(recycled_pools) :
         pos = Max(Parked(c)) /\ slot_size[recycled_pools[pos]] = c
  <2>1. Parked(c) # {}
    BY <1>2 DEF AllocRecycled
  <2>2. Len(recycled_pools) \in Nat /\ DOMAIN recycled_pools = 1 .. Len(recycled_pools)
    BY <1>1, VectorFacts
  <2>3. Parked(c) \in SUBSET Nat /\ \A j \in Parked(c) : j <= Len(recycled_pools)
    BY <2>2 DEF Parked
  <2>4. Max(Parked(c)) \in Parked(c)
    BY <2>1, <2>2, <2>3, MaxFacts
  <2> QED BY <2>2, <2>4 DEF Parked
<1>5. recycled_pools[pos] \in Held /\ Contains(recycled_pools, recycled_pools[pos])
  BY <1>1, VectorFacts
<1>6. PICK b \in Held : b = recycled_pools[pos]
  BY <1>5
<1>7. b \in Buffer /\ slot_size[b] = c /\ Contains(recycled_pools, b) /\ ~Contains(slot_pools, b)
  BY <1>1, <1>4, <1>5, <1>6 DEF VectorsInv, Held
<1>8. /\ recycled_pools' = SwapRemove(recycled_pools, pos)
      /\ AddPool(b, c) /\ AllocSlot(b) /\ Give(item, b, NextSlot(b))
      /\ slot_size' = slot_size /\ current_heap_size' = current_heap_size
  BY <1>2, <1>4, <1>6 DEF AllocRecycled
<1>9. ~Full(b)
  <2>1. bump[b] = 0
    BY <1>1, <1>6 DEF ParkedInv
  <2>2. SlotCount(c) \in Nat /\ SlotCount(c) >= 1
    BY Layout
  <2> QED BY <1>7, <2>1, <2>2 DEF Full
<1>10. /\ IndexOf(sorted_ranges, slot_pools)'
       /\ sorted_ranges' \in Seq(IndexEntry) /\ slot_pools' \in Seq(Buffer)
       /\ Len(slot_pools') = Len(slot_pools) + 1
       /\ slot_pools'[Len(slot_pools) + 1] = b
       /\ \A i \in 1 .. Len(slot_pools) : slot_pools'[i] = slot_pools[i]
  <2>1. ASSUME NEW i \in 1 .. Len(slot_pools)
        PROVE  /\ slot_size'[slot_pools[i]] = slot_size[slot_pools[i]]
               /\ SlotPtr(slot_pools[i], 0) # SlotPtrIn(b, c, 0)
    <3>1. PICK a \in Held : a = slot_pools[i] /\ a # b
      BY <1>1, <1>7, VectorFacts
    <3>2. a \in Buffer /\ slot_size[a] \in SIZE_CLASSES
      BY <1>1, HeldClass
    <3>3. /\ SlotCount(slot_size[a]) \in Nat /\ 0 < SlotCount(slot_size[a])
          /\ SlotCount(slot_size[b]) \in Nat /\ 0 < SlotCount(slot_size[b])
      BY <1>7, <3>2, Layout
    <3>4. SlotPtr(a, 0) # SlotPtr(b, 0)
      BY <1>1, <3>1, <3>3, SlotUnique
    <3> QED BY <1>7, <1>8, <3>1, <3>4 DEF SlotPtr
  <2> QED BY <1>1, <1>7, <1>8, <2>1, AddPoolIndex
<1>11. /\ Len(slot_pools) \in Nat
       /\ \A a : Contains(slot_pools, a)' <=> Contains(slot_pools, a) \/ a = b
       /\ NoDup(slot_pools)'
  <2>1. Len(slot_pools) \in Nat /\ NoDup(slot_pools)
    BY <1>1, VectorFacts DEF VectorsInv
  <2>2. /\ \A a : Contains(slot_pools', a) <=> Contains(slot_pools, a) \/ a = b
        /\ NoDup(slot_pools')
    BY <1>7, <1>10, <2>1, PushedSet
  <2> QED BY <2>1, <2>2 DEF Contains, NoDup
<1>12. /\ \A a : Contains(recycled_pools, a)' <=> Contains(recycled_pools, a) /\ a # b
       /\ NoDup(recycled_pools)' /\ recycled_pools' \in Seq(Buffer)
       /\ Len(recycled_pools') <= max_recycled
  <2>1. recycled_pools \in Seq(Buffer) /\ NoDup(recycled_pools)
    BY <1>1 DEF TypeOK, VectorsInv
  <2>2. /\ \A a : Contains(recycled_pools', a) <=> Contains(recycled_pools, a) /\ a # b
        /\ NoDup(recycled_pools')
    BY <1>6, <1>8, <2>1, SwapRemovedSet
  <2>3. /\ recycled_pools' \in Seq(Buffer) /\ Len(recycled_pools') = Len(recycled_pools) - 1
    BY <1>8, <2>1, SwapRemoveFacts
  <2>4. Len(recycled_pools) \in Nat /\ Len(recycled_pools) <= max_recycled /\ max_recycled \in Nat
    BY <1>1, VectorFacts, SizesAssumption DEF VectorsInv
  <2>5. recycled_pools' \in Seq(Buffer) /\ Len(recycled_pools') <= max_recycled
    BY <2>3, <2>4
  <2> QED BY <2>2, <2>5 DEF Contains, NoDup
<1>13. free_cache' \in Nat /\ alloc_cache' \in [SIZE_CLASSES -> Nat]
  BY <1>1, <1>8, <1>11 DEF TypeOK, AddPool
<1>14. /\ TypeOK' /\ PoolsInv' /\ GivenInv' /\ ApartInv' /\ HeapInv' /\ Held' = Held
       /\ \A a \in Buffer : a # b => bump'[a] = bump[a]
  BY <1>1, <1>3, <1>7, <1>8, <1>9, <1>10, <1>11, <1>12, <1>13, SlotGiven
<1>15. VectorsInv'
  <2>1. \A a \in Buffer : a \in Held' <=> Contains(slot_pools, a)' \/ Contains(recycled_pools, a)'
    BY <1>1, <1>7, <1>11, <1>12, <1>14 DEF VectorsInv
  <2>2. \A a \in Buffer : ~(Contains(slot_pools, a)' /\ Contains(recycled_pools, a)')
    BY <1>1, <1>7, <1>11, <1>12 DEF VectorsInv
  <2> QED BY <1>11, <1>12, <2>1, <2>2 DEF VectorsInv
<1>16. ParkedInv'
  <2>1. ASSUME NEW j \in 1 .. Len(recycled_pools') PROVE bump'[recycled_pools'[j]] = 0
    <3>1. PICK a : a = recycled_pools'[j]
      OBVIOUS
    <3>2. Contains(recycled_pools, a)' /\ a \in Buffer
      BY <1>12, <3>1, ElementOfSeq DEF Contains
    <3>3. Contains(recycled_pools, a) /\ a # b
      BY <1>12, <3>2
    <3>4. bump[a] = 0
      BY <1>1, <3>3 DEF ParkedInv, Contains
    <3> QED BY <1>14, <3>1, <3>2, <3>3, <3>4
  <2> QED BY <2>1 DEF ParkedInv
<1> QED BY <1>10, <1>14, <1>15, <1>16 DEF IInv

\* Buffers that do not overlap have their first slots at different addresses.
LEMMA BasesApart ==
  ASSUME NEW a \in Buffer, NEW b \in Buffer, NEW c \in SIZE_CLASSES, NEW d \in SIZE_CLASSES,
         ~Overlap(b, c, a, d)
  PROVE  SlotPtrIn(a, d, 0) # SlotPtrIn(b, c, 0)
<1>1. /\ c \in Nat \ {0} /\ d \in Nat \ {0} /\ BufferSize(c) \in Nat /\ BufferSize(d) \in Nat
      /\ a \in Nat /\ b \in Nat
  BY BufferSizeFacts, SizesAssumption
<1>2. /\ BitmapWords(c) \in Nat /\ BitmapWords(c) < BufferSize(c)
      /\ BitmapWords(d) \in Nat /\ BitmapWords(d) < BufferSize(d)
  <2>1. ASSUME NEW e \in SIZE_CLASSES PROVE BitmapWords(e) \in Nat /\ BitmapWords(e) < BufferSize(e)
    <3>1. /\ e \in Nat \ {0} /\ BufferSize(e) \in Nat
          /\ BitmapWords(e) \in Nat /\ SlotCount(e) \in Nat /\ SlotCount(e) >= 1
          /\ BitmapWords(e) + SlotCount(e) * e <= BufferSize(e)
      BY BufferSizeFacts, Layout
    <3>2. SlotCount(e) * e >= 1 /\ SlotCount(e) * e \in Nat
      BY <3>1
    <3> QED BY <3>1, <3>2
  <2> QED BY <2>1
<1>3. SlotPtrIn(a, d, 0) = a + BitmapWords(d) /\ SlotPtrIn(b, c, 0) = b + BitmapWords(c)
  BY Slots
<1> QED BY <1>1, <1>2, <1>3 DEF Overlap

\* A buffer from the OS joins the pools.
LEMMA AllocFreshInv ==
  ASSUME IInv, NEW item \in Item, NEW b \in Buffer, AllocFresh(item, b)
  PROVE  IInv'
<1>1. /\ TypeOK /\ VectorsInv /\ PoolsInv /\ ParkedInv /\ GivenInv /\ ApartInv /\ HeapInv
      /\ IndexOf(sorted_ranges, slot_pools)
  BY DEF IInv
<1>2. PICK c \in SIZE_CLASSES : c = ClassFor(item)
  BY ClassFits
<1>3. /\ item.size \in Nat /\ item.size <= c /\ c \in Nat \ {0} /\ BufferSize(c) \in Nat
      /\ SlotCount(c) \in Nat /\ SlotCount(c) >= 1
  BY <1>2, ClassFits, BufferSizeFacts, Layout
<1>4. /\ current_heap_size' = current_heap_size + BufferSize(c)
      /\ slot_size' = [slot_size EXCEPT ![b] = c]
      /\ bump' = [bump EXCEPT ![b] = 1]
      /\ free_list' = [free_list EXCEPT ![b] = <<>>]
      /\ bitmap' = [bitmap EXCEPT ![b] = {0}]
      /\ live' = [live EXCEPT ![b] = 1]
      /\ AddPool(b, c)
      /\ Give(item, b, SlotPtrIn(b, c, 0))
      /\ recycled_pools' = recycled_pools
  BY <1>2 DEF AllocFresh, Charged
<1>5. /\ slot_size[b] = 0 /\ b \notin Held
      /\ \A p \in Held : ~Overlap(b, c, p, slot_size[p])
  BY <1>2 DEF AllocFresh, FromOs, Held
<1>6. /\ slot_size'[b] = c /\ bump'[b] = 1 /\ free_list'[b] = <<>> /\ bitmap'[b] = {0} /\ live'[b] = 1
      /\ \A a \in Buffer : a # b =>
           /\ slot_size'[a] = slot_size[a] /\ bump'[a] = bump[a] /\ free_list'[a] = free_list[a]
           /\ bitmap'[a] = bitmap[a] /\ live'[a] = live[a]
  BY <1>1, <1>4 DEF TypeOK
<1>7. Held' = Held \cup {b} /\ \A a \in Held : a # b /\ a \in Buffer
  BY <1>3, <1>5, <1>6 DEF Held
<1>8. /\ IndexOf(sorted_ranges, slot_pools)'
      /\ sorted_ranges' \in Seq(IndexEntry) /\ slot_pools' \in Seq(Buffer)
      /\ Len(slot_pools') = Len(slot_pools) + 1
      /\ slot_pools'[Len(slot_pools) + 1] = b
      /\ \A i \in 1 .. Len(slot_pools) : slot_pools'[i] = slot_pools[i]
  <2>1. ASSUME NEW i \in 1 .. Len(slot_pools)
        PROVE  /\ slot_size'[slot_pools[i]] = slot_size[slot_pools[i]]
               /\ SlotPtr(slot_pools[i], 0) # SlotPtrIn(b, c, 0)
    <3>1. PICK a \in Held : a = slot_pools[i]
      BY <1>1, VectorFacts
    <3>2. a \in Buffer /\ slot_size[a] \in SIZE_CLASSES /\ ~Overlap(b, c, a, slot_size[a])
      BY <1>1, <1>5, HeldClass
    <3>3. SlotPtrIn(a, slot_size[a], 0) # SlotPtrIn(b, c, 0)
      BY <3>2, BasesApart
    <3> QED BY <1>6, <1>7, <3>1, <3>3 DEF SlotPtr
  <2> QED BY <1>1, <1>4, <1>6, <2>1, AddPoolIndex
<1>9. /\ Len(slot_pools) \in Nat
      /\ \A a : Contains(slot_pools, a)' <=> Contains(slot_pools, a) \/ a = b
      /\ NoDup(slot_pools)'
  <2>1. Len(slot_pools) \in Nat /\ NoDup(slot_pools) /\ ~Contains(slot_pools, b)
    BY <1>1, <1>5, VectorFacts DEF VectorsInv
  <2>2. /\ \A a : Contains(slot_pools', a) <=> Contains(slot_pools, a) \/ a = b
        /\ NoDup(slot_pools')
    BY <1>8, <2>1, PushedSet
  <2> QED BY <2>1, <2>2 DEF Contains, NoDup
<1>10. TypeOK'
  <2>1. slot_size' \in [Buffer -> SIZE_CLASSES \cup {0}] /\ bump' \in [Buffer -> Nat]
    BY <1>1, <1>4 DEF TypeOK
  <2>2. free_list' \in [Buffer -> Seq(Nat)]
    BY <1>1, <1>4 DEF TypeOK
  <2>3. bitmap' \in [Buffer -> SUBSET Nat] /\ live' \in [Buffer -> Nat]
    BY <1>1, <1>4 DEF TypeOK
  <2>4. free_cache' \in Nat /\ alloc_cache' \in [SIZE_CLASSES -> Nat]
    BY <1>1, <1>4, <1>9 DEF TypeOK, AddPool
  <2>5. current_heap_size' \in Nat /\ recycled_pools' \in Seq(Buffer)
    BY <1>1, <1>3, <1>4 DEF TypeOK
  <2>6. SlotPtrIn(b, c, 0) \in Nat
    BY Slots
  <2>7. given' \subseteq [ptr : Nat, item : Item, pool : Buffer]
    BY <1>1, <1>4, <2>6, GivenType
  <2> QED BY <1>8, <2>1, <2>2, <2>3, <2>4, <2>5, <2>7 DEF TypeOK
<1>11. ApartInv'
  <2> SUFFICES ASSUME NEW x \in Held', NEW y \in Held', x # y
               PROVE  ~Overlap(x, slot_size'[x], y, slot_size'[y])
    BY DEF ApartInv, Overlap
  <2>1. CASE x # b /\ y # b
    <3>1. x \in Held /\ y \in Held /\ slot_size'[x] = slot_size[x] /\ slot_size'[y] = slot_size[y]
      BY <1>6, <1>7, <2>1
    <3> QED BY <1>1, <3>1 DEF ApartInv
  <2>2. CASE x = b
    <3>1. y \in Held /\ slot_size'[y] = slot_size[y]
      BY <1>6, <1>7, <2>2
    <3> QED BY <1>5, <1>6, <2>2, <3>1
  <2>3. CASE y = b
    <3>1. x \in Held /\ slot_size'[x] = slot_size[x]
      BY <1>6, <1>7, <2>3
    <3>2. ~Overlap(b, c, x, slot_size[x])
      BY <1>5, <3>1
    <3> QED BY <1>6, <2>3, <3>1, <3>2 DEF Overlap
  <2> QED BY <2>1, <2>2, <2>3
<1>12. HeapInv'
  <2> DEFINE X == {b} \X (1 .. BufferSize(c))
  <2>1. WordsOf(Held)' = WordsOf(Held) \cup X
    <3>1. \A a \in Held : BufferSize(slot_size'[a]) = BufferSize(slot_size[a])
      BY <1>6, <1>7
    <3> QED BY <1>6, <1>7, <3>1 DEF WordsOf
  <2>2. WordsOf(Held) \cap X = {}
    BY <1>7 DEF WordsOf
  <2>3. IsFiniteSet(WordsOf(Held) \cup X)
        /\ Cardinality(WordsOf(Held) \cup X) = Cardinality(WordsOf(Held)) + BufferSize(c)
    BY <1>1, <1>3, <2>2, MoreWords DEF HeapInv
  <2> QED BY <1>1, <1>4, <2>1, <2>3 DEF HeapInv, TotalSize
<1>13. PoolsInv'
  <2>1. ASSUME NEW a \in Held PROVE PoolInv(a)'
    BY <1>1, <1>6, <1>7, SamePool DEF PoolsInv
  <2>2. PoolInv(b)'
    <3>1. Cardinality({0}) = 1
      BY FS_Singleton
    <3>2. Len(free_list'[b]) = 0 /\ NoDup(free_list'[b])
      BY <1>6 DEF NoDup
    <3> QED BY <1>3, <1>6, <3>1, <3>2 DEF PoolInv
  <2> QED BY <1>7, <2>1, <2>2 DEF PoolsInv
<1>14. VectorsInv'
  <2>1. \A a : Contains(recycled_pools, a)' = Contains(recycled_pools, a)
    BY <1>4 DEF Contains
  <2>2. \A a \in Buffer : a \in Held' <=> Contains(slot_pools, a)' \/ Contains(recycled_pools, a)'
    BY <1>1, <1>7, <1>9, <2>1 DEF VectorsInv
  <2>3. \A a \in Buffer : ~(Contains(slot_pools, a)' /\ Contains(recycled_pools, a)')
    BY <1>1, <1>5, <1>9, <2>1 DEF VectorsInv
  <2>4. NoDup(recycled_pools)' /\ Len(recycled_pools') <= max_recycled
    BY <1>1, <1>4 DEF VectorsInv, NoDup
  <2> QED BY <1>9, <2>2, <2>3, <2>4 DEF VectorsInv
<1>15. ParkedInv'
  <2>1. ASSUME NEW j \in 1 .. Len(recycled_pools) PROVE bump'[recycled_pools[j]] = 0
    BY <1>1, <1>6, <1>7, VectorFacts DEF ParkedInv
  <2> QED BY <1>4, <2>1 DEF ParkedInv
<1>16. GivenInv'
  <2>1. PICK ptr : ptr = SlotPtrIn(b, c, 0)
    OBVIOUS
  <2>2. ptr = SlotPtr(b, 0)'
    BY <1>6, <2>1 DEF SlotPtr
  <2>3. Give(item, b, ptr)
    BY <1>4, <2>1
  <2>4. PICK k \in Nat : k = 0
    OBVIOUS
  <2>5. /\ ptr = SlotPtr(b, k)' /\ k < SlotCount(slot_size'[b]) /\ item.size <= slot_size'[b]
        /\ bitmap'[b] = IF b \in Held THEN bitmap[b] \cup {k} ELSE {k}
        /\ b \in Held => k \notin bitmap[b]
    BY <1>3, <1>5, <1>6, <2>2, <2>4
  <2>6. \A a \in Held : slot_size'[a] = slot_size[a] /\ (a # b => bitmap'[a] = bitmap[a])
    BY <1>6, <1>7
  <2>7. Contains(slot_pools, b)' /\ \A a \in Buffer : Contains(slot_pools, a) => Contains(slot_pools, a)'
    BY <1>9
  <2> QED BY <1>1, <1>7, <1>10, <1>11, <1>13, <2>3, <2>5, <2>6, <2>7, GiveInv
<1> QED BY <1>8, <1>10, <1>11, <1>12, <1>13, <1>14, <1>15, <1>16 DEF IInv

\* A slot is its pool's, and no other pool owns its address.
LEMMA OwnsSlot ==
  ASSUME TypeOK, NEW b \in Held, NEW k \in Nat, k < SlotCount(slot_size[b])
  PROVE  SlotPtr(b, k) \in Nat /\ Owns(b, SlotPtr(b, k))
<1>1. b \in Buffer /\ slot_size[b] \in SIZE_CLASSES /\ slot_size[b] \in Nat \ {0}
  BY HeldClass
<1>2. PICK c \in SIZE_CLASSES : c = slot_size[b] /\ c \in Nat \ {0}
  BY <1>1
<1>3. SlotCount(c) \in Nat
  BY Layout
<1>4. /\ SlotPtrIn(b, c, k) \in Nat
      /\ SlotPtrIn(b, c, 0) <= SlotPtrIn(b, c, k)
      /\ SlotPtrIn(b, c, k) + c <= SlotPtrIn(b, c, SlotCount(c))
  BY <1>1, <1>2, Slots
<1>5. SlotPtrIn(b, c, SlotCount(c)) \in Nat
  BY <1>1, <1>3, Slots
<1> QED BY <1>2, <1>4, <1>5 DEF Owns, SlotPtr, SlotEnd

LEMMA OwnsUnique ==
  ASSUME TypeOK, ApartInv, NEW a \in Held, NEW b \in Held, NEW ptr \in Nat,
         Owns(a, ptr), Owns(b, ptr)
  PROVE  a = b
<1>1. ASSUME NEW x \in Held, Owns(x, ptr)
      PROVE  x \in Nat /\ BufferSize(slot_size[x]) \in Nat
             /\ x <= ptr /\ ptr < x + BufferSize(slot_size[x])
  <2>1. x \in Buffer /\ slot_size[x] \in SIZE_CLASSES
    BY HeldClass
  <2>2. PICK c \in SIZE_CLASSES : c = slot_size[x]
    BY <2>1
  <2>3. BufferSize(c) \in Nat /\ BitmapWords(c) \in Nat /\ SlotCount(c) \in Nat
    BY BufferSizeFacts, Layout
  <2>4. /\ x \in Nat /\ SlotPtrIn(x, c, 0) = x + BitmapWords(c)
        /\ SlotPtrIn(x, c, SlotCount(c)) <= x + BufferSize(c)
    BY <2>1, Slots
  <2>5. SlotPtrIn(x, c, SlotCount(c)) \in Nat
    BY <2>1, <2>3, Slots
  <2>6. SlotPtrIn(x, c, 0) <= ptr /\ ptr < SlotPtrIn(x, c, SlotCount(c))
    BY <1>1, <2>2 DEF Owns, SlotPtr, SlotEnd
  <2> QED BY <2>2, <2>3, <2>4, <2>5, <2>6
<1>2. Overlap(a, slot_size[a], b, slot_size[b])
  <2>1. /\ a \in Nat /\ BufferSize(slot_size[a]) \in Nat
        /\ a <= ptr /\ ptr < a + BufferSize(slot_size[a])
    BY <1>1
  <2>2. /\ b \in Nat /\ BufferSize(slot_size[b]) \in Nat
        /\ b <= ptr /\ ptr < b + BufferSize(slot_size[b])
    BY <1>1
  <2> QED BY <2>1, <2>2 DEF Overlap
<1> QED BY <1>2 DEF ApartInv

\* The pool of a slot is found, by the cache or in the index.
LEMMA PoolFound ==
  ASSUME TypeOK, VectorsInv, ApartInv, IndexOf(sorted_ranges, slot_pools),
         NEW i \in 1 .. Len(slot_pools), NEW b, b = slot_pools[i],
         NEW ptr, Owns(b, ptr), ptr \in Nat
  PROVE  PoolOf(ptr) \in 1 .. Len(slot_pools) /\ slot_pools[PoolOf(ptr)] = b
<1> DEFINE R == sorted_ranges
           J == {j \in DOMAIN R : R[j].base <= ptr}
           m == Cardinality(J)
<1>1. /\ Len(slot_pools) \in Nat /\ DOMAIN slot_pools = 1 .. Len(slot_pools)
      /\ \A j \in 1 .. Len(slot_pools) : slot_pools[j] \in Held /\ slot_pools[j] \in Buffer
  BY VectorFacts DEF Held
<1>2. b \in Held
  BY <1>1
<1>3. CASE CacheHits(ptr)
  <2>1. PICK a \in Held : a = slot_pools[free_cache] /\ Owns(a, ptr)
    BY <1>1, <1>3 DEF CacheHits
  <2>2. a = b
    BY <1>2, <2>1, OwnsUnique
  <2> QED BY <1>1, <1>3, <2>1, <2>2 DEF PoolOf, CacheHits
<1>4. CASE ~CacheHits(ptr)
  <2>1. /\ R \in Seq(IndexEntry) /\ Len(R) = Len(slot_pools) /\ DOMAIN R = 1 .. Len(slot_pools)
        /\ \A j \in 1 .. Len(slot_pools) : R[j] \in IndexEntry
    BY LenProperties, ElementOfSeq DEF TypeOK, IndexOf
  <2>2. \A j \in 1 .. Len(slot_pools) : R[j].base \in Nat
    BY <2>1 DEF IndexEntry
  <2>3. \A j, k \in 1 .. Len(slot_pools) : j < k => R[j].base < R[k].base
    BY <2>1 DEF IndexOf
  <2>4. \A k \in 1 .. Len(slot_pools) :
          /\ R[k].idx \in 1 .. Len(slot_pools)
          /\ R[k].base = SlotPtr(slot_pools[R[k].idx], 0)
          /\ R[k].end = SlotEnd(slot_pools[R[k].idx])
    BY <2>1 DEF IndexOf
  <2>5. PICK k0 \in 1 .. Len(slot_pools) : R[k0].idx = i
    BY <2>1 DEF IndexOf
  <2>6. PICK n \in Nat : n = Len(slot_pools)
    BY <1>1
  <2>7. R[k0].base = SlotPtr(b, 0) /\ R[k0].end = SlotEnd(b) /\ k0 \in 1 .. n
        /\ SlotPtr(b, 0) <= ptr /\ ptr < SlotEnd(b)
    BY <2>4, <2>5, <2>6 DEF Owns
  <2>8. J \in SUBSET (1 .. n) /\ k0 \in J
    BY <2>1, <2>6, <2>7
  <2>9. \A j \in J : \A x \in 1 .. j : x \in J
    <3> SUFFICES ASSUME NEW j \in J, NEW x \in 1 .. j, x # j PROVE x \in J
      OBVIOUS
    <3>1. x \in 1 .. n /\ j \in 1 .. n /\ x < j
      BY <2>8
    <3>2. R[x].base < R[j].base /\ R[j].base <= ptr /\ R[x].base \in Nat /\ R[j].base \in Nat
      BY <2>2, <2>3, <2>6, <3>1
    <3> QED BY <2>1, <2>6, <3>1, <3>2
  <2> HIDE DEF J
  <2>10. J = 1 .. m /\ m \in Nat
    BY <2>8, <2>9, DownClosed, Positions
  <2>11. m > 0 /\ m \in 1 .. n /\ m \in J /\ k0 <= m
    BY <2>8, <2>10
  <2>12. m = k0
    <3>1. SUFFICES ASSUME k0 < m PROVE FALSE
      BY <2>11, <2>7
    <3>2. PICK q \in 1 .. n : q = m /\ k0 < q /\ q \in J
      BY <2>11, <3>1
    <3>3. PICK a \in Held : a = slot_pools[R[q].idx] /\ R[q].base = SlotPtr(a, 0)
      BY <1>1, <2>4, <2>6, <3>2
    <3>4. R[k0].base < R[q].base /\ R[q].base <= ptr
      BY <2>3, <2>6, <2>7, <3>2 DEF J
    <3>5. slot_size[a] \in SIZE_CLASSES
      BY HeldClass
    <3>6. SlotCount(slot_size[a]) \in Nat /\ 0 < SlotCount(slot_size[a])
      BY <3>5, Layout
    <3>7. SlotPtr(a, 0) \in Nat /\ Owns(a, SlotPtr(a, 0))
      BY <3>6, OwnsSlot
    <3>8. slot_size[b] \in SIZE_CLASSES /\ b \in Buffer
      BY <1>2, HeldClass
    <3>9. SlotPtr(b, 0) \in Nat /\ SlotEnd(b) \in Nat
      BY <3>8, Layout, Slots DEF SlotPtr, SlotEnd
    <3>10. Owns(b, SlotPtr(a, 0))
      BY <2>7, <3>3, <3>4, <3>7, <3>9 DEF Owns
    <3>11. a = b
      BY <1>2, <3>7, <3>10, OwnsUnique
    <3> QED BY <2>7, <3>3, <3>4, <3>9, <3>11
  <2>13. FindPoolIdx(ptr) = i
    BY <2>5, <2>7, <2>11, <2>12 DEF FindPoolIdx, J
  <2> QED BY <1>4, <2>13 DEF PoolOf
<1> QED BY <1>3, <1>4

\* What a client has lies in a slot in use of a pool of the vector.
LEMMA GivenFacts ==
  ASSUME TypeOK, VectorsInv, PoolsInv, GivenInv, NEW g \in given
  PROVE  /\ g.pool \in Held /\ g.item \in Item /\ g.item.size <= slot_size[g.pool]
         /\ Contains(slot_pools, g.pool)
         /\ \E i \in 1 .. Len(slot_pools) : slot_pools[i] = g.pool
         /\ \E k \in bitmap[g.pool] : /\ k \in Nat /\ k < SlotCount(slot_size[g.pool])
                                      /\ g.ptr = SlotPtr(g.pool, k)
         /\ g.ptr \in Nat /\ Owns(g.pool, g.ptr)
<1>1. g.pool \in Buffer /\ Contains(slot_pools, g.pool) /\ g.item \in Item /\ g.item.size <= slot_size[g.pool]
  BY DEF GivenInv, TypeOK
<1>2. g.pool \in Held
  BY <1>1 DEF VectorsInv
<1>3. PICK k \in bitmap[g.pool] : g.ptr = SlotPtr(g.pool, k)
  BY DEF GivenInv
<1>4. k \in Nat /\ k < SlotCount(slot_size[g.pool])
  BY <1>2, BitFacts DEF PoolsInv
<1>5. g.ptr \in Nat /\ Owns(g.pool, g.ptr)
  BY <1>2, <1>3, <1>4, OwnsSlot
<1> QED BY <1>1, <1>2, <1>3, <1>4, <1>5 DEF Contains

\* A freed item leaves its slot to the next.
LEMMA FreeSlotInv ==
  ASSUME IInv, NEW g \in given, FreeSlot(g)
  PROVE  IInv'
<1>1. /\ TypeOK /\ VectorsInv /\ PoolsInv /\ ParkedInv /\ GivenInv /\ ApartInv /\ HeapInv
      /\ IndexOf(sorted_ranges, slot_pools)
  BY DEF IInv
<1>2. PICK b \in Held : b = g.pool
  BY <1>1, GivenFacts
<1>3. PICK k \in bitmap[b] : k \in Nat /\ g.ptr = SlotPtr(b, k)
  BY <1>1, <1>2, GivenFacts
<1>4. PICK i \in 1 .. Len(slot_pools) : slot_pools[i] = b
  BY <1>1, <1>2, GivenFacts
<1>5. PICK ptr \in Nat : ptr = g.ptr /\ Owns(b, ptr)
  BY <1>1, <1>2, GivenFacts
<1>6. PoolOf(ptr) \in 1 .. Len(slot_pools) /\ slot_pools[PoolOf(ptr)] = b
  BY <1>1, <1>4, <1>5, PoolFound
<1>7. /\ FreeInPool(b, SlotPtr(b, k))
      /\ free_cache' = PoolOf(ptr)
      /\ given' = given \ {g}
      /\ UNCHANGED <<slot_pools, recycled_pools, sorted_ranges, alloc_cache, current_heap_size>>
  BY <1>3, <1>5, <1>6 DEF FreeSlot
<1>8. PoolInv(b) /\ b \in Buffer /\ Contains(slot_pools, b)
  BY <1>1, <1>2, GivenFacts DEF PoolsInv, Held
<1>9. /\ PoolInv(b)'
      /\ bitmap' = [bitmap EXCEPT ![b] = @ \ {k}]
      /\ free_list' \in [Buffer -> Seq(Nat)]
      /\ bitmap' \in [Buffer -> SUBSET Nat] /\ live' \in [Buffer -> Nat]
      /\ \A a \in Buffer : a # b => /\ bump'[a] = bump[a] /\ free_list'[a] = free_list[a]
                                    /\ bitmap'[a] = bitmap[a] /\ live'[a] = live[a]
  BY <1>1, <1>7, <1>8, FreePool
<1>10. slot_size' = slot_size /\ bump' = bump
  BY <1>7 DEF FreeInPool
<1>11. TypeOK'
  <2>1. PoolOf(ptr) \in Nat
    BY <1>1, <1>6, VectorFacts
  <2>2. free_cache' \in Nat /\ given' \subseteq [ptr : Nat, item : Item, pool : Buffer]
    BY <1>1, <1>7, <2>1 DEF TypeOK
  <2> QED BY <1>1, <1>7, <1>9, <1>10, <2>2 DEF TypeOK
<1>12. ApartInv' /\ HeapInv' /\ Held' = Held
  BY <1>1, <1>7, <1>10, SameHeap
<1>13. PoolsInv'
  <2>1. ASSUME NEW a \in Held PROVE PoolInv(a)'
    <3>1. CASE a = b
      BY <1>9, <3>1
    <3>2. CASE a # b
      <4>1. a \in Buffer /\ PoolInv(a)
        BY <1>1 DEF Held, PoolsInv
      <4> QED BY <1>9, <1>10, <3>2, <4>1, SamePool
    <3> QED BY <3>1, <3>2
  <2> QED BY <1>12, <2>1 DEF PoolsInv
<1>14. VectorsInv'
  BY <1>1, <1>7, <1>12 DEF VectorsInv, NoDup, Contains
<1>15. ParkedInv'
  BY <1>1, <1>7, <1>10 DEF ParkedInv
<1>16. GivenInv'
  BY <1>1, <1>2, <1>3, <1>7, <1>9, <1>10, TakeBackInv
<1>17. IndexOf(sorted_ranges, slot_pools)'
  BY <1>1, <1>7, <1>10 DEF IndexOf, SlotPtr, SlotEnd
<1> QED BY <1>11, <1>12, <1>13, <1>14, <1>15, <1>16, <1>17 DEF IInv

\* An empty pool has no item and no bit set.
LEMMA EmptyFacts ==
  ASSUME TypeOK, NEW b \in Held, PoolInv(b)
  PROVE  b \in EmptyPools <=> bitmap[b] = {}
<1>1. b \in Buffer /\ IsFiniteSet(bitmap[b])
  BY BitFacts, HeldClass
<1>2. live[b] = Cardinality(bitmap[b])
  BY DEF PoolInv
<1> QED BY <1>1, <1>2, FS_EmptySet DEF EmptyPools

\* Empty pools are parked or leave, and the others are indexed anew.
LEMMA DropEmptyPoolsInv ==
  ASSUME IInv, DropEmptyPools
  PROVE  IInv'
<1>1. /\ TypeOK /\ VectorsInv /\ PoolsInv /\ ParkedInv /\ GivenInv /\ ApartInv /\ HeapInv
      /\ IndexOf(sorted_ranges, slot_pools)
  BY DEF IInv
<1>2. PICK empty : empty = Retain(slot_pools, EmptyPools)
  OBVIOUS
<1>3. PICK n : n = ParkedCount(Len(empty))
  OBVIOUS
<1>4. PICK u, v : u = SubSeq(empty, 1, n) /\ v = SubSeq(empty, n + 1, Len(empty))
  OBVIOUS
<1>5. PICK parked, released : parked = ToSet(u) /\ released = ToSet(v)
  OBVIOUS
<1>6. /\ slot_pools' = Retain(slot_pools, Buffer \ EmptyPools)
      /\ recycled_pools' = recycled_pools \o u
      /\ bump' = [b \in Buffer |-> IF b \in parked THEN 0 ELSE bump[b]]
      /\ free_list' = [b \in Buffer |-> IF b \in parked THEN <<>> ELSE free_list[b]]
      /\ bitmap' = [b \in Buffer |-> IF b \in parked THEN {} ELSE bitmap[b]]
      /\ slot_size' = [b \in Buffer |-> IF b \in released THEN 0 ELSE slot_size[b]]
      /\ current_heap_size' = current_heap_size - TotalSize(released)
      /\ free_cache' = NoIndex
      /\ alloc_cache' = [c \in SIZE_CLASSES |-> NoIndex]
      /\ sorted_ranges' = RebuiltRanges(slot_pools')
      /\ live' = live /\ given' = given
  BY <1>2, <1>3, <1>4, <1>5 DEF DropEmptyPools, ResetBump
<1>7. /\ slot_pools \in Seq(Buffer) /\ recycled_pools \in Seq(Buffer)
      /\ NoDup(slot_pools) /\ NoDup(recycled_pools)
  BY <1>1 DEF TypeOK, VectorsInv
<1>8. /\ empty \in Seq(Buffer) /\ NoDup(empty) /\ Len(empty) \in Nat
      /\ \A a : Contains(empty, a) <=> Contains(slot_pools, a) /\ a \in EmptyPools
  BY <1>2, <1>7, RetainedSet, LenProperties
<1>9. /\ slot_pools' \in Seq(Buffer) /\ NoDup(slot_pools')
      /\ \A a : Contains(slot_pools', a) <=> Contains(slot_pools, a) /\ a \in Buffer \ EmptyPools
  BY <1>6, <1>7, RetainedSet
<1>10. /\ n \in 0 .. Len(empty) /\ n + Len(recycled_pools) <= max_recycled
       /\ Len(recycled_pools) \in Nat
  <2>1. Len(recycled_pools) \in Nat /\ Len(recycled_pools) <= max_recycled /\ max_recycled \in Nat
    BY <1>1, VectorFacts, SizesAssumption DEF VectorsInv
  <2>2. PICK room \in Nat : room = max_recycled - Len(recycled_pools)
    BY <2>1
  <2>3. PICK M : M = {Len(empty), room}
    OBVIOUS
  <2>4. M \in SUBSET Nat /\ M # {}
    BY <1>8, <2>3
  <2>5. n = Min(M)
    BY <1>3, <2>2, <2>3 DEF ParkedCount
  <2>6. n \in M /\ \A x \in M : n <= x
    BY <2>4, <2>5, MinFacts
  <2> QED BY <1>8, <2>1, <2>2, <2>3, <2>6
<1>11. /\ u \in Seq(Buffer) /\ v \in Seq(Buffer) /\ Len(u) = n
       /\ \A a : Contains(empty, a) <=> Contains(u, a) \/ Contains(v, a)
       /\ NoDup(u) /\ NoDup(v) /\ \A a : ~(Contains(u, a) /\ Contains(v, a))
  BY <1>4, <1>8, <1>10, SplitSet
<1>12. /\ \A a : a \in parked <=> Contains(u, a)
       /\ \A a : a \in released <=> Contains(v, a)
  BY <1>5, <1>11, SetOfVector
<1>13. ASSUME NEW a, a \in parked \cup released
       PROVE  /\ a \in Held /\ a \in Buffer /\ a \in EmptyPools /\ bitmap[a] = {} /\ live[a] = 0
              /\ Contains(slot_pools, a) /\ ~Contains(recycled_pools, a)
  <2>1. Contains(slot_pools, a) /\ a \in EmptyPools
    BY <1>8, <1>11, <1>12, <1>13
  <2>2. a \in Buffer /\ live[a] = 0
    BY <2>1 DEF EmptyPools
  <2>3. a \in Held /\ ~Contains(recycled_pools, a)
    BY <1>1, <2>1, <2>2 DEF VectorsInv
  <2> QED BY <1>1, <2>1, <2>2, <2>3, EmptyFacts DEF PoolsInv
<1>14. \A a : ~(a \in parked /\ a \in released)
  BY <1>11, <1>12
<1>15. \A a \in Buffer :
         /\ slot_size'[a] = IF a \in released THEN 0 ELSE slot_size[a]
         /\ bump'[a] = IF a \in parked THEN 0 ELSE bump[a]
         /\ free_list'[a] = IF a \in parked THEN <<>> ELSE free_list[a]
         /\ bitmap'[a] = bitmap[a] /\ live'[a] = live[a]
  BY <1>6, <1>13
<1>16. Held' = Held \ released
  BY <1>15 DEF Held
<1>17. /\ \A a : Contains(recycled_pools', a) <=> Contains(recycled_pools, a) \/ a \in parked
       /\ NoDup(recycled_pools') /\ recycled_pools' \in Seq(Buffer)
       /\ Len(recycled_pools') <= max_recycled
  <2>1. \A a : ~(Contains(recycled_pools, a) /\ Contains(u, a))
    BY <1>12, <1>13
  <2>2. /\ recycled_pools' \in Seq(Buffer) /\ Len(recycled_pools') = Len(recycled_pools) + Len(u)
        /\ \A a : Contains(recycled_pools', a) <=> Contains(recycled_pools, a) \/ Contains(u, a)
        /\ NoDup(recycled_pools')
    <3>1. PICK s \in Seq(Buffer), t \in Seq(Buffer) : s = recycled_pools /\ t = u
      BY <1>7, <1>11
    <3>2. \A a : ~(Contains(s, a) /\ Contains(t, a))
      BY <2>1, <3>1
    <3>3. NoDup(s) /\ NoDup(t)
      BY <1>7, <1>11, <3>1
    <3>4. /\ s \o t \in Seq(Buffer) /\ Len(s \o t) = Len(s) + Len(t)
          /\ \A a : Contains(s \o t, a) <=> Contains(s, a) \/ Contains(t, a)
          /\ NoDup(s \o t)
      BY <3>2, <3>3, ConcatSet
    <3>5. recycled_pools' = s \o t
      BY <1>6, <3>1
    <3> QED BY <3>1, <3>4, <3>5
  <2> QED BY <1>8, <1>10, <1>11, <1>12, <2>2
<1>18. VectorsInv'
  <2>1. ASSUME NEW a \in Buffer
        PROVE  /\ a \in Held' <=> Contains(slot_pools', a) \/ Contains(recycled_pools', a)
               /\ ~(Contains(slot_pools', a) /\ Contains(recycled_pools', a))
    <3>1. /\ a \in Held <=> Contains(slot_pools, a) \/ Contains(recycled_pools, a)
          /\ ~(Contains(slot_pools, a) /\ Contains(recycled_pools, a))
      BY <1>1 DEF VectorsInv
    <3>2. Contains(slot_pools, a) /\ a \in EmptyPools <=> a \in parked \/ a \in released
      BY <1>8, <1>11, <1>12
    <3> QED BY <1>9, <1>13, <1>14, <1>16, <1>17, <3>1, <3>2
  <2> QED BY <1>9, <1>17, <2>1 DEF VectorsInv, NoDup, Contains
<1>19. ASSUME NEW a \in Held'
       PROVE  /\ a \in Held /\ a \in Buffer /\ slot_size'[a] = slot_size[a]
              /\ \A i : SlotPtr(a, i)' = SlotPtr(a, i)
              /\ SlotEnd(a)' = SlotEnd(a)
  <2>1. a \in Held /\ a \in Buffer /\ slot_size'[a] = slot_size[a]
    BY <1>15, <1>16 DEF Held
  <2> QED BY <2>1 DEF SlotPtr, SlotEnd
<1>20. PoolsInv'
  <2>1. ASSUME NEW a \in Held' PROVE PoolInv(a)'
    <3>1. a \in Held /\ a \in Buffer /\ slot_size'[a] = slot_size[a] /\ PoolInv(a)
      BY <1>1, <1>19 DEF PoolsInv
    <3>2. CASE a \in parked
      <4>1. /\ bump'[a] = 0 /\ free_list'[a] = <<>> /\ bitmap'[a] = {} /\ live'[a] = 0
        BY <1>13, <1>15, <3>1, <3>2
      <4>2. SlotCount(slot_size[a]) \in Nat
        BY <1>1, <3>1, HeldClass, Layout
      <4>3. Cardinality({}) = 0
        BY FS_EmptySet
      <4> QED BY <3>1, <4>1, <4>2, <4>3 DEF PoolInv, NoDup
    <3>3. CASE a \notin parked
      BY <1>15, <3>1, <3>3, SamePool
    <3> QED BY <3>2, <3>3
  <2> QED BY <2>1 DEF PoolsInv
<1>21. ParkedInv'
  <2>1. ASSUME NEW j \in 1 .. Len(recycled_pools') PROVE bump'[recycled_pools'[j]] = 0
    <3>1. PICK a \in Buffer : a = recycled_pools'[j]
      BY <1>17, ElementOfSeq
    <3>2. Contains(recycled_pools, a) \/ a \in parked
      BY <1>17, <3>1 DEF Contains
    <3>3. Contains(recycled_pools, a) => bump[a] = 0
      BY <1>1 DEF ParkedInv, Contains
    <3> QED BY <1>15, <3>1, <3>2, <3>3
  <2> QED BY <2>1 DEF ParkedInv
<1>22. GivenInv'
  <2>1. ASSUME NEW g \in given
        PROVE  /\ g.item \in Item /\ g.item.size <= slot_size'[g.pool]
               /\ Contains(slot_pools', g.pool)
               /\ \E k \in bitmap'[g.pool] : g.ptr = SlotPtr(g.pool, k)'
    <3>1. PICK a \in Held : a = g.pool
      BY <1>1, GivenFacts
    <3>2. PICK k \in bitmap[a] : g.ptr = SlotPtr(a, k)
      BY <1>1, <3>1, GivenFacts
    <3>3. Contains(slot_pools, a) /\ g.item \in Item /\ g.item.size <= slot_size[a] /\ a \in Buffer
      BY <1>1, <3>1, GivenFacts DEF Held
    <3>4. a \notin EmptyPools
      BY <1>1, <3>2, EmptyFacts DEF PoolsInv
    <3>5. a \notin released
      BY <1>13, <3>4
    <3>6. a \in Held' /\ Contains(slot_pools', a)
      BY <1>9, <1>16, <3>3, <3>4, <3>5
    <3> QED BY <1>15, <1>19, <3>1, <3>2, <3>3, <3>6
  <2>2. \A g, h \in given : g.ptr = h.ptr => g = h
    BY <1>1 DEF GivenInv
  <2>3. ASSUME NEW a \in Held', NEW k \in bitmap'[a]
        PROVE  \E g \in given : g.pool = a /\ g.ptr = SlotPtr(a, k)'
    <3>1. a \in Held /\ k \in bitmap[a] /\ SlotPtr(a, k)' = SlotPtr(a, k)
      BY <1>15, <1>19
    <3> QED BY <1>1, <3>1 DEF GivenInv
  <2>4. given' = given
    BY <1>6
  <2> QED BY <2>1, <2>2, <2>3, <2>4 DEF GivenInv
<1>23. PICK s \in Seq(Buffer) : s = slot_pools'
  BY <1>9
<1>24. ASSUME NEW i \in 1 .. Len(s)
       PROVE  s[i] \in Held /\ s[i] \in Held'
  <2>1. PICK a \in Buffer : a = s[i]
    BY ElementOfSeq
  <2>2. Contains(slot_pools', a)
    BY <1>23, <2>1 DEF Contains
  <2>3. a \in Held /\ a \notin EmptyPools
    BY <1>1, <1>9, <2>2 DEF VectorsInv
  <2> QED BY <1>13, <1>16, <2>1, <2>3
<1>25. IndexOf(RebuiltRanges(s), s) /\ RebuiltRanges(s) \in Seq(IndexEntry)
  <2>1. NoDup(s) /\ SlotsUnique
    BY <1>1, <1>9, <1>23, UniqueSlots
  <2> QED BY <1>1, <1>24, <2>1, RebuiltIndex
<1>26. IndexOf(sorted_ranges, slot_pools)'
  <2>1. PICK R : R = RebuiltRanges(s) /\ sorted_ranges' = R /\ IndexOf(R, s)
    BY <1>6, <1>23, <1>25
  <2>2. ASSUME NEW k \in 1 .. Len(R)
        PROVE  /\ R[k].idx \in 1 .. Len(s)
               /\ R[k].base = SlotPtr(s[R[k].idx], 0)'
               /\ R[k].end = SlotEnd(s[R[k].idx])'
    <3>1. /\ R[k].idx \in 1 .. Len(s)
          /\ R[k].base = SlotPtr(s[R[k].idx], 0)
          /\ R[k].end = SlotEnd(s[R[k].idx])
      BY <2>1 DEF IndexOf
    <3>2. s[R[k].idx] \in Held'
      BY <1>24, <3>1
    <3> QED BY <1>19, <3>1, <3>2
  <2>3. /\ Len(R) = Len(s)
        /\ \A j, k \in 1 .. Len(R) : j < k => R[j].base < R[k].base
        /\ \A i \in 1 .. Len(s) : \E k \in 1 .. Len(R) : R[k].idx = i
    BY <2>1 DEF IndexOf
  <2> QED BY <1>23, <2>1, <2>2, <2>3 DEF IndexOf, SlotPtr, SlotEnd
<1>27. ApartInv'
  BY <1>1, <1>16, <1>19 DEF ApartInv, Overlap
<1>28. WordsOf(Held)' = WordsOf(Held) \ WordsOf(released) /\ WordsOf(released) \subseteq WordsOf(Held)
  <2>1. WordsOf(Held)' = UNION {{b} \X (1 .. BufferSize(slot_size'[b])) : b \in Held'}
    BY DEF WordsOf
  <2>2. \A b \in Held' : BufferSize(slot_size'[b]) = BufferSize(slot_size[b])
    BY <1>19
  <2>3. released \subseteq Held
    BY <1>13
  <2> QED BY <1>16, <2>1, <2>2, <2>3 DEF WordsOf
<1>29. HeapInv' /\ current_heap_size' \in Nat
  <2>1. PICK W, V : W = WordsOf(Held) /\ V = WordsOf(released)
    OBVIOUS
  <2>2. IsFiniteSet(W) /\ V \in SUBSET W /\ current_heap_size = Cardinality(W)
    BY <1>1, <1>28, <2>1 DEF HeapInv, TotalSize
  <2>3. /\ IsFiniteSet(W \ V) /\ Cardinality(W \ V) = Cardinality(W) - Cardinality(V)
        /\ Cardinality(W) \in Nat /\ Cardinality(V) \in Nat /\ Cardinality(V) <= Cardinality(W)
    BY <2>2, FewerWords
  <2>4. current_heap_size' = Cardinality(W) - Cardinality(V)
    BY <1>6, <2>1, <2>2 DEF TotalSize
  <2>5. WordsOf(Held)' = W \ V
    BY <1>28, <2>1
  <2> QED BY <2>3, <2>4, <2>5 DEF HeapInv, TotalSize
<1>30. TypeOK'
  <2>1. /\ slot_size' \in [Buffer -> SIZE_CLASSES \cup {0}]
        /\ bump' \in [Buffer -> Nat]
    BY <1>1, <1>6 DEF TypeOK
  <2>2. free_list' \in [Buffer -> Seq(Nat)]
    BY <1>1, <1>6 DEF TypeOK
  <2>3. bitmap' \in [Buffer -> SUBSET Nat] /\ live' \in [Buffer -> Nat]
    BY <1>1, <1>6 DEF TypeOK
  <2>4. /\ free_cache' \in Nat /\ alloc_cache' \in [SIZE_CLASSES -> Nat]
        /\ given' \subseteq [ptr : Nat, item : Item, pool : Buffer]
    BY <1>1, <1>6 DEF TypeOK, NoIndex
  <2>5. sorted_ranges' \in Seq(IndexEntry)
    BY <1>6, <1>23, <1>25
  <2> QED BY <1>9, <1>17, <1>29, <2>1, <2>2, <2>3, <2>4, <2>5 DEF TypeOK
<1> QED BY <1>18, <1>20, <1>21, <1>22, <1>26, <1>27, <1>29, <1>30 DEF IInv

\* Every operation preserves the invariant.
LEMMA NextInv == IInv /\ [Next]_vars => IInv'
<1> SUFFICES ASSUME IInv, [Next]_vars PROVE IInv'
  OBVIOUS
<1>1. CASE \E item \in Item : AllocFromPool(item) \/ AllocRecycled(item)
  BY <1>1, AllocFromPoolInv, AllocRecycledInv
<1>2. CASE \E item \in Item, b \in Buffer : AllocFresh(item, b)
  BY <1>2, AllocFreshInv
<1>3. CASE \E g \in given : FreeSlot(g)
  BY <1>3, FreeSlotInv
<1>4. CASE DropEmptyPools
  BY <1>4, DropEmptyPoolsInv
<1>5. CASE UNCHANGED vars
  <2> USE <1>5 DEF vars, pools, index
  <2>1. TypeOK'
    BY DEF IInv, TypeOK
  <2>2. Held' = Held /\ \A b, k : SlotPtr(b, k)' = SlotPtr(b, k)
    BY DEF Held, SlotPtr
  <2>3. VectorsInv' /\ ParkedInv'
    BY <2>2 DEF IInv, VectorsInv, ParkedInv, NoDup, Contains
  <2>4. \A b : PoolInv(b)' <=> PoolInv(b)
    BY DEF PoolInv, SlotPtr, NoDup, Contains
  <2>5. PoolsInv'
    BY <2>2, <2>4 DEF IInv, PoolsInv
  <2>6. GivenInv'
    BY DEF IInv, GivenInv, Held, SlotPtr, Contains
  <2>7. IndexOf(sorted_ranges, slot_pools)'
    BY DEF IInv, IndexOf, SlotPtr, SlotEnd
  <2>8. ApartInv' /\ HeapInv'
    BY <2>2 DEF IInv, ApartInv, HeapInv, WordsOf, TotalSize
  <2> QED BY <2>1, <2>3, <2>5, <2>6, <2>7, <2>8 DEF IInv
<1> QED BY <1>1, <1>2, <1>3, <1>4, <1>5 DEF Next

-----------------------------------------------------------------------------
(* The theorems.                                                           *)

\* The invariant holds of every run, whatever buffers the OS returns.
THEOREM Invariant == Spec => []IInv
BY InitInv, NextInv, PTL DEF Spec

\* Freeing finds the pool the item came from and its own slot in it, whichever of
\* cache and index answers, and the slot is within the buffer, behind the bitmap.
\* (mod.rs: free_slot, rebuild_sorted_ranges; alloc.rs: try_init)
THEOREM FreeFinds == Spec => []FreeFindsPool
<1>1. IInv => FreeFindsPool
  <2> SUFFICES ASSUME IInv, NEW g \in given
               PROVE  /\ PoolOf(g.ptr) \in DOMAIN slot_pools
                      /\ slot_pools[PoolOf(g.ptr)] = g.pool
                      /\ SlotPtr(g.pool, SlotIndex(g.pool, g.ptr)) = g.ptr
                      /\ g.pool + BitmapWords(slot_size[g.pool]) <= g.ptr
                      /\ g.ptr + g.item.size <= g.pool + BufferSize(slot_size[g.pool])
                      /\ SlotIndex(g.pool, g.ptr) < 64 * BitmapWords(slot_size[g.pool])
    BY DEF FreeFindsPool
  <2>1. /\ TypeOK /\ VectorsInv /\ PoolsInv /\ GivenInv /\ ApartInv /\ IndexOf(sorted_ranges, slot_pools)
    BY DEF IInv
  <2>2. PICK b \in Held : b = g.pool
    BY <2>1, GivenFacts
  <2>3. PICK c \in SIZE_CLASSES : c = slot_size[b] /\ b \in Buffer /\ c \in Nat \ {0}
    BY <2>1, HeldClass
  <2>4. PICK k \in bitmap[b] : k \in Nat /\ k < SlotCount(c) /\ g.ptr = SlotPtrIn(b, c, k)
    BY <2>1, <2>2, <2>3, GivenFacts DEF SlotPtr
  <2>5. PICK i \in 1 .. Len(slot_pools) : slot_pools[i] = b
    BY <2>1, <2>2, GivenFacts
  <2>6. PICK ptr \in Nat : ptr = g.ptr /\ Owns(b, ptr)
    BY <2>1, <2>2, GivenFacts
  <2>7. PoolOf(ptr) \in 1 .. Len(slot_pools) /\ slot_pools[PoolOf(ptr)] = b
    BY <2>1, <2>5, <2>6, PoolFound
  <2>8. PoolOf(ptr) \in DOMAIN slot_pools
    BY <2>1, <2>7, VectorFacts
  <2>9. /\ SlotPtrIn(b, c, k) \in Nat /\ b \in Nat
        /\ SlotPtrIn(b, c, 0) = b + BitmapWords(c)
        /\ SlotPtrIn(b, c, 0) <= SlotPtrIn(b, c, k)
        /\ SlotPtrIn(b, c, k) + c <= SlotPtrIn(b, c, SlotCount(c))
        /\ SlotPtrIn(b, c, SlotCount(c)) <= b + BufferSize(c)
        /\ (SlotPtrIn(b, c, k) - SlotPtrIn(b, c, 0)) \div c = k
    BY <2>3, <2>4, Slots
  <2>10. /\ BufferSize(c) \in Nat /\ BitmapWords(c) \in Nat /\ SlotCount(c) \in Nat
         /\ SlotCount(c) <= 64 * BitmapWords(c)
    BY BufferSizeFacts, Layout
  <2>11. SlotPtrIn(b, c, SlotCount(c)) \in Nat
    BY <2>3, <2>10, Slots
  <2>12. SlotIndex(b, ptr) = k
    BY <2>3, <2>4, <2>6, <2>9 DEF SlotIndex, SlotPtr
  <2>13. SlotPtr(b, SlotIndex(b, ptr)) = ptr
    BY <2>3, <2>4, <2>6, <2>12 DEF SlotPtr
  <2>14. b + BitmapWords(c) <= ptr
    BY <2>4, <2>6, <2>9
  <2>15. g.item.size \in Nat /\ g.item.size <= c
    BY <2>1, <2>2, <2>3, GivenFacts, ClassFits
  <2>16. ptr + g.item.size <= b + BufferSize(c)
    <3>1. PICK x \in Nat, s \in Nat : x = SlotPtrIn(b, c, SlotCount(c)) /\ s = g.item.size
      BY <2>11, <2>15
    <3>2. ptr + c <= x /\ x <= b + BufferSize(c) /\ s <= c
      BY <2>4, <2>6, <2>9, <2>15, <3>1
    <3>3. b \in Nat /\ c \in Nat /\ BufferSize(c) \in Nat
      BY <2>3, <2>9, <2>10
    <3>4. ptr + s <= b + BufferSize(c)
      BY <3>1, <3>2, <3>3, SMTT(30)
    <3> QED BY <3>1, <3>4
  <2>17. SlotIndex(b, ptr) < 64 * BitmapWords(c)
    BY <2>4, <2>10, <2>12
  <2> QED BY <2>2, <2>3, <2>6, <2>7, <2>8, <2>13, <2>14, <2>16, <2>17
<1> QED BY <1>1, Invariant, PTL

\* The vectors together hold the buffers the OS gave.
LEMMA BothVectors ==
  ASSUME IInv
  PROVE  /\ ToSet(slot_pools \o recycled_pools) = Held
         /\ IsInjective(slot_pools \o recycled_pools)
<1>1. TypeOK /\ VectorsInv
  BY DEF IInv
<1>2. slot_pools \in Seq(Buffer) /\ recycled_pools \in Seq(Buffer)
  BY <1>1 DEF TypeOK
<1>3. \A a : Contains(slot_pools, a) \/ Contains(recycled_pools, a) <=> a \in Held
  <2>1. \A a : Contains(slot_pools, a) \/ Contains(recycled_pools, a) => a \in Held
    BY <1>1, VectorFacts DEF Contains
  <2> QED BY <1>1, <2>1 DEF VectorsInv, Held
<1>4. \A a : ~(Contains(slot_pools, a) /\ Contains(recycled_pools, a))
  BY <1>1, <1>3 DEF VectorsInv, Held
<1>5. PICK w : w = slot_pools \o recycled_pools
  OBVIOUS
<1>6. w \in Seq(Buffer) /\ (\A a : Contains(w, a) <=> a \in Held) /\ NoDup(w)
  BY <1>1, <1>2, <1>3, <1>4, <1>5, ConcatSet DEF VectorsInv
<1>7. (\A a : a \in ToSet(w) <=> a \in Held) /\ IsInjective(w)
  BY <1>6, SetOfVector
<1> QED BY <1>5, <1>7

\* The pools account for every slot, and each pool is in one list, once.
\* (alloc.rs: alloc_slot, free_slot, reset; mod.rs: drop_empty_pools)
THEOREM Exact == Spec => []PoolsExact
<1>1. IInv => PoolsExact
  <2> SUFFICES ASSUME IInv PROVE PoolsExact
    OBVIOUS
  <2>1. TypeOK /\ VectorsInv /\ PoolsInv /\ ParkedInv
    BY DEF IInv
  <2>2. FreeListExact
    <3> SUFFICES ASSUME NEW b \in Held
                 PROVE  /\ live[b] = Cardinality(bitmap[b])
                        /\ Len(free_list[b]) + live[b] = bump[b]
                        /\ ToSet(free_list[b]) =
                             {SlotPtr(b, i) : i \in 0 .. bump[b] - 1} \ {SlotPtr(b, i) : i \in bitmap[b]}
      BY BothVectors DEF FreeListExact
    <3>1. PoolInv(b) /\ free_list[b] \in Seq(Nat)
      BY <2>1, HeldClass DEF PoolsInv, TypeOK
    <3>2. \A x : x \in ToSet(free_list[b]) <=> Contains(free_list[b], x)
      BY <3>1, SetOfVector
    <3>3. b \in Buffer /\ slot_size[b] \in SIZE_CLASSES
      BY <2>1, HeldClass
    <3>4. \A i, j \in Nat : SlotPtr(b, i) = SlotPtr(b, j) => i = j
      <4>1. \A i \in Nat : (SlotPtr(b, i) - SlotPtr(b, 0)) \div slot_size[b] = i
        BY <3>3, Slots DEF SlotPtr
      <4> QED BY <4>1
    <3>5. /\ \A k \in 0 .. bump[b] - 1 : k \in Nat
          /\ \A k \in bitmap[b] : k \in Nat /\ k \in 0 .. bump[b] - 1
      BY <2>1, <3>1, BitFacts
    <3>6. ASSUME NEW x
          PROVE  Contains(free_list[b], x) <=>
                   \E k \in 0 .. bump[b] - 1 : k \notin bitmap[b] /\ x = SlotPtr(b, k)
      BY <3>1 DEF PoolInv, Contains
    <3>7. ASSUME NEW x
          PROVE  x \in {SlotPtr(b, i) : i \in 0 .. bump[b] - 1} \ {SlotPtr(b, i) : i \in bitmap[b]}
                   <=> \E k \in 0 .. bump[b] - 1 : k \notin bitmap[b] /\ x = SlotPtr(b, k)
      BY <3>4, <3>5
    <3> QED BY <3>1, <3>2, <3>6, <3>7 DEF PoolInv
  <2>3. ParkedPristine
    <3>1. \A x : x \in ToSet(recycled_pools) <=> Contains(recycled_pools, x)
      BY <2>1, SetOfVector DEF TypeOK
    <3> QED BY <2>1, <3>1 DEF ParkedPristine, ParkedInv, Contains
  <2> QED BY <2>1, <2>2, <2>3, BothVectors DEF PoolsExact, VectorsInv
<1> QED BY <1>1, Invariant, PTL

\* The heap size is the size of the buffers held, parked ones included.
\* (mod.rs: try_alloc, drop_empty_pools)
THEOREM HeapSize == Spec => []HeapSizeExact
<1>1. IInv => HeapSizeExact
  BY BothVectors DEF IInv, HeapInv, HeapSizeExact
<1> QED BY <1>1, Invariant, PTL

\* In a full pool every slot is some item's.
LEMMA FullPoolUsed ==
  ASSUME IInv, NEW p \in Held, Full(p)
  PROVE  Cardinality({g \in given : g.pool = p}) = SlotCount(slot_size[p])
<1>1. /\ TypeOK /\ VectorsInv /\ PoolsInv /\ GivenInv /\ PoolInv(p)
  BY DEF IInv, PoolsInv
<1>2. /\ bump[p] \in Nat /\ SlotCount(slot_size[p]) \in Nat
      /\ IsFiniteSet(bitmap[p]) /\ Cardinality(bitmap[p]) \in Nat
  BY <1>1, BitFacts
<1>3. Cardinality(bitmap[p]) = SlotCount(slot_size[p])
  BY <1>1, <1>2 DEF Full, PoolInv
<1> DEFINE G == {g \in given : g.pool = p}
           f == [k \in bitmap[p] |-> CHOOSE g \in given : g.pool = p /\ g.ptr = SlotPtr(p, k)]
<1>4. \A k \in bitmap[p] : f[k] \in given /\ f[k].pool = p /\ f[k].ptr = SlotPtr(p, k)
  <2> TAKE k \in bitmap[p]
  <2>1. \E g \in given : g.pool = p /\ g.ptr = SlotPtr(p, k)
    BY <1>1 DEF GivenInv
  <2> QED BY <2>1
<1>5. f \in [bitmap[p] -> G]
  BY <1>4
<1>6. \A j, k \in bitmap[p] : f[j] = f[k] => j = k
  <2> SUFFICES ASSUME NEW j \in bitmap[p], NEW k \in bitmap[p], f[j] = f[k] PROVE j = k
    OBVIOUS
  <2>1. SlotPtr(p, j) = SlotPtr(p, k)
    BY <1>4
  <2>2. j \in Nat /\ k \in Nat /\ j < SlotCount(slot_size[p]) /\ k < SlotCount(slot_size[p])
    BY <1>1, BitFacts
  <2> QED BY <1>1, <2>1, <2>2, SlotUnique DEF IInv
<1>7. \A g \in G : \E k \in bitmap[p] : f[k] = g
  <2> TAKE g \in G
  <2>1. PICK k \in bitmap[p] : g.ptr = SlotPtr(p, k)
    BY <1>1 DEF GivenInv
  <2> QED BY <1>1, <1>4, <2>1 DEF GivenInv
<1> HIDE DEF f, G
<1>8. f \in Bijection(bitmap[p], G)
  BY <1>5, <1>6, <1>7, Fun_IsBij
<1>9. Cardinality(G) = Cardinality(bitmap[p])
  BY <1>2, <1>8, FS_Bijection DEF ExistsBijection
<1> QED BY <1>3, <1>9 DEF G

\* The OS is asked for a buffer only when every slot of the class is in use.
\* (mod.rs: try_alloc)
THEOREM NoBufferAsked == Spec => NoBufferWhileRoom
<1>1. IInv /\ [Next]_vars =>
        [\A b \in Buffer :
           slot_size[b] = 0 /\ slot_size'[b] # 0 =>
             \A p \in Buffer :
               slot_size[p] = slot_size'[b] =>
                 Cardinality({g \in given : g.pool = p}) = SlotCount(slot_size[p])]_vars
  <2> SUFFICES ASSUME IInv, Next, NEW b \in Buffer, slot_size[b] = 0, slot_size'[b] # 0,
                      NEW p \in Buffer, slot_size[p] = slot_size'[b]
               PROVE  Cardinality({g \in given : g.pool = p}) = SlotCount(slot_size[p])
    OBVIOUS
  <2>1. TypeOK /\ VectorsInv
    BY DEF IInv
  <2>2. ~(DropEmptyPools)
    BY DEF DropEmptyPools
  <2>3. PICK item \in Item, a \in Buffer : AllocFresh(item, a)
    BY <2>2 DEF Next, AllocFromPool, AllocRecycled, FreeSlot, FreeInPool
  <2>4. PICK c \in SIZE_CLASSES : c = ClassFor(item)
    BY ClassFits
  <2>5. Roomy(c) = {} /\ Parked(c) = {} /\ slot_size' = [slot_size EXCEPT ![a] = c]
    BY <2>3, <2>4 DEF AllocFresh
  <2>6. slot_size[p] = c /\ p \in Held
    BY <2>1, <2>5 DEF TypeOK, Held
  <2>7. DOMAIN recycled_pools = 1 .. Len(recycled_pools) /\ DOMAIN slot_pools = 1 .. Len(slot_pools)
    BY <2>1, VectorFacts
  <2>8. ~Contains(recycled_pools, p)
    BY <2>5, <2>6, <2>7 DEF Parked, Contains
  <2>9. PICK i \in 1 .. Len(slot_pools) : slot_pools[i] = p
    BY <2>1, <2>6, <2>8 DEF VectorsInv, Contains
  <2>10. Full(p)
    BY <2>5, <2>6, <2>7, <2>9 DEF Roomy
  <2> QED BY <2>6, <2>10, FullPoolUsed
<1> QED BY <1>1, Invariant, PTL DEF Spec, NoBufferWhileRoom

-----------------------------------------------------------------------------
(* The allocator implements BlockHeap.                                     *)

Blocks == {[start |-> g.ptr, size |-> g.item.size] : g \in given}
Enumerated == UNION {{SlotPtr(b, i) : i \in bitmap[b]} : b \in ToSet(slot_pools)}

EnumeratedGiven == Enumerated = {g.ptr : g \in given}

\* An enumeration of the live slots yields exactly the items given.
LEMMA EnumerationExact == IInv => EnumeratedGiven
<1> SUFFICES ASSUME IInv PROVE Enumerated = {g.ptr : g \in given}
  BY DEF EnumeratedGiven
<1>1. TypeOK /\ VectorsInv /\ GivenInv /\ PoolsInv
  BY DEF IInv
<1>2. \A b : b \in ToSet(slot_pools) <=> Contains(slot_pools, b)
  BY <1>1, SetOfVector DEF TypeOK
<1>3. ASSUME NEW x \in Enumerated PROVE \E g \in given : x = g.ptr
  <2>1. PICK b \in ToSet(slot_pools) : \E i \in bitmap[b] : x = SlotPtr(b, i)
    BY DEF Enumerated
  <2>2. b \in Held
    BY <1>1, <1>2, <2>1, VectorFacts DEF Contains
  <2> QED BY <1>1, <2>1, <2>2 DEF GivenInv
<1>4. ASSUME NEW g \in given PROVE g.ptr \in Enumerated
  BY <1>1, <1>2 DEF GivenInv, Enumerated
<1> QED BY <1>3, <1>4

Starts == UNION {b .. b + BufferSize(c) : b \in Buffer, c \in SIZE_CLASSES}
GivenPlaced == \A g \in given : g.ptr \in Starts /\ g.item \in Item

\* An item lies inside a buffer.
LEMMA ItemsPlaced == IInv => GivenPlaced
<1> SUFFICES ASSUME IInv, NEW g \in given PROVE g.ptr \in Starts /\ g.item \in Item
  BY DEF GivenPlaced
<1>1. TypeOK /\ VectorsInv /\ GivenInv /\ PoolsInv
  BY DEF IInv
<1>2. PICK b \in Held : b = g.pool
  BY <1>1, GivenFacts
<1>3. PICK c \in SIZE_CLASSES : c = slot_size[b] /\ b \in Buffer
  BY <1>1, HeldClass
<1>4. PICK k \in Nat : g.ptr = SlotPtrIn(b, c, k) /\ k < SlotCount(c)
  BY <1>1, <1>2, <1>3, GivenFacts DEF SlotPtr
<1>5. /\ b \in Nat /\ SlotPtrIn(b, c, k) \in Nat /\ SlotPtrIn(b, c, 0) = b + BitmapWords(c)
      /\ SlotPtrIn(b, c, 0) <= SlotPtrIn(b, c, k)
      /\ SlotPtrIn(b, c, k) + c <= SlotPtrIn(b, c, SlotCount(c))
      /\ SlotPtrIn(b, c, SlotCount(c)) <= b + BufferSize(c)
  BY <1>3, <1>4, Slots
<1>6. BufferSize(c) \in Nat /\ BitmapWords(c) \in Nat /\ SlotCount(c) \in Nat /\ c \in Nat
  BY BufferSizeFacts, Layout
<1>7. SlotPtrIn(b, c, SlotCount(c)) \in Nat
  BY <1>3, <1>6, Slots
<1>8. PICK I : I = b .. b + BufferSize(c)
  OBVIOUS
<1>9. SlotPtrIn(b, c, k) \in I
  BY <1>5, <1>6, <1>7, <1>8
<1>10. I \in {x .. x + BufferSize(y) : x \in Buffer, y \in SIZE_CLASSES}
  BY <1>3, <1>8
<1>11. g.ptr \in I
  BY <1>4, <1>9
<1>12. g.item \in Item
  BY <1>1, GivenFacts
<1> QED BY <1>10, <1>11, <1>12 DEF Starts

\* The blocks of two items do not overlap.
GivenApart ==
  \A g, h \in given : g # h => \/ g.ptr + g.item.size <= h.ptr
                               \/ h.ptr + h.item.size <= g.ptr

LEMMA ItemsApart == IInv => GivenApart
<1> SUFFICES ASSUME IInv, NEW g \in given, NEW h \in given,
                    ~(g.ptr + g.item.size <= h.ptr), ~(h.ptr + h.item.size <= g.ptr)
             PROVE  g = h
  BY DEF GivenApart
<1>1. TypeOK /\ VectorsInv /\ GivenInv /\ PoolsInv /\ ApartInv
  BY DEF IInv
<1>2. PICK a \in Held : a = g.pool
  BY <1>1, GivenFacts
<1>3. PICK b \in Held : b = h.pool
  BY <1>1, GivenFacts
<1>4. PICK i \in Nat : g.ptr = SlotPtr(a, i) /\ i < SlotCount(slot_size[a])
  BY <1>1, <1>2, GivenFacts
<1>5. PICK j \in Nat : h.ptr = SlotPtr(b, j) /\ j < SlotCount(slot_size[b])
  BY <1>1, <1>3, GivenFacts
<1>6. /\ g.item.size \in Nat /\ g.item.size <= slot_size[a] /\ g.ptr \in Nat
      /\ h.item.size \in Nat /\ h.item.size <= slot_size[b] /\ h.ptr \in Nat
      /\ slot_size[a] \in Nat /\ slot_size[b] \in Nat
  BY <1>1, <1>2, <1>3, GivenFacts, ClassFits, HeldClass
<1>7. g.ptr < h.ptr + slot_size[b] /\ h.ptr < g.ptr + slot_size[a]
  BY <1>6
<1>8. a = b /\ i = j
  BY <1>1, <1>4, <1>5, <1>7, SlotsDisjoint
<1> QED BY <1>1, <1>4, <1>5, <1>8 DEF GivenInv

\* Giving an item is a BlockHeap allocation.
LEMMA GiveIsAlloc ==
  ASSUME IInv, IInv', NEW item \in Item, NEW b, NEW ptr, Give(item, b, ptr)
  PROVE  [Heap!Next]_(Heap!vars)
<1>1. PICK new : new = [ptr |-> ptr, item |-> item, pool |-> b]
  OBVIOUS
<1>2. given' = given \cup {new}
  BY <1>1 DEF Give
<1>3. PICK blk : blk = [start |-> new.ptr, size |-> new.item.size]
  OBVIOUS
<1>4. Blocks' = Blocks \cup {blk}
  BY <1>2, <1>3 DEF Blocks
<1>5. Enumerated' = Enumerated \cup {new.ptr}
  <2>1. Enumerated = {g.ptr : g \in given}
    BY EnumerationExact DEF EnumeratedGiven
  <2>2. EnumeratedGiven'
    BY EnumerationExact, PTL
  <2> QED BY <1>2, <2>1, <2>2 DEF EnumeratedGiven
<1>6. CASE new \in given
  <2>1. Blocks' = Blocks
    BY <1>2, <1>6 DEF Blocks
  <2>2. new.ptr \in Enumerated
    BY <1>6, EnumerationExact DEF EnumeratedGiven
  <2> QED BY <1>5, <2>1, <2>2 DEF Heap!vars, Blocks, Enumerated
<1>7. CASE new \notin given
  <2>1. GivenApart'
    BY ItemsApart, PTL
  <2>2. \A c \in Blocks : \/ blk.start + blk.size <= c.start
                          \/ c.start + c.size <= blk.start
    <3> SUFFICES ASSUME NEW g \in given
                 PROVE  new.ptr + new.item.size <= g.ptr \/ g.ptr + g.item.size <= new.ptr
      BY <1>3 DEF Blocks
    <3> QED BY <1>2, <1>7, <2>1 DEF GivenApart
  <2>3. GivenPlaced'
    BY ItemsPlaced, PTL
  <2>4. blk \in [start : Starts, size : {x.size : x \in Item}]
    BY <1>1, <1>2, <1>3, <2>3 DEF GivenPlaced
  <2>5. Heap!Alloc(blk)
    BY <1>3, <1>4, <1>5, <2>2 DEF Heap!Alloc, Heap!Disjoint, Blocks, Enumerated
  <2> QED BY <2>4, <2>5 DEF Heap!Next, Starts
<1> QED BY <1>6, <1>7

\* Freeing an item is a BlockHeap free.
LEMMA FreeIsFree ==
  ASSUME IInv, IInv', NEW g \in given, given' = given \ {g}
  PROVE  [Heap!Next]_(Heap!vars)
<1>1. PICK blk : blk = [start |-> g.ptr, size |-> g.item.size]
  OBVIOUS
<1>2. \A h \in given : h.ptr = g.ptr => h = g
  BY DEF IInv, GivenInv
<1>3. Blocks' = Blocks \ {blk} /\ blk \in Blocks
  BY <1>1, <1>2 DEF Blocks
<1>4. Enumerated' = Enumerated \ {g.ptr}
  <2>1. Enumerated = {h.ptr : h \in given}
    BY EnumerationExact DEF EnumeratedGiven
  <2>2. EnumeratedGiven'
    BY EnumerationExact, PTL
  <2> QED BY <1>2, <2>1, <2>2 DEF EnumeratedGiven
<1>5. blk \in [start : Starts, size : {x.size : x \in Item}]
  BY <1>1, ItemsPlaced DEF GivenPlaced
<1>6. Heap!Free(blk)
  BY <1>1, <1>3, <1>4 DEF Heap!Free, Blocks, Enumerated
<1> QED BY <1>5, <1>6 DEF Heap!Next, Starts

\* The allocator implements BlockHeap: it hands out blocks that overlap none in
\* use, and an enumeration of the live slots yields exactly those blocks, across
\* every growth, recycling and renumbering of the pools.
\* (mod.rs: try_alloc, free_slot, iter_live_slots, drop_empty_pools)
THEOREM AllocatorImplementsHeap == Spec => ImplementsHeap
<1>1. Init => Heap!Init
  <2> SUFFICES ASSUME Init PROVE Heap!Init
    OBVIOUS
  <2>1. given = {} /\ IInv
    BY InitInv DEF Init
  <2>2. Blocks = {} /\ Enumerated = {}
    BY <2>1, EnumerationExact DEF Blocks, EnumeratedGiven
  <2> QED BY <2>2 DEF Heap!Init, Blocks, Enumerated
<1>2. IInv /\ IInv' /\ [Next]_vars => [Heap!Next]_(Heap!vars)
  <2> SUFFICES ASSUME IInv, IInv', [Next]_vars PROVE [Heap!Next]_(Heap!vars)
    OBVIOUS
  <2>1. CASE \E item \in Item : \E b, ptr : Give(item, b, ptr)
    BY <2>1, GiveIsAlloc
  <2>2. CASE \E g \in given : FreeSlot(g)
    BY <2>2, FreeIsFree DEF FreeSlot
  <2>3. CASE given' = given
    <3>1. EnumeratedGiven /\ EnumeratedGiven'
      BY EnumerationExact, PTL
    <3>2. Blocks' = Blocks /\ Enumerated' = Enumerated
      BY <2>3, <3>1 DEF Blocks, EnumeratedGiven
    <3> QED BY <3>2 DEF Heap!vars, Blocks, Enumerated
  <2>4. \/ \E item \in Item : \E b, ptr : Give(item, b, ptr)
        \/ \E g \in given : FreeSlot(g)
        \/ given' = given
    BY DEF Next, AllocFromPool, AllocRecycled, AllocFresh, DropEmptyPools, vars
  <2> QED BY <2>1, <2>2, <2>3, <2>4
<1> QED BY <1>1, <1>2, Invariant, PTL DEF Spec, ImplementsHeap, Heap!Spec
=============================================================================
