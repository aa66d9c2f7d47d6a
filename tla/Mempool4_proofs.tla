---------------------------- MODULE Mempool4_proofs ----------------------------
(***************************************************************************)
(* Proofs about Mempool4, for any size classes, values, page sizes and     *)
(* widths of a handle, and any number of pools.  The invariant compares    *)
(* two sets of triples of a pool id, a slot index and a value: what is     *)
(* live in the pools, and what the client entrusted to them.  A step adds, *)
(* removes or replaces the same triple on both sides, a saved image holds  *)
(* the same triples as the pools did, and so do the pools loaded from it.  *)
(***************************************************************************)
EXTENDS Mempool4, VecOps_proofs

-----------------------------------------------------------------------------
(* Handles.                                                                *)

\* A handle has room for every slot index, and at least two of them.
LEMMA WidthFacts ==
  /\ MAX_POOL_ID \in Nat /\ MAX_SLOT_IDX \in Nat \ {0}
  /\ SLOTS \in Nat /\ SLOTS >= 2 /\ SLOTS = MAX_SLOT_IDX + 1
  /\ PTR_LIMIT \in Nat /\ PTR_LIMIT = (MAX_POOL_ID + 1) * SLOTS
BY PoolsAssumption DEF SLOTS, PTR_LIMIT

\* The two parts of a packed word, and nothing else, are what it was packed from.
LEMMA Unpacked ==
  ASSUME NEW w \in Nat \ {0}, NEW id \in Nat, NEW idx \in 0 .. w - 1
  PROVE  (id * w + idx) \div w = id /\ (id * w + idx) % w = idx
<1>1. id * w + idx \in Nat
  OBVIOUS
<1>2. PICK d \in Int, r \in 0 .. w - 1 :
        d = (id * w + idx) \div w /\ r = (id * w + idx) % w /\ id * w + idx = w * d + r
  OBVIOUS
<1>3. d = id
  <2>1. w * (id - d) = r - idx
    BY <1>2
  <2>2. r - idx < w /\ r - idx > -w
    OBVIOUS
  <2>3. CASE id - d >= 1
    <3>1. w * (id - d) >= w
      BY <2>3
    <3> QED BY <2>1, <2>2, <3>1
  <2>4. CASE id - d <= -1
    <3>1. w * (id - d) <= -w
      BY <2>4
    <3> QED BY <2>1, <2>2, <3>1
  <2> QED BY <2>3, <2>4
<1> QED BY <1>2, <1>3

\* The two parts of a word are in range, and pack to it again.
LEMMA Repacked ==
  ASSUME NEW w \in Nat \ {0}, NEW n \in Nat, NEW m \in Nat, n < m * w
  PROVE  /\ n \div w \in 0 .. m - 1 /\ n % w \in 0 .. w - 1
         /\ (n \div w) * w + (n % w) = n
<1>1. PICK d \in Int, r \in 0 .. w - 1 : d = n \div w /\ r = n % w /\ n = w * d + r
  OBVIOUS
<1>2. d >= 0
  <2>1. CASE d <= -1
    <3>1. w * d <= -w
      BY <2>1
    <3> QED BY <1>1, <3>1
  <2> QED BY <2>1
<1>3. d < m
  <2>1. CASE d >= m
    <3>1. w * d >= w * m
      BY <2>1
    <3> QED BY <1>1, <3>1
  <2> QED BY <2>1
<1> QED BY <1>1, <1>2, <1>3

\* A handle that could be made is a word that names its pool and its slot.
LEMMA PtrFacts ==
  ASSUME NEW id \in 0 .. MAX_POOL_ID, NEW idx \in Nat, HasPtr(id, idx)
  PROVE  /\ CustomPtr(id, idx) \in 1 .. PTR_LIMIT - 1
         /\ PoolIdOf(CustomPtr(id, idx)) = id
         /\ SlotIdxOf(CustomPtr(id, idx)) = idx
<1>1. idx \in 0 .. SLOTS - 1 /\ id \in Nat
  BY WidthFacts DEF HasPtr
<1>2. CustomPtr(id, idx) - 1 = id * SLOTS + idx
  BY <1>1, WidthFacts DEF CustomPtr
<1>3. PoolIdOf(CustomPtr(id, idx)) = id /\ SlotIdxOf(CustomPtr(id, idx)) = idx
  BY <1>1, <1>2, WidthFacts, Unpacked DEF PoolIdOf, SlotIdxOf
<1>4. id * SLOTS \in Nat
  BY <1>1, WidthFacts
<1> QED BY <1>1, <1>3, <1>4, WidthFacts DEF HasPtr, CustomPtr

\* And two handles that name the same are one.
LEMMA PtrParts ==
  ASSUME NEW ptr \in 1 .. PTR_LIMIT - 1
  PROVE  /\ PoolIdOf(ptr) \in 0 .. MAX_POOL_ID
         /\ SlotIdxOf(ptr) \in 0 .. MAX_SLOT_IDX
         /\ ptr = CustomPtr(PoolIdOf(ptr), SlotIdxOf(ptr))
<1>1. ptr - 1 \in Nat /\ ptr - 1 < (MAX_POOL_ID + 1) * SLOTS
  BY WidthFacts
<1>2. /\ (ptr - 1) \div SLOTS \in 0 .. (MAX_POOL_ID + 1) - 1
      /\ (ptr - 1) % SLOTS \in 0 .. SLOTS - 1
      /\ ((ptr - 1) \div SLOTS) * SLOTS + ((ptr - 1) % SLOTS) = ptr - 1
  <2>1. SLOTS \in Nat \ {0} /\ MAX_POOL_ID + 1 \in Nat
    BY WidthFacts
  <2> QED BY <1>1, <2>1, Repacked
<1>3. /\ PoolIdOf(ptr) \in 0 .. (MAX_POOL_ID + 1) - 1 /\ SlotIdxOf(ptr) \in 0 .. SLOTS - 1
      /\ PoolIdOf(ptr) * SLOTS + SlotIdxOf(ptr) = ptr - 1
  BY <1>2 DEF PoolIdOf, SlotIdxOf
<1>4. CustomPtr(PoolIdOf(ptr), SlotIdxOf(ptr)) = (ptr - 1) + 1
  BY <1>3 DEF CustomPtr
<1> QED BY <1>3, <1>4, WidthFacts

\* The first slot of a pool has a handle.
LEMMA FirstPtr ==
  ASSUME NEW id \in 0 .. MAX_POOL_ID
  PROVE  HasPtr(id, 0)
<1>1. id * SLOTS + 2 <= PTR_LIMIT
  <2>1. (MAX_POOL_ID - id) * SLOTS >= 0
    BY WidthFacts
  <2>2. PTR_LIMIT = id * SLOTS + (MAX_POOL_ID - id) * SLOTS + SLOTS
    BY WidthFacts
  <2>3. id * SLOTS \in Nat /\ (MAX_POOL_ID - id) * SLOTS \in Nat
    BY WidthFacts
  <2> QED BY <2>1, <2>2, <2>3, WidthFacts
<1>2. id * SLOTS \in Nat
  BY WidthFacts
<1> QED BY <1>1, <1>2, WidthFacts DEF HasPtr, CustomPtr

-----------------------------------------------------------------------------
(* The layout of a pool.                                                   *)

\* What a quotient of naturals is.
LEMMA Quotient ==
  ASSUME NEW n \in Nat, NEW d \in Nat \ {0}
  PROVE  /\ n \div d \in Nat /\ d * (n \div d) <= n /\ n < d * (n \div d) + d
         /\ n >= d => n \div d >= 1
<1>1. PICK q \in Int, r \in 0 .. d - 1 : q = n \div d /\ n = d * q + r
  OBVIOUS
<1>2. CASE q <= -1
  <2>1. d * q <= -d
    BY <1>2
  <2> QED BY <1>1, <2>1
<1>3. CASE q = 0
  BY <1>1, <1>3
<1>4. CASE q >= 1
  BY <1>1, <1>4
<1> QED BY <1>2, <1>3, <1>4

\* The words of a bitmap.
LEMMA WordsNat ==
  ASSUME NEW n \in Nat
  PROVE  DivCeil(n, WORD_BITS) \in Nat /\ WORD_BITS * DivCeil(n, WORD_BITS) <= n + WORD_BITS - 1
<1>1. n + WORD_BITS - 1 \in Nat /\ WORD_BITS \in Nat \ {0}
  BY PoolsAssumption
<1> QED BY <1>1, Quotient DEF DivCeil

\* The slots of a pool, none where the bitmap takes all of it.
LEMMA SlotCountNat ==
  ASSUME NEW capacity \in Nat, NEW size \in Nat \ {0}
  PROVE  SlotCount(capacity, size) \in Nat
<1>1. PICK w \in Nat : w = DivCeil(capacity \div size, WORD_BITS)
  BY Quotient, WordsNat
<1>2. SlotCount(capacity, size) = IF capacity <= w THEN 0 ELSE (capacity - w) \div size
  BY <1>1 DEF SlotCount
<1>3. CASE capacity <= w
  BY <1>2, <1>3
<1>4. CASE ~(capacity <= w)
  <2>1. capacity - w \in Nat
    BY <1>4
  <2> QED BY <1>2, <1>4, <2>1, Quotient
<1> QED BY <1>3, <1>4

\* A page of four slots has room for one, next to the bitmap.
LEMMA FirstSlot ==
  ASSUME NEW capacity \in Nat, NEW size \in Nat \ {0}, capacity >= 4 * size
  PROVE  SlotCount(capacity, size) >= 1
<1>1. PICK q \in Nat : q = capacity \div size
  BY Quotient
<1>2. size * q <= capacity /\ q >= 4
  <2>1. size * q <= capacity /\ capacity < size * q + size
    BY <1>1, Quotient
  <2>2. CASE q <= 3
    <3>1. size * q <= size * 3
      BY <2>2
    <3> QED BY <2>1, <3>1
  <2> QED BY <2>1, <2>2
<1>3. PICK w \in Nat : w = DivCeil(q, WORD_BITS) /\ WORD_BITS * w <= q + WORD_BITS - 1
  BY WordsNat
<1>4. w <= q - 1
  <2>1. WORD_BITS \in Nat /\ WORD_BITS >= 2
    BY PoolsAssumption
  <2>2. CASE w >= q
    <3>1. WORD_BITS * w >= WORD_BITS * q
      BY <2>1, <2>2
    <3>2. (WORD_BITS - 1) * (q - 1) >= 1 * 1
      BY <1>2, <2>1
    <3>3. (WORD_BITS - 1) * (q - 1) = WORD_BITS * q - WORD_BITS - q + 1
      BY <2>1
    <3> QED BY <1>3, <2>1, <3>1, <3>2, <3>3
  <2> QED BY <2>2
<1>5. capacity - w >= size
  <2>1. size * q = q * (size - 1) + q
    OBVIOUS
  <2>2. q * (size - 1) >= 1 * (size - 1)
    BY <1>2
  <2> QED BY <1>2, <1>4, <2>1, <2>2
<1>6. capacity - w \in Nat /\ ~(capacity <= w)
  BY <1>5
<1>7. SlotCount(capacity, size) = (capacity - w) \div size
  BY <1>1, <1>3, <1>6 DEF SlotCount
<1> QED BY <1>5, <1>6, <1>7, Quotient

\* The capacity worked out from a slot count has room for as many, where it asks
\* for no further bitmap word.
LEMMA FreshRoom ==
  ASSUME NEW count \in Nat, NEW size \in Nat \ {0},
         LET words == DivCeil(count, WORD_BITS) IN
         DivCeil(count + words \div size, WORD_BITS) = words
  PROVE  SlotCount(size * count + DivCeil(count, WORD_BITS), size) = count
<1>1. PICK w \in Nat : w = DivCeil(count, WORD_BITS)
  BY WordsNat
<1>2. PICK c \in Nat : c = size * count + w
  OBVIOUS
<1>3. c \div size = count + w \div size
  <2>1. PICK q \in Nat : q = w \div size
    BY Quotient
  <2>2. size * q <= w /\ w < size * q + size
    BY <2>1, Quotient
  <2>3. PICK r \in 0 .. size - 1 : w = size * q + r
    <3>1. w - size * q \in 0 .. size - 1 /\ w = size * q + (w - size * q)
      BY <2>2
    <3> QED BY <3>1
  <2>4. size * count + size * q = (count + q) * size
    OBVIOUS
  <2>5. c = (count + q) * size + r /\ count + q \in Nat
    BY <1>2, <2>3, <2>4
  <2> QED BY <2>1, <2>5, Unpacked
<1>4. SlotCount(c, size) = IF c <= w THEN 0 ELSE (c - w) \div size
  BY <1>1, <1>3 DEF SlotCount
<1>5. (c - w) \div size = count
  <2>1. c - w = count * size + 0 /\ 0 \in 0 .. size - 1
    BY <1>2
  <2> QED BY <2>1, Unpacked
<1>6. c <= w => count = 0
  BY <1>2
<1> QED BY <1>1, <1>2, <1>4, <1>5, <1>6

-----------------------------------------------------------------------------
(* One pool.                                                               *)

\* What is taken from the front of a free list is not on it any more.
LEMMA TakenFacts ==
  ASSUME NEW s \in Seq(Nat), s # <<>>, IsInjective(s)
  PROVE  /\ Head(s) \in Nat /\ Tail(s) \in Seq(Nat) /\ IsInjective(Tail(s))
         /\ Range(s) = Range(Tail(s)) \cup {Head(s)} /\ Head(s) \notin Range(Tail(s))
<1>1. /\ Len(s) \in Nat /\ Len(s) >= 1 /\ DOMAIN s = 1 .. Len(s)
      /\ Head(s) = s[1] /\ Tail(s) \in Seq(Nat) /\ s[1] \in Nat
      /\ Len(Tail(s)) = Len(s) - 1 /\ DOMAIN Tail(s) = 1 .. Len(s) - 1
      /\ \A i \in 1 .. Len(s) - 1 : Tail(s)[i] = s[i + 1]
  <2>1. Len(s) \in Nat /\ Len(s) # 0 /\ DOMAIN s = 1 .. Len(s)
    BY EmptySeq, LenProperties
  <2>2. /\ Head(s) \in Nat /\ Tail(s) \in Seq(Nat) /\ Len(Tail(s)) = Len(s) - 1
        /\ Head(s) = s[1] /\ \A i \in 1 .. Len(Tail(s)) : Tail(s)[i] = s[i + 1]
    BY HeadTailProperties
  <2>3. DOMAIN Tail(s) = 1 .. Len(Tail(s))
    BY <2>2, LenProperties
  <2> QED BY <2>1, <2>2, <2>3
<1> DEFINE t == Tail(s)
<1>2. \A i \in DOMAIN t : i + 1 \in DOMAIN s /\ t[i] = s[i + 1] /\ i + 1 # 1 /\ i \in Int
  BY <1>1
<1>3. \A j \in DOMAIN s : j = 1 \/ (j - 1 \in DOMAIN t /\ t[j - 1] = s[j])
  <2> TAKE j \in DOMAIN s
  <2>1. j = 1 \/ j - 1 \in 1 .. Len(s) - 1
    BY <1>1
  <2>2. j - 1 + 1 = j
    BY <1>1
  <2> QED BY <1>1, <2>1, <2>2
<1>4. 1 \in DOMAIN s /\ s[1] = Head(s)
  BY <1>1
<1> HIDE DEF t
<1>5. IsInjective(t)
  <2> SUFFICES ASSUME NEW a \in DOMAIN t, NEW b \in DOMAIN t, t[a] = t[b] PROVE a = b
    BY DEF IsInjective
  <2>1. a + 1 = b + 1
    BY <1>2 DEF IsInjective
  <2> QED BY <1>2, <2>1
<1>6. Range(s) = Range(t) \cup {Head(s)}
  <2>1. \A x \in Range(t) : x \in Range(s)
    BY <1>2 DEF Range
  <2>2. \A x \in Range(s) : x \in Range(t) \cup {Head(s)}
    BY <1>3, <1>4 DEF Range
  <2>3. Head(s) \in Range(s)
    BY <1>4 DEF Range
  <2> QED BY <2>1, <2>2, <2>3
<1>7. Head(s) \notin Range(t)
  BY <1>2, <1>4 DEF Range, IsInjective
<1> QED BY <1>1, <1>5, <1>6, <1>7 DEF t

\* And what is put there is on it once, if it was not before.
LEMMA PutFacts ==
  ASSUME NEW s \in Seq(Nat), IsInjective(s), NEW e \in Nat, e \notin Range(s)
  PROVE  /\ <<e>> \o s \in Seq(Nat) /\ IsInjective(<<e>> \o s)
         /\ Range(<<e>> \o s) = Range(s) \cup {e}
<1>1. \A q \in Seq(Nat) : /\ \A a : a \in Range(q) <=> Contains(q, a)
                          /\ IsInjective(q) <=> NoDup(q)
  <2> TAKE q \in Seq(Nat)
  <2>1. DOMAIN q = 1 .. Len(q) /\ ToSet(q) = Range(q)
    BY LenProperties DEF ToSet, Range
  <2> QED BY <2>1, SetOfVector
<1>2. PICK t \in Seq(Nat) : t = <<e>> \o s
  BY PushedFront
<1>3. /\ \A a : Contains(t, a) <=> Contains(s, a) \/ a = e
      /\ NoDup(s) /\ ~Contains(s, e) => NoDup(t)
  BY <1>2, PushedFront
<1>4. IsInjective(t) /\ \A a : a \in Range(t) <=> a \in Range(s) \/ a = e
  BY <1>1, <1>3
<1> QED BY <1>2, <1>4

\* What each pool knows of itself.
Sane(p) ==
  /\ p.slot_count \in Nat /\ p \in PoolType(p.slot_count)
  /\ p.bump <= p.slot_count
  /\ IsInjective(p.free_list)
  /\ Range(p.free_list) \cap p.bitmap = {}
  /\ Range(p.free_list) \cup p.bitmap = 0 .. p.bump - 1
  /\ p.live = Cardinality(p.bitmap)

\* What is live in a sound pool is one of its slots.
LEMMA SaneFacts ==
  ASSUME NEW p, Sane(p)
  PROVE  /\ p.pool_id \in 0 .. MAX_POOL_ID /\ p.slot_size \in SIZE_CLASSES
         /\ p.bump \in Nat /\ p.free_list \in Seq(Nat) /\ p.live \in Nat
         /\ p.bitmap \in SUBSET (0 .. p.slot_count - 1) /\ p.bitmap \in SUBSET Nat
         /\ IsFiniteSet(p.bitmap)
         /\ p.slots \in [0 .. p.slot_count - 1 -> Value \cup {Free}]
<1>1. /\ p.pool_id \in 0 .. MAX_POOL_ID /\ p.slot_size \in SIZE_CLASSES
      /\ p.bump \in Nat /\ p.free_list \in Seq(Nat) /\ p.bitmap \in SUBSET Nat /\ p.live \in Nat
      /\ p.slots \in [0 .. p.slot_count - 1 -> Value \cup {Free}]
  BY DEF Sane, PoolType
<1>2. p.bitmap \in SUBSET (0 .. p.bump - 1)
  BY DEF Sane
<1>3. IsFiniteSet(0 .. p.bump - 1)
  <2>1. p.bump - 1 \in Int /\ 0 \in Int
    BY <1>1
  <2> QED BY <2>1, FS_Interval
<1>4. IsFiniteSet(p.bitmap)
  BY <1>2, <1>3, FS_Subset
<1> QED BY <1>1, <1>2, <1>4 DEF Sane

\* A new pool.
LEMMA NewPoolFacts ==
  ASSUME NEW id \in 0 .. MAX_POOL_ID, NEW size \in SIZE_CLASSES, NEW capacity \in Nat
  PROVE  /\ Sane(NewPool(id, size, capacity))
         /\ NewPool(id, size, capacity).pool_id = id
         /\ NewPool(id, size, capacity).slot_size = size
         /\ NewPool(id, size, capacity).slot_count = SlotCount(capacity, size)
         /\ NewPool(id, size, capacity).bump = 0
         /\ NewPool(id, size, capacity).free_list = <<>>
         /\ NewPool(id, size, capacity).bitmap = {}
         /\ NewPool(id, size, capacity).live = 0
         /\ NewPool(id, size, capacity).slots =
              [i \in 0 .. SlotCount(capacity, size) - 1 |-> Free]
<1>1. PICK n \in Nat : n = SlotCount(capacity, size)
  BY SlotCountNat, PoolsAssumption
<1>2. PICK p : p = NewPool(id, size, capacity)
  OBVIOUS
<1>3. p = [pool_id |-> id, slot_size |-> size, slot_count |-> n,
           bump |-> 0, free_list |-> <<>>, bitmap |-> {}, live |-> 0,
           slots |-> [i \in 0 .. n - 1 |-> Free]]
  BY <1>1, <1>2 DEF NewPool
<1>4. p \in PoolType(n)
  BY <1>3 DEF PoolType
<1>5. Range(<<>>) = {} /\ IsInjective(<<>>) /\ Cardinality({}) = 0
  BY FS_EmptySet DEF Range, IsInjective
<1>6. 0 .. 0 - 1 = {}
  OBVIOUS
<1>7. Sane(p)
  BY <1>3, <1>4, <1>5, <1>6 DEF Sane
<1> QED BY <1>1, <1>2, <1>3, <1>7

\* Taking a slot.  It was not live, and the pool knows it as live afterwards.
LEMMA WithSlotFacts ==
  ASSUME NEW p, Sane(p), HasSlot(p), NEW v \in Value \cup {Free}
  PROVE  /\ NextSlot(p) \in 0 .. p.slot_count - 1 /\ NextSlot(p) \notin p.bitmap
         /\ Sane(WithSlot(p, v))
         /\ WithSlot(p, v).pool_id = p.pool_id /\ WithSlot(p, v).slot_size = p.slot_size
         /\ WithSlot(p, v).slot_count = p.slot_count
         /\ WithSlot(p, v).bitmap = p.bitmap \cup {NextSlot(p)}
         /\ WithSlot(p, v).slots = [p.slots EXCEPT ![NextSlot(p)] = v]
<1>0. /\ p.bump \in Nat /\ p.free_list \in Seq(Nat) /\ p.live \in Nat
      /\ p.bitmap \in SUBSET Nat /\ IsFiniteSet(p.bitmap)
      /\ p.slots \in [0 .. p.slot_count - 1 -> Value \cup {Free}]
      /\ p.slot_count \in Nat /\ p.bump <= p.slot_count /\ IsInjective(p.free_list)
      /\ Range(p.free_list) \cap p.bitmap = {}
      /\ Range(p.free_list) \cup p.bitmap = 0 .. p.bump - 1
      /\ p.live = Cardinality(p.bitmap)
  BY SaneFacts DEF Sane
<1>1. PICK i, b, f :
        /\ i = NextSlot(p)
        /\ b = IF p.free_list # <<>> THEN p.bump ELSE p.bump + 1
        /\ f = IF p.free_list # <<>> THEN Tail(p.free_list) ELSE p.free_list
  OBVIOUS
<1>2. /\ i \in 0 .. b - 1 /\ b \in Nat /\ b <= p.slot_count /\ i \notin p.bitmap
      /\ f \in Seq(Nat) /\ IsInjective(f)
      /\ Range(f) \cap (p.bitmap \cup {i}) = {}
      /\ Range(f) \cup (p.bitmap \cup {i}) = 0 .. b - 1
  <2>1. CASE p.free_list # <<>>
    <3>1. i = Head(p.free_list) /\ b = p.bump /\ f = Tail(p.free_list)
      BY <1>1, <2>1 DEF NextSlot
    <3>2. /\ f \in Seq(Nat) /\ IsInjective(f) /\ i \notin Range(f)
          /\ Range(p.free_list) = Range(f) \cup {i}
      BY <1>0, <2>1, <3>1, TakenFacts
    <3> QED BY <1>0, <3>1, <3>2
  <2>2. CASE p.free_list = <<>>
    <3>1. i = p.bump /\ b = p.bump + 1 /\ f = p.free_list /\ p.bump < p.slot_count
      BY <1>1, <2>2 DEF NextSlot, HasSlot
    <3>2. Range(f) \cup p.bitmap = 0 .. i - 1
      BY <1>0, <3>1
    <3>3. i \notin 0 .. i - 1 /\ 0 .. b - 1 = (0 .. i - 1) \cup {i}
      BY <1>0, <3>1
    <3> QED BY <1>0, <3>1, <3>2, <3>3
  <2> QED BY <2>1, <2>2
<1>3. PICK q : q = WithSlot(p, v)
  OBVIOUS
<1>4. /\ q.pool_id = p.pool_id /\ q.slot_size = p.slot_size /\ q.slot_count = p.slot_count
      /\ q.bump = b /\ q.free_list = f /\ q.bitmap = p.bitmap \cup {i} /\ q.live = p.live + 1
      /\ q.slots = [p.slots EXCEPT ![i] = v]
      /\ q \in PoolType(p.slot_count)
  <2>1. p \in PoolType(p.slot_count)
    BY DEF Sane
  <2>2. i \in 0 .. p.slot_count - 1 /\ i \in Nat
    BY <1>0, <1>2
  <2>3. q = [p EXCEPT !.bump = b, !.free_list = f, !.bitmap = p.bitmap \cup {i},
                      !.live = p.live + 1, !.slots = [p.slots EXCEPT ![i] = v]]
    BY <1>1, <1>3, <2>1 DEF WithSlot, PoolType
  <2>4. /\ q.pool_id = p.pool_id /\ q.slot_size = p.slot_size /\ q.slot_count = p.slot_count
        /\ q.bump = b /\ q.free_list = f /\ q.bitmap = p.bitmap \cup {i} /\ q.live = p.live + 1
        /\ q.slots = [p.slots EXCEPT ![i] = v]
    BY <2>1, <2>3 DEF PoolType
  <2>5. p.live + 1 \in Nat /\ p.bitmap \cup {i} \in SUBSET Nat
    BY <1>0, <2>2
  <2>6. [p.slots EXCEPT ![i] = v] \in [0 .. p.slot_count - 1 -> Value \cup {Free}]
    BY <1>0, <2>2
  <2>7. q \in PoolType(p.slot_count)
    BY <1>0, <1>2, <2>1, <2>3, <2>5, <2>6 DEF PoolType
  <2> QED BY <2>4, <2>7
<1>5. Cardinality(p.bitmap \cup {i}) = Cardinality(p.bitmap) + 1
  BY <1>0, <1>2, FS_AddElement
<1>6. Sane(q)
  BY <1>0, <1>2, <1>4, <1>5 DEF Sane
<1>7. i \in 0 .. p.slot_count - 1
  BY <1>0, <1>2
<1> QED BY <1>1, <1>2, <1>3, <1>4, <1>6, <1>7

\* Giving one back.
LEMMA WithoutSlotFacts ==
  ASSUME NEW p, Sane(p), NEW i \in p.bitmap
  PROVE  /\ Sane(WithoutSlot(p, i))
         /\ WithoutSlot(p, i).pool_id = p.pool_id
         /\ WithoutSlot(p, i).bitmap = p.bitmap \ {i}
         /\ WithoutSlot(p, i).slots = [p.slots EXCEPT ![i] = Free]
<1>0. /\ p.bump \in Nat /\ p.free_list \in Seq(Nat) /\ p.live \in Nat
      /\ p.bitmap \in SUBSET Nat /\ IsFiniteSet(p.bitmap)
      /\ p.bitmap \in SUBSET (0 .. p.slot_count - 1)
      /\ p.slots \in [0 .. p.slot_count - 1 -> Value \cup {Free}]
      /\ p.slot_count \in Nat /\ p.bump <= p.slot_count /\ IsInjective(p.free_list)
      /\ Range(p.free_list) \cap p.bitmap = {}
      /\ Range(p.free_list) \cup p.bitmap = 0 .. p.bump - 1
      /\ p.live = Cardinality(p.bitmap) /\ p \in PoolType(p.slot_count)
  BY SaneFacts DEF Sane
<1>1. PICK f : f = <<i>> \o p.free_list
  OBVIOUS
<1>2. f \in Seq(Nat) /\ IsInjective(f) /\ Range(f) = Range(p.free_list) \cup {i}
  <2>1. i \in Nat /\ i \notin Range(p.free_list)
    BY <1>0
  <2> QED BY <1>0, <1>1, <2>1, PutFacts
<1>3. Cardinality(p.bitmap \ {i}) = Cardinality(p.bitmap) - 1 /\ Cardinality(p.bitmap \ {i}) \in Nat
  <2>1. /\ IsFiniteSet(p.bitmap \ {i})
        /\ Cardinality(p.bitmap \ {i}) = Cardinality(p.bitmap) - 1
    BY <1>0, FS_RemoveElement
  <2> QED BY <2>1, FS_CardinalityType
<1>4. PICK q : q = WithoutSlot(p, i)
  OBVIOUS
<1>5. q = [p EXCEPT !.live = p.live - 1, !.free_list = f,
                    !.slots = [p.slots EXCEPT ![i] = Free], !.bitmap = p.bitmap \ {i}]
  BY <1>0, <1>1, <1>4 DEF WithoutSlot, PoolType
<1>6. /\ q.pool_id = p.pool_id /\ q.slot_count = p.slot_count /\ q.bump = p.bump
      /\ q.free_list = f /\ q.bitmap = p.bitmap \ {i} /\ q.live = p.live - 1
      /\ q.slots = [p.slots EXCEPT ![i] = Free]
  BY <1>0, <1>5 DEF PoolType
<1>7. q \in PoolType(p.slot_count)
  <2>1. [p.slots EXCEPT ![i] = Free] \in [0 .. p.slot_count - 1 -> Value \cup {Free}]
    BY <1>0
  <2>2. p.live - 1 \in Nat /\ p.bitmap \ {i} \in SUBSET Nat
    BY <1>0, <1>3
  <2> QED BY <1>0, <1>2, <1>5, <2>1, <2>2 DEF PoolType
<1>8. Range(f) \cap (p.bitmap \ {i}) = {} /\ Range(f) \cup (p.bitmap \ {i}) = 0 .. p.bump - 1
  BY <1>0, <1>2
<1>9. Sane(q)
  BY <1>0, <1>2, <1>3, <1>6, <1>7, <1>8 DEF Sane
<1> QED BY <1>4, <1>6, <1>9

\* Writing to a live slot.
LEMMA WrittenFacts ==
  ASSUME NEW p, Sane(p), NEW i \in p.bitmap, NEW v \in Value
  PROVE  LET q == [p EXCEPT !.slots[i] = v] IN
         /\ Sane(q) /\ q.pool_id = p.pool_id /\ q.bitmap = p.bitmap
         /\ q.slots = [p.slots EXCEPT ![i] = v]
<1>1. p \in PoolType(p.slot_count) /\ p.slots \in [0 .. p.slot_count - 1 -> Value \cup {Free}]
  BY SaneFacts DEF Sane
<1>2. PICK q : q = [p EXCEPT !.slots[i] = v]
  OBVIOUS
<1>3. q = [p EXCEPT !.slots = [p.slots EXCEPT ![i] = v]]
  BY <1>1, <1>2 DEF PoolType
<1>4. [p.slots EXCEPT ![i] = v] \in [0 .. p.slot_count - 1 -> Value \cup {Free}]
  BY <1>1
<1>5. /\ q.pool_id = p.pool_id /\ q.slot_count = p.slot_count /\ q.bump = p.bump
      /\ q.free_list = p.free_list /\ q.bitmap = p.bitmap /\ q.live = p.live
      /\ q.slots = [p.slots EXCEPT ![i] = v] /\ q \in PoolType(p.slot_count)
  BY <1>1, <1>3, <1>4 DEF PoolType
<1>6. Sane(q)
  BY <1>5 DEF Sane
<1> QED BY <1>2, <1>5, <1>6

-----------------------------------------------------------------------------
(* What pools hold, and what the client has entrusted to them: triples of  *)
(* pool id, slot and value.                                                *)

PoolContents(p) == {<<p.pool_id, s, p.slots[s]>> : s \in p.bitmap}
Contents(ps) == UNION {PoolContents(p) : p \in Range(ps)}

Entrusted(g, l) ==
  {<<PoolIdOf(ptr), SlotIdxOf(ptr), g[ptr]>> : ptr \in DOMAIN g}
    \cup {<<q[1], q[2], Free>> : q \in l}

IdsApart(ps) == \A i, j \in DOMAIN ps : i # j => ps[i].pool_id # ps[j].pool_id

\* A slot that is taken.
LEMMA TakenContents ==
  ASSUME NEW p, Sane(p), HasSlot(p), NEW v \in Value \cup {Free}
  PROVE  PoolContents(WithSlot(p, v)) = PoolContents(p) \cup {<<p.pool_id, NextSlot(p), v>>}
<1>1. PICK q, i : q = WithSlot(p, v) /\ i = NextSlot(p)
  OBVIOUS
<1>2. /\ i \in 0 .. p.slot_count - 1 /\ i \notin p.bitmap /\ q.pool_id = p.pool_id
      /\ q.bitmap = p.bitmap \cup {i} /\ q.slots = [p.slots EXCEPT ![i] = v]
  BY <1>1, WithSlotFacts
<1>3. p.slots \in [0 .. p.slot_count - 1 -> Value \cup {Free}]
  BY SaneFacts
<1>4. q.slots[i] = v /\ \A s \in p.bitmap : q.slots[s] = p.slots[s]
  BY <1>2, <1>3, SaneFacts
<1>5. PoolContents(q) = PoolContents(p) \cup {<<p.pool_id, i, v>>}
  BY <1>2, <1>4 DEF PoolContents
<1> QED BY <1>1, <1>5

\* One that is given back.
LEMMA GivenBackContents ==
  ASSUME NEW p, Sane(p), NEW i \in p.bitmap
  PROVE  PoolContents(WithoutSlot(p, i)) = PoolContents(p) \ {<<p.pool_id, i, p.slots[i]>>}
<1>1. PICK q : q = WithoutSlot(p, i)
  OBVIOUS
<1>2. /\ q.pool_id = p.pool_id /\ q.bitmap = p.bitmap \ {i}
      /\ q.slots = [p.slots EXCEPT ![i] = Free]
  BY <1>1, WithoutSlotFacts
<1>3. \A s \in p.bitmap \ {i} : q.slots[s] = p.slots[s]
  BY <1>2, SaneFacts
<1>4. PoolContents(q) = PoolContents(p) \ {<<p.pool_id, i, p.slots[i]>>}
  BY <1>2, <1>3 DEF PoolContents
<1> QED BY <1>1, <1>4

\* One that is written to.
LEMMA WrittenContents ==
  ASSUME NEW p, Sane(p), NEW i \in p.bitmap, NEW v \in Value
  PROVE  PoolContents([p EXCEPT !.slots[i] = v]) =
           (PoolContents(p) \ {<<p.pool_id, i, p.slots[i]>>}) \cup {<<p.pool_id, i, v>>}
<1>1. PICK q : q = [p EXCEPT !.slots[i] = v]
  OBVIOUS
<1>2. q.pool_id = p.pool_id /\ q.bitmap = p.bitmap /\ q.slots = [p.slots EXCEPT ![i] = v]
  BY <1>1, WrittenFacts
<1>3. q.slots[i] = v /\ \A s \in p.bitmap \ {i} : q.slots[s] = p.slots[s]
  BY <1>2, SaneFacts
<1>4. PoolContents(q) =
        (PoolContents(p) \ {<<p.pool_id, i, p.slots[i]>>}) \cup {<<p.pool_id, i, v>>}
  BY <1>2, <1>3 DEF PoolContents
<1> QED BY <1>1, <1>4

\* A pool changes, and keeps its id.
LEMMA PoolReplaced ==
  ASSUME NEW S, NEW ps \in Seq(S), IdsApart(ps), \A i \in DOMAIN ps : Sane(ps[i]),
         NEW k \in DOMAIN ps, NEW q, Sane(q), q.pool_id = ps[k].pool_id
  PROVE  LET qs == [ps EXCEPT ![k] = q] IN
         /\ qs \in Seq(Range(qs)) /\ DOMAIN qs = DOMAIN ps /\ IdsApart(qs)
         /\ \A i \in DOMAIN qs : Sane(qs[i]) /\ qs[i].pool_id = ps[i].pool_id
         /\ Contents(qs) = (Contents(ps) \ PoolContents(ps[k])) \cup PoolContents(q)
<1>1. PICK qs : qs = [ps EXCEPT ![k] = q]
  OBVIOUS
<1>2. /\ Len(ps) \in Nat /\ DOMAIN ps = 1 .. Len(ps) /\ DOMAIN qs = 1 .. Len(ps)
      /\ qs[k] = q /\ \A i \in DOMAIN ps \ {k} : qs[i] = ps[i]
      /\ qs = [i \in 1 .. Len(ps) |-> IF i = k THEN q ELSE ps[i]]
  BY <1>1, LenProperties
<1>3. qs \in Seq(Range(qs))
  <2>1. \A i \in 1 .. Len(ps) : qs[i] \in Range(qs)
    BY <1>2 DEF Range
  <2>2. qs \in [1 .. Len(ps) -> Range(qs)]
    BY <1>2, <2>1
  <2> QED BY <1>2, <2>2, SeqDef
<1>4. IdsApart(qs)
  BY <1>2 DEF IdsApart
<1>5. \A i \in DOMAIN qs : Sane(qs[i]) /\ qs[i].pool_id = ps[i].pool_id
  BY <1>2
<1>6. \A i \in DOMAIN ps \ {k} : PoolContents(ps[i]) \cap PoolContents(ps[k]) = {}
  BY DEF IdsApart, PoolContents
<1>7. /\ \A t : t \in Contents(ps) <=> \E i \in DOMAIN ps : t \in PoolContents(ps[i])
      /\ \A t : t \in Contents(qs) <=> \E i \in DOMAIN qs : t \in PoolContents(qs[i])
  BY DEF Contents, Range
<1>8. ASSUME NEW t
      PROVE  t \in Contents(qs) <=>
               (t \in Contents(ps) /\ t \notin PoolContents(ps[k])) \/ t \in PoolContents(q)
  <2>1. t \in Contents(qs) <=> t \in PoolContents(q) \/ \E i \in DOMAIN ps \ {k} : t \in PoolContents(ps[i])
    BY <1>2, <1>7
  <2>2. (\E i \in DOMAIN ps \ {k} : t \in PoolContents(ps[i]))
          <=> t \in Contents(ps) /\ t \notin PoolContents(ps[k])
    BY <1>6, <1>7
  <2> QED BY <2>1, <2>2
<1>9. Contents(qs) = (Contents(ps) \ PoolContents(ps[k])) \cup PoolContents(q)
  BY <1>8
<1> QED BY <1>1, <1>2, <1>3, <1>4, <1>5, <1>9

\* A pool is added, with an id of its own.
LEMMA PoolAppended ==
  ASSUME NEW S, NEW ps \in Seq(S), IdsApart(ps), \A i \in DOMAIN ps : Sane(ps[i]),
         NEW q, Sane(q), \A i \in DOMAIN ps : ps[i].pool_id # q.pool_id
  PROVE  LET qs == Append(ps, q) IN
         /\ qs \in Seq(Range(qs)) /\ IdsApart(qs)
         /\ \A i \in DOMAIN qs : Sane(qs[i]) /\ ((i \in DOMAIN ps /\ qs[i] = ps[i]) \/ qs[i] = q)
         /\ Contents(qs) = Contents(ps) \cup PoolContents(q)
<1>1. PICK qs, n : qs = Append(ps, q) /\ n = Len(ps) + 1
  OBVIOUS
<1>2. ps \in Seq(S \cup {q}) /\ q \in S \cup {q}
  <2>1. Len(ps) \in Nat /\ ps \in [1 .. Len(ps) -> S]
    BY LenProperties
  <2>2. ps \in [1 .. Len(ps) -> S \cup {q}]
    BY <2>1
  <2> QED BY <2>1, <2>2, SeqDef
<1>3. /\ Len(ps) \in Nat /\ DOMAIN ps = 1 .. Len(ps) /\ DOMAIN qs = 1 .. n /\ n \in Nat
      /\ qs[n] = q /\ (\A i \in DOMAIN ps : qs[i] = ps[i]) /\ n \notin DOMAIN ps
      /\ qs \in Seq(S \cup {q})
  <2>1. /\ qs \in Seq(S \cup {q}) /\ Len(qs) = Len(ps) + 1
        /\ \A i \in 1 .. Len(ps) : qs[i] = ps[i]
        /\ qs[Len(ps) + 1] = q
    BY <1>1, <1>2, AppendProperties
  <2>2. Len(ps) \in Nat /\ DOMAIN ps = 1 .. Len(ps) /\ DOMAIN qs = 1 .. Len(qs)
    BY <1>2, <2>1, LenProperties
  <2> QED BY <1>1, <2>1, <2>2
<1>4. \A i \in DOMAIN qs : i \in DOMAIN ps \/ i = n
  BY <1>1, <1>3
<1>5. qs \in Seq(Range(qs))
  <2>1. \A i \in 1 .. n : qs[i] \in Range(qs)
    BY <1>3 DEF Range
  <2>2. qs \in [1 .. n -> Range(qs)]
    <3>1. qs \in [1 .. Len(qs) -> S \cup {q}] /\ DOMAIN qs = 1 .. Len(qs)
      BY <1>3, LenProperties
    <3> QED BY <1>3, <2>1, <3>1
  <2> QED BY <1>3, <2>2, SeqDef
<1>6. IdsApart(qs)
  <2> SUFFICES ASSUME NEW i \in DOMAIN qs, NEW j \in DOMAIN qs, i # j
               PROVE  qs[i].pool_id # qs[j].pool_id
    BY DEF IdsApart
  <2> QED BY <1>3, <1>4 DEF IdsApart
<1>7. \A i \in DOMAIN qs : Sane(qs[i]) /\ ((i \in DOMAIN ps /\ qs[i] = ps[i]) \/ qs[i] = q)
  BY <1>3, <1>4
<1>8. /\ \A t : t \in Contents(ps) <=> \E i \in DOMAIN ps : t \in PoolContents(ps[i])
      /\ \A t : t \in Contents(qs) <=> \E i \in DOMAIN qs : t \in PoolContents(qs[i])
  BY DEF Contents, Range
<1>9. Contents(qs) = Contents(ps) \cup PoolContents(q)
  <2>1. \A t \in Contents(qs) : t \in Contents(ps) \/ t \in PoolContents(q)
    BY <1>3, <1>4, <1>8
  <2>2. \A t \in Contents(ps) : t \in Contents(qs)
    <3>1. \A i \in DOMAIN ps : i \in DOMAIN qs
      BY <1>1, <1>3
    <3> QED BY <1>3, <1>8, <3>1
  <2>3. \A t \in PoolContents(q) : t \in Contents(qs)
    <3>1. n \in DOMAIN qs
      BY <1>1, <1>3
    <3> QED BY <1>3, <1>8, <3>1
  <2> QED BY <2>1, <2>2, <2>3
<1> QED BY <1>1, <1>5, <1>6, <1>7, <1>9

-----------------------------------------------------------------------------
(* What a saved pool is loaded as.                                         *)

\* A pool as serialize writes it.
SavedPool(m) ==
  /\ m.id \in 0 .. MAX_POOL_ID /\ m.size \in SIZE_CLASSES /\ m.count \in Nat
  /\ m.live \in Seq([idx : 0 .. m.count - 1, data : Value \cup {Free}])

\* The pool after n slots of the image.
Filled(m, n) ==
  [pool_id |-> m.id, slot_size |-> m.size, slot_count |-> FreshPool(m).slot_count,
   bump |-> n, free_list |-> <<>>, bitmap |-> 0 .. n - 1, live |-> n,
   slots |-> [i \in 0 .. FreshPool(m).slot_count - 1 |->
                IF i < n THEN m.live[i + 1].data ELSE Free]]

\* The loop of deserialize, as a function of the number of turns.
Filling(f, m) ==
  f = [n \in 0 .. Len(m.live) |->
         IF n = 0 THEN FreshPool(m) ELSE WithSlot(f[n - 1], m.live[n].data)]

\* The loop begins with the fresh pool, which is as good as any.
LEMMA FreshFacts ==
  ASSUME NEW m, SavedPool(m)
  PROVE  /\ FreshPool(m).slot_count \in Nat
         /\ Filled(m, 0) = FreshPool(m)
<1>1. DivCeil(m.count, WORD_BITS) \in Nat /\ m.size \in Nat \ {0} /\ m.count \in Nat
  BY WordsNat, PoolsAssumption DEF SavedPool
<1>2. PICK c \in Nat : c = m.size * m.count + DivCeil(m.count, WORD_BITS)
  BY <1>1
<1>3. FreshPool(m) = NewPool(m.id, m.size, c)
  BY <1>2 DEF FreshPool
<1>4. PICK n \in Nat : n = SlotCount(c, m.size)
  BY <1>1, SlotCountNat
<1>5. FreshPool(m) = [pool_id |-> m.id, slot_size |-> m.size, slot_count |-> n,
                      bump |-> 0, free_list |-> <<>>, bitmap |-> {}, live |-> 0,
                      slots |-> [i \in 0 .. n - 1 |-> Free]]
  BY <1>3, <1>4 DEF NewPool
<1>6. FreshPool(m).slot_count = n
  BY <1>5
<1>7. 0 .. 0 - 1 = {}
  OBVIOUS
<1>8. [i \in 0 .. n - 1 |-> IF i < 0 THEN m.live[i + 1].data ELSE Free] = [i \in 0 .. n - 1 |-> Free]
  <2>1. \A i \in 0 .. n - 1 : ~(i < 0)
    OBVIOUS
  <2> QED BY <2>1
<1>9. Filled(m, 0) = [pool_id |-> m.id, slot_size |-> m.size, slot_count |-> n,
                      bump |-> 0, free_list |-> <<>>, bitmap |-> 0 .. 0 - 1, live |-> 0,
                      slots |-> [i \in 0 .. n - 1 |-> IF i < 0 THEN m.live[i + 1].data ELSE Free]]
  BY <1>6 DEF Filled
<1> QED BY <1>5, <1>6, <1>7, <1>8, <1>9

\* And each turn takes the next slot.
LEMMA FilledNext ==
  ASSUME NEW m, SavedPool(m), NEW n \in 1 .. Len(m.live), Len(m.live) <= FreshPool(m).slot_count
  PROVE  WithSlot(Filled(m, n - 1), m.live[n].data) = Filled(m, n)
<1>1. PICK c \in Nat : c = FreshPool(m).slot_count
  BY FreshFacts
<1>2. PICK k \in Nat : k = n - 1 /\ n = k + 1
  OBVIOUS
<1>3. PICK p, v : p = Filled(m, k) /\ v = m.live[n].data
  OBVIOUS
<1>4. p = [pool_id |-> m.id, slot_size |-> m.size, slot_count |-> c,
           bump |-> k, free_list |-> <<>>, bitmap |-> 0 .. k - 1, live |-> k,
           slots |-> [i \in 0 .. c - 1 |-> IF i < k THEN m.live[i + 1].data ELSE Free]]
  BY <1>1, <1>3 DEF Filled
<1>5. /\ p.bump = k /\ p.free_list = <<>> /\ p.bitmap = 0 .. k - 1 /\ p.live = k
      /\ p.slots = [i \in 0 .. c - 1 |-> IF i < k THEN m.live[i + 1].data ELSE Free]
  BY <1>4
<1>6. NextSlot(p) = k
  BY <1>5 DEF NextSlot
<1>7. WithSlot(p, v) = [p EXCEPT !.bump = k + 1, !.free_list = <<>>, !.bitmap = (0 .. k - 1) \cup {k},
                                 !.live = k + 1, !.slots = [p.slots EXCEPT ![k] = v]]
  BY <1>4, <1>5, <1>6 DEF WithSlot
<1>8. WithSlot(p, v) =
        [pool_id |-> m.id, slot_size |-> m.size, slot_count |-> c,
         bump |-> k + 1, free_list |-> <<>>, bitmap |-> (0 .. k - 1) \cup {k}, live |-> k + 1,
         slots |-> [p.slots EXCEPT ![k] = v]]
  BY <1>4, <1>7
<1>9. (0 .. k - 1) \cup {k} = 0 .. n - 1
  BY <1>2
<1>10. [p.slots EXCEPT ![k] = v] = [i \in 0 .. c - 1 |-> IF i < n THEN m.live[i + 1].data ELSE Free]
  <2>1. k \in 0 .. c - 1
    <3>1. Len(m.live) \in Nat
      BY LenProperties DEF SavedPool
    <3> QED BY <1>1, <1>2, <3>1
  <2>2. [p.slots EXCEPT ![k] = v] =
          [i \in 0 .. c - 1 |-> IF i = k THEN v ELSE IF i < k THEN m.live[i + 1].data ELSE Free]
    BY <1>5, <2>1
  <2>3. \A i \in 0 .. c - 1 : (IF i = k THEN v ELSE IF i < k THEN m.live[i + 1].data ELSE Free)
                                = IF i < n THEN m.live[i + 1].data ELSE Free
    BY <1>2, <1>3
  <2> QED BY <2>2, <2>3
<1>11. Filled(m, n) = [pool_id |-> m.id, slot_size |-> m.size, slot_count |-> c,
           bump |-> n, free_list |-> <<>>, bitmap |-> 0 .. n - 1, live |-> n,
           slots |-> [i \in 0 .. c - 1 |-> IF i < n THEN m.live[i + 1].data ELSE Free]]
  BY <1>1 DEF Filled
<1>12. WithSlot(p, v) = Filled(m, n)
  BY <1>2, <1>8, <1>9, <1>10, <1>11
<1> QED BY <1>2, <1>3, <1>12

\* So the loop ends with all slots of the image in place.
LEMMA LoadedIsFilled ==
  ASSUME NEW m, SavedPool(m), Len(m.live) <= FreshPool(m).slot_count
  PROVE  LoadedPool(m) = Filled(m, Len(m.live))
<1>1. PICK L \in Nat : L = Len(m.live)
  BY LenProperties DEF SavedPool
<1> DEFINE c == [n \in 0 .. L |-> Filled(m, n)]
           f == CHOOSE g : Filling(g, m)
<1>2. Filling(c, m)
  <2>1. ASSUME NEW n \in 0 .. L
        PROVE  Filled(m, n) = IF n = 0 THEN FreshPool(m) ELSE WithSlot(c[n - 1], m.live[n].data)
    <3>1. CASE n = 0
      BY <3>1, FreshFacts
    <3>2. CASE n # 0
      <4>1. n \in 1 .. Len(m.live) /\ n - 1 \in 0 .. L
        BY <1>1, <3>2
      <4>2. c[n - 1] = Filled(m, n - 1)
        BY <4>1
      <4> QED BY <3>2, <4>1, <4>2, FilledNext
    <3> QED BY <3>1, <3>2
  <2> QED BY <1>1, <2>1 DEF Filling
<1>3. Filling(f, m)
  BY <1>2
<1>4. LoadedPool(m) = f[L]
  BY <1>1 DEF LoadedPool, Filling
<1> HIDE DEF f
<1>5. \A n \in 0 .. L : f[n] = IF n = 0 THEN FreshPool(m) ELSE WithSlot(f[n - 1], m.live[n].data)
  BY <1>1, <1>3 DEF Filling
<1>6. \A n \in 0 .. L : f[n] = Filled(m, n)
  <2> DEFINE S == {n \in 0 .. L : f[n] # Filled(m, n)}
  <2> SUFFICES ASSUME S # {} PROVE FALSE
    OBVIOUS
  <2>1. S \in SUBSET Nat
    OBVIOUS
  <2>2. PICK n \in S : \A k \in S : n <= k
    BY <2>1, LeastNat
  <2>3. n \in 0 .. L /\ f[n] # Filled(m, n)
    BY <2>2
  <2>4. CASE n = 0
    BY <1>5, <2>3, <2>4, FreshFacts
  <2>5. CASE n # 0
    <3>1. n - 1 \in 0 .. L /\ n \in 1 .. Len(m.live) /\ ~(n <= n - 1)
      BY <1>1, <2>3, <2>5
    <3>2. f[n - 1] = Filled(m, n - 1)
      BY <2>2, <3>1
    <3>3. f[n] = WithSlot(f[n - 1], m.live[n].data)
      BY <1>5, <2>3, <2>5
    <3> QED BY <2>3, <3>1, <3>2, <3>3, FilledNext
  <2> QED BY <2>4, <2>5
<1> QED BY <1>1, <1>4, <1>6

\* What a saved pool holds.
SavedContents(m) == {<<m.id, m.live[k].idx, m.live[k].data>> : k \in DOMAIN m.live}

\* A pool that can be loaded is sound, and holds what was saved.
LEMMA LoadedFacts ==
  ASSUME NEW m, SavedPool(m), PoolLoads(m)
  PROVE  /\ Sane(LoadedPool(m)) /\ LoadedPool(m).pool_id = m.id
         /\ PoolContents(LoadedPool(m)) = SavedContents(m)
<1>1. /\ Len(m.live) <= FreshPool(m).slot_count
      /\ \A k \in DOMAIN m.live : m.live[k].idx = k - 1
  BY DEF PoolLoads
<1>2. PICK L \in Nat, c \in Nat : L = Len(m.live) /\ c = FreshPool(m).slot_count
  BY FreshFacts, LenProperties DEF SavedPool
<1>3. PICK q : q = LoadedPool(m) /\ q = Filled(m, L)
  BY <1>1, <1>2, LoadedIsFilled
<1>4. q = [pool_id |-> m.id, slot_size |-> m.size, slot_count |-> c,
           bump |-> L, free_list |-> <<>>, bitmap |-> 0 .. L - 1, live |-> L,
           slots |-> [i \in 0 .. c - 1 |-> IF i < L THEN m.live[i + 1].data ELSE Free]]
  BY <1>2, <1>3 DEF Filled
<1>5. /\ q.pool_id = m.id /\ q.slot_count = c /\ q.bump = L /\ q.free_list = <<>>
      /\ q.bitmap = 0 .. L - 1 /\ q.live = L
      /\ q.slots = [i \in 0 .. c - 1 |-> IF i < L THEN m.live[i + 1].data ELSE Free]
  BY <1>4
<1>6. /\ DOMAIN m.live = 1 .. L
      /\ \A k \in 1 .. L : m.live[k].data \in Value \cup {Free}
  <2>1. DOMAIN m.live = 1 .. L
    BY <1>2, LenProperties DEF SavedPool
  <2>2. \A k \in 1 .. L : m.live[k] \in [idx : 0 .. m.count - 1, data : Value \cup {Free}]
    BY <1>2, ElementOfSeq DEF SavedPool
  <2> QED BY <2>1, <2>2
<1>7. q.slots \in [0 .. c - 1 -> Value \cup {Free}]
  <2>1. ASSUME NEW i \in 0 .. c - 1
        PROVE  (IF i < L THEN m.live[i + 1].data ELSE Free) \in Value \cup {Free}
    <3>1. i < L => i + 1 \in 1 .. L
      OBVIOUS
    <3> QED BY <1>6, <3>1
  <2> QED BY <1>5, <2>1
<1>8. q \in PoolType(c)
  <2>1. <<>> \in Seq(Nat) /\ 0 .. L - 1 \in SUBSET Nat
    OBVIOUS
  <2>2. m.id \in 0 .. MAX_POOL_ID /\ m.size \in SIZE_CLASSES
    BY DEF SavedPool
  <2> QED BY <1>4, <1>5, <1>7, <2>1, <2>2 DEF PoolType
<1>9. Range(<<>>) = {} /\ IsInjective(<<>>)
  BY DEF Range, IsInjective
<1>10. Cardinality(0 .. L - 1) = L
  <2>1. Cardinality(0 .. L - 1) = IF 0 > L - 1 THEN 0 ELSE L - 1 - 0 + 1
    <3>1. 0 \in Int /\ L - 1 \in Int
      OBVIOUS
    <3> QED BY <3>1, FS_Interval
  <2> QED BY <2>1
<1>11. Sane(q)
  BY <1>1, <1>2, <1>5, <1>8, <1>9, <1>10 DEF Sane
<1>12. PoolContents(q) = SavedContents(m)
  <2>1. \A s \in 0 .. L - 1 : /\ s + 1 \in DOMAIN m.live /\ m.live[s + 1].idx = s
                              /\ q.slots[s] = m.live[s + 1].data
    <3> TAKE s \in 0 .. L - 1
    <3>1. s + 1 \in DOMAIN m.live /\ s + 1 - 1 = s /\ s \in 0 .. c - 1 /\ s < L
      BY <1>1, <1>2, <1>6
    <3> QED BY <1>1, <1>5, <3>1
  <2>2. \A k \in DOMAIN m.live : /\ k - 1 \in 0 .. L - 1 /\ m.live[k].idx = k - 1
                                 /\ q.slots[k - 1] = m.live[k].data
    <3> TAKE k \in DOMAIN m.live
    <3>1. k - 1 \in 0 .. L - 1 /\ k - 1 + 1 = k /\ k - 1 \in 0 .. c - 1 /\ k - 1 < L
      BY <1>1, <1>2, <1>6
    <3> QED BY <1>1, <1>5, <3>1
  <2>3. ASSUME NEW t \in PoolContents(q) PROVE t \in SavedContents(m)
    <3>1. PICK s \in 0 .. L - 1 : t = <<m.id, s, q.slots[s]>>
      BY <1>5 DEF PoolContents
    <3>2. s + 1 \in DOMAIN m.live /\ t = <<m.id, m.live[s + 1].idx, m.live[s + 1].data>>
      BY <2>1, <3>1
    <3> QED BY <3>2 DEF SavedContents
  <2>4. ASSUME NEW t \in SavedContents(m) PROVE t \in PoolContents(q)
    <3>1. PICK k \in DOMAIN m.live : t = <<m.id, m.live[k].idx, m.live[k].data>>
      BY DEF SavedContents
    <3>2. k - 1 \in q.bitmap /\ t = <<q.pool_id, k - 1, q.slots[k - 1]>>
      BY <1>5, <2>2, <3>1
    <3> QED BY <3>2 DEF PoolContents
  <2> QED BY <2>3, <2>4
<1> QED BY <1>3, <1>5, <1>11, <1>12

\* What serialize writes of a pool.
LEMMA SavedFacts ==
  ASSUME NEW p, Sane(p)
  PROVE  /\ SavedPool(PoolImage(p)) /\ PoolImage(p).id = p.pool_id
         /\ SavedContents(PoolImage(p)) = PoolContents(p)
<1>1. /\ p.pool_id \in 0 .. MAX_POOL_ID /\ p.slot_size \in SIZE_CLASSES /\ p.slot_count \in Nat
      /\ p.bitmap \in SUBSET (0 .. p.slot_count - 1) /\ p.bitmap \in SUBSET Nat
      /\ IsFiniteSet(p.bitmap)
      /\ p.slots \in [0 .. p.slot_count - 1 -> Value \cup {Free}]
  BY SaneFacts DEF Sane
<1>2. PICK n \in Nat : n = Cardinality(p.bitmap)
  BY <1>1, FS_CardinalityType
<1>3. /\ \A k \in 1 .. n : Nth(p.bitmap, k) \in p.bitmap
      /\ \A s \in p.bitmap : \E k \in 1 .. n : Nth(p.bitmap, k) = s
  BY <1>1, <1>2, NthFacts
<1>4. PICK m, live : m = PoolImage(p) /\ live = m.live
  OBVIOUS
<1>5. /\ m.id = p.pool_id /\ m.size = p.slot_size /\ m.count = p.slot_count
      /\ live = [k \in 1 .. n |-> [idx |-> Nth(p.bitmap, k), data |-> p.slots[Nth(p.bitmap, k)]]]
  <2>1. /\ LiveSlots(p) = [k \in 1 .. n |-> Nth(p.bitmap, k)]
        /\ DOMAIN LiveSlots(p) = 1 .. n
    BY <1>2 DEF LiveSlots
  <2>2. m = [id |-> p.pool_id, size |-> p.slot_size, count |-> p.slot_count,
             live |-> [k \in 1 .. n |->
                         [idx |-> LiveSlots(p)[k], data |-> p.slots[LiveSlots(p)[k]]]]]
    BY <1>4, <2>1 DEF PoolImage
  <2>3. \A k \in 1 .. n : LiveSlots(p)[k] = Nth(p.bitmap, k)
    BY <2>1
  <2> QED BY <1>4, <2>2, <2>3
<1>6. /\ DOMAIN live = 1 .. n
      /\ \A k \in 1 .. n : /\ live[k].idx = Nth(p.bitmap, k)
                           /\ live[k].data = p.slots[Nth(p.bitmap, k)]
                           /\ live[k] \in [idx : 0 .. m.count - 1, data : Value \cup {Free}]
  <2>1. ASSUME NEW k \in 1 .. n
        PROVE  Nth(p.bitmap, k) \in 0 .. m.count - 1 /\ p.slots[Nth(p.bitmap, k)] \in Value \cup {Free}
    <3>1. Nth(p.bitmap, k) \in p.bitmap
      BY <1>3
    <3> QED BY <1>1, <1>5, <3>1
  <2> QED BY <1>5, <2>1
<1>7. live \in Seq([idx : 0 .. m.count - 1, data : Value \cup {Free}])
  <2>1. live \in [1 .. n -> [idx : 0 .. m.count - 1, data : Value \cup {Free}]]
    BY <1>5, <1>6
  <2> QED BY <2>1, SeqDef
<1>8. SavedPool(m)
  BY <1>1, <1>4, <1>5, <1>7 DEF SavedPool
<1>9. SavedContents(m) = PoolContents(p)
  <2>1. ASSUME NEW t \in SavedContents(m) PROVE t \in PoolContents(p)
    <3>1. PICK k \in 1 .. n : t = <<m.id, live[k].idx, live[k].data>>
      BY <1>4, <1>6 DEF SavedContents
    <3>2. Nth(p.bitmap, k) \in p.bitmap
      BY <1>3
    <3> QED BY <1>5, <1>6, <3>1, <3>2 DEF PoolContents
  <2>2. ASSUME NEW t \in PoolContents(p) PROVE t \in SavedContents(m)
    <3>1. PICK s \in p.bitmap : t = <<p.pool_id, s, p.slots[s]>>
      BY DEF PoolContents
    <3>2. PICK k \in 1 .. n : Nth(p.bitmap, k) = s
      BY <1>3
    <3>3. t = <<m.id, m.live[k].idx, m.live[k].data>> /\ k \in DOMAIN m.live
      BY <1>4, <1>5, <1>6, <3>1, <3>2
    <3> QED BY <3>3 DEF SavedContents
  <2> QED BY <2>1, <2>2
<1> QED BY <1>4, <1>5, <1>8, <1>9

\* An image without free slots below live ones loads, if it has room.
LEMMA DenseLoads ==
  ASSUME NEW m, SavedPool(m), Dense(m)
  PROVE  PoolLoads(m)
<1>1. PICK L \in Nat : L = Len(m.live) /\ DOMAIN m.live = 1 .. L
  BY LenProperties DEF SavedPool
<1>2. m.count \in Nat /\ m.size \in Nat \ {0} /\ m.count <= MAX_SLOT_IDX
  BY PoolsAssumption DEF SavedPool, Dense
<1>3. L <= m.count
  <2>1. CASE L = 0
    BY <1>2, <2>1
  <2>2. CASE L # 0
    <3>1. L \in DOMAIN m.live
      BY <1>1, <2>2
    <3>2. m.live[L] \in [idx : 0 .. m.count - 1, data : Value \cup {Free}]
      BY <1>1, <3>1, ElementOfSeq DEF SavedPool
    <3>3. m.live[L].idx = L - 1 /\ m.live[L].idx \in 0 .. m.count - 1
      BY <3>1, <3>2 DEF Dense
    <3> QED BY <1>2, <3>3
  <2> QED BY <2>1, <2>2
<1>4. FreshPool(m).slot_count = m.count
  <2>1. FreshPool(m).slot_count = SlotCount(m.size * m.count + DivCeil(m.count, WORD_BITS), m.size)
    BY DEF FreshPool, NewPool
  <2> QED BY <1>2, <2>1, FreshRoom DEF Dense
<1> QED BY <1>1, <1>2, <1>3, <1>4 DEF PoolLoads, Dense

-----------------------------------------------------------------------------
(* The client's side.                                                      *)

\* What the client has, and what was lost, name different slots.
Client(g, l) ==
  /\ DOMAIN g \subseteq 1 .. PTR_LIMIT - 1 /\ Range(g) \subseteq Value
  /\ l \subseteq (0 .. MAX_POOL_ID) \X Nat
  /\ \A ptr \in DOMAIN g : <<PoolIdOf(ptr), SlotIdxOf(ptr)>> \notin l

\* A handle with a value, a handle taken back, a slot lost.
With(g, ptr, v) == [q \in DOMAIN g \cup {ptr} |-> IF q = ptr THEN v ELSE g[q]]
Without(g, ptr) == Restrict(g, DOMAIN g \ {ptr})
Lost(l, id, s) == l \cup {<<id, s>>}

\* Two handles to one slot are one.
LEMMA OneHandle ==
  ASSUME NEW a \in 1 .. PTR_LIMIT - 1, NEW b \in 1 .. PTR_LIMIT - 1,
         PoolIdOf(a) = PoolIdOf(b), SlotIdxOf(a) = SlotIdxOf(b)
  PROVE  a = b
<1>1. a = CustomPtr(PoolIdOf(a), SlotIdxOf(a)) /\ b = CustomPtr(PoolIdOf(b), SlotIdxOf(b))
  BY PtrParts
<1> QED BY <1>1

\* A handle is taken back.
LEMMA TakenBack ==
  ASSUME NEW g, NEW l, Client(g, l), NEW ptr \in DOMAIN g
  PROVE  /\ Client(Without(g, ptr), l)
         /\ Entrusted(Without(g, ptr), l)
              = Entrusted(g, l) \ {<<PoolIdOf(ptr), SlotIdxOf(ptr), g[ptr]>>}
<1>1. PICK h, t : h = Without(g, ptr) /\ t = <<PoolIdOf(ptr), SlotIdxOf(ptr), g[ptr]>>
  OBVIOUS
<1>2. DOMAIN h = DOMAIN g \ {ptr} /\ \A q \in DOMAIN h : h[q] = g[q]
  BY <1>1 DEF Without, Restrict
<1>3. Client(h, l)
  BY <1>2 DEF Client, Range
<1>5. t \notin Entrusted(h, l)
  <2>1. ASSUME NEW q \in DOMAIN h PROVE t # <<PoolIdOf(q), SlotIdxOf(q), h[q]>>
    <3>1. q # ptr /\ q \in 1 .. PTR_LIMIT - 1 /\ ptr \in 1 .. PTR_LIMIT - 1
      BY <1>2 DEF Client
    <3>2. ~(PoolIdOf(q) = PoolIdOf(ptr) /\ SlotIdxOf(q) = SlotIdxOf(ptr))
      BY <3>1, OneHandle
    <3> QED BY <1>1, <3>2
  <2>2. ASSUME NEW q \in l PROVE t # <<q[1], q[2], Free>>
    <3>1. q = <<q[1], q[2]>> /\ q # <<PoolIdOf(ptr), SlotIdxOf(ptr)>>
      BY DEF Client
    <3> QED BY <1>1, <3>1
  <2> QED BY <2>1, <2>2 DEF Entrusted
<1>6. Entrusted(h, l) = Entrusted(g, l) \ {t}
  <2>1. Entrusted(h, l) \subseteq Entrusted(g, l)
    BY <1>2 DEF Entrusted
  <2>2. ASSUME NEW u \in Entrusted(g, l), u # t PROVE u \in Entrusted(h, l)
    BY <1>1, <1>2, <2>2 DEF Entrusted
  <2> QED BY <1>5, <2>1, <2>2
<1> QED BY <1>1, <1>3, <1>6

\* A handle is given, or the value behind it replaced.
LEMMA GivenFacts ==
  ASSUME NEW g, NEW l, Client(g, l), NEW ptr \in 1 .. PTR_LIMIT - 1, NEW v \in Value,
         <<PoolIdOf(ptr), SlotIdxOf(ptr)>> \notin l
  PROVE  /\ Client(With(g, ptr, v), l)
         /\ Entrusted(With(g, ptr, v), l)
              = Entrusted(Without(g, ptr), l) \cup {<<PoolIdOf(ptr), SlotIdxOf(ptr), v>>}
         /\ ptr \notin DOMAIN g => Entrusted(Without(g, ptr), l) = Entrusted(g, l)
<1>1. PICK h, r, t : /\ h = With(g, ptr, v) /\ r = Without(g, ptr)
                     /\ t = <<PoolIdOf(ptr), SlotIdxOf(ptr), v>>
  OBVIOUS
<1>2. /\ DOMAIN h = DOMAIN g \cup {ptr} /\ h[ptr] = v
      /\ \A q \in DOMAIN g \ {ptr} : h[q] = g[q]
      /\ DOMAIN r = DOMAIN g \ {ptr} /\ \A q \in DOMAIN r : r[q] = g[q]
  BY <1>1 DEF With, Without, Restrict
<1>3. Client(h, l)
  <2>1. \A q \in DOMAIN h : h[q] \in Value
    BY <1>2 DEF Client, Range
  <2> QED BY <1>2, <2>1 DEF Client, Range
<1>4. Entrusted(h, l) = Entrusted(r, l) \cup {t}
  <2>1. ASSUME NEW u \in Entrusted(h, l) PROVE u \in Entrusted(r, l) \cup {t}
    BY <1>1, <1>2 DEF Entrusted
  <2>2. ASSUME NEW u \in Entrusted(r, l) PROVE u \in Entrusted(h, l)
    BY <1>2 DEF Entrusted
  <2>3. t \in Entrusted(h, l)
    BY <1>1, <1>2 DEF Entrusted
  <2> QED BY <2>1, <2>2, <2>3
<1>5. ptr \notin DOMAIN g => Entrusted(r, l) = Entrusted(g, l)
  <2> SUFFICES ASSUME ptr \notin DOMAIN g PROVE Entrusted(r, l) = Entrusted(g, l)
    OBVIOUS
  <2>1. DOMAIN r = DOMAIN g /\ \A q \in DOMAIN g : r[q] = g[q]
    BY <1>2
  <2> QED BY <2>1 DEF Entrusted
<1> QED BY <1>1, <1>3, <1>4, <1>5

\* A slot is lost.
LEMMA LostFacts ==
  ASSUME NEW g, NEW l, Client(g, l), NEW id \in 0 .. MAX_POOL_ID, NEW s \in Nat,
         \A ptr \in DOMAIN g : ~(PoolIdOf(ptr) = id /\ SlotIdxOf(ptr) = s)
  PROVE  /\ Client(g, Lost(l, id, s))
         /\ Entrusted(g, Lost(l, id, s)) = Entrusted(g, l) \cup {<<id, s, Free>>}
<1>1. PICK q : q = <<id, s>>
  OBVIOUS
<1>2. q \in (0 .. MAX_POOL_ID) \X Nat /\ q[1] = id /\ q[2] = s
  BY <1>1
<1>3. Client(g, l \cup {q})
  BY <1>1, <1>2 DEF Client
<1>4. Entrusted(g, l \cup {q}) = Entrusted(g, l) \cup {<<id, s, Free>>}
  BY <1>2 DEF Entrusted
<1> QED BY <1>1, <1>3, <1>4 DEF Lost

-----------------------------------------------------------------------------
(* The invariant of the pools and the client together, and what keeps it.  *)

\* The pools hold exactly what the client entrusted to them, and what was lost.
Held(ps, g, l) ==
  /\ ps \in Seq(Range(ps)) /\ \A i \in DOMAIN ps : Sane(ps[i])
  /\ IdsApart(ps)
  /\ Client(g, l)
  /\ Contents(ps) = Entrusted(g, l)

\* What is live in a pool is behind a handle or lost.
LEMMA HeldBy ==
  ASSUME NEW ps, NEW g, NEW l, Held(ps, g, l), NEW i \in DOMAIN ps, NEW s
  PROVE  s \in ps[i].bitmap <=>
           \/ \E ptr \in DOMAIN g : PoolIdOf(ptr) = ps[i].pool_id /\ SlotIdxOf(ptr) = s
           \/ <<ps[i].pool_id, s>> \in l
<1>1. /\ \A t : t \in Contents(ps) <=> \E j \in DOMAIN ps : t \in PoolContents(ps[j])
  BY DEF Contents, Range
<1>2. ASSUME s \in ps[i].bitmap
      PROVE  \/ \E ptr \in DOMAIN g : PoolIdOf(ptr) = ps[i].pool_id /\ SlotIdxOf(ptr) = s
             \/ <<ps[i].pool_id, s>> \in l
  <2>1. PICK t : t = <<ps[i].pool_id, s, ps[i].slots[s]>>
    OBVIOUS
  <2>2. t \in Entrusted(g, l)
    BY <1>1, <1>2, <2>1 DEF PoolContents, Held
  <2>3. CASE \E ptr \in DOMAIN g : t = <<PoolIdOf(ptr), SlotIdxOf(ptr), g[ptr]>>
    BY <2>1, <2>3
  <2>4. CASE \E q \in l : t = <<q[1], q[2], Free>>
    <3>1. PICK q \in l : t = <<q[1], q[2], Free>>
      BY <2>4
    <3>2. q = <<q[1], q[2]>>
      BY DEF Held, Client
    <3> QED BY <2>1, <3>1, <3>2
  <2> QED BY <2>2, <2>3, <2>4 DEF Entrusted
<1>3. ASSUME NEW t \in Entrusted(g, l), t[1] = ps[i].pool_id, t[2] = s
      PROVE  s \in ps[i].bitmap /\ ps[i].slots[s] = t[3]
  <2>1. PICK j \in DOMAIN ps : t \in PoolContents(ps[j])
    BY <1>1 DEF Held
  <2>2. t[1] = ps[j].pool_id /\ t[2] \in ps[j].bitmap /\ t[3] = ps[j].slots[t[2]]
    BY <2>1 DEF PoolContents
  <2>3. j = i
    BY <1>3, <2>2 DEF Held, IdsApart
  <2> QED BY <1>3, <2>2, <2>3
<1>4. ASSUME NEW ptr \in DOMAIN g, PoolIdOf(ptr) = ps[i].pool_id, SlotIdxOf(ptr) = s
      PROVE  s \in ps[i].bitmap
  <2>1. PICK t : t = <<PoolIdOf(ptr), SlotIdxOf(ptr), g[ptr]>>
    OBVIOUS
  <2>2. t \in Entrusted(g, l)
    BY <2>1 DEF Entrusted
  <2> QED BY <1>3, <1>4, <2>1, <2>2
<1>5. ASSUME <<ps[i].pool_id, s>> \in l
      PROVE  s \in ps[i].bitmap
  <2>1. PICK q, t : q = <<ps[i].pool_id, s>> /\ t = <<q[1], q[2], Free>>
    OBVIOUS
  <2>2. t \in Entrusted(g, l)
    BY <1>5, <2>1 DEF Entrusted
  <2> QED BY <1>3, <2>1, <2>2
<1> QED BY <1>2, <1>4, <1>5

\* A handle leads to a pool and to the client's value in it.
LEMMA HandleFound ==
  ASSUME NEW ps, NEW g, NEW l, Held(ps, g, l), NEW ptr \in DOMAIN g
  PROVE  \E i \in DOMAIN ps : /\ ps[i].pool_id = PoolIdOf(ptr)
                              /\ SlotIdxOf(ptr) \in ps[i].bitmap
                              /\ ps[i].slots[SlotIdxOf(ptr)] = g[ptr]
<1>1. PICK t : t = <<PoolIdOf(ptr), SlotIdxOf(ptr), g[ptr]>>
  OBVIOUS
<1>2. t \in Contents(ps)
  BY <1>1 DEF Entrusted, Held
<1>3. PICK i \in DOMAIN ps : t \in PoolContents(ps[i])
  BY <1>2 DEF Contents, Range
<1>4. t[1] = ps[i].pool_id /\ t[2] \in ps[i].bitmap /\ t[3] = ps[i].slots[t[2]]
  BY <1>3 DEF PoolContents
<1> QED BY <1>1, <1>4

\* One pool in place of another.
Swapped(ps, i, q) == [ps EXCEPT ![i] = q]

\* The pools are those there were, as far as their ids go.
KeepsIds(qs, ps) == \A j \in DOMAIN qs : j \in DOMAIN ps /\ qs[j].pool_id = ps[j].pool_id

\* The pool and the client's side change alike.
Alike(ps, g, l, i, q, h, k, out, in) ==
  /\ Held(ps, g, l) /\ i \in DOMAIN ps
  /\ Sane(q) /\ q.pool_id = ps[i].pool_id
  /\ Client(h, k)
  /\ out \subseteq PoolContents(ps[i])
  /\ PoolContents(q) = (PoolContents(ps[i]) \ out) \cup in
  /\ Entrusted(h, k) = (Entrusted(g, l) \ out) \cup in

\* One changed pool, where the client's side changes as the pool does.
LEMMA HeldReplaced ==
  ASSUME NEW ps, NEW g, NEW l, NEW i, NEW q, NEW h, NEW k, NEW out, NEW in,
         Alike(ps, g, l, i, q, h, k, out, in)
  PROVE  Held(Swapped(ps, i, q), h, k) /\ KeepsIds(Swapped(ps, i, q), ps)
<1>1. PICK qs : qs = Swapped(ps, i, q)
  OBVIOUS
<1>2. /\ qs \in Seq(Range(qs)) /\ DOMAIN qs = DOMAIN ps /\ IdsApart(qs)
      /\ \A j \in DOMAIN qs : Sane(qs[j]) /\ qs[j].pool_id = ps[j].pool_id
      /\ Contents(qs) = (Contents(ps) \ PoolContents(ps[i])) \cup PoolContents(q)
  BY <1>1, PoolReplaced DEF Held, Alike, Swapped
<1>3. PoolContents(ps[i]) \subseteq Contents(ps)
  BY DEF Contents, Range, Alike
<1>4. Contents(qs) = Entrusted(h, k)
  BY <1>2, <1>3 DEF Held, Alike
<1>5. Held(qs, h, k) /\ KeepsIds(qs, ps)
  BY <1>2, <1>4 DEF Held, KeepsIds, Alike
<1> QED BY <1>1, <1>5

\* A slot of a pool and a handle for it.
LEMMA HeldAlloc ==
  ASSUME NEW ps, NEW g, NEW l, Held(ps, g, l), NEW i \in DOMAIN ps, HasSlot(ps[i]),
         HasPtr(ps[i].pool_id, NextSlot(ps[i])), NEW v \in Value
  PROVE  LET ptr == CustomPtr(ps[i].pool_id, NextSlot(ps[i]))
             qs == Swapped(ps, i, WithSlot(ps[i], v)) IN
         Held(qs, With(g, ptr, v), l) /\ KeepsIds(qs, ps)
<1>1. PICK p, s, q : p = ps[i] /\ s = NextSlot(p) /\ q = WithSlot(p, v)
  OBVIOUS
<1>2. Sane(p) /\ HasSlot(p) /\ p.pool_id \in 0 .. MAX_POOL_ID /\ p.slot_count \in Nat
  BY <1>1, SaneFacts DEF Held, Sane
<1>3. s \in Nat /\ s \notin p.bitmap /\ Sane(q) /\ q.pool_id = p.pool_id
  <2>1. v \in Value \cup {Free}
    OBVIOUS
  <2>2. /\ NextSlot(p) \in 0 .. p.slot_count - 1 /\ NextSlot(p) \notin p.bitmap
        /\ Sane(WithSlot(p, v)) /\ WithSlot(p, v).pool_id = p.pool_id
    BY <1>2, <2>1, WithSlotFacts
  <2> QED BY <1>1, <1>2, <2>2
<1>4. PICK ptr : ptr = CustomPtr(p.pool_id, s)
  OBVIOUS
<1>5. ptr \in 1 .. PTR_LIMIT - 1 /\ PoolIdOf(ptr) = p.pool_id /\ SlotIdxOf(ptr) = s
  BY <1>1, <1>2, <1>3, <1>4, PtrFacts
<1>6. ptr \notin DOMAIN g /\ <<p.pool_id, s>> \notin l
  BY <1>1, <1>3, <1>5, HeldBy
<1>7. PICK t : t = <<p.pool_id, s, v>>
  OBVIOUS
<1>8. Client(With(g, ptr, v), l) /\ Entrusted(With(g, ptr, v), l) = Entrusted(g, l) \cup {t}
  <2>1. Client(g, l) /\ <<PoolIdOf(ptr), SlotIdxOf(ptr)>> \notin l
    BY <1>5, <1>6 DEF Held
  <2>2. t = <<PoolIdOf(ptr), SlotIdxOf(ptr), v>>
    BY <1>5, <1>7
  <2> QED BY <1>5, <1>6, <2>1, <2>2, GivenFacts
<1>9. PoolContents(q) = PoolContents(p) \cup {t}
  BY <1>1, <1>2, <1>7, TakenContents
<1>10. Alike(ps, g, l, i, q, With(g, ptr, v), l, {}, {t})
  BY <1>1, <1>3, <1>8, <1>9 DEF Alike
<1> QED BY <1>1, <1>4, <1>10, HeldReplaced

\* A slot for which there is no handle.
LEMMA HeldLose ==
  ASSUME NEW ps, NEW g, NEW l, Held(ps, g, l), NEW i \in DOMAIN ps, HasSlot(ps[i])
  PROVE  LET qs == Swapped(ps, i, WithSlot(ps[i], Free)) IN
         Held(qs, g, Lost(l, ps[i].pool_id, NextSlot(ps[i]))) /\ KeepsIds(qs, ps)
<1>1. PICK p, s, q, id : /\ p = ps[i] /\ s = NextSlot(p) /\ q = WithSlot(p, Free)
                         /\ id = p.pool_id
  OBVIOUS
<1>2. Sane(p) /\ HasSlot(p) /\ id \in 0 .. MAX_POOL_ID /\ p.slot_count \in Nat
  BY <1>1, SaneFacts DEF Held, Sane
<1>3. s \in Nat /\ s \notin p.bitmap /\ Sane(q) /\ q.pool_id = p.pool_id
  <2>1. Free \in Value \cup {Free}
    OBVIOUS
  <2>2. /\ NextSlot(p) \in 0 .. p.slot_count - 1 /\ NextSlot(p) \notin p.bitmap
        /\ Sane(WithSlot(p, Free)) /\ WithSlot(p, Free).pool_id = p.pool_id
    BY <1>2, <2>1, WithSlotFacts
  <2> QED BY <1>1, <1>2, <2>2
<1>4. \A ptr \in DOMAIN g : ~(PoolIdOf(ptr) = id /\ SlotIdxOf(ptr) = s)
  <2>1. s \in ps[i].bitmap <=>
          \/ \E ptr \in DOMAIN g : PoolIdOf(ptr) = ps[i].pool_id /\ SlotIdxOf(ptr) = s
          \/ <<ps[i].pool_id, s>> \in l
    BY HeldBy
  <2>2. ps[i].pool_id = id /\ s \notin ps[i].bitmap
    BY <1>1, <1>3
  <2> QED BY <2>1, <2>2
<1>5. PICK t : t = <<id, s, Free>>
  OBVIOUS
<1>6. Client(g, Lost(l, id, s)) /\ Entrusted(g, Lost(l, id, s)) = Entrusted(g, l) \cup {t}
  <2>1. Client(g, l)
    BY DEF Held
  <2> QED BY <1>2, <1>3, <1>4, <1>5, <2>1, LostFacts
<1>7. PoolContents(q) = PoolContents(p) \cup {t}
  BY <1>1, <1>2, <1>5, TakenContents
<1>8. Alike(ps, g, l, i, q, g, Lost(l, id, s), {}, {t})
  BY <1>1, <1>3, <1>6, <1>7 DEF Alike
<1> QED BY <1>1, <1>8, HeldReplaced

\* A new pool, and its first slot.
LEMMA HeldNew ==
  ASSUME NEW ps, NEW g, NEW l, Held(ps, g, l),
         NEW id \in 0 .. MAX_POOL_ID, \A i \in DOMAIN ps : ps[i].pool_id # id,
         NEW size \in SIZE_CLASSES, NEW capacity \in Nat, capacity >= 4 * size,
         NEW v \in Value
  PROVE  LET qs == Append(ps, WithSlot(NewPool(id, size, capacity), v)) IN
         /\ Held(qs, With(g, CustomPtr(id, 0), v), l)
         /\ \A j \in DOMAIN qs :
              (j \in DOMAIN ps /\ qs[j].pool_id = ps[j].pool_id) \/ qs[j].pool_id = id
<1>1. PICK p, q, ptr : /\ p = NewPool(id, size, capacity) /\ q = WithSlot(p, v)
                       /\ ptr = CustomPtr(id, 0)
  OBVIOUS
<1>2. /\ Sane(p) /\ p.pool_id = id /\ p.slot_count >= 1 /\ p.bump = 0
      /\ p.free_list = <<>> /\ p.bitmap = {}
  <2>1. size \in Nat \ {0}
    BY PoolsAssumption
  <2>2. SlotCount(capacity, size) >= 1
    BY <2>1, FirstSlot
  <2>3. /\ NewPool(id, size, capacity).pool_id = id
        /\ NewPool(id, size, capacity).slot_count = SlotCount(capacity, size)
        /\ NewPool(id, size, capacity).bump = 0
        /\ NewPool(id, size, capacity).free_list = <<>>
        /\ NewPool(id, size, capacity).bitmap = {}
    BY DEF NewPool
  <2>4. Sane(NewPool(id, size, capacity))
    BY NewPoolFacts
  <2> QED BY <1>1, <2>2, <2>3, <2>4
<1>3. HasSlot(p) /\ NextSlot(p) = 0
  <2>1. p.slot_count \in Nat
    BY <1>2 DEF Sane
  <2> QED BY <1>2, <2>1 DEF HasSlot, NextSlot
<1>4. Sane(q) /\ q.pool_id = id
  <2>1. v \in Value \cup {Free}
    OBVIOUS
  <2> QED BY <1>1, <1>2, <1>3, <2>1, WithSlotFacts
<1>5. ptr \in 1 .. PTR_LIMIT - 1 /\ PoolIdOf(ptr) = id /\ SlotIdxOf(ptr) = 0
  BY <1>1, FirstPtr, PtrFacts
<1>6. /\ \A x \in DOMAIN g : PoolIdOf(x) # id
      /\ <<id, 0>> \notin l
  <2>1. \A t \in Entrusted(g, l) : t[1] # id
    BY DEF Held, Contents, PoolContents, Range
  <2>2. \A x \in DOMAIN g : <<PoolIdOf(x), SlotIdxOf(x), g[x]>>[1] # id
    BY <2>1 DEF Entrusted
  <2>3. \A x \in l : <<x[1], x[2], Free>>[1] # id
    BY <2>1 DEF Entrusted
  <2>4. <<id, 0>> \in l => <<id, 0>>[1] # id
    BY <2>3
  <2> QED BY <2>2, <2>4
<1>7. PICK t : t = <<id, 0, v>>
  OBVIOUS
<1>8. Client(With(g, ptr, v), l) /\ Entrusted(With(g, ptr, v), l) = Entrusted(g, l) \cup {t}
  <2>1. Client(g, l) /\ <<PoolIdOf(ptr), SlotIdxOf(ptr)>> \notin l /\ ptr \notin DOMAIN g
    BY <1>5, <1>6 DEF Held
  <2>2. t = <<PoolIdOf(ptr), SlotIdxOf(ptr), v>>
    BY <1>5, <1>7
  <2> QED BY <1>5, <2>1, <2>2, GivenFacts
<1>9. PoolContents(q) = {t}
  <2>1. PoolContents(p) = {}
    BY <1>2 DEF PoolContents
  <2>2. PoolContents(q) = PoolContents(p) \cup {t}
    BY <1>1, <1>2, <1>3, <1>7, TakenContents
  <2> QED BY <2>1, <2>2
<1>10. PICK qs : qs = Append(ps, q)
  OBVIOUS
<1>11. /\ qs \in Seq(Range(qs)) /\ IdsApart(qs)
       /\ \A i \in DOMAIN qs : Sane(qs[i]) /\ ((i \in DOMAIN ps /\ qs[i] = ps[i]) \/ qs[i] = q)
       /\ Contents(qs) = Contents(ps) \cup PoolContents(q)
  BY <1>4, <1>10, PoolAppended DEF Held
<1>12. Held(qs, With(g, ptr, v), l)
  BY <1>8, <1>9, <1>11 DEF Held
<1> QED BY <1>1, <1>4, <1>10, <1>11, <1>12

\* A value is replaced through its handle.
LEMMA HeldWrite ==
  ASSUME NEW ps, NEW g, NEW l, Held(ps, g, l), NEW ptr \in DOMAIN g, NEW v \in Value,
         NEW i \in DOMAIN ps, ps[i].pool_id = PoolIdOf(ptr)
  PROVE  LET qs == [ps EXCEPT ![i].slots[SlotIdxOf(ptr)] = v] IN
         Held(qs, With(g, ptr, v), l) /\ KeepsIds(qs, ps)
<1>1. PICK p, s, q : p = ps[i] /\ s = SlotIdxOf(ptr) /\ q = [p EXCEPT !.slots[s] = v]
  OBVIOUS
<1>2. Sane(p) /\ s \in p.bitmap /\ p.slots[s] = g[ptr] /\ p.pool_id = PoolIdOf(ptr)
  BY <1>1, HandleFound DEF Held, IdsApart
<1>3. Sane(q) /\ q.pool_id = p.pool_id
  BY <1>1, <1>2, WrittenFacts
<1>4. PICK old, new : old = <<p.pool_id, s, g[ptr]>> /\ new = <<p.pool_id, s, v>>
  OBVIOUS
<1>5. /\ Client(With(g, ptr, v), l)
      /\ Entrusted(With(g, ptr, v), l) = (Entrusted(g, l) \ {old}) \cup {new}
  <2>1. /\ Client(g, l) /\ ptr \in 1 .. PTR_LIMIT - 1
        /\ <<PoolIdOf(ptr), SlotIdxOf(ptr)>> \notin l
    BY DEF Held, Client
  <2>2. /\ old = <<PoolIdOf(ptr), SlotIdxOf(ptr), g[ptr]>>
        /\ new = <<PoolIdOf(ptr), SlotIdxOf(ptr), v>>
    BY <1>1, <1>2, <1>4
  <2>3. Entrusted(Without(g, ptr), l) = Entrusted(g, l) \ {old}
    BY <2>1, <2>2, TakenBack
  <2>4. /\ Client(With(g, ptr, v), l)
        /\ Entrusted(With(g, ptr, v), l) = Entrusted(Without(g, ptr), l) \cup {new}
    BY <2>1, <2>2, GivenFacts
  <2> QED BY <2>3, <2>4
<1>6. PoolContents(q) = (PoolContents(p) \ {old}) \cup {new}
  BY <1>1, <1>2, <1>4, WrittenContents
<1>7. {old} \subseteq PoolContents(p)
  BY <1>2, <1>4 DEF PoolContents
<1>8. [ps EXCEPT ![i].slots[SlotIdxOf(ptr)] = v] = Swapped(ps, i, q)
  BY <1>1 DEF Swapped
<1>9. Alike(ps, g, l, i, q, With(g, ptr, v), l, {old}, {new})
  BY <1>1, <1>3, <1>5, <1>6, <1>7 DEF Alike
<1>10. PICK qs : qs = Swapped(ps, i, q)
  OBVIOUS
<1>11. Held(qs, With(g, ptr, v), l) /\ KeepsIds(qs, ps)
  BY <1>9, <1>10, HeldReplaced
<1> QED BY <1>8, <1>10, <1>11

\* A slot is given back through its handle.
LEMMA HeldFree ==
  ASSUME NEW ps, NEW g, NEW l, Held(ps, g, l), NEW ptr \in DOMAIN g,
         NEW i \in DOMAIN ps, ps[i].pool_id = PoolIdOf(ptr)
  PROVE  LET qs == Swapped(ps, i, WithoutSlot(ps[i], SlotIdxOf(ptr))) IN
         Held(qs, Without(g, ptr), l) /\ KeepsIds(qs, ps)
<1>1. PICK p, s, q, h : /\ p = ps[i] /\ s = SlotIdxOf(ptr) /\ q = WithoutSlot(p, s)
                        /\ h = Without(g, ptr)
  OBVIOUS
<1>2. Sane(p) /\ s \in p.bitmap /\ p.slots[s] = g[ptr] /\ p.pool_id = PoolIdOf(ptr)
  BY <1>1, HandleFound DEF Held, IdsApart
<1>3. Sane(q) /\ q.pool_id = p.pool_id
  BY <1>1, <1>2, WithoutSlotFacts
<1>4. PICK old : old = <<p.pool_id, s, g[ptr]>>
  OBVIOUS
<1>5. Client(h, l) /\ Entrusted(h, l) = Entrusted(g, l) \ {old}
  BY <1>1, <1>2, <1>4, TakenBack DEF Held
<1>6. PoolContents(q) = PoolContents(p) \ {old}
  BY <1>1, <1>2, <1>4, GivenBackContents
<1>7. {old} \subseteq PoolContents(p)
  BY <1>2, <1>4 DEF PoolContents
<1>8. Alike(ps, g, l, i, q, h, l, {old}, {})
  BY <1>1, <1>3, <1>5, <1>6, <1>7 DEF Alike
<1> QED BY <1>1, <1>8, HeldReplaced

-----------------------------------------------------------------------------
(* The heap that was saved, and the heap that is loaded.                   *)

SavedSlots(ms) == UNION {SavedContents(m) : m \in Range(ms)}

\* An image holds what the client had entrusted when it was written.
SavedHeap(ms, g, l) ==
  /\ ms \in Seq(Range(ms)) /\ \A i \in DOMAIN ms : SavedPool(ms[i])
  /\ \A i, j \in DOMAIN ms : i # j => ms[i].id # ms[j].id
  /\ Client(g, l)
  /\ SavedSlots(ms) = Entrusted(g, l)

\* A sequence that follows another, place for place.
LEMMA SameLength ==
  ASSUME NEW s, NEW S, s \in Seq(S), NEW t, DOMAIN t = DOMAIN s,
         t = [i \in DOMAIN s |-> t[i]]
  PROVE  t \in Seq(Range(t))
<1>1. Len(s) \in Nat /\ DOMAIN t = 1 .. Len(s)
  BY LenProperties
<1>2. \A i \in 1 .. Len(s) : t[i] \in Range(t)
  BY <1>1 DEF Range
<1>3. t \in [1 .. Len(s) -> Range(t)]
  BY <1>1, <1>2
<1> QED BY <1>1, <1>3, SeqDef

\* What serialize writes of all pools.
LEMMA HeldSaved ==
  ASSUME NEW ps, NEW g, NEW l, Held(ps, g, l)
  PROVE  SavedHeap([i \in DOMAIN ps |-> PoolImage(ps[i])], g, l)
<1>1. PICK ms : ms = [i \in DOMAIN ps |-> PoolImage(ps[i])]
  OBVIOUS
<1>2. \A i \in DOMAIN ps : /\ SavedPool(ms[i]) /\ ms[i].id = ps[i].pool_id
                           /\ SavedContents(ms[i]) = PoolContents(ps[i])
  <2> TAKE i \in DOMAIN ps
  <2>1. PICK p : p = ps[i] /\ ms[i] = PoolImage(p)
    BY <1>1
  <2>2. Sane(p)
    BY <2>1 DEF Held
  <2> QED BY <2>1, <2>2, SavedFacts
<1>3. DOMAIN ms = DOMAIN ps
  BY <1>1
<1>4. ms \in Seq(Range(ms))
  <2>1. ps \in Seq(Range(ps)) /\ ms = [i \in DOMAIN ps |-> ms[i]]
    BY <1>1 DEF Held
  <2> QED BY <1>3, <2>1, SameLength
<1>5. SavedSlots(ms) = Contents(ps)
  <2>1. \A t : t \in Contents(ps) <=> \E i \in DOMAIN ps : t \in PoolContents(ps[i])
    BY DEF Contents, Range
  <2>2. \A t : t \in SavedSlots(ms) <=> \E i \in DOMAIN ms : t \in SavedContents(ms[i])
    BY DEF SavedSlots, Range
  <2>3. \A t : t \in SavedSlots(ms) <=> t \in Contents(ps)
    BY <1>2, <1>3, <2>1, <2>2
  <2> QED BY <2>3
<1>6. \A i, j \in DOMAIN ms : i # j => ms[i].id # ms[j].id
  BY <1>2, <1>3 DEF Held, IdsApart
<1>7. SavedHeap(ms, g, l)
  BY <1>2, <1>3, <1>4, <1>5, <1>6 DEF SavedHeap, Held
<1> QED BY <1>1, <1>7

\* What deserialize makes of it.
LEMMA HeldLoaded ==
  ASSUME NEW ms, NEW g, NEW l, SavedHeap(ms, g, l), \A i \in DOMAIN ms : PoolLoads(ms[i])
  PROVE  LET ps == [i \in DOMAIN ms |-> LoadedPool(ms[i])] IN
         /\ Held(ps, g, l) /\ DOMAIN ps = DOMAIN ms
         /\ \A i \in DOMAIN ps : ps[i].pool_id = ms[i].id
<1>1. PICK ps : ps = [i \in DOMAIN ms |-> LoadedPool(ms[i])]
  OBVIOUS
<1>2. \A i \in DOMAIN ms : /\ Sane(ps[i]) /\ ps[i].pool_id = ms[i].id
                           /\ PoolContents(ps[i]) = SavedContents(ms[i])
  <2> TAKE i \in DOMAIN ms
  <2>1. PICK m : m = ms[i] /\ ps[i] = LoadedPool(m)
    BY <1>1
  <2>2. SavedPool(m) /\ PoolLoads(m)
    BY <2>1 DEF SavedHeap
  <2> QED BY <2>1, <2>2, LoadedFacts
<1>3. DOMAIN ps = DOMAIN ms
  BY <1>1
<1>4. ps \in Seq(Range(ps))
  <2>1. ms \in Seq(Range(ms)) /\ ps = [i \in DOMAIN ms |-> ps[i]]
    BY <1>1 DEF SavedHeap
  <2> QED BY <1>3, <2>1, SameLength
<1>5. Contents(ps) = SavedSlots(ms)
  <2>1. \A t : t \in Contents(ps) <=> \E i \in DOMAIN ps : t \in PoolContents(ps[i])
    BY DEF Contents, Range
  <2>2. \A t : t \in SavedSlots(ms) <=> \E i \in DOMAIN ms : t \in SavedContents(ms[i])
    BY DEF SavedSlots, Range
  <2>3. \A t : t \in SavedSlots(ms) <=> t \in Contents(ps)
    BY <1>2, <1>3, <2>1, <2>2
  <2> QED BY <2>3
<1>6. IdsApart(ps)
  BY <1>2, <1>3 DEF SavedHeap, IdsApart
<1>7. Held(ps, g, l)
  BY <1>2, <1>3, <1>4, <1>5, <1>6 DEF SavedHeap, Held
<1> QED BY <1>1, <1>2, <1>3, <1>7

\* The next id is above all ids of the image.
LEMMA NextIdFacts ==
  ASSUME NEW im, NEW g, NEW l, SavedHeap(im.pools, g, l)
  PROVE  /\ NextPoolId(im) \in 0 .. MAX_POOL_ID + 1
         /\ \A i \in DOMAIN im.pools : im.pools[i].id < NextPoolId(im)
<1>1. PICK ms, S : ms = im.pools /\ S = {0} \cup {ms[i].id + 1 : i \in DOMAIN ms}
  OBVIOUS
<1>2. \A i \in DOMAIN ms : ms[i].id \in 0 .. MAX_POOL_ID
  BY <1>1 DEF SavedHeap, SavedPool
<1>3. MAX_POOL_ID \in Nat /\ MAX_POOL_ID + 1 \in Nat
  BY PoolsAssumption
<1>4. S \in SUBSET Nat /\ S # {} /\ \A x \in S : x <= MAX_POOL_ID + 1
  BY <1>1, <1>2, <1>3
<1>5. Max(S) \in S /\ \A x \in S : x <= Max(S)
  BY <1>3, <1>4, MaxFacts
<1>6. NextPoolId(im) = Max(S)
  BY <1>1 DEF NextPoolId
<1>7. \A i \in DOMAIN ms : ms[i].id + 1 <= Max(S)
  BY <1>1, <1>5
<1> QED BY <1>1, <1>2, <1>3, <1>4, <1>5, <1>6, <1>7

-----------------------------------------------------------------------------
(* The inductive invariant.                                                *)

IdsBelow(ps, n) == \A i \in DOMAIN ps : ps[i].pool_id < n

IInv ==
  /\ Held(pools, given, lost)
  /\ next_pool_id \in 0 .. MAX_POOL_ID + 1 /\ IdsBelow(pools, next_pool_id)
  /\ page_size \in PageSizes \cup {DEFAULT_PAGE}
  /\ \/ image = <<>>
     \/ /\ image = <<image[1]>>
        /\ SavedHeap(image[1].pools, image[1].given, image[1].lost)

\* The handles of the client lead to a pool.
LEMMA FoundPool ==
  ASSUME Held(pools, given, lost), NEW ptr \in DOMAIN given
  PROVE  LET i == FindPool(PoolIdOf(ptr)) IN
         /\ FindPools(PoolIdOf(ptr)) # {}
         /\ i \in DOMAIN pools /\ pools[i].pool_id = PoolIdOf(ptr)
<1>1. PICK S : S = FindPools(PoolIdOf(ptr))
  OBVIOUS
<1>2. DOMAIN pools \in SUBSET Nat
  <2>1. DOMAIN pools = 1 .. Len(pools) /\ Len(pools) \in Nat
    BY LenProperties DEF Held
  <2> QED BY <2>1
<1>3. S \in SUBSET Nat
  BY <1>1, <1>2 DEF FindPools
<1>4. S # {}
  BY <1>1, HandleFound DEF FindPools
<1>5. Min(S) \in S
  BY <1>3, <1>4, MinFacts
<1>6. FindPool(PoolIdOf(ptr)) = Min(S)
  BY <1>1 DEF FindPool
<1> QED BY <1>1, <1>4, <1>5, <1>6 DEF FindPools

\* The pools of a class with room are tried oldest first.
LEMMA FirstRoomy ==
  ASSUME Held(pools, given, lost), NEW c, Roomy(c) # {}
  PROVE  Min(Roomy(c)) \in DOMAIN pools /\ HasSlot(pools[Min(Roomy(c))])
<1>1. DOMAIN pools = 1 .. Len(pools) /\ Len(pools) \in Nat
  BY LenProperties DEF Held
<1>2. Roomy(c) \in SUBSET Nat
  BY <1>1 DEF Roomy
<1>3. Min(Roomy(c)) \in Roomy(c)
  BY <1>2, MinFacts
<1> QED BY <1>3 DEF Roomy

\* Every value has a class.
LEMMA ClassFacts ==
  ASSUME NEW v \in Value
  PROVE  ClassFor(SizeOf[v]) \in SIZE_CLASSES
<1>1. PICK S : S = {c \in SIZE_CLASSES : c >= SizeOf[v]}
  OBVIOUS
<1>2. S \in SUBSET Nat /\ S # {}
  <2>1. SizeOf[v] \in Nat /\ \E c \in SIZE_CLASSES : SizeOf[v] <= c
    BY PoolsAssumption
  <2> QED BY <1>1, <2>1, PoolsAssumption
<1> QED BY <1>1, <1>2, MinFacts DEF ClassFor

\* Pools that keep their ids stay below the next one.
LEMMA StillBelow ==
  ASSUME NEW ps, NEW qs, NEW n, IdsBelow(ps, n), KeepsIds(qs, ps)
  PROVE  IdsBelow(qs, n)
BY DEF IdsBelow, KeepsIds

\* An allocation in a pool with room, with and without a handle for its slot.
LEMMA AllocInPoolKeeps ==
  ASSUME IInv, NEW v \in Value, AllocInPool(v)
  PROVE  IInv'
<1>1. PICK c, i : c = ClassFor(SizeOf[v]) /\ i = Min(Roomy(c))
  OBVIOUS
<1>2. PICK p, s : p = pools[i] /\ s = NextSlot(p)
  OBVIOUS
<1>3. Held(pools, given, lost) /\ IdsBelow(pools, next_pool_id)
  BY DEF IInv
<1>4. /\ Roomy(c) # {} /\ UNCHANGED <<next_pool_id, page_size, image>>
      /\ \/ /\ HasPtr(p.pool_id, s)
            /\ pools' = [pools EXCEPT ![i] = WithSlot(p, v)]
            /\ Gives(CustomPtr(p.pool_id, s), v)
            /\ UNCHANGED lost
         \/ /\ pools' = [pools EXCEPT ![i] = WithSlot(p, Free)]
            /\ lost' = lost \cup {<<p.pool_id, s>>}
            /\ UNCHANGED given
  BY <1>1, <1>2 DEF AllocInPool
<1>5. i \in DOMAIN pools /\ HasSlot(pools[i])
  BY <1>1, <1>3, <1>4, FirstRoomy
<1>6. Held(pools', given', lost') /\ KeepsIds(pools', pools)
  <2>1. CASE /\ HasPtr(p.pool_id, s)
             /\ pools' = [pools EXCEPT ![i] = WithSlot(p, v)]
             /\ Gives(CustomPtr(p.pool_id, s), v)
             /\ UNCHANGED lost
    <3>1. PICK qs, h : /\ qs = Swapped(pools, i, WithSlot(pools[i], v))
                       /\ h = With(given, CustomPtr(pools[i].pool_id, NextSlot(pools[i])), v)
      OBVIOUS
    <3>2. Held(qs, h, lost) /\ KeepsIds(qs, pools)
      BY <1>2, <1>3, <1>5, <2>1, <3>1, HeldAlloc
    <3>3. pools' = qs /\ given' = h /\ lost' = lost
      BY <1>2, <2>1, <3>1 DEF Swapped, With, Gives
    <3> QED BY <3>2, <3>3
  <2>2. CASE /\ pools' = [pools EXCEPT ![i] = WithSlot(p, Free)]
             /\ lost' = lost \cup {<<p.pool_id, s>>}
             /\ UNCHANGED given
    <3>1. PICK qs, k : /\ qs = Swapped(pools, i, WithSlot(pools[i], Free))
                       /\ k = Lost(lost, pools[i].pool_id, NextSlot(pools[i]))
      OBVIOUS
    <3>2. Held(qs, given, k) /\ KeepsIds(qs, pools)
      BY <1>3, <1>5, <3>1, HeldLose
    <3>3. pools' = qs /\ given' = given /\ lost' = k
      BY <1>2, <2>2, <3>1 DEF Swapped, Lost
    <3> QED BY <3>2, <3>3
  <2> QED BY <1>4, <2>1, <2>2
<1>7. IdsBelow(pools', next_pool_id)
  BY <1>3, <1>6, StillBelow
<1> QED BY <1>4, <1>6, <1>7 DEF IInv

\* An allocation in a new pool.
LEMMA AllocNewPoolKeeps ==
  ASSUME IInv, NEW v \in Value, AllocNewPool(v)
  PROVE  IInv'
<1>1. PICK c, capacity, id : /\ c = ClassFor(SizeOf[v]) /\ capacity = Max({page_size, 4 * c})
                             /\ id = next_pool_id
  OBVIOUS
<1>2. Held(pools, given, lost) /\ id \in 0 .. MAX_POOL_ID + 1 /\ IdsBelow(pools, id)
  BY <1>1 DEF IInv
<1>3. PICK p, q : p = NewPool(id, c, capacity) /\ q = WithSlot(p, v)
  OBVIOUS
<1>4. /\ id <= MAX_POOL_ID
      /\ next_pool_id' = id + 1
      /\ pools' = Append(pools, q)
      /\ Gives(CustomPtr(p.pool_id, 0), v)
      /\ UNCHANGED <<page_size, lost, image>>
  BY <1>1, <1>3 DEF AllocNewPool, IdsLeft
<1>5. p.pool_id = id
  BY <1>3 DEF NewPool
<1>6. c \in SIZE_CLASSES /\ c \in Nat
  BY <1>1, ClassFacts, PoolsAssumption
<1>7. capacity \in Nat /\ capacity >= 4 * c
  <2>1. page_size \in Nat /\ 4 * c \in Nat
    BY <1>6, PoolsAssumption DEF IInv
  <2>2. PICK S : S = {page_size, 4 * c}
    OBVIOUS
  <2>3. S \in SUBSET Nat /\ S # {} /\ page_size + 4 * c \in Nat
        /\ \A x \in S : x <= page_size + 4 * c
    BY <2>1, <2>2
  <2>4. Max(S) \in S /\ \A x \in S : x <= Max(S)
    BY <2>3, MaxFacts
  <2> QED BY <1>1, <2>1, <2>2, <2>4
<1>8. id \in 0 .. MAX_POOL_ID /\ \A i \in DOMAIN pools : pools[i].pool_id # id
  BY <1>2, <1>4, PoolsAssumption DEF IdsBelow, Held, Sane
<1>9. PICK qs, h : /\ qs = Append(pools, WithSlot(NewPool(id, c, capacity), v))
                   /\ h = With(given, CustomPtr(id, 0), v)
  OBVIOUS
<1>10. /\ Held(qs, h, lost)
       /\ \A j \in DOMAIN qs :
            (j \in DOMAIN pools /\ qs[j].pool_id = pools[j].pool_id) \/ qs[j].pool_id = id
  BY <1>2, <1>6, <1>7, <1>8, <1>9, HeldNew
<1>11. pools' = qs /\ given' = h /\ lost' = lost
  BY <1>3, <1>4, <1>5, <1>9 DEF With, Gives
<1>12. IdsBelow(qs, id + 1)
  <2>1. ASSUME NEW j \in DOMAIN qs PROVE qs[j].pool_id < id + 1
    <3>1. CASE qs[j].pool_id = id
      BY <1>8, <3>1
    <3>2. CASE j \in DOMAIN pools /\ qs[j].pool_id = pools[j].pool_id
      <4>1. pools[j].pool_id \in Nat /\ pools[j].pool_id < id
        BY <1>2, <3>2, SaneFacts DEF IdsBelow, Held
      <4> QED BY <1>8, <3>2, <4>1
    <3> QED BY <1>10, <3>1, <3>2
  <2> QED BY <2>1 DEF IdsBelow
<1>13. id + 1 \in 0 .. MAX_POOL_ID + 1
  BY <1>8, PoolsAssumption
<1> QED BY <1>4, <1>10, <1>11, <1>12, <1>13 DEF IInv

\* A value written and a slot given back, through a handle.
LEMMA HandleUsedKeeps ==
  ASSUME IInv, NEW ptr \in DOMAIN given,
         FreeGc(ptr) \/ \E v \in Value : ResolveMut(ptr, v)
  PROVE  IInv'
<1>1. PICK i : i = FindPool(PoolIdOf(ptr))
  OBVIOUS
<1>2. Held(pools, given, lost) /\ IdsBelow(pools, next_pool_id)
  BY DEF IInv
<1>3. i \in DOMAIN pools /\ pools[i].pool_id = PoolIdOf(ptr)
  BY <1>1, <1>2, FoundPool
<1>4. /\ Held(pools', given', lost') /\ KeepsIds(pools', pools)
      /\ UNCHANGED <<next_pool_id, page_size, image>>
  <2>1. CASE FreeGc(ptr)
    <3>1. PICK qs : qs = Swapped(pools, i, WithoutSlot(pools[i], SlotIdxOf(ptr)))
      OBVIOUS
    <3>2. Held(qs, Without(given, ptr), lost) /\ KeepsIds(qs, pools)
      BY <1>2, <1>3, <3>1, HeldFree
    <3>3. /\ pools' = qs /\ given' = Without(given, ptr) /\ lost' = lost
          /\ UNCHANGED <<next_pool_id, page_size, image>>
      BY <1>1, <2>1, <3>1 DEF FreeGc, Swapped, Without
    <3> QED BY <3>2, <3>3
  <2>2. CASE \E v \in Value : ResolveMut(ptr, v)
    <3>1. PICK v \in Value : ResolveMut(ptr, v)
      BY <2>2
    <3>2. PICK qs : qs = [pools EXCEPT ![i].slots[SlotIdxOf(ptr)] = v]
      OBVIOUS
    <3>3. Held(qs, With(given, ptr, v), lost) /\ KeepsIds(qs, pools)
      BY <1>2, <1>3, <3>2, HeldWrite
    <3>4. /\ pools' = qs /\ given' = With(given, ptr, v) /\ lost' = lost
          /\ UNCHANGED <<next_pool_id, page_size, image>>
      BY <1>1, <3>1, <3>2 DEF ResolveMut, Gives, With
    <3> QED BY <3>3, <3>4
  <2> QED BY <2>1, <2>2
<1>5. IdsBelow(pools', next_pool_id)
  BY <1>2, <1>4, StillBelow
<1> QED BY <1>4, <1>5 DEF IInv

\* An image is written of everything the client entrusted.
LEMMA SerializeKeeps ==
  ASSUME IInv, Serialize
  PROVE  IInv'
<1>1. PICK ms, im : /\ ms = [i \in DOMAIN pools |-> PoolImage(pools[i])]
                    /\ im = [pools |-> ms, given |-> given, lost |-> lost]
  OBVIOUS
<1>2. image' = <<im>> /\ UNCHANGED <<pools, next_pool_id, page_size, given, lost>>
  BY <1>1 DEF Serialize
<1>3. SavedHeap(ms, given, lost)
  BY <1>1, HeldSaved DEF IInv
<1>4. im.pools = ms /\ im.given = given /\ im.lost = lost
  BY <1>1
<1>5. image' = <<image'[1]>> /\ image'[1] = im
  BY <1>2
<1>6. SavedHeap(im.pools, im.given, im.lost)
  BY <1>3, <1>4
<1> QED BY <1>2, <1>5, <1>6 DEF IInv

\* The loaded pools hold what the image held, under the client's old handles.
LEMMA DeserializeKeeps ==
  ASSUME IInv, Deserialize
  PROVE  IInv'
<1>1. PICK im : im = image[1]
  OBVIOUS
<1>2. /\ image # <<>> /\ Loads(im)
      /\ pools' = [i \in DOMAIN im.pools |-> LoadedPool(im.pools[i])]
      /\ next_pool_id' = NextPoolId(im)
      /\ given' = im.given /\ lost' = im.lost
      /\ page_size' = DEFAULT_PAGE /\ image' = <<>>
  BY <1>1 DEF Deserialize
<1>3. SavedHeap(im.pools, im.given, im.lost)
  BY <1>1, <1>2 DEF IInv
<1>4. PICK ms, ps : ms = im.pools /\ ps = [i \in DOMAIN ms |-> LoadedPool(ms[i])]
  OBVIOUS
<1>5. \A i \in DOMAIN ms : PoolLoads(ms[i])
  BY <1>2, <1>4 DEF Loads
<1>6. /\ Held(ps, im.given, im.lost) /\ DOMAIN ps = DOMAIN ms
      /\ \A i \in DOMAIN ps : ps[i].pool_id = ms[i].id
  BY <1>3, <1>4, <1>5, HeldLoaded
<1>7. /\ NextPoolId(im) \in 0 .. MAX_POOL_ID + 1
      /\ \A i \in DOMAIN ms : ms[i].id < NextPoolId(im)
  BY <1>3, <1>4, NextIdFacts
<1>8. IdsBelow(ps, NextPoolId(im))
  BY <1>6, <1>7 DEF IdsBelow
<1>9. pools' = ps
  BY <1>2, <1>4
<1> QED BY <1>2, <1>6, <1>7, <1>8, <1>9 DEF IInv

\* The pools hold what the client entrusted to them, and so does an image.
THEOREM Invariant == Spec => []IInv
<1>1. Init => IInv
  <2> SUFFICES ASSUME Init PROVE IInv
    OBVIOUS
  <2>1. /\ pools = <<>> /\ next_pool_id = 0 /\ page_size \in PageSizes /\ given = <<>>
        /\ lost = {} /\ image = <<>>
    BY DEF Init
  <2>2. <<>> \in Seq(Range(<<>>)) /\ DOMAIN <<>> = {}
    OBVIOUS
  <2>3. Range(<<>>) = {}
    BY <2>2 DEF Range
  <2>4. Contents(<<>>) = {} /\ Entrusted(<<>>, {}) = {}
    BY <2>2, <2>3 DEF Contents, Entrusted
  <2>5. Client(<<>>, {})
    BY <2>2, <2>3 DEF Client
  <2>6. Held(<<>>, <<>>, {})
    BY <2>2, <2>4, <2>5 DEF Held, IdsApart
  <2>7. IdsBelow(<<>>, 0) /\ 0 \in 0 .. MAX_POOL_ID + 1
    BY <2>2, PoolsAssumption DEF IdsBelow
  <2> QED BY <2>1, <2>6, <2>7 DEF IInv
<1>2. IInv /\ [Next]_vars => IInv'
  <2> SUFFICES ASSUME IInv, [Next]_vars PROVE IInv'
    OBVIOUS
  <2>1. CASE \E v \in Value : AllocInPool(v)
    BY <2>1, AllocInPoolKeeps
  <2>2. CASE \E v \in Value : AllocNewPool(v)
    BY <2>2, AllocNewPoolKeeps
  <2>3. CASE \E v \in Value : \E ptr \in DOMAIN given : ResolveMut(ptr, v)
    BY <2>3, HandleUsedKeeps
  <2>4. CASE \E ptr \in DOMAIN given : FreeGc(ptr)
    BY <2>4, HandleUsedKeeps
  <2>5. CASE Serialize
    BY <2>5, SerializeKeeps
  <2>6. CASE Deserialize
    BY <2>6, DeserializeKeeps
  <2>7. CASE DeserializeFails
    BY <2>7 DEF DeserializeFails, IInv
  <2>8. CASE UNCHANGED vars
    BY <2>8 DEF vars, IInv
  <2> QED BY <2>1, <2>2, <2>3, <2>4, <2>5, <2>6, <2>7, <2>8 DEF Next
<1> QED BY <1>1, <1>2, PTL DEF Spec

-----------------------------------------------------------------------------
(* The properties.                                                         *)

\* The variables keep their types.
LEMMA TypesFollow == IInv => TypeOK
<1> SUFFICES ASSUME IInv PROVE TypeOK
  OBVIOUS
<1>1. Held(pools, given, lost) /\ Client(given, lost)
  BY DEF IInv, Held
<1>2. \A p \in Pools : Sane(p)
  BY <1>1 DEF Held, Pools, Range
<1>3. pools \in Seq(Pools)
  BY <1>1 DEF Held, Pools
<1> QED BY <1>1, <1>2, <1>3 DEF IInv, TypeOK, Client, Sane

\* What is live, without the values: it is what the client can name, and what
\* was lost.
LEMMA LiveFollows == IInv => LiveExact
<1> SUFFICES ASSUME IInv PROVE LiveExact
  OBVIOUS
<1> DEFINE named == {<<PoolIdOf(ptr), SlotIdxOf(ptr)>> : ptr \in DOMAIN given}
           live == UNION {{p.pool_id} \X p.bitmap : p \in Pools}
<1>1. Held(pools, given, lost) /\ Client(given, lost)
  BY DEF IInv, Held
<1>2. \A u : u \in live <=> \E t \in Contents(pools) : u = <<t[1], t[2]>>
  <2>1. ASSUME NEW u \in live PROVE \E t \in Contents(pools) : u = <<t[1], t[2]>>
    <3>1. PICK p \in Pools : \E s \in p.bitmap : u = <<p.pool_id, s>>
      OBVIOUS
    <3>2. PICK s \in p.bitmap : u = <<p.pool_id, s>>
      BY <3>1
    <3>3. PICK t : t = <<p.pool_id, s, p.slots[s]>>
      OBVIOUS
    <3>4. t \in Contents(pools) /\ u = <<t[1], t[2]>>
      BY <3>2, <3>3 DEF Contents, PoolContents, Pools
    <3> QED BY <3>4
  <2>2. ASSUME NEW t \in Contents(pools) PROVE <<t[1], t[2]>> \in live
    <3>1. PICK p \in Pools : t \in PoolContents(p)
      BY DEF Contents, Pools
    <3>2. PICK s \in p.bitmap : t = <<p.pool_id, s, p.slots[s]>>
      BY <3>1 DEF PoolContents
    <3> QED BY <3>2
  <2> QED BY <2>1, <2>2
<1>3. \A u : u \in named \cup lost <=> \E t \in Entrusted(given, lost) : u = <<t[1], t[2]>>
  <2>1. \A q \in lost : q = <<q[1], q[2]>>
    BY <1>1 DEF Client
  <2>2. ASSUME NEW u \in named PROVE \E t \in Entrusted(given, lost) : u = <<t[1], t[2]>>
    <3>1. PICK ptr \in DOMAIN given : u = <<PoolIdOf(ptr), SlotIdxOf(ptr)>>
      OBVIOUS
    <3>2. PICK t : t = <<PoolIdOf(ptr), SlotIdxOf(ptr), given[ptr]>>
      OBVIOUS
    <3>3. t \in Entrusted(given, lost) /\ u = <<t[1], t[2]>>
      BY <3>1, <3>2 DEF Entrusted
    <3> QED BY <3>3
  <2>3. ASSUME NEW u \in lost PROVE \E t \in Entrusted(given, lost) : u = <<t[1], t[2]>>
    <3>1. PICK t : t = <<u[1], u[2], Free>>
      OBVIOUS
    <3>2. t \in Entrusted(given, lost) /\ u = <<t[1], t[2]>>
      BY <2>1, <3>1 DEF Entrusted
    <3> QED BY <3>2
  <2>4. ASSUME NEW t \in Entrusted(given, lost) PROVE <<t[1], t[2]>> \in named \cup lost
    <3>1. CASE \E ptr \in DOMAIN given : t = <<PoolIdOf(ptr), SlotIdxOf(ptr), given[ptr]>>
      BY <3>1
    <3>2. CASE \E q \in lost : t = <<q[1], q[2], Free>>
      BY <2>1, <3>2
    <3> QED BY <3>1, <3>2 DEF Entrusted
  <2> QED BY <2>2, <2>3, <2>4
<1>4. live = named \cup lost
  <2>1. Contents(pools) = Entrusted(given, lost)
    BY <1>1 DEF Held
  <2> HIDE DEF live, named
  <2>2. \A u : u \in live <=> u \in named \cup lost
    BY <1>2, <1>3, <2>1
  <2> QED BY <2>2
<1>5. named \cap lost = {}
  BY <1>1 DEF Client
<1> QED BY <1>4, <1>5 DEF LiveExact

\* Every pool accounts for the slots below its bump index.
LEMMA SlotsFollow == IInv => EachSlotOnce
<1> SUFFICES ASSUME IInv, NEW p \in Pools
             PROVE  /\ p.bump <= p.slot_count
                    /\ IsInjective(p.free_list)
                    /\ Range(p.free_list) \cap p.bitmap = {}
                    /\ Range(p.free_list) \cup p.bitmap = 0 .. p.bump - 1
                    /\ p.live = Cardinality(p.bitmap)
  BY DEF EachSlotOnce
<1>1. Sane(p)
  BY DEF IInv, Held, Pools, Range
<1> QED BY <1>1 DEF Sane

\* Two pools never have one id, and the next pool will not either.
LEMMA IdsFollow == IInv => IdsUnique
<1> SUFFICES ASSUME IInv PROVE IdsUnique
  OBVIOUS
<1>1. IdsApart(pools) /\ IdsBelow(pools, next_pool_id)
  BY DEF IInv, Held
<1> QED BY <1>1 DEF IdsApart, IdsBelow, IdsUnique, Pools, Range

\* Every handle leads to one pool, and to the client's value in its slot.
LEMMA HandlesFollow == IInv => HandlesResolve
<1> SUFFICES ASSUME IInv, NEW ptr \in DOMAIN given
             PROVE  /\ FindPools(PoolIdOf(ptr)) # {}
                    /\ LET p == pools[FindPool(PoolIdOf(ptr))] IN
                         SlotIdxOf(ptr) \in p.bitmap /\ p.slots[SlotIdxOf(ptr)] = given[ptr]
  BY IdsFollow DEF HandlesResolve
<1>1. Held(pools, given, lost) /\ IdsApart(pools)
  BY DEF IInv, Held
<1>2. PICK i : i = FindPool(PoolIdOf(ptr))
  OBVIOUS
<1>3. FindPools(PoolIdOf(ptr)) # {} /\ i \in DOMAIN pools /\ pools[i].pool_id = PoolIdOf(ptr)
  BY <1>1, <1>2, FoundPool
<1>4. PICK j \in DOMAIN pools : /\ pools[j].pool_id = PoolIdOf(ptr)
                                /\ SlotIdxOf(ptr) \in pools[j].bitmap
                                /\ pools[j].slots[SlotIdxOf(ptr)] = given[ptr]
  BY <1>1, HandleFound
<1>5. i = j
  BY <1>1, <1>3, <1>4 DEF IdsApart
<1> QED BY <1>2, <1>3, <1>4, <1>5

\* An image of dense pools loads.
LEMMA ImageFollows == IInv => DenseImageLoads
<1> SUFFICES ASSUME IInv, NEW k \in DOMAIN image,
                    \A i \in DOMAIN image[k].pools : Dense(image[k].pools[i])
             PROVE  Loads(image[k])
  BY DEF DenseImageLoads
<1>1. PICK im : im = image[k]
  OBVIOUS
<1>2. SavedHeap(im.pools, im.given, im.lost)
  <2>1. image # <<>>
    OBVIOUS
  <2>2. /\ image = <<image[1]>>
        /\ SavedHeap(image[1].pools, image[1].given, image[1].lost)
    BY <2>1 DEF IInv
  <2>3. k = 1
    BY <2>2
  <2> QED BY <1>1, <2>2, <2>3
<1>3. ASSUME NEW i \in DOMAIN im.pools PROVE PoolLoads(im.pools[i])
  <2>1. PICK m : m = im.pools[i]
    OBVIOUS
  <2>2. SavedPool(m) /\ Dense(m)
    BY <1>1, <1>2, <2>1 DEF SavedHeap
  <2> QED BY <2>1, <2>2, DenseLoads
<1> QED BY <1>1, <1>3 DEF Loads

\* The variables keep their types, whatever the client does.
THEOREM Types == Spec => []TypeOK
BY Invariant, TypesFollow, PTL

\* Every handle the client has leads to the value it stored, through slots
\* given back and used again, and before and after a round trip through bytes.
THEOREM HandlesAlwaysResolve == Spec => []HandlesResolve
BY Invariant, HandlesFollow, PTL

\* The live slots are those behind the handles and the lost ones, and every
\* pool has each of its slots once: live, on the free list or never used.
THEOREM SlotsAlwaysExact == Spec => []SlotsExact
<1>1. IInv => SlotsExact
  BY TypesFollow, LiveFollows, SlotsFollow DEF SlotsExact
<1> QED BY <1>1, Invariant, PTL

\* Deserialize takes what serialize wrote, if all pools are dense: no state the
\* allocator reaches writes a dense image that is refused.
THEOREM DenseImagesLoad == Spec => []DenseImageLoads
BY Invariant, ImageFollows, PTL
=============================================================================
