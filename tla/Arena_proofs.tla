----------------------------- MODULE Arena_proofs -----------------------------
(***************************************************************************)
(* Proofs about Arena: for all sizes, alignments and buffers, no arena is  *)
(* parked or released under an item, every item that is no larger than an  *)
(* arena finds a place, and the allocator is the heap of BlockHeap.        *)
(***************************************************************************)
EXTENDS Arena, VecOps_proofs

-----------------------------------------------------------------------------
(* Chains.                                                                 *)

\* D is what is chained from `last` on, by links that go down.
Linked(D, last, link) ==
  /\ IF last = Null THEN D = {} ELSE last \in D
  /\ \A a \in D : link[a] # Null => link[a] \in D /\ link[a] < a
  /\ \A a \in D : a = last \/ \E c \in D : link[c] = a

\* The first n addresses of the chain, and nothing behind its end.
Walk(at, n, last, link) ==
  at = [i \in 1 .. n |-> IF i = 1 THEN last
                         ELSE IF at[i - 1] = Null THEN Null ELSE link[at[i - 1]]]

\* There is a walk of every length.
LEMMA WalkExists ==
  ASSUME NEW last, NEW link, NEW n \in Nat
  PROVE  \E at : Walk(at, n, last, link)
<1> DEFINE S == {k \in Nat : ~ \E at : Walk(at, k, last, link)}
<1> SUFFICES ASSUME n \in S PROVE FALSE
  OBVIOUS
<1>1. S \in SUBSET Nat /\ S # {}
  OBVIOUS
<1>2. PICK k \in S : \A m \in S : k <= m
  BY <1>1, LeastNat
<1>3. k \in Nat
  OBVIOUS
<1>4. CASE k = 0
  <2> DEFINE e == [i \in 1 .. 0 |-> last]
  <2>1. Walk(e, 0, last, link)
    BY DEF Walk
  <2> QED BY <1>4, <2>1
<1>5. CASE k # 0
  <2>1. k - 1 \in Nat /\ k - 1 \notin S
    BY <1>2, <1>3, <1>5
  <2>2. PICK at : Walk(at, k - 1, last, link)
    BY <2>1
  <2> DEFINE bt == [i \in 1 .. k |-> IF i < k THEN at[i]
                                     ELSE IF k = 1 THEN last
                                     ELSE IF at[k - 1] = Null THEN Null ELSE link[at[k - 1]]]
             ct == [i \in 1 .. k |-> IF i = 1 THEN last
                         ELSE IF bt[i - 1] = Null THEN Null ELSE link[bt[i - 1]]]
  <2>3. ASSUME NEW i \in 1 .. k PROVE bt[i] = ct[i]
    <3>1. CASE i = k
      BY <1>3, <1>5, <3>1
    <3>2. CASE i # k
      <4>1. i \in 1 .. k - 1 /\ bt[i] = at[i]
        BY <1>3, <3>2
      <4>2. at[i] = IF i = 1 THEN last
                    ELSE IF at[i - 1] = Null THEN Null ELSE link[at[i - 1]]
        BY <2>2, <4>1 DEF Walk
      <4>3. i # 1 => bt[i - 1] = at[i - 1]
        BY <1>3, <4>1
      <4> QED BY <4>1, <4>2, <4>3
    <3> QED BY <3>1, <3>2
  <2>4. bt = ct
    BY <2>3
  <2>5. Walk(bt, k, last, link)
    BY <2>4 DEF Walk
  <2> QED BY <1>2, <2>5
<1> QED BY <1>4, <1>5

\* A chain is the one set that is linked from its last item.
LEMMA ChainUnique ==
  ASSUME NEW b \in Nat \ {0}, NEW last, NEW link, NEW D \in SUBSET Words(b),
         Linked(D, last, link)
  PROVE  ChainFrom(last, link) = D
<1>1. arena_size \in Nat \ {0}
  BY SizesAssumption
<1>2. PICK N \in Nat : N = arena_size
  BY <1>1
<1> DEFINE at == CHOOSE at : Walk(at, N, last, link)
<1>3. Walk(at, N, last, link)
  BY WalkExists
<1>4. ChainFrom(last, link) = {at[i] : i \in 1 .. N} \ {Null}
  BY <1>2 DEF ChainFrom, Walk
<1>5. /\ at[1] = last
      /\ \A i \in 1 .. N : i # 1 => at[i] = IF at[i - 1] = Null THEN Null ELSE link[at[i - 1]]
  <2>1. 1 \in 1 .. N
    BY <1>1, <1>2
  <2> QED BY <1>3, <2>1 DEF Walk
<1> HIDE DEF at
<1>6. \A a \in D : a \in Nat /\ a # Null /\ b <= a /\ a <= b + N - 1
  BY <1>2 DEF Words, Null
<1>7. \A i \in 1 .. N : at[i] = Null \/ (at[i] \in D /\ at[i] <= last - (i - 1))
  <2> DEFINE S == {i \in 1 .. N : ~(at[i] = Null \/ (at[i] \in D /\ at[i] <= last - (i - 1)))}
  <2> SUFFICES ASSUME S # {} PROVE FALSE
    OBVIOUS
  <2>1. S \in SUBSET Nat
    OBVIOUS
  <2>2. PICK i \in S : \A j \in S : i <= j
    BY <2>1, LeastNat
  <2>3. i \in 1 .. N /\ ~(at[i] = Null \/ (at[i] \in D /\ at[i] <= last - (i - 1)))
    BY <2>2
  <2>4. CASE i = 1
    <3>1. at[i] = last /\ last # Null
      BY <1>5, <2>3, <2>4
    <3>2. last \in D /\ last \in Nat
      BY <1>6, <3>1 DEF Linked
    <3> QED BY <2>3, <2>4, <3>1, <3>2
  <2>5. CASE i # 1
    <3>1. i - 1 \in 1 .. N /\ i - 1 \notin S
      BY <2>2, <2>3, <2>5
    <3>2. at[i - 1] # Null /\ at[i] = link[at[i - 1]]
      BY <1>5, <2>3, <2>5
    <3>3. at[i - 1] \in D /\ at[i - 1] <= last - (i - 1 - 1)
      BY <3>1, <3>2
    <3>4. at[i] \in D /\ at[i] < at[i - 1]
      BY <2>3, <3>2, <3>3 DEF Linked
    <3>5. last \in Nat
      BY <1>6, <3>3 DEF Linked
    <3>6. at[i] \in Nat /\ at[i - 1] \in Nat /\ i \in Nat
      BY <1>6, <2>3, <3>3, <3>4
    <3> QED BY <2>3, <3>3, <3>4, <3>5, <3>6
  <2> QED BY <2>4, <2>5
<1>8. ASSUME NEW d \in D PROVE \E i \in 1 .. N : at[i] = d
  <2> DEFINE S == {a \in D : ~ \E i \in 1 .. N : at[i] = a}
  <2> SUFFICES ASSUME S # {} PROVE FALSE
    OBVIOUS
  <2>1. S \in SUBSET Nat /\ b + N - 1 \in Nat /\ \A a \in S : a <= b + N - 1
    <3>1. N > 0 /\ b \in Nat
      BY <1>1, <1>2
    <3>2. b + N - 1 \in Nat
      BY <3>1
    <3> QED BY <1>6, <3>2
  <2>2. PICK a \in S : \A c \in S : c <= a
    BY <2>1, GreatestNat
  <2>3. a \in D /\ a \in Nat /\ \A i \in 1 .. N : at[i] # a
    BY <2>1, <2>2
  <2>4. a # last
    BY <1>1, <1>2, <1>5, <2>3
  <2>5. PICK c \in D : link[c] = a
    BY <2>3, <2>4 DEF Linked
  <2>6. a < c /\ c \in Nat
    BY <1>6, <2>3, <2>5 DEF Linked
  <2>7. c \notin S
    BY <2>2, <2>3, <2>6
  <2>8. PICK i \in 1 .. N : at[i] = c
    BY <2>7
  <2>9. CASE i = N
    <3>1. c # Null /\ c <= last - (N - 1)
      BY <1>6, <1>7, <2>8, <2>9
    <3>2. last \in Nat /\ last <= b + N - 1
      BY <1>6, <2>3 DEF Linked
    <3>3. b <= a
      BY <1>6, <2>3
    <3> QED BY <2>3, <2>6, <3>1, <3>2, <3>3
  <2>10. CASE i # N
    <3>1. i + 1 \in 1 .. N /\ i + 1 # 1 /\ i + 1 - 1 = i
      BY <2>10
    <3>2. at[i + 1] = link[c]
      BY <1>5, <1>6, <2>8, <3>1
    <3> QED BY <2>3, <2>5, <3>1, <3>2
  <2> QED BY <2>9, <2>10
<1>9. {at[i] : i \in 1 .. N} \ {Null} = D
  BY <1>6, <1>7, <1>8
<1> QED BY <1>4, <1>9

-----------------------------------------------------------------------------
(* The invariant.                                                          *)

\* No arena is in two places, and no two overlap.
Listed(as, parked) == ToSet(as) \cup ToSet(parked)
ListsOK(as, parked) ==
  /\ NoDup(as) /\ NoDup(parked) /\ ToSet(as) \cap ToSet(parked) = {}
  /\ Len(parked) <= MAX_RECYCLED_ARENAS
  /\ \A b, c \in Listed(as, parked) : b # c => Apart(b, c)

ListInv == ListsOK(arenas, recycled_arenas)

\* A buffer lies at the alignment of its arena.
Aligned(b, alignment) == alignment \in Aligns /\ min_alignment <= alignment /\ b % alignment = 0
AlignInv == \A b \in Listed(arenas, recycled_arenas) : Aligned(b, align[b])

\* What is in no list, or parked, is empty.
CleanInv ==
  \A b \in Buffer \ ToSet(arenas) : current_offset[b] = 0 /\ last_allocation[b] = Null

\* Chains lead down through the used part of the arena.
ChainInv ==
  \A b \in Buffer : \A a \in Chain(b) : a \in Nat /\ b <= a /\ a < b + current_offset[b]
LinkInv == \A b \in Buffer : Linked(Chain(b), last_allocation[b], next)

\* The client's items are what a chain has without a tag.
Room(g, b) == g.ptr \in Chain(b) /\ g.ptr + g.item.size <= b + current_offset[b]
PlacedInv ==
  \A g \in given : /\ g.ptr \notin tagged /\ g.ptr % g.item.align = 0
                   /\ \E b \in ToSet(arenas) : Room(g, b)
FoundInv ==
  \A b \in ToSet(arenas) : \A a \in Chain(b) : a \in tagged \/ \E g \in given : g.ptr = a

\* Items share no word.
Clear(g, h) == g.ptr + g.item.size <= h.ptr \/ h.ptr + h.item.size <= g.ptr
DisjointInv == \A g, h \in given : g # h => Clear(g, h)

IInv ==
  /\ TypeOK /\ ListInv /\ AlignInv /\ CleanInv
  /\ ChainInv /\ LinkInv /\ PlacedInv /\ FoundInv /\ DisjointInv

-----------------------------------------------------------------------------
(* A new arena.                                                            *)

\* The alignment asked for is enough, and one the OS can give.
LEMMA AlignmentAsked ==
  ASSUME NEW item \in Item
  PROVE  LET alignment == Max({min_alignment, item.align})
         IN /\ alignment \in Aligns /\ alignment \in Nat \ {0}
            /\ min_alignment <= alignment /\ item.align <= alignment
<1>1. min_alignment \in Nat \ {0} /\ item.align \in Nat \ {0}
  BY SizesAssumption
<1>2. {min_alignment, item.align} \in SUBSET Nat /\ {min_alignment, item.align} # {}
      /\ min_alignment + item.align \in Nat
      /\ \A x \in {min_alignment, item.align} : x <= min_alignment + item.align
  BY <1>1
<1>3. /\ Max({min_alignment, item.align}) \in {min_alignment, item.align}
      /\ \A x \in {min_alignment, item.align} : x <= Max({min_alignment, item.align})
  BY <1>2, MaxFacts
<1> QED BY <1>1, <1>3 DEF Aligns

\* An arena aligned enough has the item at its very start.
LEMMA StartAligned ==
  ASSUME NEW b \in Buffer, NEW alignment, Aligned(b, alignment), NEW item \in Item,
         item.align <= alignment
  PROVE  b \in Nat /\ alignment \in Nat \ {0} /\ item.align \in Nat \ {0} /\ b % item.align = 0
<1>1. /\ b \in Nat /\ item.align \in Nat \ {0} /\ item.align \in Aligns
      /\ alignment \in Aligns /\ alignment \in Nat \ {0}
  BY SizesAssumption DEF Aligns, Aligned
<1>2. alignment % item.align = 0
  BY <1>1, AlignsAssumption
<1> QED BY <1>1, <1>2, Divides DEF Aligned

\* What initialize_new_arena puts in front: an arena that is aligned enough, lies
\* apart from the others, and was in use for nothing.
LEMMA NewArena ==
  ASSUME NEW as \in Seq(Buffer), NEW parked \in Seq(Buffer), ListsOK(as, parked),
         \A b \in ToSet(parked) : Aligned(b, align[b]),
         NEW item \in Item, NEW new \in NewArenas(as, parked, item)
  PROVE  \E b \in Buffer :
           /\ new.arenas \in Seq(Buffer) /\ new.parked \in Seq(Buffer)
           /\ Head(new.arenas) = b /\ b \notin ToSet(as)
           /\ ToSet(new.arenas) = ToSet(as) \cup {b} /\ ToSet(new.parked) \subseteq ToSet(parked)
           /\ ListsOK(new.arenas, new.parked)
           /\ Aligned(b, new.alignment) /\ item.align <= new.alignment
           /\ new.alignment \in Nat
<1> DEFINE alignment == Max({min_alignment, item.align})
           rest == IF parked = <<>> THEN <<>> ELSE Front(parked)
<1>1. /\ alignment \in Aligns /\ alignment \in Nat \ {0}
      /\ min_alignment <= alignment /\ item.align <= alignment
  BY AlignmentAsked
<1> HIDE DEF alignment
<1>2. /\ rest \in Seq(Buffer) /\ NoDup(rest) /\ ToSet(rest) \subseteq ToSet(parked)
      /\ Len(rest) <= Len(parked)
      /\ parked # <<>> => /\ Last(parked) \in Buffer /\ Last(parked) \in ToSet(parked)
                          /\ Last(parked) \notin ToSet(rest)
  <2>1. CASE parked = <<>>
    BY <2>1 DEF ListsOK
  <2>2. CASE parked # <<>>
    <3>1. /\ Front(parked) \in Seq(Buffer) /\ Len(Front(parked)) = Len(parked) - 1
          /\ Last(parked) \in Buffer
          /\ \A a : Contains(parked, a) <=> Contains(Front(parked), a) \/ a = Last(parked)
          /\ NoDup(Front(parked)) /\ ~Contains(Front(parked), Last(parked))
      BY <2>2, PoppedFacts DEF ListsOK
    <3>2. /\ \A a : a \in ToSet(parked) <=> Contains(parked, a)
          /\ \A a : a \in ToSet(Front(parked)) <=> Contains(Front(parked), a)
      BY <3>1, SetOfVector
    <3>3. Len(parked) \in Nat
      BY LenProperties
    <3> QED BY <2>2, <3>1, <3>2, <3>3
  <2> QED BY <2>1, <2>2
<1> HIDE DEF rest
<1>3. ASSUME NEW b \in Buffer, b \notin ToSet(as), b \notin ToSet(rest),
             \A c \in ToSet(as) \cup ToSet(rest) : Apart(b, c)
      PROVE  /\ <<b>> \o as \in Seq(Buffer) /\ Head(<<b>> \o as) = b
             /\ ToSet(<<b>> \o as) = ToSet(as) \cup {b}
             /\ ListsOK(<<b>> \o as, rest)
  <2>1. /\ <<b>> \o as \in Seq(Buffer) /\ Head(<<b>> \o as) = b
        /\ \A a : Contains(<<b>> \o as, a) <=> Contains(as, a) \/ a = b
        /\ NoDup(as) /\ ~Contains(as, b) => NoDup(<<b>> \o as)
    BY PushedFront
  <2>2. /\ \A a : a \in ToSet(as) <=> Contains(as, a)
        /\ \A a : a \in ToSet(<<b>> \o as) <=> Contains(<<b>> \o as, a)
    BY <2>1, SetOfVector
  <2>3. ToSet(<<b>> \o as) = ToSet(as) \cup {b}
    BY <2>1, <2>2
  <2>4. NoDup(<<b>> \o as)
    BY <1>3, <2>1, <2>2 DEF ListsOK
  <2>5. ToSet(<<b>> \o as) \cap ToSet(rest) = {}
    BY <1>2, <1>3, <2>3 DEF ListsOK
  <2>6. Len(rest) <= MAX_RECYCLED_ARENAS
    <3>1. Len(rest) \in Nat /\ Len(parked) \in Nat /\ MAX_RECYCLED_ARENAS \in Nat
      BY <1>2, LenProperties, SizesAssumption
    <3> QED BY <1>2, <3>1 DEF ListsOK
  <2>7. ASSUME NEW c \in Listed(<<b>> \o as, rest), NEW d \in Listed(<<b>> \o as, rest), c # d
        PROVE  Apart(c, d)
    <3>1. CASE c = b
      BY <1>3, <2>3, <2>7, <3>1 DEF Listed
    <3>2. CASE d = b
      <4>1. Apart(b, c)
        BY <1>3, <2>3, <2>7, <3>2 DEF Listed
      <4> QED BY <3>2, <4>1 DEF Apart
    <3>3. CASE c # b /\ d # b
      BY <1>2, <2>3, <2>7, <3>3 DEF Listed, ListsOK
    <3> QED BY <3>1, <3>2, <3>3
  <2> QED BY <1>2, <2>1, <2>3, <2>4, <2>5, <2>6, <2>7 DEF ListsOK
<1>4. CASE parked # <<>> /\ Reusable(Last(parked), alignment)
  <2>1. PICK b \in Buffer : b = Last(parked)
    BY <1>2, <1>4
  <2>2. new = [arenas |-> <<b>> \o as, parked |-> rest, alignment |-> align[b]]
    BY <1>4, <2>1 DEF NewArenas, rest, alignment
  <2>3. b \in ToSet(parked) /\ b \notin ToSet(rest) /\ b \notin ToSet(as)
    BY <1>2, <1>4, <2>1 DEF ListsOK
  <2>4. \A c \in ToSet(as) \cup ToSet(rest) : Apart(b, c)
    BY <1>2, <2>3 DEF ListsOK, Listed
  <2>5. Aligned(b, align[b]) /\ align[b] >= alignment /\ align[b] \in Nat
    BY <1>4, <2>1, <2>3, SizesAssumption DEF Reusable, Aligned, Aligns
  <2>6. item.align <= align[b]
    BY <1>1, <2>5, SizesAssumption
  <2> QED BY <1>2, <1>3, <2>2, <2>3, <2>4, <2>5, <2>6
<1>5. CASE ~(parked # <<>> /\ Reusable(Last(parked), alignment))
  <2>1. PICK b \in Fresh(ToSet(as) \cup ToSet(rest), alignment) :
          new = [arenas |-> <<b>> \o as, parked |-> rest, alignment |-> alignment]
    BY <1>5 DEF NewArenas, rest, alignment
  <2>2. /\ b \in Buffer /\ b % alignment = 0
        /\ \A c \in ToSet(as) \cup ToSet(rest) : Apart(b, c)
    BY <2>1 DEF Fresh
  <2>3. b \notin ToSet(as) /\ b \notin ToSet(rest)
    <3>0. b \in Nat /\ arena_size \in Nat \ {0}
      BY <2>2, SizesAssumption
    <3>1. ~Apart(b, b)
      BY <3>0 DEF Apart
    <3> QED BY <2>2, <3>1
  <2>4. Aligned(b, alignment)
    BY <1>1, <2>2 DEF Aligned
  <2> QED BY <1>1, <1>2, <1>3, <2>1, <2>2, <2>3, <2>4
<1> QED BY <1>4, <1>5

-----------------------------------------------------------------------------
(* An item more.                                                           *)

\* Where the next item of an arena would lie.
LEMMA OffsetFacts ==
  ASSUME TypeOK, NEW b \in Buffer, NEW item \in Item
  PROVE  LET off == BufferOffset(b, item)
         IN /\ off \in Nat /\ current_offset[b] <= off /\ (b + off) % item.align = 0
            /\ current_offset[b] = 0 /\ b % item.align = 0 => off = 0
            /\ current_offset[b] \in Nat /\ b \in Nat \ {0}
<1>1. PICK c \in Nat : c = current_offset[b]
  BY SizesAssumption DEF TypeOK
<1>2. b \in Nat \ {0} /\ item.align \in Nat \ {0} /\ b + c \in Nat
  BY <1>1, SizesAssumption
<1> DEFINE pad == (item.align - ((b + c) % item.align)) % item.align
<1>3. /\ pad \in Nat /\ ((b + c) + pad) % item.align = 0
      /\ (b + c) % item.align = 0 => pad = 0
  BY <1>2, PaddingFacts
<1>4. BufferOffset(b, item) = c + pad
  BY <1>1 DEF BufferOffset
<1> HIDE DEF pad
<1>5. c + pad \in Nat /\ b + (c + pad) = (b + c) + pad /\ c <= c + pad /\ (c = 0 => b + c = b)
  BY <1>2, <1>3
<1> QED BY <1>1, <1>2, <1>3, <1>4, <1>5

\* Buffers in the lists that lie apart have no address in common.
LEMMA ApartWords ==
  ASSUME NEW b \in Nat, NEW c \in Nat, Apart(b, c),
         NEW x \in Nat, b <= x, x < b + arena_size, NEW y \in Nat, c <= y, y < c + arena_size
  PROVE  /\ x # y
         /\ \A m, n \in Nat : x + m <= b + arena_size /\ y + n <= c + arena_size
                                => x + m <= y \/ y + n <= x
BY SizesAssumption DEF Apart

\* A vector has elements of its type only.
LEMMA ElementsTyped ==
  ASSUME NEW S, NEW s \in Seq(S)
  PROVE  \A a \in ToSet(s) : a \in S
<1>1. \A a : a \in ToSet(s) <=> Contains(s, a)
  BY SetOfVector
<1>2. \A i \in 1 .. Len(s) : s[i] \in S
  BY ElementOfSeq
<1> QED BY <1>1, <1>2 DEF Contains

\* Items lie in their arenas.
LEMMA ItemsIn ==
  ASSUME IInv, NEW g \in given
  PROVE  /\ g.ptr \in Nat /\ g.item \in Item /\ g.item.size \in Nat \ {0}
         /\ \E b \in ToSet(arenas) :
              /\ b \in Buffer /\ Room(g, b) /\ b \in Nat /\ b <= g.ptr
              /\ current_offset[b] \in Nat /\ current_offset[b] <= arena_size
              /\ g.ptr < b + current_offset[b]
<1>1. g.item \in Item /\ g.item.size \in Nat \ {0}
  BY SizesAssumption DEF IInv, TypeOK
<1>2. PICK b \in ToSet(arenas) : Room(g, b)
  BY DEF IInv, PlacedInv
<1>3. b \in Buffer
  BY ElementsTyped DEF IInv, TypeOK
<1>4. b \in Nat /\ current_offset[b] \in Nat /\ current_offset[b] <= arena_size
  BY <1>3, SizesAssumption DEF IInv, TypeOK
<1>5. g.ptr \in Nat /\ b <= g.ptr /\ g.ptr < b + current_offset[b]
  BY <1>2, <1>3 DEF IInv, ChainInv, Room
<1> QED BY <1>1, <1>2, <1>3, <1>4, <1>5

\* The chains after a step.
LEMMA ChainStep ==
  ASSUME NEW b \in Buffer, NEW D \in SUBSET Words(b), Linked(D, last_allocation'[b], next')
  PROVE  Chain(b)' = D /\ Linked(Chain(b), last_allocation[b], next)'
<1>1. PICK l, nx : l = last_allocation'[b] /\ nx = next'
  OBVIOUS
<1>2. b \in Nat \ {0}
  BY SizesAssumption
<1>3. ChainFrom(l, nx) = D
  BY <1>1, <1>2, ChainUnique
<1>4. Chain(b)' = D
  BY <1>1, <1>3 DEF Chain
<1> QED BY <1>4 DEF Linked

\* A chain is a part of its arena.
LEMMA ChainWords ==
  ASSUME IInv, NEW b \in Buffer
  PROVE  /\ Chain(b) \in SUBSET Words(b) /\ Linked(Chain(b), last_allocation[b], next)
         /\ b \notin ToSet(arenas) => Chain(b) = {}
         /\ \A a \in Chain(b) : a \in Nat /\ a # Null /\ b <= a /\ a < b + current_offset[b]
                                /\ a < b + arena_size /\ a \in Address
         /\ last_allocation[b] # Null => last_allocation[b] \in Chain(b)
<1>1. /\ b \in Nat \ {0} /\ arena_size \in Nat /\ current_offset[b] \in Nat
      /\ current_offset[b] <= arena_size
  BY SizesAssumption DEF IInv, TypeOK
<1>2. \A a \in Chain(b) : a \in Nat /\ b <= a /\ a < b + current_offset[b]
  BY DEF IInv, ChainInv
<1>3. \A a \in Chain(b) : a # Null /\ a < b + arena_size /\ a \in Words(b)
  BY <1>1, <1>2 DEF Words, Null
<1>4. Linked(Chain(b), last_allocation[b], next)
  BY DEF IInv, LinkInv
<1>5. b \notin ToSet(arenas) => Chain(b) = {}
  BY <1>4 DEF IInv, CleanInv, Linked
<1>6. \A a \in Chain(b) : a \in Address
  BY <1>3 DEF Address
<1> QED BY <1>2, <1>3, <1>4, <1>5, <1>6 DEF Linked

\* An arena of the list, or one new in it, gets an item behind all it has given.
LEMMA AllocInInv ==
  ASSUME IInv, NEW b \in Buffer, NEW item \in Item, AllocIn(b, item),
         BufferOffset(b, item) + item.size <= arena_size,
         arenas' \in Seq(Buffer), recycled_arenas' \in Seq(Buffer), align' \in [Buffer -> Nat],
         ListInv', AlignInv', \A c : c \in ToSet(arenas)' <=> c \in ToSet(arenas) \/ c = b
  PROVE  /\ IInv'
         /\ \E g \in [ptr : Address, item : Item] :
              /\ g \notin given /\ given' = given \cup {g} /\ g.ptr \notin tagged' /\ g.item = item
              /\ \A h \in given : Clear(g, h) /\ Clear(h, g)
<1>1. PICK off \in Nat : off = BufferOffset(b, item)
  BY OffsetFacts DEF IInv
<1>2. PICK ptr \in Nat : ptr = b + off
  BY <1>1, SizesAssumption
<1>3. /\ b \in Nat \ {0} /\ current_offset[b] \in Nat /\ current_offset[b] <= off
      /\ ptr % item.align = 0 /\ item.size \in Nat \ {0}
      /\ off + item.size <= arena_size /\ arena_size \in Nat \ {0}
  BY <1>1, <1>2, OffsetFacts, SizesAssumption DEF IInv
<1>4. /\ b <= ptr /\ b + current_offset[b] <= ptr /\ ptr < b + arena_size /\ ptr # Null
      /\ ptr + item.size <= b + arena_size /\ ptr + item.size = b + (off + item.size)
  <2>1. PICK c, s, N \in Nat : c = current_offset[b] /\ s = item.size /\ N = arena_size
    BY <1>3
  <2>2. b \in Nat /\ b > 0 /\ s > 0 /\ c <= off /\ off + s <= N /\ ptr = b + off
    BY <1>2, <1>3, <2>1
  <2>3. b <= ptr /\ b + c <= ptr /\ ptr < b + N /\ ptr # 0 /\ ptr + s <= b + N
        /\ ptr + s = b + (off + s)
    BY <2>2
  <2> QED BY <2>1, <2>3 DEF Null
<1>5. ptr \in Words(b) /\ ptr \in Address
  BY <1>3, <1>4 DEF Words, Address
<1>6. PICK g \in [ptr : Address, item : Item] : g = [ptr |-> ptr, item |-> item]
  BY <1>5
<1>7. /\ current_offset' = [current_offset EXCEPT ![b] = off + item.size]
      /\ next' = [next EXCEPT ![ptr] = last_allocation[b]]
      /\ tagged' = tagged \ {ptr}
      /\ last_allocation' = [last_allocation EXCEPT ![b] = ptr]
      /\ given' = given \cup {g}
  BY <1>1, <1>2, <1>6 DEF AllocIn
<1>8. TypeOK'
  <2>1. off + item.size \in 0 .. arena_size
    BY <1>3
  <2>2. current_offset' \in [Buffer -> 0 .. arena_size]
    BY <1>7, <2>1 DEF IInv, TypeOK
  <2>3. last_allocation' \in [Buffer -> Address \cup {Null}]
    BY <1>5, <1>7 DEF IInv, TypeOK
  <2>4. next' \in [Address -> Address \cup {Null}]
    BY <1>7 DEF IInv, TypeOK
  <2>5. tagged' \in SUBSET Address /\ given' \subseteq [ptr : Address, item : Item]
    BY <1>6, <1>7 DEF IInv, TypeOK
  <2> QED BY <2>2, <2>3, <2>4, <2>5 DEF TypeOK
<1>9. /\ \A d \in Buffer : /\ current_offset'[d] = IF d = b THEN off + item.size ELSE current_offset[d]
                           /\ last_allocation'[d] = IF d = b THEN ptr ELSE last_allocation[d]
      /\ \A a \in Address : next'[a] = IF a = ptr THEN last_allocation[b] ELSE next[a]
  BY <1>7 DEF IInv, TypeOK
<1>10. ASSUME NEW d \in Buffer, d # b, d \in ToSet(arenas) PROVE Apart(b, d)
  <2>1. d \in ToSet(arenas)' /\ b \in ToSet(arenas)'
    BY <1>10
  <2> QED BY <1>10, <2>1 DEF ListInv, ListsOK, Listed, Apart
<1>11. ASSUME NEW d \in Buffer PROVE ptr \notin Chain(d)
  <2>1. CASE d = b
    BY <1>3, <1>4, <2>1, ChainWords
  <2>2. CASE d # b /\ d \in ToSet(arenas)
    <3>1. d \in Nat
      BY SizesAssumption
    <3> QED BY <1>3, <1>4, <1>10, <2>2, <3>1, ChainWords, ApartWords
  <2>3. CASE d \notin ToSet(arenas)
    BY <2>3, ChainWords
  <2> QED BY <2>1, <2>2, <2>3
<1>12. ASSUME NEW d \in Buffer, d # b
       PROVE  Chain(d)' = Chain(d) /\ Linked(Chain(d), last_allocation[d], next)'
  <2>1. Linked(Chain(d), last_allocation[d], next) /\ Chain(d) \in SUBSET Words(d)
    BY ChainWords
  <2>2. \A a \in Chain(d) : next'[a] = next[a]
    BY <1>9, <1>11, ChainWords
  <2>3. last_allocation'[d] = last_allocation[d]
    BY <1>9, <1>12
  <2>4. Linked(Chain(d), last_allocation'[d], next')
    BY <2>1, <2>2, <2>3 DEF Linked
  <2> QED BY <2>1, <2>4, ChainStep
<1>13. /\ Chain(b)' = Chain(b) \cup {ptr} /\ Linked(Chain(b), last_allocation[b], next)'
  <2>1. PICK D : D = Chain(b) \cup {ptr}
    OBVIOUS
  <2>2. Linked(Chain(b), last_allocation[b], next) /\ Chain(b) \in SUBSET Words(b)
    BY ChainWords
  <2>3. D \in SUBSET Words(b)
    BY <1>5, <2>1, <2>2
  <2>4. \A a \in Chain(b) : next'[a] = next[a] /\ a < ptr /\ a # Null
    <3>1. \A a \in Chain(b) : next'[a] = next[a] /\ a # Null
      BY <1>9, <1>11, ChainWords
    <3>2. \A a \in Chain(b) : a \in Nat /\ a < b + current_offset[b]
      BY ChainWords
    <3> QED BY <1>3, <1>4, <3>1, <3>2, SMTT(30)
  <2>5. next'[ptr] = last_allocation[b] /\ last_allocation'[b] = ptr
    BY <1>5, <1>9
  <2>6. last_allocation[b] # Null => last_allocation[b] \in Chain(b)
    BY ChainWords
  <2>7. \A a \in D : next'[a] # Null => next'[a] \in D /\ next'[a] < a
    BY <2>1, <2>2, <2>4, <2>5, <2>6 DEF Linked
  <2>8. ASSUME NEW a \in D, a # ptr PROVE \E c \in D : next'[c] = a
    <3>1. a \in Chain(b)
      BY <2>1, <2>8
    <3>2. CASE a = last_allocation[b]
      BY <2>1, <2>5, <3>2
    <3>3. CASE a # last_allocation[b]
      <4>1. PICK c \in Chain(b) : next[c] = a
        BY <2>2, <3>1, <3>3 DEF Linked
      <4> QED BY <2>1, <2>4, <4>1
    <3> QED BY <3>2, <3>3
  <2>9. Linked(D, last_allocation'[b], next')
    BY <1>4, <2>1, <2>5, <2>7, <2>8 DEF Linked
  <2> QED BY <2>1, <2>3, <2>9, ChainStep
<1>14. ChainInv'
  <2> SUFFICES ASSUME NEW d \in Buffer, NEW a \in Chain(d)'
               PROVE  a \in Nat /\ d <= a /\ a < d + current_offset'[d]
    BY DEF ChainInv
  <2>1. CASE d = b
    <3>1. current_offset'[d] = off + item.size
      BY <1>9, <2>1
    <3>2. CASE a = ptr
      BY <1>2, <1>3, <1>4, <2>1, <3>1, <3>2
    <3>3. CASE a \in Chain(b)
      <4>1. a \in Nat /\ b <= a /\ a < b + current_offset[b]
        BY <3>3, ChainWords
      <4> QED BY <1>3, <2>1, <3>1, <4>1, SMTT(30)
    <3> QED BY <1>13, <2>1, <3>2, <3>3
  <2>2. CASE d # b
    BY <1>9, <1>12, <2>2, ChainWords
  <2> QED BY <2>1, <2>2
<1>15. LinkInv'
  <2>1. \A d \in Buffer : Linked(Chain(d), last_allocation[d], next)'
    BY <1>12, <1>13
  <2> QED BY <2>1 DEF LinkInv, Linked
<1>16. CleanInv'
  <2> SUFFICES ASSUME NEW d \in Buffer, d \notin ToSet(arenas)'
               PROVE  current_offset'[d] = 0 /\ last_allocation'[d] = Null
    BY DEF CleanInv
  <2>1. d # b /\ d \notin ToSet(arenas)
    OBVIOUS
  <2> QED BY <1>9, <2>1 DEF IInv, CleanInv
<1>17. ASSUME NEW h \in given
       PROVE  /\ h.ptr # ptr /\ Clear(g, h) /\ Clear(h, g)
              /\ \E d \in ToSet(arenas)' :
                   h.ptr \in Chain(d)' /\ h.ptr + h.item.size <= d + current_offset'[d]
  <2>1. PICK d \in ToSet(arenas) :
          /\ d \in Buffer /\ Room(h, d) /\ d \in Nat /\ d <= h.ptr
          /\ current_offset[d] \in Nat /\ current_offset[d] <= arena_size
          /\ h.ptr < d + current_offset[d]
    BY ItemsIn
  <2>2. h.ptr \in Nat /\ h.item.size \in Nat \ {0}
    BY ItemsIn
  <2>3. h.ptr \in Chain(d) /\ h.ptr + h.item.size <= d + current_offset[d]
    BY <2>1 DEF Room
  <2>4. h.ptr # ptr
    BY <1>11, <2>1, <2>3
  <2>5. g.ptr = ptr /\ g.item = item
    BY <1>6
  <2>0. PICK x, n, e, c, s, N \in Nat :
        /\ x = h.ptr /\ n = h.item.size /\ e = current_offset[d]
        /\ c = current_offset[b] /\ s = item.size /\ N = arena_size
    BY <1>3, <2>1, <2>2
  <2>8. x + n <= d + e /\ x < d + e /\ e <= N /\ b + c <= ptr /\ ptr + s = b + (off + s)
        /\ b <= ptr /\ ptr < b + N /\ ptr + s <= b + N /\ d <= x
    BY <1>4, <2>0, <2>1, <2>3
  <2>9. b \in Nat /\ d \in Nat
    BY <1>3, <2>1
  <2>6. CASE d = b
    <3>1. h.ptr + h.item.size <= ptr
      <4>1. x + n <= b + c
        BY <2>0, <2>6, <2>8
      <4>2. x + n <= ptr
        BY <2>8, <2>9, <4>1
      <4> QED BY <2>0, <4>2
    <3>2. h.ptr + h.item.size <= b + (off + item.size)
      <4>0. x + n <= ptr
        BY <2>0, <3>1
      <4>1. x + n <= ptr + s
        BY <4>0
      <4> QED BY <2>0, <2>8, <4>1
    <3>3. h.ptr \in Chain(b)' /\ current_offset'[b] = off + item.size
      BY <1>9, <1>13, <2>3, <2>6
    <3> QED BY <2>4, <2>5, <3>1, <3>2, <3>3 DEF Clear
  <2>7. CASE d # b
    <3>1. Apart(b, d)
      BY <1>10, <2>1, <2>7
    <3>2. x + n <= d + N /\ x < d + N
      BY <2>8, <2>9
    <3>3. ptr + item.size <= h.ptr \/ h.ptr + h.item.size <= ptr
      <4>1. b + N <= d \/ d + N <= b
        BY <2>0, <3>1 DEF Apart
      <4>2. ptr + s <= x \/ x + n <= ptr
        BY <2>8, <2>9, <3>2, <4>1
      <4> QED BY <2>0, <4>2
    <3>4. h.ptr \in Chain(d)' /\ current_offset'[d] = current_offset[d]
      BY <1>9, <1>12, <2>1, <2>3, <2>7
    <3> QED BY <2>1, <2>3, <2>4, <2>5, <3>3, <3>4 DEF Clear
  <2> QED BY <2>6, <2>7
<1>18. g \notin given /\ g.ptr = ptr /\ g.item = item /\ ptr \notin tagged'
  BY <1>6, <1>7, <1>17
<1>19. PlacedInv'
  <2> SUFFICES ASSUME NEW h \in given'
               PROVE  /\ h.ptr \notin tagged' /\ h.ptr % h.item.align = 0
                      /\ \E d \in ToSet(arenas)' :
                           h.ptr \in Chain(d)' /\ h.ptr + h.item.size <= d + current_offset'[d]
    BY DEF PlacedInv, Room
  <2>1. CASE h = g
    <3>1. ptr \in Chain(b)' /\ current_offset'[b] = off + item.size /\ b \in ToSet(arenas)'
      BY <1>9, <1>13
    <3>2. h.ptr + h.item.size <= b + current_offset'[b]
      BY <1>3, <1>4, <1>18, <2>1, <3>1
    <3> QED BY <1>3, <1>18, <2>1, <3>1, <3>2
  <2>2. CASE h \in given
    <3>1. h.ptr \notin tagged /\ h.ptr % h.item.align = 0
      BY <2>2 DEF IInv, PlacedInv
    <3> QED BY <1>7, <1>17, <2>2, <3>1
  <2> QED BY <1>7, <2>1, <2>2
<1>20. FoundInv'
  <2> SUFFICES ASSUME NEW d \in ToSet(arenas)', NEW a \in Chain(d)', a \notin tagged'
               PROVE  \E h \in given' : h.ptr = a
    BY DEF FoundInv
  <2>1. CASE a = ptr
    BY <1>7, <1>18, <2>1
  <2>2. CASE a # ptr
    <3>1. d \in Buffer
      <4>1. d \in ToSet(arenas) \/ d = b
        OBVIOUS
      <4> QED BY <4>1, ElementsTyped DEF IInv, TypeOK
    <3>2. a \in Chain(d)
      BY <1>12, <1>13, <2>2, <3>1
    <3>3. d \in ToSet(arenas) /\ a \notin tagged
      BY <1>7, <2>2, <3>1, <3>2, ChainWords
    <3>4. \E h \in given : h.ptr = a
      BY <3>2, <3>3 DEF IInv, FoundInv
    <3> QED BY <1>7, <3>4
  <2> QED BY <2>1, <2>2
<1>21. DisjointInv'
  <2>1. ASSUME NEW f \in given', NEW h \in given', f # h PROVE Clear(f, h)
    BY <1>7, <1>17, <2>1 DEF IInv, DisjointInv
  <2> QED BY <2>1 DEF DisjointInv, Clear
<1> QED BY <1>7, <1>8, <1>14, <1>15, <1>16, <1>17, <1>18, <1>19, <1>20, <1>21 DEF IInv

-----------------------------------------------------------------------------
(* Allocation.                                                             *)

\* The list after a new arena went to its front.
LEMMA NewList ==
  ASSUME IInv, NEW item \in Item, NEW new \in NewArenas(arenas, recycled_arenas, item),
         SetList(new), align' = [align EXCEPT ![Head(new.arenas)] = new.alignment]
  PROVE  \E b \in Buffer :
           /\ Head(new.arenas) = b /\ b \notin ToSet(arenas)
           /\ arenas' \in Seq(Buffer) /\ recycled_arenas' \in Seq(Buffer)
           /\ align' \in [Buffer -> Nat] /\ ListInv' /\ AlignInv'
           /\ \A c : c \in ToSet(arenas)' <=> c \in ToSet(arenas) \/ c = b
           /\ Aligned(b, new.alignment) /\ item.align <= new.alignment
<1>1. arenas \in Seq(Buffer) /\ recycled_arenas \in Seq(Buffer)
      /\ ListsOK(arenas, recycled_arenas)
      /\ \A b \in ToSet(recycled_arenas) : Aligned(b, align[b])
  BY DEF IInv, TypeOK, ListInv, AlignInv, Listed
<1>2. PICK b \in Buffer :
        /\ new.arenas \in Seq(Buffer) /\ new.parked \in Seq(Buffer)
        /\ Head(new.arenas) = b /\ b \notin ToSet(arenas)
        /\ ToSet(new.arenas) = ToSet(arenas) \cup {b}
        /\ ToSet(new.parked) \subseteq ToSet(recycled_arenas)
        /\ ListsOK(new.arenas, new.parked)
        /\ Aligned(b, new.alignment) /\ item.align <= new.alignment
        /\ new.alignment \in Nat
  BY <1>1, NewArena
<1>3. PICK as, parked : as = new.arenas /\ parked = new.parked
  OBVIOUS
<1>4. arenas' = as /\ recycled_arenas' = parked
  BY <1>3 DEF SetList
<1>5. align' \in [Buffer -> Nat] /\ \A c \in Buffer : align'[c] = IF c = b THEN new.alignment
                                                                            ELSE align[c]
  BY <1>2 DEF IInv, TypeOK
<1>6. ListInv'
  BY <1>2, <1>3, <1>4 DEF ListInv
<1>7. /\ ToSet(arenas)' = ToSet(arenas) \cup {b} /\ ToSet(recycled_arenas)' = ToSet(parked)
      /\ ToSet(parked) \subseteq ToSet(recycled_arenas)
  BY <1>2, <1>3, <1>4
<1>8. AlignInv'
  <2> SUFFICES ASSUME NEW c, c \in ToSet(arenas)' \/ c \in ToSet(recycled_arenas)'
               PROVE  Aligned(c, align'[c])
    BY DEF AlignInv, Listed, Aligned
  <2>1. CASE c = b
    BY <1>2, <1>5, <2>1
  <2>2. CASE c # b
    <3>1. c \in ToSet(arenas) \/ c \in ToSet(recycled_arenas)
      BY <1>7, <2>2
    <3>2. c \in Buffer
      BY <1>1, <3>1, ElementsTyped
    <3>3. Aligned(c, align[c])
      BY <3>1 DEF IInv, AlignInv, Listed
    <3> QED BY <1>5, <2>2, <3>2, <3>3
  <2> QED BY <2>1, <2>2
<1> QED BY <1>2, <1>3, <1>4, <1>5, <1>6, <1>7, <1>8

\* What a step of an allocation gives the client.
GivesItem(item) ==
  \E g \in [ptr : Address, item : Item] :
    /\ g \notin given /\ given' = given \cup {g} /\ g.ptr \notin tagged' /\ g.item = item
    /\ \A h \in given : Clear(g, h) /\ Clear(h, g)

\* An item in the active arena.
LEMMA AllocActiveInv ==
  ASSUME IInv, NEW item \in Item, AllocActive(item)
  PROVE  IInv' /\ GivesItem(item)
<1>1. PICK b : b = Head(arenas)
  OBVIOUS
<1>2. arenas # <<>> /\ Fits(b, item) /\ AllocIn(b, item)
      /\ arenas' = arenas /\ recycled_arenas' = recycled_arenas /\ align' = align
  BY <1>1 DEF AllocActive, list
<1>3. b \in Buffer /\ b \in ToSet(arenas)
  <2>1. arenas \in Seq(Buffer)
    BY DEF IInv, TypeOK
  <2>2. Len(arenas) \in Nat /\ Len(arenas) # 0 /\ DOMAIN arenas = 1 .. Len(arenas)
    BY <1>2, <2>1, EmptySeq, LenProperties
  <2>3. 1 \in 1 .. Len(arenas) /\ b = arenas[1]
    BY <1>1, <1>2, <2>1, <2>2
  <2> QED BY <2>1, <2>2, <2>3, ElementOfSeq DEF ToSet
<1>4. /\ arenas' \in Seq(Buffer) /\ recycled_arenas' \in Seq(Buffer) /\ align' \in [Buffer -> Nat]
  BY <1>2 DEF IInv, TypeOK
<1>5. ListInv'
  BY <1>2 DEF IInv, ListInv
<1>6. AlignInv'
  BY <1>2 DEF IInv, AlignInv
<1>7. \A c : c \in ToSet(arenas)' <=> c \in ToSet(arenas) \/ c = b
  BY <1>2, <1>3
<1>8. BufferOffset(b, item) + item.size <= arena_size
  BY <1>2 DEF Fits
<1> QED BY <1>2, <1>3, <1>4, <1>5, <1>6, <1>7, <1>8, AllocInInv DEF GivesItem

\* An item at the start of a new one.
LEMMA AllocNewInv ==
  ASSUME IInv, NEW item \in Item, AllocNew(item)
  PROVE  IInv' /\ GivesItem(item)
<1>1. PICK new \in NewArenas(arenas, recycled_arenas, item) :
        /\ SetList(new)
        /\ align' = [align EXCEPT ![Head(new.arenas)] = new.alignment]
        /\ AllocIn(Head(new.arenas), item)
  BY DEF AllocNew
<1>2. PICK b \in Buffer :
        /\ Head(new.arenas) = b /\ b \notin ToSet(arenas)
        /\ arenas' \in Seq(Buffer) /\ recycled_arenas' \in Seq(Buffer)
        /\ align' \in [Buffer -> Nat] /\ ListInv' /\ AlignInv'
        /\ \A c : c \in ToSet(arenas)' <=> c \in ToSet(arenas) \/ c = b
        /\ Aligned(b, new.alignment) /\ item.align <= new.alignment
  BY <1>1, NewList
<1>3. BufferOffset(b, item) = 0
  <2>1. b % item.align = 0
    BY <1>2, StartAligned
  <2>2. current_offset[b] = 0
    BY <1>2 DEF IInv, CleanInv
  <2> QED BY <2>1, <2>2, OffsetFacts DEF IInv
<1>4. BufferOffset(b, item) + item.size <= arena_size
  BY <1>3, SizesAssumption DEF AllocNew
<1> QED BY <1>1, <1>2, <1>4, AllocInInv DEF GivesItem

\* Empty arenas more: nothing but the lists changes.
LEMMA ListsChanged ==
  ASSUME IInv, UNCHANGED <<cursor, headers, given>>,
         arenas' \in Seq(Buffer), recycled_arenas' \in Seq(Buffer), align' \in [Buffer -> Nat],
         ListInv', AlignInv', \A c : c \in ToSet(arenas) => c \in ToSet(arenas)',
         \A b \in ToSet(arenas)' : b \in ToSet(arenas) \/ Chain(b) = {}
  PROVE  IInv'
<1>1. /\ last_allocation' = last_allocation /\ current_offset' = current_offset
      /\ next' = next /\ tagged' = tagged /\ given' = given
  BY DEF cursor, headers
<1>2. \A b : Chain(b)' = Chain(b)
  BY <1>1 DEF Chain
<1>3. TypeOK'
  BY <1>1 DEF IInv, TypeOK
<1>4. ChainInv' /\ LinkInv'
  BY <1>1, <1>2 DEF IInv, ChainInv, LinkInv, Linked
<1>5. CleanInv'
  BY <1>1 DEF IInv, CleanInv
<1>6. PlacedInv'
  <2> SUFFICES ASSUME NEW g \in given
               PROVE  /\ g.ptr \notin tagged /\ g.ptr % g.item.align = 0
                      /\ \E b \in ToSet(arenas)' : g.ptr \in Chain(b)'
                                                   /\ g.ptr + g.item.size <= b + current_offset[b]
    BY <1>1 DEF PlacedInv, Room
  <2>1. PICK b \in ToSet(arenas) : Room(g, b)
    BY DEF IInv, PlacedInv
  <2>2. b \in ToSet(arenas)' /\ g.ptr \in Chain(b)' /\ g.ptr + g.item.size <= b + current_offset[b]
    BY <1>2, <2>1 DEF Room
  <2> QED BY <2>2 DEF IInv, PlacedInv
<1>7. FoundInv'
  BY <1>1, <1>2 DEF IInv, FoundInv
<1>8. DisjointInv'
  BY <1>1 DEF IInv, DisjointInv, Clear
<1> QED BY <1>3, <1>4, <1>5, <1>6, <1>7, <1>8 DEF IInv

\* An item that no arena could have, and the arenas made for it.
LEMMA AllocFailsInv ==
  ASSUME IInv, NEW item \in Item, AllocFails(item)
  PROVE  IInv'
<1>0. UNCHANGED <<cursor, headers, given>>
  BY DEF AllocFails
<1>1. PICK new \in NewArenas(arenas, recycled_arenas, item) :
        IF arenas # <<>>
        THEN /\ SetList(new)
             /\ align' = [align EXCEPT ![Head(new.arenas)] = new.alignment]
        ELSE \E again \in NewArenas(new.arenas, new.parked, item) :
               /\ SetList(again)
               /\ align' = [align EXCEPT ![Head(new.arenas)] = new.alignment,
                                         ![Head(again.arenas)] = again.alignment]
  BY DEF AllocFails
<1>2. CASE arenas # <<>>
  <2>1. PICK b \in Buffer :
          /\ Head(new.arenas) = b /\ b \notin ToSet(arenas)
          /\ arenas' \in Seq(Buffer) /\ recycled_arenas' \in Seq(Buffer)
          /\ align' \in [Buffer -> Nat] /\ ListInv' /\ AlignInv'
          /\ \A c : c \in ToSet(arenas)' <=> c \in ToSet(arenas) \/ c = b
    BY <1>1, <1>2, NewList
  <2>2. Chain(b) = {}
    BY <2>1, ChainWords
  <2> QED BY <1>0, <2>1, <2>2, ListsChanged
<1>3. CASE arenas = <<>>
  <2>1. PICK again \in NewArenas(new.arenas, new.parked, item) :
          /\ SetList(again)
          /\ align' = [align EXCEPT ![Head(new.arenas)] = new.alignment,
                                    ![Head(again.arenas)] = again.alignment]
    BY <1>1, <1>3
  <2>2. /\ arenas \in Seq(Buffer) /\ recycled_arenas \in Seq(Buffer)
        /\ ListsOK(arenas, recycled_arenas)
        /\ \A b \in ToSet(recycled_arenas) : Aligned(b, align[b])
    BY DEF IInv, TypeOK, ListInv, AlignInv, Listed
  <2>3. PICK b \in Buffer :
          /\ new.arenas \in Seq(Buffer) /\ new.parked \in Seq(Buffer)
          /\ Head(new.arenas) = b /\ b \notin ToSet(arenas)
          /\ ToSet(new.arenas) = ToSet(arenas) \cup {b}
          /\ ToSet(new.parked) \subseteq ToSet(recycled_arenas)
          /\ ListsOK(new.arenas, new.parked)
          /\ Aligned(b, new.alignment) /\ new.alignment \in Nat
    BY <2>2, NewArena
  <2>4. \A c \in ToSet(new.parked) : Aligned(c, align[c])
    BY <2>2, <2>3
  <2>5. PICK d \in Buffer :
          /\ again.arenas \in Seq(Buffer) /\ again.parked \in Seq(Buffer)
          /\ Head(again.arenas) = d /\ d \notin ToSet(new.arenas)
          /\ ToSet(again.arenas) = ToSet(new.arenas) \cup {d}
          /\ ToSet(again.parked) \subseteq ToSet(new.parked)
          /\ ListsOK(again.arenas, again.parked)
          /\ Aligned(d, again.alignment) /\ again.alignment \in Nat
    BY <2>3, <2>4, NewArena
  <2>6. PICK as, parked : as = again.arenas /\ parked = again.parked
    OBVIOUS
  <2>7. arenas' = as /\ recycled_arenas' = parked
    BY <2>1, <2>6 DEF SetList
  <2>8. ListInv' /\ arenas' \in Seq(Buffer) /\ recycled_arenas' \in Seq(Buffer)
    BY <2>5, <2>6, <2>7 DEF ListInv
  <2>9. /\ ToSet(arenas)' = ToSet(arenas) \cup {b, d} /\ ToSet(recycled_arenas)' = ToSet(parked)
        /\ ToSet(parked) \subseteq ToSet(recycled_arenas) /\ b # d /\ d \notin ToSet(arenas)
    BY <2>3, <2>5, <2>6, <2>7
  <2>10. align' \in [Buffer -> Nat]
         /\ \A c \in Buffer : align'[c] = IF c = d THEN again.alignment
                                          ELSE IF c = b THEN new.alignment ELSE align[c]
    BY <2>1, <2>3, <2>5, <2>9 DEF IInv, TypeOK
  <2>11. AlignInv'
    <3> SUFFICES ASSUME NEW c, c \in ToSet(arenas)' \/ c \in ToSet(recycled_arenas)'
                 PROVE  Aligned(c, align'[c])
      BY DEF AlignInv, Listed, Aligned
    <3>1. CASE c = d
      BY <2>5, <2>10, <3>1
    <3>2. CASE c = b
      BY <2>3, <2>9, <2>10, <3>2
    <3>3. CASE c # b /\ c # d
      <4>1. c \in ToSet(arenas) \/ c \in ToSet(recycled_arenas)
        BY <2>9, <3>3
      <4>2. c \in Buffer
        BY <2>2, <4>1, ElementsTyped
      <4>3. Aligned(c, align[c])
        BY <4>1 DEF IInv, AlignInv, Listed
      <4> QED BY <2>10, <3>3, <4>2, <4>3
    <3> QED BY <3>1, <3>2, <3>3
  <2>12. Chain(b) = {} /\ Chain(d) = {}
    BY <2>3, <2>9, ChainWords
  <2>13. \A c \in ToSet(arenas)' : c \in ToSet(arenas) \/ Chain(c) = {}
    BY <2>9, <2>12
  <2> QED BY <1>0, <2>8, <2>9, <2>10, <2>11, <2>13, ListsChanged
<1> QED BY <1>2, <1>3

-----------------------------------------------------------------------------
(* Items that die.                                                         *)

\* Two of the client's items do not lie at one address.
LEMMA OnePtr ==
  ASSUME IInv, NEW g \in given, NEW h \in given, g.ptr = h.ptr
  PROVE  g = h
<1>1. /\ g.ptr \in Nat /\ g.item.size \in Nat \ {0}
      /\ h.ptr \in Nat /\ h.item.size \in Nat \ {0}
  BY ItemsIn
<1>2. SUFFICES ASSUME g # h PROVE FALSE
  OBVIOUS
<1>3. Clear(g, h)
  BY <1>2 DEF IInv, DisjointInv
<1> QED BY <1>1, <1>3 DEF Clear

\* A tag takes an item from the client.
LEMMA MarkDroppedInv ==
  ASSUME IInv, NEW g \in given, MarkDropped(g)
  PROVE  IInv'
<1>1. /\ tagged' = tagged \cup {g.ptr} /\ given' = given \ {g}
      /\ arenas' = arenas /\ recycled_arenas' = recycled_arenas /\ align' = align
      /\ last_allocation' = last_allocation /\ current_offset' = current_offset
      /\ next' = next
  BY DEF MarkDropped, list, cursor
<1>2. \A b : Chain(b)' = Chain(b)
  BY <1>1 DEF Chain
<1>3. TypeOK'
  <2>1. g.ptr \in Address
    BY DEF IInv, TypeOK
  <2> QED BY <1>1, <2>1 DEF IInv, TypeOK
<1>4. ListInv' /\ AlignInv' /\ CleanInv'
  BY <1>1 DEF IInv, ListInv, AlignInv, CleanInv
<1>5. ChainInv' /\ LinkInv'
  BY <1>1, <1>2 DEF IInv, ChainInv, LinkInv, Linked
<1>6. PlacedInv'
  <2> SUFFICES ASSUME NEW h \in given, h # g
               PROVE  /\ h.ptr \notin tagged' /\ h.ptr % h.item.align = 0
                      /\ \E b \in ToSet(arenas) : h.ptr \in Chain(b)'
                                                  /\ h.ptr + h.item.size <= b + current_offset[b]
    BY <1>1 DEF PlacedInv, Room
  <2>1. h.ptr \notin tagged'
    BY <1>1, OnePtr DEF IInv, PlacedInv
  <2>2. PICK b \in ToSet(arenas) : Room(h, b)
    BY DEF IInv, PlacedInv
  <2> QED BY <1>2, <2>1, <2>2 DEF IInv, PlacedInv, Room
<1>7. FoundInv'
  <2> SUFFICES ASSUME NEW b \in ToSet(arenas), NEW a \in Chain(b), a \notin tagged'
               PROVE  \E h \in given' : h.ptr = a
    BY <1>1, <1>2 DEF FoundInv
  <2>1. PICK h \in given : h.ptr = a
    BY <1>1 DEF IInv, FoundInv
  <2>2. h # g
    BY <1>1, <2>1
  <2> QED BY <1>1, <2>1, <2>2
<1>8. DisjointInv'
  BY <1>1 DEF IInv, DisjointInv, Clear
<1> QED BY <1>3, <1>4, <1>5, <1>6, <1>7, <1>8 DEF IInv

\* The arenas that a sweep finds dead, and those it leaves.
DeadArenas == {b \in ToSet(arenas) : Dead(b)}

\* No item of the client lies in a dead one, and one lies in every other.
LEMMA DeadMeansEmpty ==
  ASSUME IInv
  PROVE  /\ \A b \in DeadArenas : \A g \in given : g.ptr \notin Chain(b)
         /\ \A b \in ToSet(arenas) \ DeadArenas : \E g \in given : g.ptr \in Chain(b)
<1>1. \A b \in DeadArenas : \A g \in given : g.ptr \notin Chain(b)
  BY DEF DeadArenas, Dead, IInv, PlacedInv
<1>2. ASSUME NEW b \in ToSet(arenas) \ DeadArenas PROVE \E g \in given : g.ptr \in Chain(b)
  <2>1. PICK a \in Chain(b) : a \notin tagged
    BY DEF DeadArenas, Dead
  <2> QED BY <2>1 DEF IInv, FoundInv
<1> QED BY <1>1, <1>2

\* What is kept, what is parked, and that there is room for it.
LEMMA DroppedLists ==
  ASSUME IInv, DropDeadArenas
  PROVE  /\ arenas' \in Seq(Buffer) /\ recycled_arenas' \in Seq(Buffer)
         /\ \A b : b \in ToSet(arenas)' <=> b \in ToSet(arenas) /\ b \notin DeadArenas
         /\ \A b \in ToSet(recycled_arenas)' : b \in ToSet(recycled_arenas) \/ b \in DeadArenas
         /\ ListInv'
<1>1. PICK as, parked \in Seq(Buffer) : as = arenas /\ parked = recycled_arenas
  BY DEF IInv, TypeOK
<1>2. PICK D : D = DeadArenas
  OBVIOUS
<1> DEFINE dead == Retain(as, D)
           kept == Retain(as, ToSet(as) \ D)
           room == MAX_RECYCLED_ARENAS - Len(parked)
           n == Min({room, Len(dead)})
           some == SubSeq(dead, 1, n)
<1>3. arenas' = kept /\ recycled_arenas' = parked \o some
  BY <1>1, <1>2 DEF DropDeadArenas, DeadArenas
<1>4. /\ NoDup(as) /\ NoDup(parked) /\ Len(parked) <= MAX_RECYCLED_ARENAS
      /\ \A a : a \in ToSet(as) => a \notin ToSet(parked)
      /\ \A b, c : /\ b \in ToSet(as) \/ b \in ToSet(parked)
                   /\ c \in ToSet(as) \/ c \in ToSet(parked)
                   /\ b # c
                   => Apart(b, c)
  BY <1>1 DEF IInv, ListInv, ListsOK, Listed
<1>5. /\ dead \in Seq(Buffer) /\ NoDup(dead)
      /\ \A a : Contains(dead, a) <=> Contains(as, a) /\ a \in D
  BY <1>4, RetainedSet
<1>6. /\ kept \in Seq(Buffer) /\ NoDup(kept)
      /\ \A a : Contains(kept, a) <=> Contains(as, a) /\ a \in ToSet(as) \ D
  BY <1>4, RetainedSet
<1> HIDE DEF dead, kept
<1>7. n \in 0 .. Len(dead) /\ n <= room /\ room \in Nat /\ Len(parked) \in Nat
  <2>1. Len(dead) \in Nat /\ Len(parked) \in Nat
    BY <1>5, LenProperties
  <2>2. room \in Nat
    BY <1>4, <2>1, SizesAssumption
  <2> HIDE DEF room
  <2>3. {room, Len(dead)} \in SUBSET Nat /\ {room, Len(dead)} # {}
    BY <2>1, <2>2
  <2>4. n \in {room, Len(dead)} /\ \A x \in {room, Len(dead)} : n <= x
    BY <2>3, MinFacts
  <2> HIDE DEF n
  <2> QED BY <2>1, <2>2, <2>4
<1> HIDE DEF n
<1>8. /\ some \in Seq(Buffer) /\ Len(some) = n /\ NoDup(some)
      /\ \A a : Contains(some, a) => Contains(dead, a)
  BY <1>5, <1>7, SplitSet
<1> HIDE DEF some
<1>9. /\ \A a : a \in ToSet(as) <=> Contains(as, a)
      /\ \A a : a \in ToSet(parked) <=> Contains(parked, a)
      /\ \A a : a \in ToSet(kept) <=> Contains(kept, a)
  BY <1>6, SetOfVector
<1>10. /\ parked \o some \in Seq(Buffer) /\ Len(parked \o some) = Len(parked) + n
       /\ \A a : Contains(parked \o some, a) <=> Contains(parked, a) \/ Contains(some, a)
       /\ NoDup(parked \o some)
  <2>1. \A a : ~(Contains(parked, a) /\ Contains(some, a))
    BY <1>4, <1>5, <1>8, <1>9
  <2> QED BY <1>4, <1>8, <2>1, ConcatSet
<1>11. PICK more : more = parked \o some
  OBVIOUS
<1>12. \A a : a \in ToSet(more) <=> Contains(more, a)
  BY <1>10, <1>11, SetOfVector
<1>13. \A b : b \in ToSet(kept) <=> b \in ToSet(as) /\ b \notin D
  BY <1>6, <1>9
<1>14. \A b \in ToSet(more) : b \in ToSet(parked) \/ (b \in D /\ b \in ToSet(as))
  BY <1>5, <1>8, <1>9, <1>10, <1>11, <1>12
<1>15. Len(more) <= MAX_RECYCLED_ARENAS
  BY <1>7, <1>10, <1>11, SizesAssumption
<1>16. ListsOK(kept, more)
  <2>1. ToSet(kept) \cap ToSet(more) = {}
    BY <1>4, <1>13, <1>14
  <2>2. \A b, c \in Listed(kept, more) : b # c => Apart(b, c)
    BY <1>4, <1>13, <1>14 DEF Listed
  <2> QED BY <1>6, <1>10, <1>11, <1>15, <2>1, <2>2 DEF ListsOK
<1>17. arenas' = kept /\ recycled_arenas' = more
  BY <1>3, <1>11
<1>18. ListInv'
  BY <1>16, <1>17 DEF ListInv
<1> QED BY <1>1, <1>2, <1>6, <1>10, <1>11, <1>13, <1>14, <1>17, <1>18

\* Dead arenas go, parked or not, and are empty from then on.
LEMMA DropDeadArenasInv ==
  ASSUME IInv, DropDeadArenas
  PROVE  IInv'
<1>1. PICK D, gone : D = DeadArenas /\ gone = UNION {Words(b) : b \in D}
  OBVIOUS
<1>2. /\ current_offset' = OffsetReset(D)
      /\ last_allocation' = [b \in Buffer |-> IF b \in D THEN Null ELSE last_allocation[b]]
      /\ next' = [a \in Address |-> IF a \in gone THEN Null ELSE next[a]]
      /\ tagged' = tagged \ gone /\ align' = align /\ given' = given
  BY <1>1 DEF DropDeadArenas, DeadArenas
<1>3. /\ arenas' \in Seq(Buffer) /\ recycled_arenas' \in Seq(Buffer)
      /\ \A b : b \in ToSet(arenas)' <=> b \in ToSet(arenas) /\ b \notin D
      /\ \A b \in ToSet(recycled_arenas)' : b \in ToSet(recycled_arenas) \/ b \in D
      /\ ListInv'
  BY <1>1, DroppedLists
<1>4. \A b \in D : b \in ToSet(arenas) /\ b \in Buffer
  BY <1>1, ElementsTyped DEF DeadArenas, IInv, TypeOK
<1>5. \A b \in Buffer : /\ current_offset'[b] = IF b \in D THEN 0 ELSE current_offset[b]
                        /\ last_allocation'[b] = IF b \in D THEN Null ELSE last_allocation[b]
  BY <1>2 DEF OffsetReset
<1>6. TypeOK'
  <2>1. current_offset' \in [Buffer -> 0 .. arena_size]
    BY <1>2, SizesAssumption DEF OffsetReset, IInv, TypeOK
  <2>2. last_allocation' \in [Buffer -> Address \cup {Null}]
    BY <1>2 DEF IInv, TypeOK
  <2>3. next' \in [Address -> Address \cup {Null}]
    BY <1>2 DEF IInv, TypeOK
  <2> QED BY <1>2, <1>3, <2>1, <2>2, <2>3 DEF IInv, TypeOK
<1>7. AlignInv'
  BY <1>2, <1>3, <1>4 DEF IInv, AlignInv, Listed, Aligned
<1>8. ASSUME NEW b \in Buffer, b \notin D, NEW a \in Chain(b)
      PROVE  a \notin gone /\ next'[a] = next[a]
  <2>1. a \in Nat /\ b <= a /\ a < b + arena_size /\ a \in Address /\ b \in ToSet(arenas)
    BY <1>8, ChainWords
  <2>2. ASSUME NEW c \in D, a \in Words(c) PROVE FALSE
    <3>1. Apart(b, c)
      BY <1>4, <1>8, <2>1 DEF IInv, ListInv, ListsOK, Listed
    <3>2. b \in Nat /\ c \in Nat /\ arena_size \in Nat
      BY <1>4, SizesAssumption
    <3>3. c <= a /\ a < c + arena_size
      BY <2>1, <2>2, <3>2 DEF Words
    <3> QED BY <2>1, <3>1, <3>2, <3>3, ApartWords
  <2>3. a \notin gone
    BY <1>1, <2>2
  <2> QED BY <1>2, <2>1, <2>3
<1>9. ASSUME NEW b \in Buffer
      PROVE  /\ Chain(b)' = IF b \in D THEN {} ELSE Chain(b)
             /\ Linked(Chain(b), last_allocation[b], next)'
  <2>1. CASE b \in D
    <3>1. {} \in SUBSET Words(b) /\ Linked({}, last_allocation'[b], next')
      BY <1>5, <2>1 DEF Linked
    <3> QED BY <2>1, <3>1, ChainStep
  <2>2. CASE b \notin D
    <3>1. Linked(Chain(b), last_allocation[b], next) /\ Chain(b) \in SUBSET Words(b)
      BY ChainWords
    <3>2. \A a \in Chain(b) : next'[a] = next[a]
      BY <1>8, <2>2
    <3>3. last_allocation'[b] = last_allocation[b]
      BY <1>5, <2>2
    <3>4. Linked(Chain(b), last_allocation'[b], next')
      BY <3>1, <3>2, <3>3 DEF Linked
    <3> QED BY <2>2, <3>1, <3>4, ChainStep
  <2> QED BY <2>1, <2>2
<1>10. ChainInv'
  BY <1>5, <1>9 DEF IInv, ChainInv
<1>11. LinkInv'
  <2>1. \A d \in Buffer : Linked(Chain(d), last_allocation[d], next)'
    BY <1>9
  <2> QED BY <2>1 DEF LinkInv, Linked
<1>12. CleanInv'
  <2> SUFFICES ASSUME NEW b \in Buffer, b \notin ToSet(arenas)'
               PROVE  current_offset'[b] = 0 /\ last_allocation'[b] = Null
    BY DEF CleanInv
  <2> QED BY <1>3, <1>5 DEF IInv, CleanInv
<1>13. PlacedInv'
  <2> SUFFICES ASSUME NEW g \in given
               PROVE  /\ g.ptr \notin tagged' /\ g.ptr % g.item.align = 0
                      /\ \E b \in ToSet(arenas)' :
                           g.ptr \in Chain(b)' /\ g.ptr + g.item.size <= b + current_offset'[b]
    BY <1>2 DEF PlacedInv, Room
  <2>1. PICK b \in ToSet(arenas) : b \in Buffer /\ Room(g, b)
    BY ItemsIn
  <2>2. b \notin D
    BY <1>1, <2>1, DeadMeansEmpty DEF Room
  <2> QED BY <1>2, <1>3, <1>5, <1>9, <2>1, <2>2 DEF Room, IInv, PlacedInv
<1>14. FoundInv'
  <2> SUFFICES ASSUME NEW b \in ToSet(arenas)', NEW a \in Chain(b)', a \notin tagged'
               PROVE  \E g \in given : g.ptr = a
    BY <1>2 DEF FoundInv
  <2>1. b \in ToSet(arenas) /\ b \notin D
    BY <1>3
  <2>2. b \in Buffer
    BY <2>1, ElementsTyped DEF IInv, TypeOK
  <2>3. a \in Chain(b) /\ a \notin tagged
    BY <1>2, <1>8, <1>9, <2>1, <2>2
  <2> QED BY <2>1, <2>3 DEF IInv, FoundInv
<1>15. DisjointInv'
  BY <1>2 DEF IInv, DisjointInv, Clear
<1> QED BY <1>3, <1>6, <1>7, <1>10, <1>11, <1>12, <1>13, <1>14, <1>15 DEF IInv

-----------------------------------------------------------------------------
(* The invariant holds.                                                    *)

\* Nothing is allocated yet.
LEMMA InitInv == Init => IInv
<1> SUFFICES ASSUME Init PROVE IInv
  OBVIOUS
<1>1. /\ arenas = <<>> /\ recycled_arenas = <<>> /\ tagged = {} /\ given = {}
      /\ \A b \in Buffer : current_offset[b] = 0 /\ last_allocation[b] = Null
  BY DEF Init
<1>2. TypeOK
  <2>1. current_offset \in [Buffer -> 0 .. arena_size]
    BY SizesAssumption DEF Init
  <2>2. align \in [Buffer -> Nat]
    BY SizesAssumption DEF Init
  <2> QED BY <1>1, <2>1, <2>2 DEF Init, TypeOK
<1>3. ToSet(arenas) = {} /\ ToSet(recycled_arenas) = {}
  BY <1>1 DEF ToSet
<1>4. ListInv
  <2>1. NoDup(<<>>) /\ Len(<<>>) = 0
    BY DEF NoDup
  <2> QED BY <1>1, <1>3, <2>1, SizesAssumption DEF ListInv, ListsOK, Listed
<1>5. \A b \in Buffer : Chain(b) = {} /\ Linked({}, last_allocation[b], next)
  <2> TAKE b \in Buffer
  <2>1. {} \in SUBSET Words(b) /\ Linked({}, last_allocation[b], next) /\ b \in Nat \ {0}
    BY <1>1, SizesAssumption DEF Linked
  <2> QED BY <2>1, ChainUnique DEF Chain
<1>6. ChainInv /\ LinkInv
  BY <1>5 DEF ChainInv, LinkInv
<1>7. AlignInv /\ CleanInv /\ PlacedInv /\ FoundInv /\ DisjointInv
  BY <1>1, <1>3 DEF AlignInv, Listed, CleanInv, PlacedInv, FoundInv, DisjointInv
<1> QED BY <1>2, <1>4, <1>6, <1>7 DEF IInv

\* A step that changes nothing.
LEMMA StutterInv == IInv /\ UNCHANGED vars => IInv'
<1> SUFFICES ASSUME IInv, UNCHANGED vars PROVE IInv'
  OBVIOUS
<1>1. UNCHANGED <<cursor, headers, given>> /\ UNCHANGED list
  BY DEF vars
<1>2. arenas' = arenas /\ recycled_arenas' = recycled_arenas /\ align' = align
  BY <1>1 DEF list
<1>3. /\ arenas' \in Seq(Buffer) /\ recycled_arenas' \in Seq(Buffer) /\ align' \in [Buffer -> Nat]
      /\ ListInv' /\ AlignInv'
  BY <1>2 DEF IInv, TypeOK, ListInv, AlignInv
<1> QED BY <1>1, <1>2, <1>3, ListsChanged

\* Every step preserves the invariant.
LEMMA NextInv == IInv /\ [Next]_vars => IInv'
<1> SUFFICES ASSUME IInv, [Next]_vars PROVE IInv'
  OBVIOUS
<1>1. CASE UNCHANGED vars
  BY <1>1, StutterInv
<1>2. ASSUME NEW item \in Item, AllocActive(item) \/ AllocNew(item) \/ AllocFails(item)
      PROVE  IInv'
  BY <1>2, AllocActiveInv, AllocNewInv, AllocFailsInv
<1>3. ASSUME NEW g \in given, MarkDropped(g) PROVE IInv'
  BY <1>3, MarkDroppedInv
<1>4. CASE DropDeadArenas
  BY <1>4, DropDeadArenasInv
<1> QED BY <1>1, <1>2, <1>3, <1>4 DEF Next

\* The lists of arenas, the chains in them and the client's items agree, in every
\* reachable state, whatever is allocated, dropped and swept in whatever order.
\* (arena2/mod.rs and alloc.rs: every operation of the allocator)
THEOREM Invariant == Spec => []IInv
<1> QED BY InitInv, NextInv, PTL DEF Spec

-----------------------------------------------------------------------------
(* The properties.                                                         *)

\* Both lists together hold no arena twice.
LEMMA ListsInjective == IInv => IsInjective(arenas \o recycled_arenas)
<1> SUFFICES ASSUME IInv PROVE IsInjective(arenas \o recycled_arenas)
  OBVIOUS
<1>1. arenas \in Seq(Buffer) /\ recycled_arenas \in Seq(Buffer)
  BY DEF IInv, TypeOK
<1>2. /\ \A b : b \in ToSet(arenas) <=> Contains(arenas, b)
      /\ \A b : b \in ToSet(recycled_arenas) <=> Contains(recycled_arenas, b)
  BY <1>1, SetOfVector
<1>3. /\ NoDup(arenas) /\ NoDup(recycled_arenas)
      /\ \A b : ~(Contains(arenas, b) /\ Contains(recycled_arenas, b))
  BY <1>2 DEF IInv, ListInv, ListsOK
<1>4. /\ arenas \o recycled_arenas \in Seq(Buffer) /\ NoDup(arenas \o recycled_arenas)
  BY <1>1, <1>3, ConcatSet
<1> QED BY <1>4, SetOfVector

\* Live items and the reserve never meet: an item lies aligned in an arena that is
\* in the list, and what is parked is clean, in one list only and not too much.
\* (alloc.rs: run_drop_check, reset; mod.rs: drop_dead_arenas)
THEOREM ReserveIsExact == Spec => []ArenasExact
<1>1. IInv => ArenasExact
  <2> SUFFICES ASSUME IInv PROVE ArenasExact
    OBVIOUS
  <2>1. ItemsPlaced
    <3> SUFFICES ASSUME NEW g \in given
                 PROVE  /\ g.ptr % g.item.align = 0
                        /\ \E b \in ToSet(arenas) :
                             b <= g.ptr /\ g.ptr + g.item.size <= b + arena_size
      BY DEF ItemsPlaced
    <3>1. g.ptr % g.item.align = 0
      BY DEF IInv, PlacedInv
    <3>2. g.ptr \in Nat /\ g.item.size \in Nat
      BY ItemsIn
    <3>3. PICK b \in ToSet(arenas) :
            /\ Room(g, b) /\ b \in Nat /\ b <= g.ptr
            /\ current_offset[b] \in Nat /\ current_offset[b] <= arena_size
      BY ItemsIn
    <3>4. PICK e \in Nat : e = g.ptr + g.item.size
      BY <3>2
    <3>5. PICK c \in Nat : c = current_offset[b]
      BY <3>3
    <3>6. e <= b + c /\ c <= arena_size
      BY <3>3, <3>4, <3>5 DEF Room
    <3>7. e <= b + arena_size
      BY <3>3, <3>6, SizesAssumption
    <3> QED BY <3>1, <3>3, <3>4, <3>7
  <2>2. \A b \in ToSet(recycled_arenas) : current_offset[b] = 0 /\ last_allocation[b] = Null
    <3> TAKE b \in ToSet(recycled_arenas)
    <3>1. b \in Buffer
      BY ElementsTyped DEF IInv, TypeOK
    <3>2. b \notin ToSet(arenas)
      BY DEF IInv, ListInv, ListsOK
    <3> QED BY <3>1, <3>2 DEF IInv, CleanInv
  <2>3. Len(recycled_arenas) <= MAX_RECYCLED_ARENAS
    BY DEF IInv, ListInv, ListsOK
  <2> QED BY <2>1, <2>2, <2>3, ListsInjective DEF ArenasExact, ReserveExact, IInv
<1> QED BY <1>1, Invariant, PTL

\* Whatever arena comes to the front of the list, a parked one that was made for
\* another alignment included, the second attempt of try_alloc finds room in it
\* for an item that is no larger than an arena.
\* (mod.rs: try_alloc, initialize_new_arena)
THEOREM NewArenaFits == Spec => []SecondAttemptFits
<1>1. IInv => SecondAttemptFits
  <2> SUFFICES ASSUME IInv, NEW item \in Item, item.size <= arena_size,
                      NEW new \in NewArenas(arenas, recycled_arenas, item)
               PROVE  /\ item.align <= new.alignment
                      /\ BufferOffset(Head(new.arenas), item) + item.size <= arena_size
    BY DEF SecondAttemptFits
  <2>1. /\ arenas \in Seq(Buffer) /\ recycled_arenas \in Seq(Buffer)
        /\ ListsOK(arenas, recycled_arenas)
        /\ \A b \in ToSet(recycled_arenas) : Aligned(b, align[b])
    BY DEF IInv, TypeOK, ListInv, AlignInv, Listed
  <2>2. PICK b \in Buffer :
          /\ Head(new.arenas) = b /\ b \notin ToSet(arenas)
          /\ Aligned(b, new.alignment) /\ item.align <= new.alignment
    BY <2>1, NewArena
  <2>3. b % item.align = 0
    BY <2>2, StartAligned
  <2>4. current_offset[b] = 0
    BY <2>2 DEF IInv, CleanInv
  <2>5. BufferOffset(b, item) = 0
    BY <2>3, <2>4, OffsetFacts DEF IInv
  <2> QED BY <2>2, <2>5, SizesAssumption
<1> QED BY <1>1, Invariant, PTL

\* After a sweep every arena of the list holds an item of the client: none that
\* a failed allocation left behind, and none whose items are all dropped, stays.
\* (mod.rs: drop_dead_arenas; alloc.rs: run_drop_check)
THEOREM SweepLeavesLive == Spec => SweptArenasLive
<1>1. IInv => [DropDeadArenas =>
                 \A b \in ToSet(arenas') : \E g \in given : g.ptr \in Words(b)]_vars
  <2> SUFFICES ASSUME IInv, DropDeadArenas, NEW b \in ToSet(arenas')
               PROVE  \E g \in given : g.ptr \in Words(b)
    OBVIOUS
  <2>1. b \in ToSet(arenas) /\ b \notin DeadArenas
    BY DroppedLists
  <2>2. PICK g \in given : g.ptr \in Chain(b)
    BY <2>1, DeadMeansEmpty
  <2>3. b \in Buffer
    BY <2>1, ElementsTyped DEF IInv, TypeOK
  <2> QED BY <2>2, <2>3, ChainWords
<1> QED BY <1>1, Invariant, PTL DEF SweptArenasLive

-----------------------------------------------------------------------------
(* The allocator implements BlockHeap.                                     *)

Blocks == {[start |-> g.ptr, size |-> g.item.size] : g \in given}
Enumerated == (UNION {Chain(b) : b \in ToSet(arenas)}) \ tagged

EnumeratedGiven == Enumerated = {g.ptr : g \in given}

\* The walk along the chains yields exactly the items not dropped.
LEMMA EnumerationExact == IInv => EnumeratedGiven
<1> SUFFICES ASSUME IInv PROVE Enumerated = {g.ptr : g \in given}
  BY DEF EnumeratedGiven
<1>1. ASSUME NEW a \in Enumerated PROVE \E g \in given : a = g.ptr
  BY DEF Enumerated, IInv, FoundInv
<1>2. ASSUME NEW g \in given PROVE g.ptr \in Enumerated
  BY DEF Enumerated, IInv, PlacedInv, Room
<1> QED BY <1>1, <1>2

\* Giving an item is a BlockHeap allocation.
LEMMA GiveIsAlloc ==
  ASSUME IInv, IInv', NEW item \in Item, GivesItem(item)
  PROVE  [Heap!Next]_(Heap!vars)
<1>1. PICK g \in [ptr : Address, item : Item] :
        /\ given' = given \cup {g}
        /\ \A h \in given : Clear(g, h)
  BY DEF GivesItem
<1>2. PICK blk : blk = [start |-> g.ptr, size |-> g.item.size]
  OBVIOUS
<1>3. Blocks' = Blocks \cup {blk}
  BY <1>1, <1>2 DEF Blocks
<1>4. Enumerated' = Enumerated \cup {blk.start}
  <2>1. Enumerated = {h.ptr : h \in given}
    BY EnumerationExact DEF EnumeratedGiven
  <2>2. EnumeratedGiven'
    BY EnumerationExact, PTL
  <2> QED BY <1>1, <1>2, <2>1, <2>2 DEF EnumeratedGiven
<1>5. \A c \in Blocks : blk.start + blk.size <= c.start \/ c.start + c.size <= blk.start
  <2> SUFFICES ASSUME NEW h \in given
               PROVE  g.ptr + g.item.size <= h.ptr \/ h.ptr + h.item.size <= g.ptr
    BY <1>2 DEF Blocks
  <2> QED BY <1>1 DEF Clear
<1>6. blk \in [start : Address, size : {t.size : t \in Item}]
  BY <1>1, <1>2
<1>7. Heap!Alloc(blk)
  BY <1>3, <1>4, <1>5 DEF Heap!Alloc, Heap!Disjoint, Blocks, Enumerated
<1> QED BY <1>6, <1>7 DEF Heap!Next

\* Dropping an item is a BlockHeap free.
LEMMA DropIsFree ==
  ASSUME IInv, IInv', NEW g \in given, MarkDropped(g)
  PROVE  [Heap!Next]_(Heap!vars)
<1>1. given' = given \ {g}
  BY DEF MarkDropped
<1>2. PICK blk : blk = [start |-> g.ptr, size |-> g.item.size]
  OBVIOUS
<1>3. \A h \in given : h.ptr = g.ptr => h = g
  BY OnePtr
<1>4. Blocks' = Blocks \ {blk} /\ blk \in Blocks
  BY <1>1, <1>2, <1>3 DEF Blocks
<1>5. Enumerated' = Enumerated \ {blk.start}
  <2>1. Enumerated = {h.ptr : h \in given}
    BY EnumerationExact DEF EnumeratedGiven
  <2>2. EnumeratedGiven'
    BY EnumerationExact, PTL
  <2> QED BY <1>1, <1>2, <1>3, <2>1, <2>2 DEF EnumeratedGiven
<1>6. blk \in [start : Address, size : {t.size : t \in Item}]
  BY <1>2 DEF IInv, TypeOK
<1>7. Heap!Free(blk)
  BY <1>4, <1>5 DEF Heap!Free, Blocks, Enumerated
<1> QED BY <1>6, <1>7 DEF Heap!Next

\* The allocator implements BlockHeap: an item overlaps none of those not dropped,
\* and the walk along the chains of all arenas finds exactly these, whatever
\* arenas were parked, reset, taken again or released in between.
\* (alloc.rs: alloc_unchecked, run_drop_check, reset; mod.rs: try_alloc,
\* initialize_new_arena, drop_dead_arenas)
THEOREM AllocatorImplementsHeap == Spec => ImplementsHeap
<1>1. Init => Heap!Init
  <2> SUFFICES ASSUME Init PROVE Heap!Init
    OBVIOUS
  <2>1. given = {} /\ IInv
    BY InitInv DEF Init
  <2>2. Blocks = {} /\ Enumerated = {}
    BY <2>1, EnumerationExact DEF Blocks, EnumeratedGiven
  <2> QED BY <2>2 DEF Heap!Init, Blocks, Enumerated
<1>2. IInv /\ IInv' /\ [Next]_vars => [Heap!Next]_(Heap!vars)
  <2> SUFFICES ASSUME IInv, IInv', [Next]_vars PROVE [Heap!Next]_(Heap!vars)
    OBVIOUS
  <2>1. ASSUME NEW item \in Item, AllocActive(item) \/ AllocNew(item)
        PROVE  [Heap!Next]_(Heap!vars)
    BY <2>1, AllocActiveInv, AllocNewInv, GiveIsAlloc
  <2>2. ASSUME NEW g \in given, MarkDropped(g) PROVE [Heap!Next]_(Heap!vars)
    BY <2>2, DropIsFree
  <2>3. CASE given' = given
    <3>1. EnumeratedGiven /\ EnumeratedGiven'
      BY EnumerationExact, PTL
    <3>2. Blocks' = Blocks /\ Enumerated' = Enumerated
      BY <2>3, <3>1 DEF Blocks, EnumeratedGiven
    <3> QED BY <3>2 DEF Heap!vars, Blocks, Enumerated
  <2>4. \/ \E item \in Item : AllocActive(item) \/ AllocNew(item)
        \/ \E g \in given : MarkDropped(g)
        \/ given' = given
    BY DEF Next, AllocFails, DropDeadArenas, vars
  <2> QED BY <2>1, <2>2, <2>3, <2>4
<1> QED BY <1>1, <1>2, Invariant, PTL DEF Spec, ImplementsHeap, Heap!Spec
=============================================================================
