--------------------------- MODULE BumpPages_proofs ---------------------------
(***************************************************************************)
(* Proofs about BumpPages: for all page sizes, sizes and alignments, blocks*)
(* in use keep their bytes and their page, and the heap size is the size   *)
(* of the pages.                                                           *)
(***************************************************************************)
EXTENDS BumpPages, VecOps_proofs

\* A block of no bytes can lie at the very end of its page.  Where the OS may put
\* another page there, the client asks for no such blocks.
NoEdgeBlocks == MayAdjoin => \A l \in Layout : l.size > 0

-----------------------------------------------------------------------------
(* The invariant.                                                          *)

At == 1 .. Len(bump_pages)

\* Pages lie apart, and their bump offsets in them.
PagesInv ==
  /\ \A i \in At : 0 < bump_pages[i].size /\ bump_pages[i].bump <= bump_pages[i].size
  /\ \A i, j \in At : i # j => Apart(bump_pages[i], bump_pages[j])

\* A block lies in its page, below the bump offset if it has any bytes.
InPage(b, p) ==
  /\ p.buffer = b.page
  /\ p.buffer <= b.ptr /\ b.ptr <= p.buffer + p.size
  /\ b.size > 0 => b.ptr + b.size <= p.buffer + p.bump

BlocksInv ==
  \A h \in InUse :
    /\ given[h].align > 0 /\ given[h].ptr % given[h].align = 0
    /\ \E i \in At : InPage(given[h], bump_pages[i])
    /\ MayAdjoin => given[h].size > 0

\* Blocks with bytes share none.
Clear(b, c) == b.ptr + b.size <= c.ptr \/ c.ptr + c.size <= b.ptr
DisjointInv == \A g, h \in Solid : g # h => Clear(given[g], given[h])

\* A page counts its blocks and those whose release missed it; a buffer that the OS
\* has was missed by none.
From(buffer) == {h \in InUse : given[h].page = buffer}
CountInv ==
  /\ IsFiniteSet(InUse)
  /\ \A b \in Buffer :
       /\ \A i \in At : bump_pages[i].buffer = b =>
            bump_pages[i].active_allocs = Cardinality(From(b)) + unowned[b]
       /\ (\A i \in At : bump_pages[i].buffer # b) => unowned[b] = 0

HeapInv == IsFiniteSet(WordsOf(Pages)) /\ current_heap_size = TotalSize(Pages)

IInv == TypeOK /\ PagesInv /\ BlocksInv /\ DisjointInv /\ CountInv /\ HeapInv

-----------------------------------------------------------------------------
(* Pages.                                                                  *)

\* The positions of the pages.
LEMMA PagesTyped ==
  ASSUME TypeOK
  PROVE  /\ Len(bump_pages) \in Nat /\ DOMAIN bump_pages = At
         /\ \A i \in At : bump_pages[i] \in Page
         /\ \A p : p \in Pages <=> \E i \in At : bump_pages[i] = p
<1>1. bump_pages \in Seq(Page)
  BY DEF TypeOK
<1>2. Len(bump_pages) \in Nat /\ DOMAIN bump_pages = At /\ \A i \in At : bump_pages[i] \in Page
  BY <1>1, LenProperties, ElementOfSeq DEF At
<1>3. \A p : p \in ToSet(bump_pages) <=> \E i \in At : bump_pages[i] = p
  BY <1>2 DEF ToSet
<1> QED BY <1>2, <1>3 DEF Pages

\* The same, as a fact that can be primed.
PagesAre == \A i \in At : bump_pages[i] \in Page

\* Every position holds a page.
LEMMA AllPages == TypeOK => PagesAre
BY PagesTyped DEF PagesAre

\* Two pages are not of one buffer.
LEMMA OneBuffer ==
  ASSUME TypeOK, PagesInv, NEW i \in At, NEW j \in At,
         bump_pages[i].buffer = bump_pages[j].buffer
  PROVE  i = j
<1>1. /\ bump_pages[i].buffer \in Nat /\ bump_pages[i].size \in Nat
      /\ bump_pages[j].buffer \in Nat /\ bump_pages[j].size \in Nat
  BY PagesTyped, BumpAssumption DEF Page
<1> QED BY <1>1 DEF PagesInv, Apart, Before

\* Blocks with bytes in pages that lie apart share none of them.
LEMMA ClearOfPage ==
  ASSUME NEW p \in Page, NEW q \in Page, Apart(p, q), p.bump <= p.size, q.bump <= q.size,
         NEW b \in Block, NEW c \in Block, InPage(b, p), InPage(c, q), b.size > 0, c.size > 0
  PROVE  Clear(b, c) /\ Clear(c, b)
<1>1. /\ {p.buffer, p.size, p.bump, q.buffer, q.size, q.bump} \subseteq Nat
      /\ {b.ptr, b.size, c.ptr, c.size} \subseteq Nat
  BY BumpAssumption DEF Page, Block
<1>2. b.ptr + b.size <= p.buffer + p.size /\ c.ptr + c.size <= q.buffer + q.size
  BY <1>1 DEF InPage
<1>3. p.buffer + p.size <= q.buffer \/ q.buffer + q.size <= p.buffer
  BY <1>1 DEF Apart, Before
<1> QED BY <1>1, <1>2, <1>3 DEF InPage, Clear

\* The page that owns the address of a block in use is the one it came from.
LEMMA OwnerOfBlock ==
  ASSUME IInv, NEW h \in InUse, NEW i \in At, Owns(bump_pages[i], given[h].ptr)
  PROVE  InPage(given[h], bump_pages[i]) /\ OwnerPages(given[h].ptr) = {i}
<1>1. PICK j \in At : InPage(given[h], bump_pages[j])
  BY DEF IInv, BlocksInv
<1>2. given[h] \in Block /\ given[h].ptr \in Nat /\ given[h].size \in Nat
  BY DEF IInv, TypeOK, Block
<1>3. ASSUME NEW k \in At, Owns(bump_pages[k], given[h].ptr) PROVE k = j
  <2>1. /\ bump_pages[k].buffer \in Nat /\ bump_pages[k].size \in Nat
        /\ bump_pages[j].buffer \in Nat /\ bump_pages[j].size \in Nat /\ bump_pages[j].bump \in Nat
    BY PagesTyped, BumpAssumption DEF Page, IInv
  <2>2. SUFFICES ASSUME k # j PROVE FALSE
    OBVIOUS
  <2>3. Apart(bump_pages[k], bump_pages[j])
    BY <2>2 DEF IInv, PagesInv
  <2>4. bump_pages[j].bump <= bump_pages[j].size
    BY DEF IInv, PagesInv
  <2>5. MayAdjoin => given[h].size > 0
    BY DEF IInv, BlocksInv
  <2> QED BY <1>1, <1>2, <1>3, <2>1, <2>3, <2>4, <2>5 DEF InPage, Apart, Before, Owns
<1>4. i = j
  BY <1>3
<1>5. OwnerPages(given[h].ptr) = {i}
  <2>1. DOMAIN bump_pages = At
    BY PagesTyped DEF IInv
  <2> QED BY <1>3, <1>4, <2>1 DEF OwnerPages
<1> QED BY <1>1, <1>4, <1>5

\* A page that owns nothing of a block has the block's end, and the block no bytes.
LEMMA OwnerIndex ==
  ASSUME IInv, NEW h \in InUse, OwnerPages(given[h].ptr) # {}
  PROVE  \E i \in At : /\ OwnerPages(given[h].ptr) = {i}
                       /\ Max(OwnerPages(given[h].ptr)) = i
                       /\ InPage(given[h], bump_pages[i])
<1>1. DOMAIN bump_pages = At /\ Len(bump_pages) \in Nat
  BY PagesTyped DEF IInv
<1>2. PICK i \in At : Owns(bump_pages[i], given[h].ptr)
  BY <1>1 DEF OwnerPages
<1>3. InPage(given[h], bump_pages[i]) /\ OwnerPages(given[h].ptr) = {i}
  BY <1>2, OwnerOfBlock
<1>4. i \in Nat /\ {i} \in SUBSET Nat /\ {i} # {} /\ \A x \in {i} : x <= i
  BY <1>1 DEF At
<1>5. Max({i}) \in {i}
  BY <1>4, MaxFacts
<1> QED BY <1>3, <1>5

-----------------------------------------------------------------------------
(* A step that changes one page, but neither its place nor its size.       *)

\* What it keeps.
LEMMA PageReplaced ==
  ASSUME IInv, NEW i \in At, NEW q \in Page, bump_pages' = [bump_pages EXCEPT ![i] = q],
         q.buffer = bump_pages[i].buffer, q.size = bump_pages[i].size, q.bump <= q.size
  PROVE  /\ bump_pages' \in Seq(Page) /\ At' = At
         /\ \A j \in At : bump_pages'[j] = IF j = i THEN q ELSE bump_pages[j]
         /\ PagesInv'
         /\ current_heap_size' = current_heap_size => HeapInv'
<1>0. bump_pages \in Seq(Page) /\ DOMAIN bump_pages = At
  BY PagesTyped DEF IInv, TypeOK
<1>1. bump_pages' \in Seq(Page) /\ Len(bump_pages') = Len(bump_pages)
  BY <1>0, ExceptSeq DEF At
<1>2. \A j \in At : bump_pages'[j] = IF j = i THEN q ELSE bump_pages[j]
  BY <1>0
<1>3. At' = At
  BY <1>1 DEF At
<1>4. \A j \in At : /\ bump_pages'[j].buffer = bump_pages[j].buffer
                    /\ bump_pages'[j].size = bump_pages[j].size
  BY <1>2
<1>5. PagesInv'
  BY <1>2, <1>3, <1>4 DEF IInv, PagesInv, Apart, Before
<1>6. WordsOf(Pages)' = WordsOf(Pages)
  <2>1. Pages = {bump_pages[j] : j \in At}
    BY <1>0 DEF Pages, ToSet
  <2>2. Pages' = {bump_pages'[j] : j \in At}
    <3>1. DOMAIN bump_pages' = At
      BY <1>0
    <3> QED BY <3>1 DEF Pages, ToSet
  <2>3. WordsOf(Pages) = UNION {{bump_pages[j].buffer} \X (1 .. bump_pages[j].size) : j \in At}
    BY <2>1 DEF WordsOf
  <2>4. WordsOf(Pages)' = UNION {{bump_pages'[j].buffer} \X (1 .. bump_pages'[j].size) : j \in At}
    BY <2>2 DEF WordsOf
  <2> QED BY <1>4, <2>3, <2>4
<1> QED BY <1>1, <1>2, <1>3, <1>5, <1>6 DEF IInv, HeapInv, TotalSize

-----------------------------------------------------------------------------
\* The invariant holds of an allocator without pages.
LEMMA InitInv == Init => IInv
<1> SUFFICES ASSUME Init PROVE IInv
  OBVIOUS
<1>1. Len(bump_pages) = 0 /\ bump_pages \in Seq(Page) /\ At = {}
  BY DEF Init, At
<1>2. InUse = {}
  BY DEF Init, InUse
<1>3. TypeOK
  BY <1>1, <1>2 DEF Init, TypeOK
<1>4. Pages = {} /\ WordsOf(Pages) = {}
  BY <1>1, <1>3, PagesTyped DEF WordsOf
<1>5. HeapInv
  BY <1>4, FS_EmptySet DEF Init, HeapInv, TotalSize
<1>6. PagesInv /\ BlocksInv /\ DisjointInv /\ CountInv
  BY <1>1, <1>2, FS_EmptySet DEF Init, PagesInv, BlocksInv, DisjointInv, Solid, CountInv
<1> QED BY <1>3, <1>5, <1>6 DEF IInv

-----------------------------------------------------------------------------
(* Allocation.                                                             *)

\* Where a block lies that fits a page.
LEMMA BlockPlaced ==
  ASSUME NEW p \in Page, p.bump <= p.size, NEW l \in Layout, Fits(p, l)
  PROVE  LET b == BlockIn(p, l)
             q == Taken(p, l)
         IN /\ b \in Block /\ q \in Page
            /\ b.page = p.buffer /\ b.size = l.size /\ b.align = l.align
            /\ b.align > 0 /\ b.ptr % b.align = 0
            /\ q.buffer = p.buffer /\ q.size = p.size /\ q.align = p.align
            /\ p.bump <= q.bump /\ q.bump <= q.size
            /\ q.active_allocs = p.active_allocs + 1
            /\ InPage(b, q) /\ p.buffer + p.bump <= b.ptr
<1> DEFINE pad == Padding(p, l.align)
<1>1. /\ {p.buffer, p.size, p.bump, p.active_allocs, l.size} \subseteq Nat
      /\ l.align \in Nat \ {0}
  BY BumpAssumption DEF Page
<1>2. /\ pad \in Nat /\ (p.buffer + p.bump + pad) % l.align = 0
  <2>1. p.buffer + p.bump \in Nat
    BY <1>1
  <2> QED BY <1>1, <2>1, PaddingFacts DEF Padding
<1> HIDE DEF pad
<1>3. Offset(p, l.align) = p.bump + pad /\ p.bump + pad + l.size <= p.size
  BY DEF Offset, Fits, pad
<1>4. /\ BlockIn(p, l) = [ptr |-> p.buffer + (p.bump + pad), size |-> l.size, align |-> l.align,
                          page |-> p.buffer]
      /\ Taken(p, l) = [p EXCEPT !.bump = p.bump + pad + l.size,
                                 !.active_allocs = p.active_allocs + 1]
  BY <1>3 DEF BlockIn, Taken
<1>5. p.buffer + (p.bump + pad) = p.buffer + p.bump + pad
  BY <1>1, <1>2
<1>6. BlockIn(p, l) \in Block /\ Taken(p, l) \in Page
  <2>1. /\ p.buffer + (p.bump + pad) \in Nat /\ p.bump + pad + l.size \in Nat
        /\ p.active_allocs + 1 \in Nat
    BY <1>1, <1>2
  <2>2. p.buffer \in Buffer
    BY DEF Page
  <2>3. BlockIn(p, l) \in Block
    BY <1>1, <1>4, <2>1, <2>2 DEF Block
  <2>4. Taken(p, l) \in Page
    BY <1>4, <2>1 DEF Page
  <2> QED BY <2>3, <2>4
<1>7. /\ p.bump <= p.bump + pad + l.size /\ p.buffer + p.bump <= p.buffer + (p.bump + pad)
      /\ p.buffer <= p.buffer + (p.bump + pad)
      /\ p.buffer + (p.bump + pad) <= p.buffer + p.size
      /\ p.buffer + (p.bump + pad) + l.size <= p.buffer + (p.bump + pad + l.size)
  BY <1>1, <1>2, <1>3
<1> QED BY <1>1, <1>2, <1>3, <1>4, <1>5, <1>6, <1>7 DEF InPage, Page

\* What the client has after an allocation.
LEMMA GivesFacts ==
  ASSUME TypeOK, NEW h \in Handle, h \notin InUse, NEW b \in Block, Gives(h, b)
  PROVE  /\ InUse' = InUse \cup {h} /\ InUse' \subseteq Handle
         /\ given'[h] = b /\ \A g \in InUse : given'[g] = given[g]
         /\ \A g \in InUse' : given'[g] \in Block
         /\ IsFiniteSet(InUse) => IsFiniteSet(InUse')
         /\ \A buffer : From(buffer)' = From(buffer) \cup (IF b.page = buffer THEN {h} ELSE {})
<1>1. InUse' = InUse \cup {h}
  BY DEF Gives, InUse
<1>2. given'[h] = b /\ \A g \in InUse : given'[g] = given[g]
  BY DEF Gives
<1>3. IsFiniteSet(InUse) => IsFiniteSet(InUse')
  BY <1>1, FS_AddElement
<1>4. \A buffer : From(buffer)' = From(buffer) \cup (IF b.page = buffer THEN {h} ELSE {})
  BY <1>1, <1>2 DEF From
<1> QED BY <1>1, <1>2, <1>3, <1>4 DEF TypeOK

\* The blocks of one page, counted with one more.
LEMMA FromMore ==
  ASSUME IsFiniteSet(InUse), NEW buffer, NEW h, h \notin InUse
  PROVE  /\ Cardinality(From(buffer)) \in Nat
         /\ Cardinality(From(buffer) \cup {h}) = Cardinality(From(buffer)) + 1
<1>1. From(buffer) \subseteq InUse
  BY DEF From
<1>2. IsFiniteSet(From(buffer)) /\ h \notin From(buffer)
  BY <1>1, FS_Subset
<1> QED BY <1>2, FS_AddElement, FS_CardinalityType

\* A block more, in page q, which has room for it above what it had given.
LEMMA BlocksMore ==
  ASSUME IInv, NoEdgeBlocks, NEW h \in Handle, h \notin InUse, NEW b \in Block, Gives(h, b),
         TypeOK', PagesInv',
         b.align > 0, b.ptr % b.align = 0, b.size > 0 \/ ~MayAdjoin,
         NEW n \in At', InPage(b, bump_pages'[n]),
         \A i \in At : \E j \in At' : /\ bump_pages'[j].buffer = bump_pages[i].buffer
                                      /\ bump_pages'[j].size = bump_pages[i].size
                                      /\ bump_pages'[j].bump >= bump_pages[i].bump
                                      /\ j = n => bump_pages[i].buffer + bump_pages[i].bump <= b.ptr
  PROVE  BlocksInv' /\ DisjointInv'
<1>1. /\ InUse' = InUse \cup {h} /\ given'[h] = b
      /\ \A g \in InUse : given'[g] = given[g] /\ g # h /\ given[g] \in Block
  BY GivesFacts DEF IInv, TypeOK
<1>2. ASSUME NEW g \in InUse
      PROVE  \E j \in At' : /\ InPage(given[g], bump_pages'[j])
                            /\ j = n /\ given[g].size > 0 => given[g].ptr + given[g].size <= b.ptr
  <2>1. PICK i \in At : InPage(given[g], bump_pages[i])
    BY DEF IInv, BlocksInv
  <2>2. PICK j \in At' : /\ bump_pages'[j].buffer = bump_pages[i].buffer
                         /\ bump_pages'[j].size = bump_pages[i].size
                         /\ bump_pages'[j].bump >= bump_pages[i].bump
                         /\ j = n => bump_pages[i].buffer + bump_pages[i].bump <= b.ptr
    OBVIOUS
  <2>3. bump_pages[i] \in Page /\ bump_pages'[j] \in Page
    <3>1. (TypeOK => PagesAre)'
      BY AllPages, PTL
    <3> QED BY <3>1, AllPages DEF IInv, PagesAre
  <2>4. /\ {bump_pages[i].buffer, bump_pages[i].bump, bump_pages'[j].bump} \subseteq Nat
        /\ {given[g].ptr, given[g].size, b.ptr} \subseteq Nat
    BY <1>1, <2>3, BumpAssumption DEF Page, Block
  <2>5. InPage(given[g], bump_pages'[j])
    BY <2>1, <2>2, <2>4 DEF InPage
  <2>6. j = n /\ given[g].size > 0 => given[g].ptr + given[g].size <= b.ptr
    BY <2>1, <2>2, <2>4 DEF InPage
  <2> QED BY <2>5, <2>6
<1>3. BlocksInv'
  <2> SUFFICES ASSUME NEW g \in InUse'
               PROVE  /\ given'[g].align > 0 /\ given'[g].ptr % given'[g].align = 0
                      /\ \E i \in At' : InPage(given'[g], bump_pages'[i])
                      /\ MayAdjoin => given'[g].size > 0
    BY DEF BlocksInv, InPage
  <2>1. CASE g = h
    BY <1>1, <2>1
  <2>2. CASE g \in InUse
    <3>1. given'[g] = given[g]
      BY <1>1, <2>2
    <3> QED BY <1>2, <2>2, <3>1 DEF IInv, BlocksInv
  <2> QED BY <1>1, <2>1, <2>2
<1>4. ASSUME NEW g \in InUse, given[g].size > 0, b.size > 0
      PROVE  Clear(given[g], b) /\ Clear(b, given[g])
  <2>1. PICK j \in At' : /\ InPage(given[g], bump_pages'[j])
                         /\ j = n /\ given[g].size > 0 => given[g].ptr + given[g].size <= b.ptr
    BY <1>2
  <2>2. CASE j = n
    BY <1>4, <2>1, <2>2 DEF Clear
  <2>3. CASE j # n
    <3>1. Apart(bump_pages'[j], bump_pages'[n])
      BY <2>3 DEF PagesInv, Apart, Before
    <3>2. /\ bump_pages'[j].bump <= bump_pages'[j].size /\ bump_pages'[n].bump <= bump_pages'[n].size
      BY DEF PagesInv
    <3>3. bump_pages'[j] \in Page /\ bump_pages'[n] \in Page
      <4>1. (TypeOK => PagesAre)'
        BY AllPages, PTL
      <4> QED BY <4>1 DEF PagesAre
    <3> QED BY <1>1, <1>4, <2>1, <3>1, <3>2, <3>3, ClearOfPage
  <2> QED BY <2>2, <2>3
<1>5. DisjointInv'
  <2> SUFFICES ASSUME NEW f \in InUse', NEW g \in InUse', given'[f].size > 0, given'[g].size > 0,
                      f # g
               PROVE  Clear(given'[f], given'[g])
    BY DEF DisjointInv, Solid, Clear
  <2>1. CASE f = h
    BY <1>1, <1>4, <2>1
  <2>2. CASE g = h
    BY <1>1, <1>4, <2>2
  <2>3. CASE f # h /\ g # h
    <3>1. f \in InUse /\ g \in InUse /\ given'[f] = given[f] /\ given'[g] = given[g]
      BY <1>1, <2>3
    <3> QED BY <3>1 DEF IInv, DisjointInv, Solid
  <2> QED BY <2>1, <2>2, <2>3
<1> QED BY <1>3, <1>5

\* A block from the newest page.
LEMMA AllocLastInv ==
  ASSUME IInv, NoEdgeBlocks, NEW h \in Handle, NEW l \in Layout, AllocLast(h, l)
  PROVE  IInv'
<1>1. PICK n \in Nat : n = Len(bump_pages)
  BY PagesTyped DEF IInv
<1>2. bump_pages # <<>> /\ bump_pages \in Seq(Page) /\ n \in At
  <2>1. bump_pages # <<>> /\ bump_pages \in Seq(Page)
    BY DEF AllocLast, LastFits, IInv, TypeOK
  <2>2. Len(bump_pages) # 0
    BY <2>1, EmptySeq
  <2> QED BY <1>1, <2>1, <2>2 DEF At
<1>3. PICK p \in Page : p = bump_pages[n]
  BY <1>2, PagesTyped DEF IInv
<1>4. Fits(p, l) /\ p.bump <= p.size
  BY <1>1, <1>2, <1>3 DEF AllocLast, LastFits, Last, IInv, PagesInv
<1>5. PICK b \in Block, q \in Page : b = BlockIn(p, l) /\ q = Taken(p, l)
  BY <1>4, BlockPlaced
<1>6. /\ h \notin InUse /\ Gives(h, b)
      /\ bump_pages' = [bump_pages EXCEPT ![n] = q]
      /\ UNCHANGED <<current_heap_size, unowned>>
  BY <1>1, <1>2, <1>3, <1>5 DEF AllocLast
<1>7. /\ b.page = p.buffer /\ b.size = l.size /\ b.align = l.align
      /\ b.align > 0 /\ b.ptr % b.align = 0
      /\ q.buffer = p.buffer /\ q.size = p.size
      /\ p.bump <= q.bump /\ q.bump <= q.size
      /\ q.active_allocs = p.active_allocs + 1
      /\ InPage(b, q) /\ p.buffer + p.bump <= b.ptr
  BY <1>4, <1>5, BlockPlaced
<1>8. /\ bump_pages' \in Seq(Page) /\ At' = At
      /\ \A j \in At : bump_pages'[j] = IF j = n THEN q ELSE bump_pages[j]
      /\ PagesInv' /\ HeapInv'
  BY <1>2, <1>3, <1>6, <1>7, PageReplaced
<1>9. /\ InUse' = InUse \cup {h} /\ InUse' \subseteq Handle
      /\ \A g \in InUse' : given'[g] \in Block
      /\ IsFiniteSet(InUse')
      /\ \A buffer : From(buffer)' = From(buffer) \cup (IF b.page = buffer THEN {h} ELSE {})
  BY <1>6, GivesFacts DEF IInv, CountInv
<1>10. TypeOK'
  BY <1>6, <1>8, <1>9 DEF IInv, TypeOK
<1>11. BlocksInv' /\ DisjointInv'
  <2>1. b.size > 0 \/ ~MayAdjoin
    BY <1>7 DEF NoEdgeBlocks
  <2>2. n \in At' /\ InPage(b, bump_pages'[n])
    BY <1>2, <1>7, <1>8
  <2>3. ASSUME NEW i \in At
        PROVE  /\ bump_pages'[i].buffer = bump_pages[i].buffer
               /\ bump_pages'[i].size = bump_pages[i].size
               /\ bump_pages'[i].bump >= bump_pages[i].bump
               /\ i = n => bump_pages[i].buffer + bump_pages[i].bump <= b.ptr
    <3>1. CASE i = n
      BY <1>3, <1>7, <1>8, <3>1 DEF Page
    <3>2. CASE i # n
      <4>1. bump_pages[i].bump \in Nat
        BY PagesTyped DEF IInv, Page
      <4> QED BY <1>8, <3>2, <4>1
    <3> QED BY <3>1, <3>2
  <2>4. \A i \in At : \E j \in At' : /\ bump_pages'[j].buffer = bump_pages[i].buffer
                                     /\ bump_pages'[j].size = bump_pages[i].size
                                     /\ bump_pages'[j].bump >= bump_pages[i].bump
                                     /\ j = n => bump_pages[i].buffer + bump_pages[i].bump <= b.ptr
    BY <1>8, <2>3
  <2> QED BY <1>6, <1>7, <1>8, <1>10, <2>1, <2>2, <2>4, BlocksMore
<1>12. CountInv'
  <2>1. ASSUME NEW c \in Buffer, NEW i \in At, bump_pages'[i].buffer = c
        PROVE  bump_pages'[i].active_allocs = Cardinality(From(c)') + unowned'[c]
    <3>1. c = bump_pages[i].buffer
      BY <1>3, <1>7, <1>8, <2>1
    <3>2. unowned' = unowned
      BY <1>6
    <3>3. /\ bump_pages[i].active_allocs = Cardinality(From(c)) + unowned[c]
          /\ unowned[c] \in Nat
      BY <3>1 DEF IInv, CountInv, TypeOK
    <3>4. Cardinality(From(c)) \in Nat /\ Cardinality(From(c) \cup {h}) = Cardinality(From(c)) + 1
      BY <1>6, FromMore DEF IInv, CountInv
    <3>5. CASE i = n
      <4>1. From(c)' = From(c) \cup {h} /\ bump_pages'[i].active_allocs = bump_pages[i].active_allocs + 1
        BY <1>3, <1>7, <1>8, <1>9, <3>1, <3>5
      <4> QED BY <3>2, <3>3, <3>4, <4>1
    <3>6. CASE i # n
      <4>1. c # p.buffer
        BY <1>2, <1>3, <3>1, <3>6, OneBuffer DEF IInv
      <4>2. From(c)' = From(c) /\ bump_pages'[i] = bump_pages[i]
        BY <1>7, <1>8, <1>9, <3>6, <4>1
      <4> QED BY <3>2, <3>3, <4>2
    <3> QED BY <3>5, <3>6
  <2>2. \A c \in Buffer : (\A i \in At : bump_pages'[i].buffer # c) => unowned[c] = 0
    BY <1>3, <1>7, <1>8 DEF IInv, CountInv
  <2> QED BY <1>6, <1>8, <1>9, <2>1, <2>2 DEF CountInv
<1> QED BY <1>8, <1>10, <1>11, <1>12 DEF IInv

\* The only words of a page are its own.
LEMMA WordsOfPage ==
  \A P, w, k : <<w, k>> \in WordsOf(P) <=> \E p \in P : p.buffer = w /\ k \in 1 .. p.size
BY DEF WordsOf

\* A page lies at a place no page has: the heap grows by the words of it, and no
\* block has been there.
LEMMA FreshPage ==
  ASSUME IInv, NEW p \in Page, p.size > 0, \A q \in Pages : Apart(p, q)
  PROVE  /\ \A i \in At : bump_pages[i].buffer # p.buffer
         /\ unowned[p.buffer] = 0 /\ From(p.buffer) = {}
<1>1. \A i \in At : bump_pages[i].buffer # p.buffer
  <2> SUFFICES ASSUME NEW i \in At, bump_pages[i].buffer = p.buffer PROVE FALSE
    OBVIOUS
  <2>1. bump_pages[i] \in Page /\ bump_pages[i] \in Pages /\ bump_pages[i].size > 0
    BY PagesTyped DEF IInv, PagesInv
  <2>2. /\ bump_pages[i].size \in Nat /\ p.size \in Nat /\ p.buffer \in Nat
    BY <2>1, BumpAssumption DEF Page
  <2>3. Apart(p, bump_pages[i])
    BY <2>1
  <2> QED BY <2>1, <2>2, <2>3 DEF Apart, Before
<1>2. p.buffer \in Buffer
  BY DEF Page
<1>3. unowned[p.buffer] = 0
  BY <1>1, <1>2 DEF IInv, CountInv
<1>4. From(p.buffer) = {}
  BY <1>1 DEF From, IInv, BlocksInv, InPage
<1> QED BY <1>1, <1>3, <1>4

\* What a page does that goes to the end of the list.
LEMMA PageAdded ==
  ASSUME IInv, NEW q \in Page, q.size > 0, q.bump <= q.size, \A p \in Pages : Apart(q, p),
         bump_pages' = Append(bump_pages, q), current_heap_size' = current_heap_size + q.size,
         NEW n \in Nat, n = Len(bump_pages) + 1
  PROVE  /\ bump_pages' \in Seq(Page) /\ n \in At' /\ bump_pages'[n] = q
         /\ At' = At \cup {n} /\ n \notin At
         /\ \A i \in At : bump_pages'[i] = bump_pages[i]
         /\ PagesInv' /\ HeapInv'
<1>1. bump_pages \in Seq(Page) /\ Len(bump_pages) \in Nat
  BY PagesTyped DEF IInv, TypeOK
<1>2. /\ bump_pages' \in Seq(Page) /\ Len(bump_pages') = n
      /\ \A i \in 1 .. Len(bump_pages) : bump_pages'[i] = bump_pages[i]
      /\ bump_pages'[n] = q
  BY <1>1, AppendProperties
<1>3. /\ n \in At' /\ At' = At \cup {n} /\ n \notin At
      /\ \A i \in At : bump_pages'[i] = bump_pages[i]
  BY <1>1, <1>2 DEF At
<1>4. \A i \in At : bump_pages[i] \in Pages
  BY PagesTyped DEF IInv
<1>5. PagesInv'
  <2>1. \A i \in At' : 0 < bump_pages'[i].size /\ bump_pages'[i].bump <= bump_pages'[i].size
    BY <1>2, <1>3 DEF IInv, PagesInv
  <2>2. ASSUME NEW i \in At', NEW j \in At', i # j PROVE Apart(bump_pages'[i], bump_pages'[j])
    <3>1. CASE i = n
      <4>1. j \in At /\ bump_pages'[j] = bump_pages[j] /\ bump_pages'[i] = q
        BY <1>2, <1>3, <2>2, <3>1
      <4> QED BY <1>4, <4>1
    <3>2. CASE j = n
      <4>1. i \in At /\ bump_pages'[i] = bump_pages[i] /\ bump_pages'[j] = q
        BY <1>2, <1>3, <2>2, <3>2
      <4>2. Apart(q, bump_pages[i])
        BY <1>4, <4>1
      <4> QED BY <4>1, <4>2 DEF Apart
    <3>3. CASE i # n /\ j # n
      <4>1. i \in At /\ bump_pages'[i] = bump_pages[i] /\ j \in At /\ bump_pages'[j] = bump_pages[j]
        BY <1>3, <3>3
      <4> QED BY <2>2, <4>1 DEF IInv, PagesInv
    <3> QED BY <3>1, <3>2, <3>3
  <2> QED BY <2>1, <2>2 DEF PagesInv, Apart, Before
<1>6. HeapInv'
  <2>1. Pages' = Pages \cup {q}
    <3>1. DOMAIN bump_pages' = At' /\ DOMAIN bump_pages = At
      BY <1>1, <1>2 DEF At
    <3>2. Pages' = {bump_pages'[i] : i \in At'} /\ Pages = {bump_pages[i] : i \in At}
      BY <3>1 DEF Pages, ToSet
    <3>3. Pages' \subseteq Pages \cup {q}
      BY <1>2, <1>3, <3>2
    <3>4. \A i \in At : bump_pages[i] \in Pages'
      <4> SUFFICES ASSUME NEW i \in At PROVE bump_pages[i] \in Pages'
        OBVIOUS
      <4>1. i \in At' /\ bump_pages'[i] = bump_pages[i]
        BY <1>3
      <4> QED BY <3>2, <4>1
    <3>5. q \in Pages'
      BY <1>2, <1>3, <3>2
    <3> QED BY <3>2, <3>3, <3>4, <3>5
  <2>2. PICK W, V : W = WordsOf(Pages) /\ V = {q.buffer} \X (1 .. q.size)
    OBVIOUS
  <2>3. WordsOf(Pages') = W \cup V
    BY <2>1, <2>2 DEF WordsOf
  <2>4. W \cap V = {}
    <3> SUFFICES ASSUME NEW x \in W, x \in V PROVE FALSE
      OBVIOUS
    <3>1. PICK p \in Pages : x \in {p.buffer} \X (1 .. p.size)
      BY <2>2 DEF WordsOf
    <3>2. p.buffer = q.buffer
      BY <2>2, <3>1
    <3> QED BY <3>2, FreshPage, PagesTyped DEF IInv
  <2>5. q.size \in Nat /\ IsFiniteSet(W) /\ current_heap_size = Cardinality(W)
    BY <2>2 DEF Page, IInv, HeapInv, TotalSize
  <2>6. IsFiniteSet(W \cup V) /\ Cardinality(W \cup V) = Cardinality(W) + q.size
    BY <2>2, <2>4, <2>5, MoreWords
  <2>7. WordsOf(Pages)' = W \cup V
    BY <2>3 DEF WordsOf
  <2> QED BY <2>5, <2>6, <2>7 DEF HeapInv, TotalSize
<1> QED BY <1>2, <1>3, <1>5, <1>6

\* A new page has room for the block it is made for.
LEMMA NewPageFits ==
  ASSUME NEW buffer \in Buffer, NEW l \in Layout
  PROVE  LET p == NewPage(buffer, l)
         IN /\ p \in Page /\ p.buffer = buffer /\ p.bump = 0 /\ p.active_allocs = 0
            /\ p.size > 0 /\ Fits(p, l)
<1> DEFINE s == l.size + l.align + Margin
<1>1. l.size \in Nat /\ l.align \in Nat \ {0} /\ Margin \in Nat /\ page_size \in Nat
      /\ PageAlign \in Nat /\ buffer \in Nat
  BY BumpAssumption
<1>2. s \in Nat /\ l.size + l.align <= s
  BY <1>1
<1> HIDE DEF s
<1>3. Max({page_size, s}) \in Nat /\ s <= Max({page_size, s})
  <2>1. {page_size, s} \in SUBSET Nat /\ page_size + s \in Nat
        /\ \A x \in {page_size, s} : x <= page_size + s
    BY <1>1, <1>2
  <2>2. Max({page_size, s}) \in {page_size, s} /\ \A x \in {page_size, s} : x <= Max({page_size, s})
    BY <2>1, MaxFacts
  <2> QED BY <1>1, <1>2, <2>2
<1>4. Max({l.align, PageAlign}) \in Nat /\ l.align <= Max({l.align, PageAlign})
  <2>1. {l.align, PageAlign} \in SUBSET Nat /\ l.align + PageAlign \in Nat
        /\ \A x \in {l.align, PageAlign} : x <= l.align + PageAlign
    BY <1>1
  <2>2. /\ Max({l.align, PageAlign}) \in {l.align, PageAlign}
        /\ \A x \in {l.align, PageAlign} : x <= Max({l.align, PageAlign})
    BY <2>1, MaxFacts
  <2> QED BY <1>1, <2>2
<1>5. PICK p : p = NewPage(buffer, l)
  OBVIOUS
<1>6. /\ p = [buffer |-> buffer, size |-> Max({page_size, s}),
              align |-> Max({l.align, PageAlign}), bump |-> 0, active_allocs |-> 0]
  BY <1>5 DEF NewPage, s
<1>7. p \in Page
  BY <1>3, <1>4, <1>6 DEF Page
<1>8. Padding(p, l.align) \in Nat /\ Padding(p, l.align) < l.align
  <2>1. p.buffer + p.bump \in Nat
    BY <1>1, <1>6
  <2> QED BY <1>1, <2>1, PaddingFacts DEF Padding
<1>9. Fits(p, l)
  BY <1>1, <1>2, <1>3, <1>4, <1>6, <1>8 DEF Fits, Offset
<1>10. p.size > 0
  BY <1>1, <1>2, <1>3, <1>6
<1> QED BY <1>5, <1>6, <1>7, <1>9, <1>10

\* A block from a new page.
LEMMA AllocNewPageInv ==
  ASSUME IInv, NoEdgeBlocks, NEW h \in Handle, NEW l \in Layout, NEW buffer \in Buffer,
         AllocNewPage(h, l, buffer)
  PROVE  IInv'
<1>1. PICK n \in Nat : n = Len(bump_pages) + 1
  BY PagesTyped DEF IInv
<1>2. PICK p \in Page : p = NewPage(buffer, l)
  BY NewPageFits
<1>3. /\ p.buffer = buffer /\ p.bump = 0 /\ p.active_allocs = 0 /\ p.size > 0
      /\ Fits(p, l) /\ p.bump <= p.size /\ p.size \in Nat
  BY <1>2, NewPageFits DEF Page
<1>4. PICK b \in Block, q \in Page : b = BlockIn(p, l) /\ q = Taken(p, l)
  BY <1>3, BlockPlaced
<1>5. /\ h \notin InUse /\ Gives(h, b)
      /\ bump_pages' = Append(bump_pages, q)
      /\ current_heap_size' = current_heap_size + p.size
      /\ UNCHANGED unowned
      /\ \A r \in Pages : Apart(p, r)
  BY <1>2, <1>3, <1>4 DEF AllocNewPage
<1>6. /\ b.page = p.buffer /\ b.size = l.size /\ b.align = l.align
      /\ b.align > 0 /\ b.ptr % b.align = 0
      /\ q.buffer = p.buffer /\ q.size = p.size
      /\ p.bump <= q.bump /\ q.bump <= q.size
      /\ q.active_allocs = 1
      /\ InPage(b, q) /\ p.buffer + p.bump <= b.ptr
  BY <1>3, <1>4, BlockPlaced
<1>7. \A r \in Pages : Apart(q, r)
  BY <1>5, <1>6 DEF Apart, Before
<1>8. /\ bump_pages' \in Seq(Page) /\ n \in At' /\ bump_pages'[n] = q
      /\ At' = At \cup {n} /\ n \notin At
      /\ \A i \in At : bump_pages'[i] = bump_pages[i]
      /\ PagesInv' /\ HeapInv'
  BY <1>1, <1>3, <1>5, <1>6, <1>7, PageAdded
<1>9. /\ InUse' = InUse \cup {h} /\ InUse' \subseteq Handle
      /\ \A g \in InUse' : given'[g] \in Block
      /\ IsFiniteSet(InUse')
      /\ \A c : From(c)' = From(c) \cup (IF b.page = c THEN {h} ELSE {})
  BY <1>5, GivesFacts DEF IInv, CountInv
<1>10. TypeOK'
  <2>1. current_heap_size' \in Nat
    BY <1>3, <1>5 DEF IInv, TypeOK
  <2> QED BY <1>5, <1>8, <1>9, <2>1 DEF IInv, TypeOK
<1>11. BlocksInv' /\ DisjointInv'
  <2>1. b.size > 0 \/ ~MayAdjoin
    BY <1>6, BumpAssumption DEF NoEdgeBlocks
  <2>2. InPage(b, bump_pages'[n])
    BY <1>6, <1>8
  <2>3. \A i \in At : \E j \in At' : /\ bump_pages'[j].buffer = bump_pages[i].buffer
                                     /\ bump_pages'[j].size = bump_pages[i].size
                                     /\ bump_pages'[j].bump >= bump_pages[i].bump
                                     /\ j = n => bump_pages[i].buffer + bump_pages[i].bump <= b.ptr
    <3> TAKE i \in At
    <3>1. bump_pages[i].bump \in Nat
      BY PagesTyped DEF IInv, Page
    <3>2. i \in At' /\ bump_pages'[i] = bump_pages[i] /\ i # n
      BY <1>8
    <3> QED BY <3>1, <3>2
  <2> QED BY <1>5, <1>6, <1>8, <1>10, <2>1, <2>2, <2>3, BlocksMore
<1>12. CountInv'
  <2>0. /\ \A i \in At : bump_pages[i].buffer # buffer
        /\ unowned[buffer] = 0 /\ From(buffer) = {}
    BY <1>3, <1>5, FreshPage
  <2>1. ASSUME NEW c \in Buffer, NEW i \in At', bump_pages'[i].buffer = c
        PROVE  bump_pages'[i].active_allocs = Cardinality(From(c)') + unowned'[c]
    <3>1. CASE i = n
      <4>1. c = buffer /\ From(c)' = {h} /\ bump_pages'[i].active_allocs = 1 /\ unowned'[c] = 0
        BY <1>3, <1>5, <1>6, <1>8, <1>9, <2>0, <2>1, <3>1
      <4>2. Cardinality({h}) = 1
        BY FS_Singleton
      <4> QED BY <4>1, <4>2
    <3>2. CASE i # n
      <4>1. i \in At /\ bump_pages'[i] = bump_pages[i]
        BY <1>8, <3>2
      <4>2. c # buffer
        BY <2>0, <2>1, <4>1
      <4>3. From(c)' = From(c)
        BY <1>3, <1>6, <1>9, <4>2
      <4> QED BY <1>5, <2>1, <4>1, <4>3 DEF IInv, CountInv
    <3> QED BY <3>1, <3>2
  <2>2. ASSUME NEW c \in Buffer, \A i \in At' : bump_pages'[i].buffer # c PROVE unowned'[c] = 0
    BY <1>5, <1>8, <2>2 DEF IInv, CountInv
  <2> QED BY <1>9, <2>1, <2>2 DEF CountInv
<1> QED BY <1>8, <1>10, <1>11, <1>12 DEF IInv

-----------------------------------------------------------------------------
(* Release.                                                                *)

\* What the client has after a release.
LEMMA FewerFacts ==
  ASSUME IInv, NEW h \in InUse, given' = Restrict(given, InUse \ {h})
  PROVE  /\ InUse' = InUse \ {h} /\ InUse' \subseteq Handle
         /\ \A g \in InUse' : g \in InUse /\ given'[g] = given[g] /\ given'[g] \in Block
         /\ IsFiniteSet(InUse')
         /\ \A c : From(c)' = From(c) \ {h}
<1>1. InUse' = InUse \ {h} /\ \A g \in InUse' : g \in InUse /\ given'[g] = given[g]
  BY DEF Restrict, InUse
<1>2. IsFiniteSet(InUse')
  BY <1>1, FS_RemoveElement DEF IInv, CountInv
<1>3. \A c : From(c)' = From(c) \ {h}
  BY <1>1 DEF From
<1> QED BY <1>1, <1>2, <1>3 DEF IInv, TypeOK

\* The blocks of one page, counted with one less.
LEMMA FromLess ==
  ASSUME IsFiniteSet(InUse), NEW h \in InUse, NEW buffer
  PROVE  /\ Cardinality(From(buffer)) \in Nat
         /\ IF given[h].page = buffer
            THEN Cardinality(From(buffer) \ {h}) = Cardinality(From(buffer)) - 1
                 /\ Cardinality(From(buffer)) > 0
            ELSE From(buffer) \ {h} = From(buffer)
<1>1. From(buffer) \subseteq InUse
  BY DEF From
<1>2. IsFiniteSet(From(buffer)) /\ Cardinality(From(buffer)) \in Nat
  BY <1>1, FS_Subset, FS_CardinalityType
<1>3. CASE given[h].page = buffer
  <2>1. h \in From(buffer)
    BY <1>3 DEF From
  <2>2. Cardinality(From(buffer) \ {h}) = Cardinality(From(buffer)) - 1
        /\ IsFiniteSet(From(buffer) \ {h})
    BY <1>2, <2>1, FS_RemoveElement
  <2>3. Cardinality(From(buffer) \ {h}) \in Nat
    BY <2>2, FS_CardinalityType
  <2> QED BY <1>2, <1>3, <2>2, <2>3
<1>4. CASE given[h].page # buffer
  BY <1>2, <1>4 DEF From
<1> QED BY <1>3, <1>4

\* Blocks released, and pages that keep their places and bumps.
LEMMA BlocksFewer ==
  ASSUME IInv, NEW h \in InUse, given' = Restrict(given, InUse \ {h}),
         At' = At, \A i \in At : /\ bump_pages'[i].buffer = bump_pages[i].buffer
                                 /\ bump_pages'[i].size = bump_pages[i].size
                                 /\ bump_pages'[i].bump = bump_pages[i].bump
  PROVE  BlocksInv' /\ DisjointInv'
<1>1. \A g \in InUse' : g \in InUse /\ given'[g] = given[g]
  BY FewerFacts
<1>2. BlocksInv'
  <2> SUFFICES ASSUME NEW g \in InUse'
               PROVE  /\ given'[g].align > 0 /\ given'[g].ptr % given'[g].align = 0
                      /\ \E i \in At' : InPage(given'[g], bump_pages'[i])
                      /\ MayAdjoin => given'[g].size > 0
    BY DEF BlocksInv, InPage
  <2>1. PICK i \in At : InPage(given[g], bump_pages[i])
    BY <1>1 DEF IInv, BlocksInv
  <2>2. i \in At' /\ InPage(given'[g], bump_pages'[i])
    BY <1>1, <2>1 DEF InPage
  <2> QED BY <1>1, <2>2 DEF IInv, BlocksInv
<1>3. DisjointInv'
  <2> SUFFICES ASSUME NEW f \in InUse', NEW g \in InUse', given'[f].size > 0, given'[g].size > 0,
                      f # g
               PROVE  Clear(given'[f], given'[g])
    BY DEF DisjointInv, Solid, Clear
  <2> QED BY <1>1 DEF IInv, DisjointInv, Solid
<1> QED BY <1>2, <1>3

\* A release, whether or not a page owns the address.
LEMMA DeallocBytesInv ==
  ASSUME IInv, NEW h \in Handle, DeallocBytes(h)
  PROVE  IInv'
<1>1. /\ h \in InUse /\ given' = Restrict(given, InUse \ {h})
      /\ UNCHANGED current_heap_size
  BY DEF DeallocBytes
<1>2. /\ InUse' = InUse \ {h} /\ InUse' \subseteq Handle
      /\ \A g \in InUse' : given'[g] \in Block
      /\ IsFiniteSet(InUse')
      /\ \A c : From(c)' = From(c) \ {h}
  BY <1>1, FewerFacts
<1>3. PICK c \in Buffer : c = given[h].page
  BY <1>1 DEF IInv, TypeOK, Block
<1>4. CASE OwnerPages(given[h].ptr) # {}
  <2>1. PICK i \in At : /\ Max(OwnerPages(given[h].ptr)) = i
                        /\ InPage(given[h], bump_pages[i])
    BY <1>1, <1>4, OwnerIndex
  <2>2. PICK p \in Page : p = bump_pages[i]
    BY PagesTyped DEF IInv
  <2>3. p.buffer = c /\ p.active_allocs \in Nat /\ unowned[c] \in Nat
    BY <1>3, <2>1, <2>2 DEF InPage, Page, IInv, TypeOK
  <2>4. p.active_allocs = Cardinality(From(c)) + unowned[c]
    BY <2>2, <2>3 DEF IInv, CountInv
  <2>5. /\ Cardinality(From(c)) \in Nat /\ Cardinality(From(c)) > 0
        /\ Cardinality(From(c) \ {h}) = Cardinality(From(c)) - 1
    BY <1>1, <1>3, FromLess DEF IInv, CountInv
  <2>6. Released(p.active_allocs) = p.active_allocs - 1 /\ p.active_allocs - 1 \in Nat
    BY <2>3, <2>4, <2>5 DEF Released
  <2>7. PICK q \in Page : q = [p EXCEPT !.active_allocs = p.active_allocs - 1]
    BY <2>6 DEF Page
  <2>8. /\ bump_pages' = [bump_pages EXCEPT ![i] = q] /\ UNCHANGED unowned
        /\ q.buffer = c /\ q.size = p.size /\ q.bump = p.bump /\ q.bump <= q.size
        /\ q.active_allocs = Cardinality(From(c) \ {h}) + unowned[c]
    <3>1. bump_pages' = [bump_pages EXCEPT ![i].active_allocs = Released(@)] /\ UNCHANGED unowned
      BY <1>1, <1>4, <2>1 DEF DeallocBytes
    <3>2. bump_pages' = [bump_pages EXCEPT ![i] = q]
      BY <2>2, <2>6, <2>7, <3>1
    <3>3. p.bump <= p.size
      BY <2>2 DEF IInv, PagesInv
    <3>4. /\ q.buffer = p.buffer /\ q.size = p.size /\ q.bump = p.bump
          /\ q.active_allocs = p.active_allocs - 1
      BY <2>7 DEF Page
    <3>5. q.active_allocs = Cardinality(From(c) \ {h}) + unowned[c]
      BY <2>3, <2>4, <2>5, <3>4
    <3> QED BY <2>3, <3>1, <3>2, <3>3, <3>4, <3>5
  <2>9. /\ bump_pages' \in Seq(Page) /\ At' = At
        /\ \A j \in At : bump_pages'[j] = IF j = i THEN q ELSE bump_pages[j]
        /\ PagesInv' /\ HeapInv'
    BY <1>1, <2>2, <2>3, <2>8, PageReplaced
  <2>10. TypeOK'
    BY <1>1, <1>2, <2>8, <2>9 DEF IInv, TypeOK
  <2>11. BlocksInv' /\ DisjointInv'
    BY <1>1, <2>2, <2>3, <2>8, <2>9, BlocksFewer
  <2>12. CountInv'
    <3>1. ASSUME NEW d \in Buffer, NEW j \in At, bump_pages'[j].buffer = d
          PROVE  bump_pages'[j].active_allocs = Cardinality(From(d)') + unowned'[d]
      <4>1. CASE j = i
        BY <1>2, <2>8, <2>9, <3>1, <4>1
      <4>2. CASE j # i
        <5>1. bump_pages'[j] = bump_pages[j] /\ d # c
          BY <2>2, <2>3, <2>9, <3>1, <4>2, OneBuffer DEF IInv
        <5>2. From(d)' = From(d)
          BY <1>1, <1>2, <1>3, <5>1, FromLess DEF IInv, CountInv
        <5> QED BY <2>8, <3>1, <5>1, <5>2 DEF IInv, CountInv
      <4> QED BY <4>1, <4>2
    <3>2. ASSUME NEW d \in Buffer, \A j \in At : bump_pages'[j].buffer # d PROVE unowned'[d] = 0
      <4>1. \A j \in At : bump_pages[j].buffer # d
        BY <2>2, <2>3, <2>8, <2>9, <3>2
      <4> QED BY <2>8, <4>1 DEF IInv, CountInv
    <3> QED BY <1>2, <2>9, <3>1, <3>2 DEF CountInv
  <2> QED BY <2>9, <2>10, <2>11, <2>12 DEF IInv
<1>5. CASE OwnerPages(given[h].ptr) = {}
  <2>1. /\ unowned' = [unowned EXCEPT ![c] = unowned[c] + 1] /\ bump_pages' = bump_pages
    BY <1>3, <1>5 DEF DeallocBytes
  <2>2. unowned[c] \in Nat
    BY DEF IInv, TypeOK
  <2>3. At' = At
    BY <2>1 DEF At
  <2>4. TypeOK'
    <3>1. unowned' \in [Buffer -> Nat]
      BY <2>1, <2>2 DEF IInv, TypeOK
    <3> QED BY <1>1, <1>2, <2>1, <3>1 DEF IInv, TypeOK
  <2>5. PagesInv' /\ HeapInv'
    BY <1>1, <2>1 DEF IInv, PagesInv, HeapInv, At, Pages
  <2>6. BlocksInv' /\ DisjointInv'
    BY <1>1, <2>1, <2>3, BlocksFewer
  <2>7. PICK i \in At : bump_pages[i].buffer = c
    BY <1>1, <1>3 DEF IInv, BlocksInv, InPage
  <2>8. CountInv'
    <3>1. ASSUME NEW d \in Buffer, NEW j \in At, bump_pages'[j].buffer = d
          PROVE  bump_pages'[j].active_allocs = Cardinality(From(d)') + unowned'[d]
      <4>1. bump_pages'[j].active_allocs = Cardinality(From(d)) + unowned[d]
        BY <2>1, <3>1 DEF IInv, CountInv
      <4>2. From(d)' = From(d) \ {h} /\ unowned[d] \in Nat
            /\ unowned'[d] = IF d = c THEN unowned[c] + 1 ELSE unowned[d]
        BY <1>2, <2>1 DEF IInv, TypeOK
      <4>3. CASE d = c
        <5>1. /\ Cardinality(From(c)) \in Nat
              /\ Cardinality(From(c) \ {h}) = Cardinality(From(c)) - 1
          BY <1>1, <1>3, FromLess DEF IInv, CountInv
        <5> QED BY <4>1, <4>2, <4>3, <5>1
      <4>4. CASE d # c
        <5>1. From(d) \ {h} = From(d)
          BY <1>1, <1>3, <4>4, FromLess DEF IInv, CountInv
        <5> QED BY <4>1, <4>2, <4>4, <5>1
      <4> QED BY <4>3, <4>4
    <3>2. ASSUME NEW d \in Buffer, \A j \in At : bump_pages'[j].buffer # d PROVE unowned'[d] = 0
      <4>1. d # c /\ \A j \in At : bump_pages[j].buffer # d
        BY <2>1, <2>7, <3>2
      <4> QED BY <2>1, <4>1 DEF IInv, CountInv, TypeOK
    <3> QED BY <1>2, <2>3, <3>1, <3>2 DEF CountInv
  <2> QED BY <2>4, <2>5, <2>6, <2>8 DEF IInv
<1> QED BY <1>4, <1>5

-----------------------------------------------------------------------------
(* Resizing in place.                                                      *)

\* A block that ends at the bump offset has every other one of its page before it.
LEMMA NewestIsLast ==
  ASSUME IInv, NEW h \in InUse, NEW i \in At, InPage(given[h], bump_pages[i]),
         IsNewest(bump_pages[i], given[h]),
         NEW g \in Solid, g # h, InPage(given[g], bump_pages[i])
  PROVE  given[g].ptr + given[g].size <= given[h].ptr
<1>1. PICK p \in Page, b \in Block, c \in Block :
        p = bump_pages[i] /\ b = given[h] /\ c = given[g]
  BY PagesTyped DEF IInv, TypeOK, Solid
<1>2. {p.buffer, p.bump, b.ptr, b.size, c.ptr, c.size} \subseteq Nat
  BY BumpAssumption DEF Page, Block
<1>3. p.buffer <= b.ptr /\ b.ptr + b.size = p.buffer + p.bump
  BY <1>1, <1>2 DEF InPage, IsNewest
<1>4. c.size > 0 /\ c.ptr + c.size <= p.buffer + p.bump
  BY <1>1 DEF Solid, InPage
<1>5. CASE b.size = 0
  BY <1>1, <1>2, <1>3, <1>4, <1>5
<1>6. CASE b.size > 0
  <2>1. Clear(b, c)
    BY <1>1, <1>6 DEF Solid, IInv, DisjointInv
  <2> QED BY <1>1, <1>2, <1>3, <1>4, <2>1 DEF Clear
<1> QED BY <1>2, <1>5, <1>6

\* The newest block of a page gets another size, and the page its new end.
LEMMA ResizedInv ==
  ASSUME IInv, NEW h \in InUse, NEW i \in At, InPage(given[h], bump_pages[i]),
         IsNewest(bump_pages[i], given[h]),
         NEW size \in Nat, MayAdjoin => size > 0,
         given[h].ptr - bump_pages[i].buffer + size <= bump_pages[i].size,
         bump_pages' = [bump_pages EXCEPT ![i] = Resized(@, given[h], size)],
         given' = [given EXCEPT ![h] = [given[h] EXCEPT !.size = size]],
         UNCHANGED <<current_heap_size, unowned>>
  PROVE  IInv'
<1>1. PICK p \in Page, b \in Block : p = bump_pages[i] /\ b = given[h]
  BY PagesTyped DEF IInv, TypeOK
<1>2. /\ {p.buffer, p.size, p.bump, p.active_allocs, b.ptr, b.size, b.align} \subseteq Nat
      /\ p.buffer <= b.ptr /\ b.page = p.buffer
  BY <1>1, BumpAssumption DEF Page, Block, InPage
<1>3. b.ptr - p.buffer + size \in Nat
  BY <1>2
<1>4. PICK q \in Page : q = [p EXCEPT !.bump = b.ptr - p.buffer + size]
  BY <1>3 DEF Page
<1>5. PICK d \in Block : d = [b EXCEPT !.size = size]
  BY DEF Block
<1>6. /\ q.buffer = p.buffer /\ q.size = p.size /\ q.active_allocs = p.active_allocs
      /\ q.bump = b.ptr - p.buffer + size /\ q.bump <= q.size
      /\ d.ptr = b.ptr /\ d.size = size /\ d.align = b.align /\ d.page = b.page
  BY <1>1, <1>4, <1>5 DEF Page, Block
<1>7. bump_pages' = [bump_pages EXCEPT ![i] = q] /\ given' = [given EXCEPT ![h] = d]
  BY <1>1, <1>4, <1>5 DEF Resized
<1>8. /\ bump_pages' \in Seq(Page) /\ At' = At
      /\ \A j \in At : bump_pages'[j] = IF j = i THEN q ELSE bump_pages[j]
      /\ PagesInv' /\ HeapInv'
  <2>1. q.buffer = bump_pages[i].buffer /\ q.size = bump_pages[i].size /\ q.bump <= q.size
    BY <1>1, <1>6
  <2>2. bump_pages' = [bump_pages EXCEPT ![i] = q] /\ current_heap_size' = current_heap_size
    BY <1>7
  <2> QED BY <2>1, <2>2, PageReplaced
<1>9. /\ InUse' = InUse
      /\ \A g \in InUse : given'[g] = IF g = h THEN d ELSE given[g]
      /\ \A c : From(c)' = From(c)
  <2>1. InUse' = InUse /\ \A g \in InUse : given'[g] = IF g = h THEN d ELSE given[g]
    BY <1>7 DEF InUse
  <2>2. \A g \in InUse : given'[g].page = given[g].page
    BY <1>1, <1>6, <2>1
  <2> QED BY <2>1, <2>2 DEF From
<1>10. TypeOK'
  BY <1>8, <1>9 DEF IInv, TypeOK
<1>11. ASSUME NEW g \in InUse, g # h
       PROVE  \E j \in At : /\ InPage(given[g], bump_pages'[j])
                            /\ j = i /\ given[g].size > 0 => given[g].ptr + given[g].size <= b.ptr
  <2>1. PICK j \in At : InPage(given[g], bump_pages[j])
    BY DEF IInv, BlocksInv
  <2>2. CASE j # i
    BY <1>8, <2>1, <2>2
  <2>3. CASE j = i
    <3>1. given[g] \in Block
      BY DEF IInv, TypeOK
    <3>2. {given[g].ptr, given[g].size} \subseteq Nat
      BY <3>1 DEF Block
    <3>3. given[g].size > 0 => given[g].ptr + given[g].size <= b.ptr
      BY <1>1, <1>11, <2>1, <2>3, NewestIsLast DEF Solid
    <3>4. given[g].size > 0 => given[g].ptr + given[g].size <= q.buffer + q.bump
      BY <1>2, <1>6, <3>2, <3>3
    <3>5. InPage(given[g], q)
      BY <1>1, <1>6, <2>1, <2>3, <3>4 DEF InPage
    <3> QED BY <1>8, <2>3, <3>3, <3>5
  <2> QED BY <2>2, <2>3
<1>12. InPage(d, q)
  BY <1>1, <1>2, <1>6 DEF InPage
<1>13. BlocksInv'
  <2> SUFFICES ASSUME NEW g \in InUse
               PROVE  /\ given'[g].align > 0 /\ given'[g].ptr % given'[g].align = 0
                      /\ \E j \in At : InPage(given'[g], bump_pages'[j])
                      /\ MayAdjoin => given'[g].size > 0
    BY <1>8, <1>9 DEF BlocksInv, InPage
  <2>1. CASE g = h
    <3>1. b.align > 0 /\ b.ptr % b.align = 0
      BY <1>1 DEF IInv, BlocksInv
    <3>2. given'[g] = d /\ bump_pages'[i] = q
      BY <1>8, <1>9, <2>1
    <3> QED BY <1>6, <1>12, <3>1, <3>2
  <2>2. CASE g # h
    <3>1. given'[g] = given[g]
      BY <1>9, <2>2
    <3> QED BY <1>11, <2>2, <3>1 DEF IInv, BlocksInv
  <2> QED BY <2>1, <2>2
<1>14. ASSUME NEW g \in InUse, g # h, given[g].size > 0, size > 0
       PROVE  Clear(given[g], d) /\ Clear(d, given[g])
  <2>1. PICK j \in At : /\ InPage(given[g], bump_pages'[j])
                        /\ j = i /\ given[g].size > 0 => given[g].ptr + given[g].size <= b.ptr
    BY <1>11, <1>14
  <2>2. CASE j = i
    BY <1>6, <1>14, <2>1, <2>2 DEF Clear
  <2>3. CASE j # i
    <3>1. bump_pages[j] \in Page /\ bump_pages'[j] = bump_pages[j]
      BY <1>8, <2>3, PagesTyped DEF IInv
    <3>2. Apart(bump_pages[j], q) /\ bump_pages[j].bump <= bump_pages[j].size
      <4>1. Apart(bump_pages[j], p) /\ bump_pages[j].bump <= bump_pages[j].size
        BY <1>1, <2>3 DEF IInv, PagesInv
      <4> QED BY <1>6, <4>1 DEF Apart, Before
    <3>3. given[g] \in Block
      BY DEF IInv, TypeOK
    <3> QED BY <1>6, <1>12, <1>14, <2>1, <3>1, <3>2, <3>3, ClearOfPage
  <2> QED BY <2>2, <2>3
<1>15. DisjointInv'
  <2> SUFFICES ASSUME NEW f \in InUse, NEW g \in InUse, given'[f].size > 0, given'[g].size > 0,
                      f # g
               PROVE  Clear(given'[f], given'[g])
    BY <1>9 DEF DisjointInv, Solid, Clear
  <2>1. CASE f = h
    BY <1>6, <1>9, <1>14, <2>1
  <2>2. CASE g = h
    BY <1>6, <1>9, <1>14, <2>2
  <2>3. CASE f # h /\ g # h
    BY <1>9, <2>3 DEF IInv, DisjointInv, Solid
  <2> QED BY <2>1, <2>2, <2>3
<1>16. CountInv'
  <2>1. \A j \in At : /\ bump_pages'[j].buffer = bump_pages[j].buffer
                      /\ bump_pages'[j].active_allocs = bump_pages[j].active_allocs
    BY <1>1, <1>6, <1>8
  <2> QED BY <1>8, <1>9, <2>1 DEF IInv, CountInv
<1> QED BY <1>8, <1>10, <1>13, <1>15, <1>16 DEF IInv

\* Both resizes are of the newest block of the page that owns it.
LEMMA ResizeInv ==
  ASSUME IInv, NoEdgeBlocks, NEW h \in Handle, NEW size \in Sizes,
         ShrinkBytesInPlace(h, size) \/ GrowBytesInPlace(h, size)
  PROVE  IInv'
<1>1. h \in InUse /\ Resize(h, size)
  BY DEF ShrinkBytesInPlace, GrowBytesInPlace
<1>2. size \in Nat /\ (MayAdjoin => size > 0)
  BY BumpAssumption DEF Sizes, NoEdgeBlocks
<1>3. PICK S : S = OwnerPages(given[h].ptr)
  OBVIOUS
<1>4. PICK i \in {Max({0} \cup S)} \ {0} :
        /\ IF size > given[h].size THEN CanGrow(bump_pages[i], given[h], size)
                            ELSE size < given[h].size /\ IsNewest(bump_pages[i], given[h])
        /\ bump_pages' = [bump_pages EXCEPT ![i] = Resized(@, given[h], size)]
        /\ given' = [given EXCEPT ![h] = [given[h] EXCEPT !.size = size]]
        /\ UNCHANGED <<current_heap_size, unowned>>
  BY <1>1, <1>3 DEF Resize
<1>5. S # {}
  <2> SUFFICES ASSUME S = {} PROVE FALSE
    OBVIOUS
  <2>1. {0} \cup S = {0}
    OBVIOUS
  <2>2. {0} \in SUBSET Nat /\ {0} # {} /\ \A x \in {0} : x <= 0
    OBVIOUS
  <2>3. Max({0}) \in {0}
    BY <2>2, MaxFacts
  <2> QED BY <1>4, <2>1, <2>3
<1>6. PICK j \in At : S = {j} /\ InPage(given[h], bump_pages[j])
  BY <1>1, <1>3, <1>5, OwnerIndex
<1>7. i = j
  <2>1. j \in Nat
    BY PagesTyped DEF IInv, At
  <2>2. {0} \cup S \in SUBSET Nat /\ {0} \cup S # {} /\ \A x \in {0} \cup S : x <= j
    BY <1>6, <2>1
  <2>3. Max({0} \cup S) \in {0} \cup S
    BY <2>1, <2>2, MaxFacts
  <2> QED BY <1>4, <1>6, <2>3
<1>8. IsNewest(bump_pages[j], given[h])
  BY <1>4, <1>7 DEF CanGrow
<1>9. given[h].ptr - bump_pages[j].buffer + size <= bump_pages[j].size
  <2>1. PICK p \in Page, b \in Block : p = bump_pages[j] /\ b = given[h]
    BY <1>1, PagesTyped DEF IInv, TypeOK
  <2>2. {p.buffer, p.size, p.bump, b.ptr, b.size} \subseteq Nat /\ p.bump <= p.size
    BY <2>1, BumpAssumption DEF Page, Block, IInv, PagesInv
  <2>3. CASE size > given[h].size
    BY <1>4, <1>7, <2>1, <2>3 DEF CanGrow
  <2>4. CASE ~(size > given[h].size)
    <3>1. b.ptr - p.buffer + b.size = p.bump /\ size < b.size
      BY <1>4, <1>7, <2>1, <2>4 DEF IsNewest
    <3> QED BY <1>2, <2>1, <2>2, <3>1
  <2> QED BY <2>3, <2>4
<1> QED BY <1>1, <1>2, <1>4, <1>6, <1>7, <1>8, <1>9, ResizedInv

-----------------------------------------------------------------------------
(* Returning empty pages.                                                  *)

\* What the pages that are kept are.
LEMMA PagesKept ==
  ASSUME IInv, NEW K, bump_pages' = Retain(bump_pages, K)
  PROVE  /\ bump_pages' \in Seq(Page)
         /\ \A k \in At' : \E i \in At : bump_pages'[k] = bump_pages[i] /\ bump_pages[i] \in K
         /\ \A i \in At : bump_pages[i] \in K => \E k \in At' : bump_pages'[k] = bump_pages[i]
         /\ PagesInv' /\ Pages' = Pages \cap K
<1>1. bump_pages \in Seq(Page)
  BY DEF IInv, TypeOK
<1>2. /\ bump_pages' \in Seq(Page)
      /\ \A k \in At' : \E i \in At : bump_pages'[k] = bump_pages[i] /\ bump_pages[i] \in K
      /\ \A i \in At : bump_pages[i] \in K => \E k \in At' : bump_pages'[k] = bump_pages[i]
      /\ \A j, k \in At' : j < k =>
           \E h, i \in At : h < i /\ bump_pages'[j] = bump_pages[h] /\ bump_pages'[k] = bump_pages[i]
  <2>1. PICK s \in Seq(Page) : s = bump_pages
    BY <1>1
  <2> DEFINE r == Retain(s, K)
  <2>3. /\ r \in Seq(Page)
        /\ \A k \in 1 .. Len(r) : \E i \in 1 .. Len(s) : r[k] = s[i] /\ s[i] \in K
        /\ \A i \in 1 .. Len(s) : s[i] \in K => \E k \in 1 .. Len(r) : r[k] = s[i] /\ s[i] \in K
    BY RetainFacts
  <2>5. \A j, k \in 1 .. Len(r) : j < k =>
          \E h, i \in 1 .. Len(s) : h < i /\ r[j] = s[h] /\ r[k] = s[i]
    BY RetainFacts
  <2>4. bump_pages' = r /\ At' = 1 .. Len(r) /\ At = 1 .. Len(s)
    BY <2>1 DEF At
  <2> HIDE DEF r
  <2> QED BY <2>1, <2>3, <2>4, <2>5
<1>3. /\ At \subseteq Nat /\ At' \subseteq Nat /\ DOMAIN bump_pages = At
      /\ DOMAIN bump_pages' = At'
  BY <1>1, <1>2, LenProperties DEF At
<1>4. PagesInv'
  <2>1. \A k \in At' : 0 < bump_pages'[k].size /\ bump_pages'[k].bump <= bump_pages'[k].size
    BY <1>2 DEF IInv, PagesInv
  <2>2. ASSUME NEW j \in At', NEW k \in At', j < k
        PROVE  Apart(bump_pages'[j], bump_pages'[k]) /\ Apart(bump_pages'[k], bump_pages'[j])
    <3>1. PICK h, i \in At : h < i /\ bump_pages'[j] = bump_pages[h] /\ bump_pages'[k] = bump_pages[i]
      BY <1>2, <2>2
    <3>2. h # i
      BY <1>3, <3>1
    <3> QED BY <3>1, <3>2 DEF IInv, PagesInv
  <2>3. \A j, k \in At' : j # k => j < k \/ k < j
    BY <1>3
  <2>4. \A j, k \in At' : j # k => Apart(bump_pages'[j], bump_pages'[k])
    BY <2>2, <2>3
  <2> QED BY <2>1, <2>4 DEF PagesInv, Apart, Before
<1>5. Pages' = Pages \cap K
  <2>1. Pages' = {bump_pages'[i] : i \in At'} /\ Pages = {bump_pages[i] : i \in At}
    BY <1>3 DEF Pages, ToSet
  <2> QED BY <1>2, <2>1
<1> QED BY <1>2, <1>4, <1>5

\* Pages without blocks go, and the heap has as many words less.
LEMMA DropEmptyPoolsInv ==
  ASSUME IInv, DropEmptyPools
  PROVE  IInv'
<1>1. /\ bump_pages' = Retain(bump_pages, Pages \ EmptyPages)
      /\ current_heap_size' = Discharged(EmptyPages) /\ UNCHANGED <<given, unowned>>
  BY DEF DropEmptyPools
<1>2. /\ bump_pages' \in Seq(Page)
      /\ \A k \in At' : \E i \in At : bump_pages'[k] = bump_pages[i]
      /\ \A i \in At : bump_pages[i] \in Pages \ EmptyPages
                         => \E k \in At' : bump_pages'[k] = bump_pages[i]
      /\ PagesInv' /\ Pages' = Pages \ EmptyPages
  <2>1. PICK K : K = Pages \ EmptyPages
    OBVIOUS
  <2>2. /\ bump_pages' \in Seq(Page)
        /\ \A k \in At' : \E i \in At : bump_pages'[k] = bump_pages[i] /\ bump_pages[i] \in K
        /\ \A i \in At : bump_pages[i] \in K => \E k \in At' : bump_pages'[k] = bump_pages[i]
        /\ PagesInv' /\ Pages' = Pages \cap K
    BY <1>1, <2>1, PagesKept
  <2> QED BY <2>1, <2>2
<1>3. InUse' = InUse /\ (\A c : From(c)' = From(c))
  BY <1>1 DEF InUse, From
<1>4. \A i \in At : bump_pages[i].active_allocs # 0 => bump_pages[i] \in Pages \ EmptyPages
  BY PagesTyped DEF EmptyPages, IInv
<1>5. ASSUME NEW h \in InUse, NEW i \in At, InPage(given[h], bump_pages[i])
      PROVE  bump_pages[i].active_allocs # 0
  <2>1. PICK c \in Buffer : c = bump_pages[i].buffer
    BY PagesTyped DEF IInv, Page
  <2>2. given[h].page = c
    BY <1>5, <2>1 DEF InPage
  <2>3. Cardinality(From(c)) \in Nat /\ Cardinality(From(c)) > 0
    BY <2>2, FromLess DEF IInv, CountInv
  <2>4. unowned[c] \in Nat /\ bump_pages[i].active_allocs = Cardinality(From(c)) + unowned[c]
    BY <2>1 DEF IInv, CountInv, TypeOK
  <2> QED BY <2>3, <2>4
<1>6. BlocksInv'
  <2> SUFFICES ASSUME NEW h \in InUse PROVE \E k \in At' : InPage(given[h], bump_pages'[k])
    BY <1>1, <1>3 DEF IInv, BlocksInv, InPage
  <2>1. PICK i \in At : InPage(given[h], bump_pages[i])
    BY DEF IInv, BlocksInv
  <2> QED BY <1>2, <1>4, <1>5, <2>1
<1>7. DisjointInv'
  BY <1>1, <1>3 DEF IInv, DisjointInv, Solid, Clear
<1>8. CountInv'
  <2>1. ASSUME NEW c \in Buffer, NEW k \in At', bump_pages'[k].buffer = c
        PROVE  bump_pages'[k].active_allocs = Cardinality(From(c)') + unowned'[c]
    <3>1. PICK i \in At : bump_pages'[k] = bump_pages[i]
      BY <1>2
    <3>2. bump_pages[i].active_allocs = Cardinality(From(c)) + unowned[c]
      BY <2>1, <3>1 DEF IInv, CountInv
    <3>3. From(c)' = From(c)
      BY <1>3
    <3> QED BY <1>1, <3>1, <3>2, <3>3
  <2>2. ASSUME NEW c \in Buffer, \A k \in At' : bump_pages'[k].buffer # c
        PROVE  unowned'[c] = 0
    <3>1. CASE \A i \in At : bump_pages[i].buffer # c
      BY <1>1, <3>1 DEF IInv, CountInv
    <3>2. ASSUME NEW i \in At, bump_pages[i].buffer = c PROVE unowned[c] = 0
      <4>1. bump_pages[i].active_allocs = 0
        BY <1>2, <1>4, <2>2, <3>2
      <4>2. /\ bump_pages[i].active_allocs = Cardinality(From(c)) + unowned[c]
            /\ unowned[c] \in Nat
        BY <3>2 DEF IInv, CountInv, TypeOK
      <4>3. Cardinality(From(c)) \in Nat
        <5>1. From(c) \subseteq InUse
          BY DEF From
        <5> QED BY <5>1, FS_Subset, FS_CardinalityType DEF IInv, CountInv
      <4> QED BY <4>1, <4>2, <4>3
    <3> QED BY <1>1, <3>1, <3>2
  <2> QED BY <1>3, <2>1, <2>2 DEF IInv, CountInv
<1>9. HeapInv' /\ current_heap_size' \in Nat
  <2>1. PICK W, V : W = WordsOf(Pages) /\ V = WordsOf(EmptyPages)
    OBVIOUS
  <2>2. V \in SUBSET W
    BY <2>1 DEF WordsOf, EmptyPages
  <2>3. WordsOf(Pages \ EmptyPages) = W \ V
    <3>1. ASSUME NEW p \in Pages, NEW r \in Pages, p.buffer = r.buffer PROVE p = r
      BY <3>1, PagesTyped, OneBuffer DEF IInv
    <3>2. ASSUME NEW p \in Pages \ EmptyPages, NEW k \in 1 .. p.size
          PROVE  <<p.buffer, k>> \in W \ V
      <4>1. <<p.buffer, k>> \in W
        BY <2>1, WordsOfPage
      <4>2. <<p.buffer, k>> \notin V
        BY <2>1, <3>1, WordsOfPage DEF EmptyPages
      <4> QED BY <4>1, <4>2
    <3>3. ASSUME NEW p \in Pages, NEW k \in 1 .. p.size, <<p.buffer, k>> \notin V
          PROVE  <<p.buffer, k>> \in WordsOf(Pages \ EmptyPages)
      <4>1. p \notin EmptyPages
        BY <2>1, <3>3, WordsOfPage
      <4> QED BY <4>1, WordsOfPage
    <3>4. \A P : \A x \in WordsOf(P) : \E p \in P : \E k \in 1 .. p.size : x = <<p.buffer, k>>
      BY DEF WordsOf
    <3>5. WordsOf(Pages \ EmptyPages) \subseteq W \ V
      BY <3>2, <3>4
    <3>6. W \ V \subseteq WordsOf(Pages \ EmptyPages)
      <4> SUFFICES ASSUME NEW x \in W, x \notin V PROVE x \in WordsOf(Pages \ EmptyPages)
        OBVIOUS
      <4>1. PICK p \in Pages : \E k \in 1 .. p.size : x = <<p.buffer, k>>
        BY <2>1, <3>4
      <4>2. PICK k \in 1 .. p.size : x = <<p.buffer, k>>
        BY <4>1
      <4> QED BY <3>3, <4>2
    <3> QED BY <3>5, <3>6
  <2>4. IsFiniteSet(W) /\ current_heap_size = Cardinality(W)
    BY <2>1 DEF IInv, HeapInv, TotalSize
  <2>5. /\ IsFiniteSet(W \ V) /\ Cardinality(W) \in Nat /\ Cardinality(V) \in Nat
        /\ Cardinality(V) <= Cardinality(W)
        /\ Cardinality(W \ V) = Cardinality(W) - Cardinality(V)
    BY <2>2, <2>4, FewerWords
  <2>6. current_heap_size' = Cardinality(W \ V)
    BY <1>1, <2>1, <2>4, <2>5 DEF Discharged, TotalSize
  <2>7. WordsOf(Pages)' = W \ V
    BY <1>2, <2>3 DEF WordsOf
  <2> QED BY <2>4, <2>5, <2>6, <2>7 DEF HeapInv, TotalSize
<1>10. TypeOK'
  BY <1>1, <1>2, <1>3, <1>9 DEF IInv, TypeOK
<1> QED BY <1>2, <1>6, <1>7, <1>8, <1>9, <1>10 DEF IInv

-----------------------------------------------------------------------------
(* The theorems.                                                           *)

\* Nothing moves in a step that changes nothing.
LEMMA StutterInv ==
  ASSUME IInv, UNCHANGED vars
  PROVE  IInv'
<1>1. /\ bump_pages' = bump_pages /\ current_heap_size' = current_heap_size
      /\ given' = given /\ unowned' = unowned
  BY DEF vars
<1>2. TypeOK' /\ PagesInv' /\ HeapInv'
  BY <1>1 DEF IInv, TypeOK, PagesInv, HeapInv, At, Pages, InUse
<1>3. BlocksInv' /\ DisjointInv'
  BY <1>1 DEF IInv, BlocksInv, DisjointInv, At, InUse, Solid, InPage, Clear
<1>4. CountInv'
  <2>1. InUse' = InUse /\ At' = At /\ \A c : From(c)' = From(c)
    BY <1>1 DEF At, InUse, From
  <2> QED BY <1>1, <2>1 DEF IInv, CountInv
<1> QED BY <1>2, <1>3, <1>4 DEF IInv

\* Every step keeps the invariant.
LEMMA NextInv ==
  ASSUME IInv, NoEdgeBlocks, [Next]_vars
  PROVE  IInv'
<1>1. ASSUME NEW h \in Handle, NEW l \in Layout, AllocLast(h, l) PROVE IInv'
  BY <1>1, AllocLastInv
<1>2. ASSUME NEW h \in Handle, NEW l \in Layout, NEW b \in Buffer, AllocNewPage(h, l, b)
      PROVE  IInv'
  BY <1>2, AllocNewPageInv
<1>3. ASSUME NEW h \in Handle, DeallocBytes(h) PROVE IInv'
  BY <1>3, DeallocBytesInv
<1>4. ASSUME NEW h \in Handle, NEW n \in Sizes,
             ShrinkBytesInPlace(h, n) \/ GrowBytesInPlace(h, n)
      PROVE  IInv'
  BY <1>4, ResizeInv
<1>5. CASE DropEmptyPools
  BY <1>5, DropEmptyPoolsInv
<1>6. CASE UNCHANGED vars
  BY <1>6, StutterInv
<1> QED BY <1>1, <1>2, <1>3, <1>4, <1>5, <1>6 DEF Next

\* The inductive invariant.
THEOREM Invariant == ASSUME NoEdgeBlocks PROVE Spec => []IInv
<1>1. Init => IInv
  BY InitInv
<1>2. IInv /\ [Next]_vars => IInv'
  BY NextInv
<1> QED BY <1>1, <1>2, PTL DEF Spec

\* What the invariant says of the blocks.
LEMMA InvBlocks == IInv => BlocksPlaced
<1> SUFFICES ASSUME IInv PROVE BlocksPlaced
  OBVIOUS
<1>1. ASSUME NEW h \in Solid
      PROVE  /\ given[h].ptr % given[h].align = 0
             /\ \E p \in Pages : /\ p.buffer = given[h].page /\ p.buffer <= given[h].ptr
                                /\ given[h].ptr + given[h].size <= p.buffer + p.bump
                                /\ p.bump <= p.size
  <2>1. h \in InUse /\ given[h].size > 0
    BY DEF Solid
  <2>2. PICK i \in At : InPage(given[h], bump_pages[i])
    BY <2>1 DEF IInv, BlocksInv
  <2>3. bump_pages[i] \in Pages /\ bump_pages[i].bump <= bump_pages[i].size
    BY PagesTyped DEF IInv, PagesInv
  <2> QED BY <2>1, <2>2, <2>3 DEF InPage, IInv, BlocksInv
<1>2. \A g, h \in Solid : g # h =>
        \/ given[g].ptr + given[g].size <= given[h].ptr
        \/ given[h].ptr + given[h].size <= given[g].ptr
  BY DEF IInv, DisjointInv, Clear
<1> QED BY <1>1, <1>2 DEF BlocksPlaced

\* What it says of the counts.
LEMMA InvCounts == IInv => PagesCountBlocks
<1> SUFFICES ASSUME IInv PROVE PagesCountBlocks
  OBVIOUS
<1>1. ASSUME NEW p \in Pages
      PROVE  p.active_allocs = Cardinality({h \in InUse : given[h].page = p.buffer})
                               + unowned[p.buffer]
  <2>1. PICK i \in At : p = bump_pages[i]
    BY PagesTyped DEF IInv
  <2>2. p.buffer \in Buffer
    BY <2>1, PagesTyped DEF IInv, Page
  <2> QED BY <2>1, <2>2 DEF IInv, CountInv, From
<1>2. NoPageUnderBlock
  <2> SUFFICES ASSUME NEW h \in InUse PROVE \E p \in Pages : p.buffer = given[h].page
    BY DEF NoPageUnderBlock
  <2>1. PICK i \in At : InPage(given[h], bump_pages[i])
    BY DEF IInv, BlocksInv
  <2> QED BY <2>1, PagesTyped DEF IInv, InPage
<1> QED BY <1>1, <1>2 DEF IInv, PagesCountBlocks

\* Whatever is allocated, resized in place, released and returned, a block with bytes
\* in it lies aligned in its page and shares no byte with another.
\* (alloc.rs: try_alloc, shrink_in_place, grow_in_place)
THEOREM BlocksArePlaced == ASSUME NoEdgeBlocks PROVE Spec => []BlocksPlaced
BY Invariant, InvBlocks, PTL

\* A page counts its blocks, so that none goes back to the OS under one.
\* (alloc.rs: dealloc, run_drop_check; mod.rs: dealloc_bytes)
THEOREM PagesAreCounted == ASSUME NoEdgeBlocks PROVE Spec => []PagesCountBlocks
BY Invariant, InvCounts, PTL

\* The heap size is what the pages hold.  (mod.rs: current_heap_size)
THEOREM HeapSizeIsExact == ASSUME NoEdgeBlocks PROVE Spec => []HeapSizeExact
<1>1. IInv => HeapSizeExact
  BY DEF IInv, HeapInv, HeapSizeExact
<1> QED BY <1>1, Invariant, PTL
=============================================================================
