------------------------------ MODULE BumpPages ------------------------------
(***************************************************************************)
(* The raw byte side of mempool3's PoolAllocator: bump pages, which track  *)
(* no single allocation, only a bump offset and the number of live blocks, *)
(* and go as a whole when that number is zero.  The slot pools of the same *)
(* allocator are module PoolAllocator; the two sides share nothing but the *)
(* sum in current_heap_size, of which this module has the pages' part.     *)
(*                                                                         *)
(* Addresses and sizes count 8-byte words.                                 *)
(***************************************************************************)
EXTENDS Naturals, Sequences, FiniteSets, SequencesExt, VecOps

CONSTANTS
  Buffer,     \* addresses of the buffers the OS allocator can return
  Handle,     \* what the client holds its blocks by
  Layout,     \* the sizes and alignments it asks for
  page_size,
  PageAlign,  \* the least alignment of a page (16 bytes)
  Margin,     \* what a page adds to the block it is made for (64 bytes)
  MayAdjoin,  \* may the OS return a buffer that begins where another ends?
  MaxUnowned  \* bound: releases that find no page, by page

ASSUME BumpAssumption ==
  /\ Buffer \subseteq Nat
  /\ {page_size, Margin, MaxUnowned} \subseteq Nat /\ PageAlign \in Nat \ {0}
  /\ MayAdjoin \in BOOLEAN
  /\ \A l \in Layout : l.size \in Nat /\ l.align \in Nat \ {0}

VARIABLES
  bump_pages,         \* the pages, oldest first
  current_heap_size,  \* the pages' part of it
  given,              \* the client's blocks, each with the page it came from
  unowned             \* history: by page, its blocks whose release found no page

vars == <<bump_pages, current_heap_size, given, unowned>>

Pages == ToSet(bump_pages)
InUse == DOMAIN given

Page == [buffer : Buffer, size : Nat, align : Nat, bump : Nat, active_allocs : Nat]
Block == [ptr : Nat, size : Nat, align : Nat, page : Buffer]

TypeOK ==
  /\ bump_pages \in Seq(Page)
  /\ current_heap_size \in Nat
  /\ InUse \subseteq Handle /\ \A h \in InUse : given[h] \in Block
  /\ unowned \in [Buffer -> Nat]

Init ==
  /\ bump_pages = <<>>
  /\ current_heap_size = 0
  /\ given = <<>>
  /\ unowned = [b \in Buffer |-> 0]

-----------------------------------------------------------------------------
(* BumpPage.                                                               *)

\* align_offset is taken of the address, not of the offset in the page.
Padding(p, align) == (align - ((p.buffer + p.bump) % align)) % align

Offset(p, align) == p.bump + Padding(p, align)
Fits(p, l) == l.align <= p.align /\ Offset(p, l.align) + l.size <= p.size

BlockIn(p, l) ==
  [ptr |-> p.buffer + Offset(p, l.align), size |-> l.size, align |-> l.align,
   page |-> p.buffer]

Taken(p, l) ==
  [p EXCEPT !.bump = Offset(p, l.align) + l.size, !.active_allocs = @ + 1]

Owns(p, ptr) == p.buffer <= ptr /\ ptr < p.buffer + p.size

\* Only the block that ends at the bump can change its size in place.
IsNewest(p, b) == b.ptr - p.buffer + b.size = p.bump

GrowsPast(p, b, size) == IsNewest(p, b)
CanGrow(p, b, size) == IsNewest(p, b) /\ b.ptr - p.buffer + size <= p.size

Resized(p, b, size) == [p EXCEPT !.bump = b.ptr - p.buffer + size]

Released(n) == IF n = 0 THEN 0 ELSE n - 1

-----------------------------------------------------------------------------
(* The allocator's operations on bytes.                                    *)

Gives(h, b) ==
  given' = [g \in InUse \cup {h} |-> IF g = h THEN b ELSE given[g]]

NewPage(buffer, l) ==
  [buffer |-> buffer, size |-> Max({page_size, l.size + l.align + Margin}),
   align |-> Max({l.align, PageAlign}), bump |-> 0, active_allocs |-> 0]

\* The OS returns a buffer that overlaps no page.
Before(p, q) ==
  IF MayAdjoin THEN p.buffer + p.size <= q.buffer ELSE p.buffer + p.size < q.buffer
Apart(p, q) == Before(p, q) \/ Before(q, p)

LastFits(l) == bump_pages # <<>> /\ Fits(Last(bump_pages), l)

AllocLast(h, l) ==
  /\ h \notin InUse
  /\ LastFits(l)
  /\ LET n == Len(bump_pages) IN
     /\ bump_pages' = [bump_pages EXCEPT ![n] = Taken(@, l)]
     /\ Gives(h, BlockIn(bump_pages[n], l))
  /\ UNCHANGED <<current_heap_size, unowned>>

\* The page is charged before the block is taken from it.
AllocNewPage(h, l, buffer) ==
  LET p == NewPage(buffer, l) IN
  /\ h \notin InUse
  /\ ~LastFits(l)
  /\ \A q \in Pages : Apart(p, q)
  /\ buffer % p.align = 0
  /\ current_heap_size' = current_heap_size + p.size
  /\ IF Fits(p, l)
     THEN /\ bump_pages' = Append(bump_pages, Taken(p, l))
          /\ Gives(h, BlockIn(p, l))
     ELSE UNCHANGED <<bump_pages, given>>
  /\ UNCHANGED unowned

NewestPage(ptr) == {Len(bump_pages)}
OwnerPages(ptr) == {i \in DOMAIN bump_pages : Owns(bump_pages[i], ptr)}

\* The pages are searched from the newest, for the one whose range has the
\* pointer; nothing happens when none has.
DeallocBytes(h) ==
  /\ h \in InUse
  /\ LET b == given[h]
         S == OwnerPages(b.ptr)
     IN IF S # {}
        THEN /\ bump_pages' = [bump_pages EXCEPT ![Max(S)].active_allocs = Released(@)]
             /\ UNCHANGED unowned
        ELSE /\ unowned[b.page] < MaxUnowned
             /\ unowned' = [unowned EXCEPT ![b.page] = @ + 1]
             /\ UNCHANGED bump_pages
  /\ given' = Restrict(given, InUse \ {h})
  /\ UNCHANGED current_heap_size

Resize(h, size) ==
  LET b == given[h] IN
  \E i \in {Max({0} \cup OwnerPages(b.ptr))} \ {0} :
    /\ IF size > b.size THEN CanGrow(bump_pages[i], b, size)
                        ELSE size < b.size /\ IsNewest(bump_pages[i], b)
    /\ bump_pages' = [bump_pages EXCEPT ![i] = Resized(@, b, size)]
    /\ given' = [given EXCEPT ![h] = [b EXCEPT !.size = size]]
    /\ UNCHANGED <<current_heap_size, unowned>>

ShrinkBytesInPlace(h, size) == h \in InUse /\ size < given[h].size /\ Resize(h, size)
GrowBytesInPlace(h, size) == h \in InUse /\ size > given[h].size /\ Resize(h, size)

EmptyPages == {p \in Pages : p.active_allocs = 0}

\* The sizes of some pages, added up: the number of their words.
WordsOf(P) == UNION {{p.buffer} \X (1 .. p.size) : p \in P}
TotalSize(P) == Cardinality(WordsOf(P))

Uncharged(P) == current_heap_size
Discharged(P) == IF TotalSize(P) > current_heap_size THEN 0
                                                   ELSE current_heap_size - TotalSize(P)

\* A page has no size class: an empty one goes back to the OS.
DropEmptyPools ==
  /\ bump_pages' = Retain(bump_pages, Pages \ EmptyPages)
  /\ current_heap_size' = Discharged(EmptyPages)
  /\ UNCHANGED <<given, unowned>>

Sizes == {l.size : l \in Layout}

Next ==
  \/ \E h \in Handle :
       \/ \E l \in Layout :
            AllocLast(h, l) \/ \E b \in Buffer : AllocNewPage(h, l, b)
       \/ DeallocBytes(h)
       \/ \E n \in Sizes : ShrinkBytesInPlace(h, n) \/ GrowBytesInPlace(h, n)
  \/ DropEmptyPools

Spec == Init /\ [][Next]_vars

-----------------------------------------------------------------------------
(* Correctness.                                                            *)

Solid == {h \in InUse : given[h].size > 0}

\* A block with bytes in it lies in the page it came from, which is still
\* there, at the alignment it was asked with, and shares no byte with another
\* block, whatever was resized in place or released before.
\* (alloc.rs: try_alloc, shrink_in_place, grow_in_place)
BlocksPlaced ==
  /\ \A h \in Solid : LET b == given[h] IN
       /\ b.ptr % b.align = 0
       /\ \E p \in Pages : /\ p.buffer = b.page /\ p.buffer <= b.ptr
                          /\ b.ptr + b.size <= p.buffer + p.bump
                          /\ p.bump <= p.size
  /\ \A g, h \in Solid : g # h =>
       \/ given[g].ptr + given[g].size <= given[h].ptr
       \/ given[h].ptr + given[h].size <= given[g].ptr

\* No page goes back to the OS under a block in use, even one of no bytes.
\* (mod.rs: dealloc_bytes, drop_empty_pools)
NoPageUnderBlock == \A h \in InUse : \E p \in Pages : p.buffer = given[h].page

\* A page counts its blocks: those in use, and those of no bytes that ended
\* exactly at its end, whose release found no page.  So it never goes under a
\* block, and only the second kind keeps it longer.
\* (alloc.rs: dealloc, owns, run_drop_check; mod.rs: dealloc_bytes)
PagesCountBlocks ==
  /\ TypeOK
  /\ \A p \in Pages :
       p.active_allocs = Cardinality({h \in InUse : given[h].page = p.buffer})
                         + unowned[p.buffer]
  /\ NoPageUnderBlock

\* The heap size is what the pages hold from the OS, so the collection
\* threshold compares with the truth.  (mod.rs: current_heap_size)
HeapSizeExact == current_heap_size = TotalSize(Pages)
=============================================================================
