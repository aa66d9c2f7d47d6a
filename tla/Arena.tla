-------------------------------- MODULE Arena --------------------------------
(***************************************************************************)
(* The bump allocator under the mark_sweep_arena2 collector (alloc/arena2): *)
(* arenas, one OS buffer each, whose items are chained from the newest to  *)
(* the oldest by a header word that also holds the "dropped" tag.  Nothing *)
(* is freed item by item: an arena goes when every item in it is dropped.  *)
(*                                                                         *)
(* Addresses, sizes and alignments count 8-byte words, the header word of  *)
(* an item included.  The FULL flag of an arena is left out: nothing reads *)
(* it.                                                                     *)
(***************************************************************************)
EXTENDS Naturals, Sequences, FiniteSets, SequencesExt, VecOps

CONSTANTS
  Buffer,               \* addresses of the buffers the OS can return
  arena_size,
  min_alignment,
  MAX_RECYCLED_ARENAS,
  Item                  \* sizes and alignments of what the client allocates

ASSUME SizesAssumption ==
  /\ Buffer \subseteq Nat \ {0}
  /\ {arena_size, min_alignment} \subseteq Nat \ {0}
  /\ MAX_RECYCLED_ARENAS \in Nat
  /\ \A t \in Item : {t.size, t.align} \subseteq Nat \ {0}

\* Alignments are powers of two.
Aligns == {min_alignment} \cup {t.align : t \in Item}

ASSUME AlignsAssumption == \A m, n \in Aligns : m <= n => n % m = 0

Null == 0
Words(b) == b .. b + arena_size - 1
Address == UNION {Words(b) : b \in Buffer}

VARIABLES
  arenas,               \* ArenaAllocator.arenas, the active one in front
  recycled_arenas,      \* parked, the one to be taken next last
  align,                \* Arena.layout.align(), by buffer
  last_allocation,      \* Arena.last_allocation
  current_offset,       \* Arena.current_offset
  next, tagged,         \* the header words: the link, the addresses with a tag
  given                 \* client: the items it has not dropped yet

list == <<arenas, recycled_arenas, align>>
cursor == <<last_allocation, current_offset>>
headers == <<next, tagged>>
vars == <<list, cursor, headers, given>>

TypeOK ==
  /\ arenas \in Seq(Buffer)
  /\ recycled_arenas \in Seq(Buffer)
  /\ align \in [Buffer -> Nat]
  /\ last_allocation \in [Buffer -> Address \cup {Null}]
  /\ current_offset \in [Buffer -> 0 .. arena_size]
  /\ next \in [Address -> Address \cup {Null}]
  /\ tagged \in SUBSET Address
  /\ given \subseteq [ptr : Address, item : Item]

Init ==
  /\ arenas = <<>> /\ recycled_arenas = <<>>
  /\ align = [b \in Buffer |-> min_alignment]
  /\ last_allocation = [b \in Buffer |-> Null]
  /\ current_offset = [b \in Buffer |-> 0]
  /\ next = [a \in Address |-> Null]
  /\ tagged = {}
  /\ given = {}

-----------------------------------------------------------------------------
(* Arena.                                                                  *)

\* get_allocation_data: where the item would lie, from the start of the buffer.
BufferOffset(b, item) ==
  current_offset[b] + ((item.align - ((b + current_offset[b]) % item.align)) % item.align)

\* Neither AlignmentNotPossible nor OutOfMemory.
Fits(b, item) ==
  /\ item.align <= align[b]
  /\ BufferOffset(b, item) + item.size <= arena_size

\* alloc_unchecked
AllocIn(b, item) ==
  LET ptr == b + BufferOffset(b, item) IN
  /\ current_offset' = [current_offset EXCEPT ![b] = BufferOffset(b, item) + item.size]
  /\ next' = [next EXCEPT ![ptr] = last_allocation[b]]
  /\ tagged' = tagged \ {ptr}
  /\ last_allocation' = [last_allocation EXCEPT ![b] = ptr]
  /\ given' = given \cup {[ptr |-> ptr, item |-> item]}

\* The addresses along a chain, and along that of an arena.
ChainFrom(last, link) ==
  LET at[i \in 1 .. arena_size] ==
        IF i = 1 THEN last
        ELSE IF at[i - 1] = Null THEN Null ELSE link[at[i - 1]]
  IN {at[i] : i \in 1 .. arena_size} \ {Null}
Chain(b) == ChainFrom(last_allocation[b], next)

\* run_drop_check
DeadByLast(b) == last_allocation[b] \in tagged \cup {Null}
NonEmptyDead(b) == Chain(b) # {} /\ Chain(b) \subseteq tagged
Dead(b) == Chain(b) \subseteq tagged

-----------------------------------------------------------------------------
(* ArenaAllocator.                                                         *)

\* initialize_new_arena: the last parked arena, if there is one.  One that is
\* not aligned enough goes back to the OS, which is then asked for a buffer.
AnyParked(b, alignment) == TRUE
Reusable(b, alignment) == align[b] >= alignment

\* Arena::try_init: the OS returns no buffer that overlaps one of those in `used`.
Apart(b, c) == b + arena_size <= c \/ c + arena_size <= b
Fresh(used, alignment) ==
  {b \in Buffer : b % alignment = 0 /\ \A c \in used : Apart(b, c)}

NewArenas(as, parked, item) ==
  LET alignment == Max({min_alignment, item.align})
      rest == IF parked = <<>> THEN <<>> ELSE Front(parked)
  IN IF parked # <<>> /\ Reusable(Last(parked), alignment)
     THEN {[arenas |-> <<Last(parked)>> \o as, parked |-> rest, alignment |-> align[Last(parked)]]}
     ELSE {[arenas |-> <<b>> \o as, parked |-> rest, alignment |-> alignment] :
             b \in Fresh(ToSet(as) \cup ToSet(rest), alignment)}

SetList(new) ==
  /\ arenas' = new.arenas
  /\ recycled_arenas' = new.parked

\* try_alloc in the active arena, ...
AllocActive(item) ==
  /\ arenas # <<>>
  /\ Fits(Head(arenas), item)
  /\ AllocIn(Head(arenas), item)
  /\ UNCHANGED list

NeedsNew(item) == arenas # <<>> => ~Fits(Head(arenas), item)

\* ... in a new one, ...
AllocNew(item) ==
  /\ NeedsNew(item)
  /\ item.size <= arena_size
  /\ \E new \in NewArenas(arenas, recycled_arenas, item) :
       /\ SetList(new)
       /\ align' = [align EXCEPT ![Head(new.arenas)] = new.alignment]
       /\ AllocIn(Head(new.arenas), item)

\* ... or nowhere: an item larger than an arena leaves the new arena behind, and
\* a second one where there was no arena at first.
AllocFails(item) ==
  /\ NeedsNew(item)
  /\ item.size > arena_size
  /\ \E new \in NewArenas(arenas, recycled_arenas, item) :
       IF arenas # <<>>
       THEN /\ SetList(new)
            /\ align' = [align EXCEPT ![Head(new.arenas)] = new.alignment]
       ELSE \E again \in NewArenas(new.arenas, new.parked, item) :
              /\ SetList(again)
              /\ align' = [align EXCEPT ![Head(new.arenas)] = new.alignment,
                                        ![Head(again.arenas)] = again.alignment]
  /\ UNCHANGED <<cursor, headers, given>>

\* mark_dropped, by a sweep
MarkDropped(g) ==
  /\ g \in given
  /\ tagged' = tagged \cup {g.ptr}
  /\ given' = given \ {g}
  /\ UNCHANGED <<list, cursor, next>>

\* drop_dead_arenas, after a sweep: parked and reset while there is room, the
\* others go back to the OS.
OffsetKept(S) == current_offset
OffsetReset(S) == [b \in Buffer |-> IF b \in S THEN 0 ELSE current_offset[b]]

DropDeadArenas ==
  LET D == {b \in ToSet(arenas) : Dead(b)}
      dead == Retain(arenas, D)
      room == MAX_RECYCLED_ARENAS - Len(recycled_arenas)
      gone == UNION {Words(b) : b \in D}
  IN
  /\ arenas' = Retain(arenas, ToSet(arenas) \ D)
  /\ recycled_arenas' = recycled_arenas \o SubSeq(dead, 1, Min({room, Len(dead)}))
  /\ current_offset' = OffsetReset(D)
  /\ last_allocation' = [b \in Buffer |-> IF b \in D THEN Null ELSE last_allocation[b]]
  /\ next' = [a \in Address |-> IF a \in gone THEN Null ELSE next[a]]
  /\ tagged' = tagged \ gone
  /\ UNCHANGED <<align, given>>

Next ==
  \/ \E item \in Item : AllocActive(item) \/ AllocNew(item) \/ AllocFails(item)
  \/ \E g \in given : MarkDropped(g)
  \/ DropDeadArenas

Spec == Init /\ [][Next]_vars

-----------------------------------------------------------------------------
(* Properties.                                                             *)

\* An item lies at a multiple of its alignment, inside a buffer that is in the
\* list of arenas: no arena is parked or released under a live item.
ItemsPlaced ==
  \A g \in given :
    /\ g.ptr % g.item.align = 0
    /\ \E b \in ToSet(arenas) :
         b <= g.ptr /\ g.ptr + g.item.size <= b + arena_size

\* A parked arena is as good as new and in one list only.
ReserveExact ==
  /\ Len(recycled_arenas) <= MAX_RECYCLED_ARENAS
  /\ IsInjective(arenas \o recycled_arenas)
  /\ \A b \in ToSet(recycled_arenas) :
       current_offset[b] = 0 /\ last_allocation[b] = Null

\* Live items and the reserve never meet: items lie aligned in arenas that are in
\* the list, and what is parked is clean and nowhere else.
\* (alloc.rs: run_drop_check, reset; mod.rs: drop_dead_arenas)
ArenasExact == TypeOK /\ ItemsPlaced /\ ReserveExact

\* An item that is no larger than an arena can always be allocated: whatever
\* arena initialize_new_arena puts in front of the list, a parked one of another
\* alignment included, the second attempt of try_alloc succeeds.
SecondAttemptFits ==
  \A item \in Item : item.size <= arena_size =>
    \A new \in NewArenas(arenas, recycled_arenas, item) :
      LET b == Head(new.arenas) IN
      /\ item.align <= new.alignment
      /\ BufferOffset(b, item) + item.size <= arena_size

\* After a sweep every arena that counts towards heap_size holds a live item: the
\* empty arenas a failed allocation left behind go too.
SweptArenasLive ==
  [][DropDeadArenas =>
       \A b \in ToSet(arenas') : \E g \in given : g.ptr \in Words(b)]_vars

\* The allocator implements BlockHeap: items never overlap, and the walk along the
\* chains finds exactly the ones not dropped.
Heap == INSTANCE BlockHeap WITH
  Block <- [start : Address, size : {t.size : t \in Item}],
  blocks <- {[start |-> g.ptr, size |-> g.item.size] : g \in given},
  enumerated <- (UNION {Chain(b) : b \in ToSet(arenas)}) \ tagged

ImplementsHeap == Heap!Spec
=============================================================================
