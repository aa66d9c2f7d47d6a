------------------------------ MODULE GcRefCell ------------------------------
(***************************************************************************)
(* The dynamically checked cell of mark_sweep and mark_sweep_arena2        *)
(* (collectors/mark_sweep/cell.rs): a borrow flag of one machine word that *)
(* is 0 when nothing is borrowed, counts the shared borrows, and is all    *)
(* ones while the value is borrowed to be written.                         *)
(*                                                                         *)
(* The flag is all the code keeps.  Who borrows is in readers and writers: *)
(* a BorrowGcRef or BorrowGcRefMut object, wherever it is, is an element   *)
(* of Borrow.  The client holds most of them as guards it can clone, drop  *)
(* or forget in any order.  The others are inside an operation that calls  *)
(* back into client code (a comparison, a clone, a map), which can do all  *)
(* of this again and can panic: frames is the stack of these operations.   *)
(***************************************************************************)
EXTENDS Naturals, Sequences, FiniteSets

CONSTANTS
  Cell,
  Borrow,     \* the borrow objects that can be alive at once
  WRITING,    \* the flag with all bits set
  MaxFrames   \* bound: operations on the stack

ASSUME WidthAssumption == WRITING \in Nat /\ WRITING >= 2
ASSUME BorrowAssumption == IsFiniteSet(Borrow) /\ MaxFrames \in Nat

UNUSED == 0

VARIABLES
  cells,     \* the cells that exist
  flag,      \* GcRefCell.borrow
  contents,  \* GcRefCell.cell, one of two values
  readers,   \* the BorrowGcRef objects of a cell
  writers,   \* the BorrowGcRefMut objects of a cell
  forgotten, \* those of them whose guard went to mem::forget
  frames     \* the operations under way, the innermost last

cell_vars == <<cells, flag, contents, readers, writers, forgotten, frames>>

Op == {"read", "clone", "map", "map_split"}
Frame == [op : Op, borrows : SUBSET Borrow]

CellTypeOK ==
  /\ cells \in SUBSET Cell
  /\ flag \in [Cell -> 0 .. WRITING]
  /\ contents \in [Cell -> BOOLEAN]
  /\ readers \in [Cell -> SUBSET Borrow]
  /\ writers \in [Cell -> SUBSET Borrow]
  /\ forgotten \in SUBSET Borrow
  /\ frames \in Seq(Frame)

CellInit ==
  /\ cells = {}
  /\ flag = [c \in Cell |-> UNUSED]
  /\ contents = [c \in Cell |-> FALSE]
  /\ readers = [c \in Cell |-> {}]
  /\ writers = [c \in Cell |-> {}]
  /\ forgotten = {}
  /\ frames = <<>>

-----------------------------------------------------------------------------
(* The flag.                                                               *)

Borrowed(f) ==
  CASE f = UNUSED  -> "Unused"
    [] f = WRITING -> "Writing"
    [] OTHER       -> "Reading"

\* add_reading, on the flag of one cell; the sum wraps at the word's width.
Increment(f) == (f + 1) % (WRITING + 1)
AddReading(fl, c) == [fl EXCEPT ![c] = Increment(@)]

\* try_borrow refuses a written cell, and add_reading asserts that the count
\* has not become WRITING.  Where this is false the operation returns an
\* error or panics before it has changed anything.
CanReadUnchecked(fl, c) == Borrowed(fl[c]) # "Writing"
CanReadWritten(fl, c) == Borrowed(Increment(fl[c])) # "Writing"
CanRead(fl, c) ==
  Borrowed(fl[c]) # "Writing" /\ Borrowed(Increment(fl[c])) = "Reading"

CanWriteShared(fl, c) == Borrowed(fl[c]) # "Writing"
CanWrite(fl, c) == Borrowed(fl[c]) = "Unused"

-----------------------------------------------------------------------------
(* Who holds what.                                                         *)

Used == UNION {readers[c] \cup writers[c] : c \in Cell}
InFrames == UNION {frames[i].borrows : i \in DOMAIN frames}
Guards == (Used \ InFrames) \ forgotten

\* The drops of a set of borrow objects.
AfterDrops(c, S) ==
  IF writers[c] \cap S # {} THEN UNUSED
                            ELSE flag[c] - Cardinality(readers[c] \cap S)

Dropped(S) ==
  /\ flag' = [c \in Cell |-> AfterDrops(c, S)]
  /\ readers' = [c \in Cell |-> readers[c] \ S]
  /\ writers' = [c \in Cell |-> writers[c] \ S]

Depth == Len(frames)
Push(op, S) ==
  /\ Depth < MaxFrames
  /\ frames' = Append(frames, [op |-> op, borrows |-> S])
Pop(n) == frames' = SubSeq(frames, 1, Depth - n)
Top == frames[Depth]

-----------------------------------------------------------------------------
(* The cell itself.                                                        *)

New(c, v) ==
  /\ c \in Cell \ cells
  /\ cells' = cells \cup {c}
  /\ contents' = [contents EXCEPT ![c] = v]
  /\ UNCHANGED <<flag, readers, writers, forgotten, frames>>

\* Moving the cell needs every guard of it to be gone or forgotten.  The
\* flag of a cell that does not exist is UNUSED.
IntoInner(c) ==
  /\ c \in cells
  /\ readers[c] \cup writers[c] \subseteq forgotten
  /\ cells' = cells \ {c}
  /\ readers' = [readers EXCEPT ![c] = {}]
  /\ writers' = [writers EXCEPT ![c] = {}]
  /\ forgotten' = forgotten \ (readers[c] \cup writers[c])
  /\ flag' = [flag EXCEPT ![c] = UNUSED]
  /\ UNCHANGED <<contents, frames>>

TryBorrow(c, b) ==
  /\ c \in cells /\ b \in Borrow \ Used
  /\ CanRead(flag, c)
  /\ flag' = AddReading(flag, c)
  /\ readers' = [readers EXCEPT ![c] = @ \cup {b}]
  /\ UNCHANGED <<cells, contents, writers, forgotten, frames>>

TryBorrowMut(c, b) ==
  /\ c \in cells /\ b \in Borrow \ Used
  /\ CanWrite(flag, c)
  /\ flag' = [flag EXCEPT ![c] = WRITING]
  /\ writers' = [writers EXCEPT ![c] = @ \cup {b}]
  /\ UNCHANGED <<cells, contents, readers, forgotten, frames>>

-----------------------------------------------------------------------------
(* Guards.                                                                 *)

\* Through a guard of the client, or the reference that the closure of a map
\* has and can lend to what it calls.
Write(c, v) ==
  /\ writers[c] \ forgotten # {}
  /\ contents' = [contents EXCEPT ![c] = v]
  /\ UNCHANGED <<cells, flag, readers, writers, forgotten, frames>>

CloneRef(c, g, b) ==
  /\ g \in readers[c] \cap Guards /\ b \in Borrow \ Used
  /\ CanRead(flag, c)
  /\ flag' = AddReading(flag, c)
  /\ readers' = [readers EXCEPT ![c] = @ \cup {b}]
  /\ UNCHANGED <<cells, contents, writers, forgotten, frames>>

DropGuard(g) ==
  /\ g \in Guards
  /\ Dropped({g})
  /\ UNCHANGED <<cells, contents, forgotten, frames>>

Forget(g) ==
  /\ g \in Guards
  /\ forgotten' = forgotten \cup {g}
  /\ UNCHANGED <<cells, flag, contents, readers, writers, frames>>

-----------------------------------------------------------------------------
(* Operations that call the client.                                        *)

\* Debug and Clone of a cell read it; Debug of a written one does not.
BeginRead(op, c, b) ==
  /\ op \in {"read", "clone"}
  /\ c \in cells /\ b \in Borrow \ Used
  /\ CanRead(flag, c)
  /\ flag' = AddReading(flag, c)
  /\ readers' = [readers EXCEPT ![c] = @ \cup {b}]
  /\ Push(op, {b})
  /\ UNCHANGED <<cells, contents, writers, forgotten>>

\* The comparisons borrow both sides, which may be one cell; if the second
\* cannot be borrowed the unwinding gives the first one back.
BeginCompare(c, d, b1, b2) ==
  /\ {c, d} \subseteq cells /\ {b1, b2} \subseteq Borrow \ Used /\ b1 # b2
  /\ CanRead(flag, c)
  /\ CanRead(AddReading(flag, c), d)
  /\ flag' = AddReading(AddReading(flag, c), d)
  /\ readers' = [[readers EXCEPT ![c] = @ \cup {b1}] EXCEPT ![d] = @ \cup {b2}]
  /\ Push("read", {b1, b2})
  /\ UNCHANGED <<cells, contents, writers, forgotten>>

\* map, try_map and map_split take the guard with them.
BeginMap(op, g) ==
  /\ g \in Guards
  /\ op = "map" \/ (op = "map_split" /\ \E c \in Cell : g \in readers[c])
  /\ Push(op, {g})
  /\ UNCHANGED <<cells, flag, contents, readers, writers, forgotten>>

\* A comparison or Debug returns, or a try_map whose closure returned None.
EndDropping ==
  /\ Depth > 0 /\ Top.op \in {"read", "map"}
  /\ Dropped(Top.borrows)
  /\ Pop(1)
  /\ UNCHANGED <<cells, contents, forgotten>>

EndMap ==
  /\ Depth > 0 /\ Top.op = "map"
  /\ Pop(1)
  /\ UNCHANGED <<cells, flag, contents, readers, writers, forgotten>>

\* The second guard counts once the closure has returned.
EndMapSplit(c, b) ==
  /\ Depth > 0 /\ Top.op = "map_split" /\ Top.borrows \subseteq readers[c]
  /\ b \in Borrow \ Used
  /\ CanRead(flag, c)
  /\ flag' = AddReading(flag, c)
  /\ readers' = [readers EXCEPT ![c] = @ \cup {b}]
  /\ Pop(1)
  /\ UNCHANGED <<cells, contents, writers, forgotten>>

EndClone(d) ==
  /\ Depth > 0 /\ Top.op = "clone"
  /\ d \in Cell \ cells
  /\ Dropped(Top.borrows)
  /\ cells' = cells \cup {d}
  /\ \E c \in Cell : /\ Top.borrows \subseteq readers[c]
                      /\ contents' = [contents EXCEPT ![d] = contents[c]]
  /\ Pop(1)
  /\ UNCHANGED forgotten

\* A panic of the client, or of a borrow that is refused, unwinds to a catch
\* in the client code at any depth.
Unwind(n) ==
  /\ n \in 1 .. Depth
  /\ Dropped(UNION {frames[i].borrows : i \in Depth - n + 1 .. Depth})
  /\ Pop(n)
  /\ UNCHANGED <<cells, contents, forgotten>>

CellNext ==
  \/ \E c \in Cell :
       \/ \E v \in BOOLEAN : New(c, v) \/ Write(c, v)
       \/ IntoInner(c) \/ EndClone(c)
       \/ \E b \in Borrow :
            \/ TryBorrow(c, b) \/ TryBorrowMut(c, b) \/ EndMapSplit(c, b)
            \/ \E op \in Op : BeginRead(op, c, b)
            \/ \E g \in Borrow : CloneRef(c, g, b)
            \/ \E d \in Cell, b2 \in Borrow : BeginCompare(c, d, b, b2)
  \/ \E g \in Borrow :
       DropGuard(g) \/ Forget(g) \/ \E op \in Op : BeginMap(op, g)
  \/ EndDropping \/ EndMap
  \/ \E n \in 1 .. MaxFrames : Unwind(n)

CellSpec == CellInit /\ [][CellNext]_cell_vars

-----------------------------------------------------------------------------
(* What the collector does with a cell: trace, run_finalizer and get_raw   *)
(* go into the value unless it is being written.                           *)

CellTracedAlways(c) == TRUE
CellTraced(c) == Borrowed(flag[c]) # "Writing"

-----------------------------------------------------------------------------
(* Correctness.                                                            *)

\* The one word says exactly which borrow objects are alive, forgotten ones
\* and those of unwound operations included, so that no borrow is refused
\* for ever once they are gone, and the count never reads as WRITING.
\* (cell.rs: BorrowFlag, BorrowGcRef, BorrowGcRefMut)
FlagExact ==
  \A c \in Cell :
    /\ flag[c] = IF writers[c] # {} THEN WRITING ELSE Cardinality(readers[c])
    /\ writers[c] = {} => flag[c] < WRITING

\* A borrow for writing is the only borrow of its cell.
\* (cell.rs: try_borrow, try_borrow_mut, clone, map_split, the comparisons)
WriterAlone ==
  \A c \in Cell : writers[c] # {} => /\ \E b \in Borrow : writers[c] = {b}
                                     /\ readers[c] = {}

\* While a reader is alive nothing changes the value under it, whatever a
\* comparison, a clone or a map runs in between.  (cell.rs: Deref for GcRef)
SharedValueStays ==
  [][\A c \in cells : readers[c] \ forgotten # {} => contents'[c] = contents[c]]_cell_vars

\* The collector, which the client may call with guards alive, goes into a
\* value exactly when no reference for writing to it exists.
\* (cell.rs: Trace for GcRefCell, get_raw)
TracedUnlessWritten == \A c \in cells : CellTraced(c) <=> writers[c] = {}
=============================================================================
