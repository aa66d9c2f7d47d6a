------------------------------ MODULE RootList ------------------------------
(***************************************************************************)
(* The roots of the branded collector                                      *)
(* (collectors/mark_sweep_branded/root.rs): nodes of a pool, linked into   *)
(* an intrusive doubly linked list behind a pinned sentinel, and the Root  *)
(* handles that unlink and free their node when they are dropped.          *)
(*                                                                         *)
(* A node remembers the address its Collector had when the node was made.  *)
(* The Collector is a field of GcContext, an ordinary value: the program   *)
(* may move it, and may drop it before its Roots.                          *)
(***************************************************************************)
EXTENDS Naturals, Sequences, FiniteSets, SequencesExt

CONSTANTS
  RootNode,     \* the nodes of the root pool
  Address,      \* places a GcContext can be at
  MayMove,      \* may the program move its GcContext?
  MayOutlive    \* may a Root live longer than its GcContext?

ASSUME ModeAssumption == {MayMove, MayOutlive} \subseteq BOOLEAN

Sentinel == "sentinel"
Null == "null"
ASSUME NodeAssumption ==
  RootNode \cap {Sentinel, Null} = {} /\ IsFiniteSet(RootNode)

Link == RootNode \cup {Sentinel}

VARIABLES
  prev, next,      \* the links of every node and of the sentinel
  collector_ptr,   \* RootNode.collector_ptr
  allocated,       \* the nodes in use in the root pool
  here,            \* the address of the Collector
  open,            \* is the GcContext alive?
  handles          \* the nodes the program's Roots own

links == <<prev, next>>
vars == <<links, collector_ptr, allocated, here, open, handles>>

TypeOK ==
  /\ prev \in [Link -> Link \cup {Null}]
  /\ next \in [Link -> Link \cup {Null}]
  /\ collector_ptr \in [RootNode -> Address \cup {Null}]
  /\ allocated \in SUBSET RootNode
  /\ here \in Address
  /\ open \in BOOLEAN
  /\ handles \in SUBSET RootNode

Init ==
  /\ prev = [l \in Link |-> Null]
  /\ next = [l \in Link |-> Null]
  /\ collector_ptr = [n \in RootNode |-> Null]
  /\ allocated = {}
  /\ here \in Address
  /\ open = TRUE
  /\ handles = {}

-----------------------------------------------------------------------------
\* RootLink::link_after: both neighbours are told, the old next only if there is one.
PrevKept(anchor, node) == [prev EXCEPT ![node] = anchor]
PrevLinked(anchor, node) ==
  [l \in Link |-> IF l = node THEN anchor
                  ELSE IF l = next[anchor] THEN node
                  ELSE prev[l]]

LinkAfter(anchor, node) ==
  /\ prev' = PrevLinked(anchor, node)
  /\ next' = [next EXCEPT ![node] = next[anchor], ![anchor] = node]

\* RootLink::unlink: the neighbours are joined and the node's own links cleared.
NextUnjoined(node) == [next EXCEPT ![node] = Null]
NextJoined(node) ==
  [l \in Link |-> IF l = node THEN Null
                  ELSE IF l = prev[node] THEN next[node]
                  ELSE next[l]]

Unlink(node) ==
  /\ next' = NextJoined(node)
  /\ prev' = [l \in Link |-> IF l = node THEN Null
                             ELSE IF l = next[node] THEN prev[node]
                             ELSE prev[l]]

IsLinked(node) == prev[node] # Null

\* Collector::try_alloc_root_node
NewRoot(n) ==
  /\ open
  /\ n \notin allocated
  /\ allocated' = allocated \cup {n}
  /\ collector_ptr' = [collector_ptr EXCEPT ![n] = here]
  /\ LinkAfter(Sentinel, n)
  /\ handles' = handles \cup {n}
  /\ UNCHANGED <<here, open>>

\* Drop for Root reads its node and goes to the Collector the node names: that
\* has a defined outcome only where both are still there.
DropDefined(n) == open /\ n \in allocated /\ collector_ptr[n] = here

DropRoot(n) ==
  /\ n \in handles
  /\ DropDefined(n)
  /\ IF IsLinked(n) THEN Unlink(n) ELSE UNCHANGED links
  /\ allocated' = allocated \ {n}
  /\ handles' = handles \ {n}
  /\ UNCHANGED <<collector_ptr, here, open>>

\* A Root the program forgets (mem::forget) stays registered for good.
ForgetRoot(n) ==
  /\ n \in handles
  /\ handles' = handles \ {n}
  /\ UNCHANGED <<links, collector_ptr, allocated, here, open>>

\* The GcContext, and the Collector in it, moves to another place.
MoveContext(a) ==
  /\ MayMove
  /\ open
  /\ a # here
  /\ here' = a
  /\ UNCHANGED <<links, collector_ptr, allocated, open, handles>>

\* Drop for Collector: every node in use is freed, and the sentinel with it.
DropContext ==
  /\ open
  /\ MayOutlive \/ handles = {}
  /\ open' = FALSE
  /\ allocated' = {}
  /\ prev' = [l \in Link |-> Null]
  /\ next' = [l \in Link |-> Null]
  /\ UNCHANGED <<collector_ptr, here, handles>>

Next ==
  \/ \E n \in RootNode : NewRoot(n) \/ DropRoot(n) \/ ForgetRoot(n)
  \/ \E a \in Address : MoveContext(a)
  \/ DropContext

Spec == Init /\ [][Next]_vars

-----------------------------------------------------------------------------
\* RootSentinel::iter: the nodes a collection marks from, in order, up to the null
\* link.  The bound is one more than the nodes there are, so that a cycle would
\* show as a repetition.
Steps == 0 .. Cardinality(RootNode) + 1

Walk[i \in Steps] ==
  IF i = 0 THEN Sentinel
  ELSE IF Walk[i - 1] = Null THEN Null ELSE next[Walk[i - 1]]

Visited ==
  [i \in 1 .. Cardinality({j \in Steps \ {0} : Walk[j] # Null}) |-> Walk[i]]

-----------------------------------------------------------------------------
(* Properties.                                                             *)

\* A collection visits every registered node exactly once, whatever mixture of
\* roots was made, dropped and forgotten before it.
VisitsEveryRoot ==
  /\ IsInjective(Visited)
  /\ ToSet(Visited) = allocated

\* The two directions agree: a node can be unlinked from the middle at any time
\* because its neighbours are the ones that name it.
LinksAgree ==
  \A l \in Link : \A m \in RootNode :
    next[l] = m <=> prev[m] = l

\* The inductive invariant behind LinksAgree: exactly the nodes in use are linked,
\* and the sentinel comes after nothing.
IInv ==
  /\ TypeOK
  /\ LinksAgree
  /\ \A n \in RootNode : n \in allocated <=> prev[n] # Null
  /\ \A n \in RootNode \ allocated : next[n] = Null
  /\ prev[Sentinel] = Null
  /\ \A l \in Link : next[l] # Sentinel

\* Does not hold: "SAFETY: collector_ptr is valid for the lifetime of the
\* GcContext" (Drop for Root), that is, as long as the context is open a node
\* names the place it is at.  MoveContext breaks it.
CollectorPtrValid ==
  open => \A n \in handles : collector_ptr[n] = here

\* The list is the registry the collector needs.
Registry == INSTANCE RootRegistry WITH Node <- RootNode, order <- Visited
ImplementsRegistry == Registry!Spec
=============================================================================
