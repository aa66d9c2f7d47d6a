----------------------------- MODULE GcContract -----------------------------
(***************************************************************************)
(* What a tracing collector promises the program that uses it, with no     *)
(* colours, slots, worklists or phases: a set of objects, the references   *)
(* among them, and a collection that removes, in one step, exactly the     *)
(* objects the program can no longer reach.                                *)
(*                                                                         *)
(* Reach is the least set containing the starting objects and closed under *)
(* references and under ephemerons (a reached key keeps its value).  It is *)
(* written as the intersection of all closed sets, so that it needs no     *)
(* recursion and can be reasoned about in proofs.                          *)
(***************************************************************************)
CONSTANT Object   \* every object that can ever be allocated

VARIABLES
  objects,   \* the objects that exist
  refs,      \* set of <<p, q>>: object p holds a strong reference to q
  pins,      \* the rooted objects
  assoc,     \* set of [key, value]: registered ephemeron pairs
  held,      \* the objects the program has a pointer to on its stack
  weaks      \* the objects the program has a weak reference to

vars == <<objects, refs, pins, assoc, held, weaks>>

-----------------------------------------------------------------------------
Closed(T, edges, pairs) ==
  /\ \A e \in edges : e[1] \in T => e[2] \in T
  /\ \A e \in pairs : e.key \in T => e.value \in T

\* The members of universe that every closed superset of start contains.
ReachFrom(start, universe, edges, pairs) ==
  {o \in universe :
     \A T \in SUBSET universe :
        (start \cap universe \subseteq T /\ Closed(T, edges, pairs)) => o \in T}

Reach(start) == ReachFrom(start, objects, refs, assoc)

-----------------------------------------------------------------------------
Init ==
  /\ objects = {}
  /\ refs = {}
  /\ pins = {}
  /\ assoc = {}
  /\ held = {}
  /\ weaks = {}

\* A fresh object, held by the program; its fields start empty.
New(o) ==
  /\ o \notin objects \cup weaks
  /\ objects' = objects \cup {o}
  /\ held' = held \cup {o}
  /\ UNCHANGED <<refs, pins, assoc, weaks>>

\* Ways to come to hold an object that exists: through a field, a root, a weak
\* reference or an ephemeron.
Obtain(o) ==
  /\ o \in objects
  /\ \/ \E p \in held : <<p, o>> \in refs
     \/ o \in pins
     \/ o \in weaks
     \/ \E e \in assoc : o \in {e.key, e.value}
  /\ held' = held \cup {o}
  /\ UNCHANGED <<objects, refs, pins, assoc, weaks>>

Forget(keep) ==
  /\ keep \subseteq held
  /\ held' = keep
  /\ UNCHANGED <<objects, refs, pins, assoc, weaks>>

SetRef(p, q) ==
  /\ {p, q} \subseteq held
  /\ refs' = refs \cup {<<p, q>>}
  /\ UNCHANGED <<objects, pins, assoc, held, weaks>>

ClearRef(p, q) ==
  /\ p \in held
  /\ refs' = refs \ {<<p, q>>}
  /\ UNCHANGED <<objects, pins, assoc, held, weaks>>

Pin(o) ==
  /\ o \in held
  /\ pins' = pins \cup {o}
  /\ UNCHANGED <<objects, refs, assoc, held, weaks>>

Unpin(o) ==
  /\ pins' = pins \ {o}
  /\ UNCHANGED <<objects, refs, assoc, held, weaks>>

Watch(o) ==
  /\ o \in held
  /\ weaks' = weaks \cup {o}
  /\ UNCHANGED <<objects, refs, pins, assoc, held>>

Associate(k, v) ==
  /\ {k, v} \subseteq held
  /\ assoc' = assoc \cup {[key |-> k, value |-> v]}
  /\ UNCHANGED <<objects, refs, pins, held, weaks>>

\* The collection: what survives is what can be reached from the rooted objects
\* and from those of the program's stack it declares as external roots.
Collect ==
  \E external \in SUBSET held :
    /\ objects' = Reach(pins \cup external)
    /\ refs' = {e \in refs : e[1] \in objects'}
    /\ assoc' = {e \in assoc : e.key \in objects'}
    /\ UNCHANGED <<pins, held, weaks>>

\* The collector itself is dropped, with everything it owns.
Shutdown ==
  /\ objects' = {}
  /\ refs' = {}
  /\ pins' = {}
  /\ assoc' = {}
  /\ held' = {}
  /\ UNCHANGED weaks

Next ==
  \/ \E o \in Object : New(o) \/ Obtain(o) \/ Pin(o) \/ Unpin(o) \/ Watch(o)
  \/ \E p, q \in Object : SetRef(p, q) \/ ClearRef(p, q) \/ Associate(p, q)
  \/ \E keep \in SUBSET held : Forget(keep)
  \/ Collect
  \/ Shutdown

Spec == Init /\ [][Next]_vars
=============================================================================
