-------------------------------- MODULE VecOps --------------------------------
(***************************************************************************)
(* What Rust's Vec does to the vectors of the allocators.  The order of    *)
(* what is kept is spelled out by position, where SelectSeq says the same  *)
(* by recursion, so that it can be reasoned about.                         *)
(***************************************************************************)
EXTENDS Naturals, Sequences, FiniteSets, SequencesExt

\* The k-th smallest number of a finite set.
Nth(S, k) == CHOOSE n \in S : Cardinality({m \in S : m <= n}) = k

\* Vec::retain keeps the elements of K, in their order; extract_if yields the
\* others likewise.
Retain(s, K) ==
  LET kept == {i \in DOMAIN s : s[i] \in K}
  IN [k \in 1 .. Cardinality(kept) |-> s[Nth(kept, k)]]

\* Vec::swap_remove: the last element takes the place of the one removed.
SwapRemove(s, k) == Front([s EXCEPT ![k] = Last(s)])
=============================================================================
