----------------------------- MODULE VecOps_proofs -----------------------------
(***************************************************************************)
(* Facts about sets of naturals, sequences, alignment and sets of counted  *)
(* words that the proofs of several components need.  Induction is done by *)
(* least counterexample, on a set of naturals: the library's induction     *)
(* theorems take an operator.                                              *)
(***************************************************************************)
EXTENDS VecOps, FunctionTheorems, FiniteSetTheorems, SequenceTheorems, TLAPS

\* Every set of naturals that is not empty has a least element.
LEMMA LeastNat ==
  ASSUME NEW S \in SUBSET Nat, S # {}
  PROVE  \E x \in S : \A y \in S : x <= y
<1> DEFINE R == {p \in Nat \X Nat : p[1] < p[2]}
<1>1. IsWellFoundedOn(R, Nat)
  BY NatLessThanWellFounded, Zenon DEF OpToRel
<1>2. PICK x \in S : \A y \in S : ~ (<<y, x>> \in R)
  BY <1>1, WFMin
<1>3. \A y, z \in Nat : <<y, z>> \in R <=> y < z
  OBVIOUS
<1> HIDE DEF R
<1>4. \A y \in S : ~ (y < x)
  BY <1>2, <1>3
<1> QED BY <1>4

\* Every bounded set of naturals that is not empty has a greatest element.
LEMMA GreatestNat ==
  ASSUME NEW S \in SUBSET Nat, S # {}, NEW n \in Nat, \A x \in S : x <= n
  PROVE  \E x \in S : \A y \in S : y <= x
<1> DEFINE U == {u \in Nat : \A x \in S : x <= u}
<1>1. PICK u \in U : \A v \in U : u <= v
  <2>1. n \in U /\ U \in SUBSET Nat
    OBVIOUS
  <2> HIDE DEF U
  <2> QED BY <2>1, LeastNat
<1>2. CASE u \in S
  BY <1>1, <1>2
<1>3. CASE u \notin S
  <2>1. PICK s \in S : TRUE
    OBVIOUS
  <2>2. \A x \in S : x \in Nat /\ x <= u /\ x # u
    BY <1>1, <1>3
  <2>3. u \in Nat /\ u - 1 \in Nat
    BY <1>1, <2>1, <2>2
  <2>4. \A x \in S : x <= u - 1
    BY <2>2, <2>3
  <2>5. u - 1 \in U
    BY <2>3, <2>4
  <2> QED BY <1>1, <2>3, <2>5
<1> QED BY <1>2, <1>3

\* Min and Max are what their names say.
LEMMA MinFacts ==
  ASSUME NEW S \in SUBSET Nat, S # {}
  PROVE  Min(S) \in S /\ \A x \in S : Min(S) <= x
BY LeastNat DEF Min

LEMMA MaxFacts ==
  ASSUME NEW S \in SUBSET Nat, S # {}, NEW n \in Nat, \A x \in S : x <= n
  PROVE  Max(S) \in S /\ \A x \in S : x <= Max(S)
<1>1. \E x \in S : \A y \in S : x >= y
  BY GreatestNat
<1> QED BY <1>1 DEF Max

\* There are n numbers from 1 to n.
LEMMA CountUpTo ==
  ASSUME NEW n \in Nat
  PROVE  IsFiniteSet(1 .. n) /\ Cardinality(1 .. n) = n
<1>1. IsFiniteSet(1 .. n) /\ Cardinality(1 .. n) = IF 1 > n THEN 0 ELSE n - 1 + 1
  BY FS_Interval
<1> QED BY <1>1

\* A set of positions is finite.
LEMMA Positions ==
  ASSUME NEW n \in Nat, NEW I \in SUBSET (1 .. n)
  PROVE  /\ IsFiniteSet(I) /\ Cardinality(I) \in Nat /\ Cardinality(I) <= n
         /\ Cardinality(I) = n => I = 1 .. n
<1>1. IsFiniteSet(1 .. n) /\ Cardinality(1 .. n) = n
  BY CountUpTo
<1>2. IsFiniteSet(I) /\ Cardinality(I) <= n /\ (n = Cardinality(I) => 1 .. n = I)
  BY <1>1, FS_Subset
<1>3. Cardinality(I) \in Nat
  BY <1>2, FS_CardinalityType
<1> QED BY <1>2, <1>3

\* Positions that are closed downwards are the first ones.
LEMMA DownClosed ==
  ASSUME NEW n \in Nat, NEW I \in SUBSET (1 .. n),
         \A i \in I : \A j \in 1 .. i : j \in I
  PROVE  I = 1 .. Cardinality(I)
<1>1. CASE I = {}
  <2>1. Cardinality(I) = 0
    BY <1>1, FS_EmptySet
  <2> QED BY <1>1, <2>1
<1>2. CASE I # {}
  <2>1. I \in SUBSET Nat /\ \A x \in I : x <= n
    OBVIOUS
  <2>2. PICK m \in I : \A y \in I : y <= m
    BY <1>2, <2>1, GreatestNat
  <2>3. m \in Nat
    BY <2>1
  <2>4. \A j \in 1 .. m : j \in I
    BY <2>2
  <2>5. \A j \in I : j \in 1 .. m
    BY <2>2, <2>3
  <2>6. I = 1 .. m
    BY <2>4, <2>5
  <2> QED BY <2>3, <2>6, CountUpTo
<1> QED BY <1>1, <1>2

\* The numbers of a finite set of naturals are its first, its second, ..., and the
\* order is theirs.
LEMMA NthFacts ==
  ASSUME NEW I \in SUBSET Nat, IsFiniteSet(I)
  PROVE  /\ Cardinality(I) \in Nat
         /\ \A k \in 1 .. Cardinality(I) : Nth(I, k) \in I
         /\ \A n \in I : \E k \in 1 .. Cardinality(I) : Nth(I, k) = n
         /\ \A j, k \in 1 .. Cardinality(I) : j < k => Nth(I, j) < Nth(I, k)
<1> DEFINE N == Cardinality(I)
           Upto(n) == {m \in I : m <= n}
           r == [n \in I |-> Cardinality(Upto(n))]
<1>1. \A n \in I : IsFiniteSet(Upto(n)) /\ Cardinality(Upto(n)) \in 1 .. N
  <2> TAKE n \in I
  <2>1. Upto(n) \in SUBSET I /\ n \in Upto(n)
    OBVIOUS
  <2> HIDE DEF Upto
  <2>2. IsFiniteSet(Upto(n)) /\ Cardinality(Upto(n)) <= N
    BY <2>1, FS_Subset
  <2>3. Cardinality(Upto(n)) \in Nat /\ N \in Nat /\ Cardinality(Upto(n)) # 0
    BY <2>1, <2>2, FS_CardinalityType, FS_EmptySet
  <2> QED BY <2>2, <2>3
<1>2. \A m, n \in I : m < n => Cardinality(Upto(m)) < Cardinality(Upto(n))
  <2> TAKE m, n \in I
  <2> HAVE m < n
  <2>1. Upto(m) \in SUBSET Upto(n) /\ n \in Upto(n) /\ n \notin Upto(m)
    <3>1. m \in Nat /\ n \in Nat /\ ~(n <= m) /\ n <= n
      OBVIOUS
    <3>2. \A x \in I : x <= m => x <= n
      OBVIOUS
    <3> QED BY <3>1, <3>2
  <2>2. Cardinality(Upto(m)) \in Nat /\ Cardinality(Upto(n)) \in Nat /\ IsFiniteSet(Upto(n))
    BY <1>1
  <2> HIDE DEF Upto
  <2>3. Cardinality(Upto(m)) <= Cardinality(Upto(n)) /\ Cardinality(Upto(m)) # Cardinality(Upto(n))
    BY <2>1, <2>2, FS_Subset
  <2> QED BY <2>2, <2>3
<1>3. N \in Nat /\ IsFiniteSet(1 .. N) /\ Cardinality(1 .. N) = N
  BY FS_CardinalityType, CountUpTo
<1> HIDE DEF Upto, N
<1>4. r \in [I -> 1 .. N]
  BY <1>1
<1>5. \A m, n \in I : r[m] = r[n] => m = n
  <2> TAKE m, n \in I
  <2>1. Cardinality(Upto(m)) \in Nat /\ Cardinality(Upto(n)) \in Nat
    BY <1>1, <1>3
  <2>2. m < n \/ n < m \/ m = n
    OBVIOUS
  <2>3. m < n => Cardinality(Upto(m)) < Cardinality(Upto(n))
    BY <1>2
  <2>4. n < m => Cardinality(Upto(n)) < Cardinality(Upto(m))
    BY <1>2
  <2> QED BY <2>1, <2>2, <2>3, <2>4
<1>6. r \in Injection(I, 1 .. N)
  BY <1>4, <1>5, Fun_IsInj
<1>7. r \in Surjection(I, 1 .. N)
  BY <1>3, <1>6, FS_Injection DEF N
<1>8. \A k \in 1 .. N : \E n \in I : r[n] = k
  BY <1>7 DEF Surjection
<1>9. ASSUME NEW k \in 1 .. N PROVE Nth(I, k) \in I /\ Cardinality(Upto(Nth(I, k))) = k
  <2>1. PICK n \in I : Cardinality(Upto(n)) = k
    BY <1>8
  <2> QED BY <2>1 DEF Nth, Upto
<1>10. ASSUME NEW n \in I PROVE \E k \in 1 .. N : Nth(I, k) = n
  <2>1. r[n] \in 1 .. N
    BY <1>4
  <2>2. Nth(I, r[n]) \in I /\ r[Nth(I, r[n])] = r[n]
    BY <1>9, <2>1
  <2> QED BY <1>5, <2>1, <2>2
<1>11. ASSUME NEW j \in 1 .. N, NEW k \in 1 .. N, j < k PROVE Nth(I, j) < Nth(I, k)
  <2>1. /\ Nth(I, j) \in I /\ Cardinality(Upto(Nth(I, j))) = j
        /\ Nth(I, k) \in I /\ Cardinality(Upto(Nth(I, k))) = k
    BY <1>9
  <2>2. Nth(I, k) < Nth(I, j) => k < j
    BY <1>2, <2>1
  <2>3. Nth(I, k) \in Nat /\ Nth(I, j) \in Nat
    BY <2>1
  <2>4. j \in Nat /\ k \in Nat
    BY <1>3
  <2>5. Nth(I, k) # Nth(I, j)
    BY <2>1, <2>4, <1>11
  <2> QED BY <2>2, <2>3, <2>4, <2>5, <1>11
<1> QED BY <1>3, <1>9, <1>10, <1>11 DEF N
\* What RemoveAt leaves of a sequence.
LEMMA RemoveAtFacts ==
  ASSUME NEW S, NEW s \in Seq(S), NEW k \in 1 .. Len(s)
  PROVE  /\ RemoveAt(s, k) \in Seq(S)
         /\ Len(RemoveAt(s, k)) = Len(s) - 1
         /\ \A i \in 1 .. Len(s) - 1 :
              RemoveAt(s, k)[i] = IF i < k THEN s[i] ELSE s[i + 1]
<1> DEFINE u == SubSeq(s, 1, k - 1)
           v == SubSeq(s, k + 1, Len(s))
<1>0. Len(s) \in Nat /\ \A i \in 1 .. Len(s) : s[i] \in S
  BY LenProperties, ElementOfSeq
<1>1. /\ u \in Seq(S) /\ Len(u) = k - 1
      /\ \A i \in 1 .. k - 1 : u[i] = s[i]
  <2>1. \A i \in 1 .. k - 1 : s[i] \in S
    BY <1>0
  <2>2. /\ u \in Seq(S) /\ Len(u) = IF 1 <= k - 1 THEN (k - 1) - 1 + 1 ELSE 0
        /\ \A i \in 1 .. (k - 1) - 1 + 1 : u[i] = s[1 + i - 1]
    BY <2>1, SubSeqProperties
  <2> HIDE DEF u
  <2> QED BY <2>2, <1>0
<1>2. /\ v \in Seq(S) /\ Len(v) = Len(s) - k
      /\ \A i \in 1 .. Len(s) - k : v[i] = s[k + i]
  <2>1. \A i \in k + 1 .. Len(s) : s[i] \in S
    BY <1>0
  <2>2. /\ v \in Seq(S) /\ Len(v) = IF k + 1 <= Len(s) THEN Len(s) - (k + 1) + 1 ELSE 0
        /\ \A i \in 1 .. Len(s) - (k + 1) + 1 : v[i] = s[(k + 1) + i - 1]
    BY <2>1, <1>0, SubSeqProperties
  <2> HIDE DEF v
  <2> QED BY <2>2, <1>0
<1> HIDE DEF u, v
<1>3. /\ u \o v \in Seq(S) /\ Len(u \o v) = Len(u) + Len(v)
      /\ \A i \in 1 .. Len(u) + Len(v) :
           (u \o v)[i] = IF i <= Len(u) THEN u[i] ELSE v[i - Len(u)]
  BY <1>1, <1>2, ConcatProperties
<1>4. RemoveAt(s, k) = u \o v
  BY DEF RemoveAt, u, v
<1>5. Len(u \o v) = Len(s) - 1
  BY <1>0, <1>1, <1>2, <1>3
<1>6. ASSUME NEW i \in 1 .. Len(s) - 1
      PROVE  (u \o v)[i] = IF i < k THEN s[i] ELSE s[i + 1]
  <2>1. CASE i < k
    BY <2>1, <1>0, <1>1, <1>2, <1>3
  <2>2. CASE ~(i < k)
    <3>1. i - (k - 1) \in 1 .. Len(s) - k /\ k + (i - (k - 1)) = i + 1
      BY <2>2, <1>0
    <3>2. i \in 1 .. Len(u) + Len(v) /\ ~(i <= Len(u))
      BY <2>2, <1>0, <1>1, <1>2
    <3>3. (u \o v)[i] = v[i - (k - 1)]
      BY <3>2, <1>1, <1>3
    <3> QED BY <3>1, <3>3, <1>2, <2>2, <1>0
  <2> QED BY <2>1, <2>2, <1>0
<1> QED BY <1>3, <1>4, <1>5, <1>6

\* What InsertAt makes of a sequence.
LEMMA InsertAtFacts ==
  ASSUME NEW S, NEW s \in Seq(S), NEW k \in 1 .. Len(s) + 1, NEW e \in S
  PROVE  /\ InsertAt(s, k, e) \in Seq(S)
         /\ Len(InsertAt(s, k, e)) = Len(s) + 1
         /\ \A i \in 1 .. Len(s) + 1 :
              InsertAt(s, k, e)[i] = IF i < k THEN s[i] ELSE IF i = k THEN e ELSE s[i - 1]
<1> DEFINE u == SubSeq(s, 1, k - 1)
           v == SubSeq(s, k, Len(s))
           w == u \o <<e>>
<1>0. Len(s) \in Nat /\ \A i \in 1 .. Len(s) : s[i] \in S
  BY LenProperties, ElementOfSeq
<1>1. /\ u \in Seq(S) /\ Len(u) = k - 1
      /\ \A i \in 1 .. k - 1 : u[i] = s[i]
  <2>1. \A i \in 1 .. k - 1 : s[i] \in S
    BY <1>0
  <2>2. /\ u \in Seq(S) /\ Len(u) = IF 1 <= k - 1 THEN (k - 1) - 1 + 1 ELSE 0
        /\ \A i \in 1 .. (k - 1) - 1 + 1 : u[i] = s[1 + i - 1]
    BY <2>1, SubSeqProperties
  <2> HIDE DEF u
  <2> QED BY <2>2, <1>0
<1>2. /\ v \in Seq(S) /\ Len(v) = Len(s) + 1 - k
      /\ \A i \in 1 .. Len(s) + 1 - k : v[i] = s[k + i - 1]
  <2>1. \A i \in k .. Len(s) : s[i] \in S
    BY <1>0
  <2>2. /\ v \in Seq(S) /\ Len(v) = IF k <= Len(s) THEN Len(s) - k + 1 ELSE 0
        /\ \A i \in 1 .. Len(s) - k + 1 : v[i] = s[k + i - 1]
    BY <2>1, <1>0, SubSeqProperties
  <2> HIDE DEF v
  <2> QED BY <2>2, <1>0
<1>3. <<e>> \in Seq(S) /\ Len(<<e>>) = 1 /\ <<e>>[1] = e
  OBVIOUS
<1> HIDE DEF u, v
<1>4. /\ w \in Seq(S) /\ Len(w) = k
      /\ \A i \in 1 .. k : w[i] = IF i < k THEN s[i] ELSE e
  <2>1. /\ w \in Seq(S) /\ Len(w) = Len(u) + 1
        /\ \A i \in 1 .. Len(u) + 1 : w[i] = IF i <= Len(u) THEN u[i] ELSE <<e>>[i - Len(u)]
    BY <1>1, <1>3, ConcatProperties
  <2> HIDE DEF w
  <2> QED BY <2>1, <1>0, <1>1, <1>3
<1>5. InsertAt(s, k, e) = w \o v
  BY DEF InsertAt, u, v
<1> HIDE DEF w
<1>6. /\ w \o v \in Seq(S) /\ Len(w \o v) = Len(w) + Len(v)
      /\ \A i \in 1 .. Len(w) + Len(v) :
           (w \o v)[i] = IF i <= Len(w) THEN w[i] ELSE v[i - Len(w)]
  BY <1>2, <1>4, ConcatProperties
<1>7. Len(w \o v) = Len(s) + 1
  BY <1>0, <1>2, <1>4, <1>6
<1>8. ASSUME NEW i \in 1 .. Len(s) + 1
      PROVE  (w \o v)[i] = IF i < k THEN s[i] ELSE IF i = k THEN e ELSE s[i - 1]
  <2>1. CASE i <= k
    BY <2>1, <1>0, <1>2, <1>4, <1>6
  <2>2. CASE ~(i <= k)
    <3>1. i - k \in 1 .. Len(s) + 1 - k /\ k + (i - k) - 1 = i - 1
      BY <2>2, <1>0
    <3>2. i \in 1 .. Len(w) + Len(v) /\ ~(i <= Len(w))
      BY <2>2, <1>0, <1>2, <1>4
    <3>3. (w \o v)[i] = v[i - k]
      BY <3>2, <1>4, <1>6
    <3> QED BY <3>1, <3>3, <1>2, <2>2, <1>0
  <2> QED BY <2>1, <2>2, <1>0
<1> QED BY <1>5, <1>6, <1>7, <1>8

\* What a sequence is with an element in front of it.
LEMMA PrependFacts ==
  ASSUME NEW S, NEW s \in Seq(S), NEW e \in S
  PROVE  /\ <<e>> \o s \in Seq(S) /\ Len(<<e>> \o s) = Len(s) + 1 /\ Len(s) \in Nat
         /\ (<<e>> \o s)[1] = e
         /\ \A i \in 1 .. Len(s) : (<<e>> \o s)[i + 1] = s[i]
         /\ \A i \in 1 .. Len(s) + 1 :
              i # 1 => i - 1 \in 1 .. Len(s) /\ (<<e>> \o s)[i] = s[i - 1]
<1> DEFINE t == <<e>> \o s
<1>1. Len(s) \in Nat /\ <<e>> \in Seq(S) /\ Len(<<e>>) = 1 /\ <<e>>[1] = e
  BY LenProperties
<1>2. /\ t \in Seq(S) /\ Len(t) = 1 + Len(s)
      /\ \A i \in 1 .. 1 + Len(s) : t[i] = IF i <= 1 THEN <<e>>[i] ELSE s[i - 1]
  BY <1>1, ConcatProperties
<1> HIDE DEF t
<1>3. t[1] = e
  BY <1>1, <1>2
<1>4. ASSUME NEW i \in 1 .. Len(s) PROVE t[i + 1] = s[i]
  <2>1. i + 1 \in 1 .. 1 + Len(s) /\ ~(i + 1 <= 1) /\ (i + 1) - 1 = i
    BY <1>1
  <2>2. t[i + 1] = s[(i + 1) - 1]
    BY <1>2, <2>1
  <2> QED BY <2>1, <2>2
<1>5. ASSUME NEW i \in 1 .. Len(s) + 1, i # 1
      PROVE  i - 1 \in 1 .. Len(s) /\ t[i] = s[i - 1]
  <2>1. i \in 1 .. 1 + Len(s) /\ ~(i <= 1) /\ i - 1 \in 1 .. Len(s)
    BY <1>1, <1>5
  <2> QED BY <1>2, <2>1
<1>6. Len(t) = Len(s) + 1
  BY <1>1, <1>2
<1> QED BY <1>1, <1>2, <1>3, <1>4, <1>5, <1>6 DEF t

\* What swap_remove leaves of a sequence.
LEMMA SwapRemoveFacts ==
  ASSUME NEW S, NEW s \in Seq(S), NEW k \in 1 .. Len(s)
  PROVE  /\ SwapRemove(s, k) \in Seq(S)
         /\ Len(SwapRemove(s, k)) = Len(s) - 1
         /\ \A i \in 1 .. Len(s) - 1 :
              SwapRemove(s, k)[i] = IF i = k THEN s[Len(s)] ELSE s[i]
<1> DEFINE t == [s EXCEPT ![k] = s[Len(s)]]
<1>0. Len(s) \in Nat /\ DOMAIN s = 1 .. Len(s) /\ s \in [1 .. Len(s) -> S]
  BY LenProperties
<1>1. /\ t \in Seq(S) /\ Len(t) = Len(s)
      /\ \A i \in 1 .. Len(s) : t[i] = IF i = k THEN s[Len(s)] ELSE s[i]
  <2>1. s[Len(s)] \in S
    BY <1>0
  <2>2. t \in Seq(S) /\ Len(t) = Len(s)
    BY <2>1, ExceptSeq
  <2> QED BY <2>2, <1>0
<1> HIDE DEF t
<1>2. /\ SubSeq(t, 1, Len(s) - 1) \in Seq(S) /\ Len(SubSeq(t, 1, Len(s) - 1)) = Len(s) - 1
      /\ \A i \in 1 .. Len(s) - 1 : SubSeq(t, 1, Len(s) - 1)[i] = t[i]
  <2>1. \A i \in 1 .. Len(s) - 1 : t[i] \in S
    BY <1>0, <1>1, ElementOfSeq
  <2>2. /\ SubSeq(t, 1, Len(s) - 1) \in Seq(S)
        /\ Len(SubSeq(t, 1, Len(s) - 1)) = IF 1 <= Len(s) - 1 THEN (Len(s) - 1) - 1 + 1 ELSE 0
        /\ \A i \in 1 .. (Len(s) - 1) - 1 + 1 : SubSeq(t, 1, Len(s) - 1)[i] = t[1 + i - 1]
    BY <2>1, <1>0, SubSeqProperties
  <2> QED BY <2>2, <1>0
<1>3. SwapRemove(s, k) = SubSeq(t, 1, Len(s) - 1)
  BY <1>1 DEF SwapRemove, Front, Last, t
<1> QED BY <1>0, <1>1, <1>2, <1>3

\* The first n elements of a sequence, and those after them.
LEMMA SplitFacts ==
  ASSUME NEW S, NEW s \in Seq(S), NEW n \in 0 .. Len(s)
  PROVE  /\ SubSeq(s, 1, n) \in Seq(S) /\ Len(SubSeq(s, 1, n)) = n
         /\ \A i \in 1 .. n : SubSeq(s, 1, n)[i] = s[i]
         /\ SubSeq(s, n + 1, Len(s)) \in Seq(S) /\ Len(SubSeq(s, n + 1, Len(s))) = Len(s) - n
         /\ \A i \in 1 .. Len(s) - n : SubSeq(s, n + 1, Len(s))[i] = s[n + i]
<1>0. Len(s) \in Nat /\ \A i \in 1 .. Len(s) : s[i] \in S
  BY LenProperties, ElementOfSeq
<1>1. /\ SubSeq(s, 1, n) \in Seq(S) /\ Len(SubSeq(s, 1, n)) = IF 1 <= n THEN n - 1 + 1 ELSE 0
      /\ \A i \in 1 .. n - 1 + 1 : SubSeq(s, 1, n)[i] = s[1 + i - 1]
  BY <1>0, SubSeqProperties
<1>2. /\ SubSeq(s, n + 1, Len(s)) \in Seq(S)
      /\ Len(SubSeq(s, n + 1, Len(s))) = IF n + 1 <= Len(s) THEN Len(s) - (n + 1) + 1 ELSE 0
      /\ \A i \in 1 .. Len(s) - (n + 1) + 1 : SubSeq(s, n + 1, Len(s))[i] = s[(n + 1) + i - 1]
  BY <1>0, SubSeqProperties
<1> QED BY <1>0, <1>1, <1>2

\* What retain leaves of a vector: exactly the elements to keep, in their order.
LEMMA RetainFacts ==
  ASSUME NEW S, NEW s \in Seq(S), NEW K
  PROVE  LET r == Retain(s, K)
             from(k, i) == r[k] = s[i] /\ s[i] \in K
         IN /\ r \in Seq(S) /\ Len(r) \in Nat /\ Len(r) <= Len(s)
            /\ \A k \in 1 .. Len(r) : \E i \in 1 .. Len(s) : from(k, i)
            /\ \A i \in 1 .. Len(s) : s[i] \in K => \E k \in 1 .. Len(r) : from(k, i)
            /\ \A j, k \in 1 .. Len(r) : j < k =>
                 \E h, i \in 1 .. Len(s) : h < i /\ from(j, h) /\ from(k, i)
<1> DEFINE kept == {i \in 1 .. Len(s) : s[i] \in K}
           N == Cardinality(kept)
           r == [k \in 1 .. N |-> s[Nth(kept, k)]]
<1>0. Len(s) \in Nat /\ DOMAIN s = 1 .. Len(s) /\ \A i \in 1 .. Len(s) : s[i] \in S
  BY LenProperties, ElementOfSeq
<1>1. Retain(s, K) = r
  BY <1>0 DEF Retain
<1>2. kept \in SUBSET (1 .. Len(s)) /\ kept \in SUBSET Nat
  OBVIOUS
<1>3. \A i \in kept : i \in 1 .. Len(s) /\ s[i] \in K /\ s[i] \in S
  BY <1>0
<1>4. \A i \in 1 .. Len(s) : s[i] \in K => i \in kept
  OBVIOUS
<1> HIDE DEF kept
<1>5. IsFiniteSet(kept) /\ N \in Nat /\ N <= Len(s)
  BY <1>0, <1>2, Positions
<1>6. /\ \A k \in 1 .. N : Nth(kept, k) \in kept
      /\ \A n \in kept : \E k \in 1 .. N : Nth(kept, k) = n
      /\ \A j, k \in 1 .. N : j < k => Nth(kept, j) < Nth(kept, k)
  BY <1>2, <1>5, NthFacts
<1> HIDE DEF N
<1>7. r \in Seq(S) /\ Len(r) = N
  <2>1. \A k \in 1 .. N : s[Nth(kept, k)] \in S
    BY <1>3, <1>6
  <2>2. r \in [1 .. N -> S]
    BY <2>1
  <2> HIDE DEF r
  <2> QED BY <2>2, <1>5, IsASeq, LenProperties
<1>8. \A k \in 1 .. N : r[k] = s[Nth(kept, k)]
  OBVIOUS
<1> HIDE DEF r
<1>9. ASSUME NEW k \in 1 .. N
      PROVE  Nth(kept, k) \in 1 .. Len(s) /\ r[k] = s[Nth(kept, k)] /\ s[Nth(kept, k)] \in K
  BY <1>3, <1>6, <1>8
<1>10. ASSUME NEW i \in 1 .. Len(s), s[i] \in K
       PROVE  \E k \in 1 .. N : r[k] = s[i]
  BY <1>4, <1>6, <1>8, <1>10
<1>11. \A k \in 1 .. Len(r) : \E i \in 1 .. Len(s) : r[k] = s[i] /\ s[i] \in K
  BY <1>7, <1>9
<1>12. \A i \in 1 .. Len(s) : s[i] \in K => \E k \in 1 .. Len(r) : r[k] = s[i] /\ s[i] \in K
  BY <1>7, <1>10
<1>13. ASSUME NEW j \in 1 .. Len(r), NEW k \in 1 .. Len(r), j < k
       PROVE  \E h, i \in 1 .. Len(s) : /\ h < i
                                       /\ r[j] = s[h] /\ s[h] \in K
                                       /\ r[k] = s[i] /\ s[i] \in K
  <2>1. j \in 1 .. N /\ k \in 1 .. N
    BY <1>7
  <2>2. Nth(kept, j) < Nth(kept, k)
    BY <1>6, <1>13, <2>1
  <2> QED BY <1>9, <2>1, <2>2
<1> QED BY <1>0, <1>1, <1>5, <1>7, <1>11, <1>12, <1>13

-----------------------------------------------------------------------------
(* The same as sets: what is in a vector, and that nothing is in it twice. *)

NoDup(s) == \A i, j \in 1 .. Len(s) : s[i] = s[j] => i = j

\* An element pushed at the end.
LEMMA PushedSet ==
  ASSUME NEW s, NEW t, NEW b, Len(s) \in Nat, Len(t) = Len(s) + 1, t[Len(s) + 1] = b,
         \A i \in 1 .. Len(s) : t[i] = s[i]
  PROVE  /\ \A a : Contains(t, a) <=> Contains(s, a) \/ a = b
         /\ NoDup(s) /\ ~Contains(s, b) => NoDup(t)
<1>1. ASSUME NEW a PROVE Contains(t, a) <=> Contains(s, a) \/ a = b
  <2>1. ASSUME Contains(t, a), a # b PROVE Contains(s, a)
    <3>1. PICK i \in 1 .. Len(t) : t[i] = a
      BY <2>1 DEF Contains
    <3>2. i \in 1 .. Len(s)
      BY <2>1, <3>1
    <3> QED BY <3>1, <3>2 DEF Contains
  <2>2. ASSUME Contains(s, a) PROVE Contains(t, a)
    <3>1. PICK i \in 1 .. Len(s) : s[i] = a
      BY <2>2 DEF Contains
    <3> QED BY <3>1 DEF Contains
  <2>3. Contains(t, b)
    <3>1. Len(s) + 1 \in 1 .. Len(t)
      OBVIOUS
    <3> QED BY <3>1 DEF Contains
  <2> QED BY <2>1, <2>2, <2>3
<1>2. ASSUME NoDup(s), ~Contains(s, b) PROVE NoDup(t)
  <2> SUFFICES ASSUME NEW i \in 1 .. Len(s) + 1, NEW j \in 1 .. Len(s) + 1, t[i] = t[j]
               PROVE  i = j
    BY DEF NoDup
  <2>1. \A k \in 1 .. Len(s) : t[k] = s[k] /\ t[k] # b
    BY <1>2 DEF Contains
  <2>2. i \in 1 .. Len(s) \/ i = Len(s) + 1
    OBVIOUS
  <2>3. j \in 1 .. Len(s) \/ j = Len(s) + 1
    OBVIOUS
  <2> QED BY <1>2, <2>1, <2>2, <2>3 DEF NoDup
<1> QED BY <1>1, <1>2

\* An element taken out by swap_remove.
LEMMA SwapRemovedSet ==
  ASSUME NEW S, NEW s \in Seq(S), NoDup(s), NEW k \in 1 .. Len(s)
  PROVE  /\ NoDup(SwapRemove(s, k))
         /\ \A a : Contains(SwapRemove(s, k), a) <=> Contains(s, a) /\ a # s[k]
<1> DEFINE n == Len(s)
           t == SwapRemove(s, k)
<1>1. n \in Nat
  BY LenProperties
<1>2. Len(t) = n - 1 /\ \A i \in 1 .. n - 1 : t[i] = IF i = k THEN s[n] ELSE s[i]
  BY SwapRemoveFacts
<1>3. \A i, j \in 1 .. n : s[i] = s[j] => i = j
  BY DEF NoDup
<1>4. k \in 1 .. n
  OBVIOUS
<1> HIDE DEF t, n
<1>5. ASSUME NEW i \in 1 .. n - 1, NEW j \in 1 .. n - 1, t[i] = t[j]
      PROVE  i = j
  <2>1. i \in 1 .. n /\ j \in 1 .. n /\ n \in 1 .. n /\ i # n /\ j # n
    BY <1>1
  <2> QED BY <1>2, <1>3, <1>5, <2>1
<1>6. ASSUME NEW a PROVE (\E i \in 1 .. n - 1 : t[i] = a) <=> (\E i \in 1 .. n : s[i] = a) /\ a # s[k]
  <2>1. ASSUME NEW i \in 1 .. n - 1, t[i] = a
        PROVE  (\E j \in 1 .. n : s[j] = a) /\ a # s[k]
    <3>1. i \in 1 .. n /\ n \in 1 .. n /\ i # n
      BY <1>1
    <3> QED BY <1>2, <1>3, <1>4, <2>1, <3>1
  <2>2. ASSUME NEW i \in 1 .. n, s[i] = a, a # s[k]
        PROVE  \E j \in 1 .. n - 1 : t[j] = a
    <3>1. CASE i = n
      <4>1. k \in 1 .. n - 1
        BY <1>1, <1>4, <2>2, <3>1
      <4> QED BY <1>2, <2>2, <3>1, <4>1
    <3>2. CASE i # n
      <4>1. i \in 1 .. n - 1 /\ i # k
        BY <1>1, <2>2, <3>2
      <4> QED BY <1>2, <2>2, <4>1
    <3> QED BY <3>1, <3>2
  <2> QED BY <2>1, <2>2
<1> QED BY <1>2, <1>5, <1>6 DEF NoDup, Contains, t, n

\* What retain keeps.
LEMMA RetainedSet ==
  ASSUME NEW S, NEW s \in Seq(S), NEW K
  PROVE  /\ Retain(s, K) \in Seq(S)
         /\ \A a : Contains(Retain(s, K), a) <=> Contains(s, a) /\ a \in K
         /\ NoDup(s) => NoDup(Retain(s, K))
<1> DEFINE r == Retain(s, K)
<1>1. /\ r \in Seq(S) /\ Len(r) \in Nat /\ Len(r) <= Len(s)
      /\ \A k \in 1 .. Len(r) : \E i \in 1 .. Len(s) : r[k] = s[i] /\ s[i] \in K
      /\ \A i \in 1 .. Len(s) : s[i] \in K => \E k \in 1 .. Len(r) : r[k] = s[i] /\ s[i] \in K
      /\ \A j, k \in 1 .. Len(r) : j < k =>
           \E h, i \in 1 .. Len(s) : h < i /\ r[j] = s[h] /\ r[k] = s[i]
  BY RetainFacts
<1>2. Len(s) \in Nat
  BY LenProperties
<1> HIDE DEF r
<1>3. \A a : Contains(r, a) <=> Contains(s, a) /\ a \in K
  BY <1>1 DEF Contains
<1>4. ASSUME NoDup(s) PROVE NoDup(r)
  <2>1. ASSUME NEW j \in 1 .. Len(r), NEW k \in 1 .. Len(r), j < k PROVE r[j] # r[k]
    <3>1. PICK h, i \in 1 .. Len(s) : h < i /\ r[j] = s[h] /\ r[k] = s[i]
      BY <1>1, <2>1
    <3>2. h # i
      BY <1>2, <3>1
    <3> QED BY <1>4, <3>1, <3>2 DEF NoDup
  <2> SUFFICES ASSUME NEW j \in 1 .. Len(r), NEW k \in 1 .. Len(r), r[j] = r[k]
               PROVE  j = k
    BY DEF NoDup
  <2>2. ~(j < k) /\ ~(k < j)
    BY <2>1
  <2> QED BY <1>1, <2>2
<1> QED BY <1>1, <1>3, <1>4 DEF r

\* A vector split in two.
LEMMA SplitSet ==
  ASSUME NEW S, NEW s \in Seq(S), NEW n \in 0 .. Len(s)
  PROVE  LET u == SubSeq(s, 1, n)
             v == SubSeq(s, n + 1, Len(s))
         IN /\ u \in Seq(S) /\ v \in Seq(S) /\ Len(u) = n /\ Len(v) = Len(s) - n
            /\ \A a : Contains(s, a) <=> Contains(u, a) \/ Contains(v, a)
            /\ NoDup(s) => /\ NoDup(u) /\ NoDup(v)
                           /\ \A a : ~(Contains(u, a) /\ Contains(v, a))
<1> DEFINE u == SubSeq(s, 1, n)
           v == SubSeq(s, n + 1, Len(s))
<1>1. /\ u \in Seq(S) /\ Len(u) = n
      /\ \A i \in 1 .. n : u[i] = s[i]
      /\ v \in Seq(S) /\ Len(v) = Len(s) - n
      /\ \A i \in 1 .. Len(s) - n : v[i] = s[n + i]
  BY SplitFacts
<1>2. Len(s) \in Nat
  BY LenProperties
<1> HIDE DEF u, v
<1>3. \A i \in 1 .. Len(u) : i \in 1 .. Len(s) /\ u[i] = s[i]
  BY <1>1, <1>2
<1>4. \A i \in 1 .. Len(v) : n + i \in 1 .. Len(s) /\ v[i] = s[n + i]
  BY <1>1, <1>2
<1>5. ASSUME NEW a PROVE Contains(s, a) <=> Contains(u, a) \/ Contains(v, a)
  <2>1. ASSUME NEW i \in 1 .. Len(s), s[i] = a PROVE Contains(u, a) \/ Contains(v, a)
    <3>1. CASE i <= n
      <4>1. i \in 1 .. Len(u) /\ u[i] = a
        BY <1>1, <1>2, <2>1, <3>1
      <4> QED BY <4>1 DEF Contains
    <3>2. CASE ~(i <= n)
      <4>1. i - n \in 1 .. Len(v) /\ n + (i - n) = i
        BY <1>1, <1>2, <3>2
      <4>2. v[i - n] = a
        BY <1>1, <2>1, <4>1
      <4> QED BY <4>1, <4>2 DEF Contains
    <3> QED BY <3>1, <3>2
  <2>2. Contains(u, a) => Contains(s, a)
    BY <1>3 DEF Contains
  <2>3. Contains(v, a) => Contains(s, a)
    BY <1>4 DEF Contains
  <2> QED BY <2>1, <2>2, <2>3 DEF Contains
<1>6. ASSUME NoDup(s)
      PROVE  NoDup(u) /\ NoDup(v) /\ \A a : ~(Contains(u, a) /\ Contains(v, a))
  <2>1. \A i, j \in 1 .. Len(s) : s[i] = s[j] => i = j
    BY <1>6 DEF NoDup
  <2>2. NoDup(u)
    BY <1>3, <2>1 DEF NoDup
  <2>3. NoDup(v)
    <3> SUFFICES ASSUME NEW i \in 1 .. Len(v), NEW j \in 1 .. Len(v), v[i] = v[j]
                 PROVE  i = j
      BY DEF NoDup
    <3>1. n + i = n + j
      BY <1>4, <2>1
    <3> QED BY <3>1
  <2>4. ASSUME NEW i \in 1 .. Len(u), NEW j \in 1 .. Len(v) PROVE u[i] # v[j]
    <3>1. i # n + j
      BY <1>1, <1>2
    <3> QED BY <1>3, <1>4, <2>1, <3>1
  <2> QED BY <2>2, <2>3, <2>4 DEF Contains
<1> QED BY <1>1, <1>5, <1>6 DEF u, v

\* Two vectors one after the other.
LEMMA ConcatSet ==
  ASSUME NEW S, NEW s \in Seq(S), NEW t \in Seq(S)
  PROVE  /\ s \o t \in Seq(S) /\ Len(s \o t) = Len(s) + Len(t)
         /\ \A a : Contains(s \o t, a) <=> Contains(s, a) \/ Contains(t, a)
         /\ NoDup(s) /\ NoDup(t) /\ (\A a : ~(Contains(s, a) /\ Contains(t, a))) => NoDup(s \o t)
<1> DEFINE w == s \o t
           n == Len(s)
           m == Len(t)
<1>1. /\ n \in Nat /\ m \in Nat /\ w \in Seq(S) /\ Len(w) = n + m
      /\ \A i \in 1 .. n + m : w[i] = IF i <= n THEN s[i] ELSE t[i - n]
  BY LenProperties, ConcatProperties
<1> HIDE DEF w
<1>2. \A i \in 1 .. n + m : i <= n => i \in 1 .. n /\ w[i] = s[i]
  BY <1>1
<1>3. \A i \in 1 .. n + m : ~(i <= n) => i - n \in 1 .. m /\ w[i] = t[i - n]
  BY <1>1
<1> HIDE DEF n, m
<1>4. ASSUME NEW a
      PROVE  (\E i \in 1 .. n + m : w[i] = a)
               <=> (\E i \in 1 .. n : s[i] = a) \/ (\E i \in 1 .. m : t[i] = a)
  <2>1. ASSUME NEW i \in 1 .. n, s[i] = a PROVE \E j \in 1 .. n + m : w[j] = a
    <3>1. i \in 1 .. n + m /\ i <= n
      BY <1>1
    <3> QED BY <1>2, <2>1, <3>1
  <2>2. ASSUME NEW i \in 1 .. m, t[i] = a PROVE \E j \in 1 .. n + m : w[j] = a
    <3>1. n + i \in 1 .. n + m /\ ~(n + i <= n) /\ (n + i) - n = i
      BY <1>1
    <3>2. w[n + i] = t[i]
      BY <1>3, <3>1
    <3> QED BY <2>2, <3>1, <3>2
  <2> QED BY <1>2, <1>3, <2>1, <2>2
<1>5. ASSUME \A i, j \in 1 .. n : s[i] = s[j] => i = j,
             \A i, j \in 1 .. m : t[i] = t[j] => i = j,
             \A i \in 1 .. n, j \in 1 .. m : s[i] # t[j],
             NEW i \in 1 .. n + m, NEW j \in 1 .. n + m, w[i] = w[j]
      PROVE  i = j
  <2>1. CASE i <= n /\ j <= n
    BY <1>2, <1>5, <2>1
  <2>2. CASE i <= n /\ ~(j <= n)
    BY <1>2, <1>3, <1>5, <2>2
  <2>3. CASE ~(i <= n) /\ j <= n
    BY <1>2, <1>3, <1>5, <2>3
  <2>4. CASE ~(i <= n) /\ ~(j <= n)
    <3>1. i - n = j - n
      BY <1>3, <1>5, <2>4
    <3> QED BY <1>1, <3>1
  <2> QED BY <2>1, <2>2, <2>3, <2>4
<1>6. ASSUME NoDup(s), NoDup(t), \A a : ~(Contains(s, a) /\ Contains(t, a))
      PROVE  NoDup(w)
  <2>1. \A i, j \in 1 .. n : s[i] = s[j] => i = j
    BY <1>6 DEF NoDup, n
  <2>2. \A i, j \in 1 .. m : t[i] = t[j] => i = j
    BY <1>6 DEF NoDup, m
  <2>3. \A i \in 1 .. n, j \in 1 .. m : s[i] # t[j]
    BY <1>6 DEF Contains, n, m
  <2> QED BY <1>1, <1>5, <2>1, <2>2, <2>3 DEF NoDup
<1>7. \A a : Contains(w, a) <=> Contains(s, a) \/ Contains(t, a)
  BY <1>1, <1>4 DEF Contains, n, m
<1> QED BY <1>1, <1>6, <1>7 DEF w, n, m

\* Where a vector has nothing twice, its elements are as many as its positions.
LEMMA SetOfVector ==
  ASSUME NEW S, NEW s \in Seq(S)
  PROVE  /\ \A a : a \in ToSet(s) <=> Contains(s, a)
         /\ IsFiniteSet(ToSet(s))
         /\ IsInjective(s) <=> NoDup(s)
         /\ NoDup(s) => Cardinality(ToSet(s)) = Len(s)
<1>1. Len(s) \in Nat /\ DOMAIN s = 1 .. Len(s) /\ s \in [1 .. Len(s) -> S]
  BY LenProperties
<1>2. \A a : a \in ToSet(s) <=> Contains(s, a)
  BY <1>1 DEF ToSet, Contains
<1>3. IsInjective(s) <=> NoDup(s)
  BY <1>1 DEF IsInjective, NoDup
<1>4. s \in Surjection(1 .. Len(s), ToSet(s))
  <2>1. s \in [1 .. Len(s) -> ToSet(s)] /\ \A y \in ToSet(s) : \E x \in 1 .. Len(s) : s[x] = y
    BY <1>1 DEF ToSet
  <2> QED BY <2>1, Fun_IsSurj
<1>5. IsFiniteSet(1 .. Len(s)) /\ Cardinality(1 .. Len(s)) = Len(s)
  BY <1>1, CountUpTo
<1>6. IsFiniteSet(ToSet(s))
  BY <1>4, <1>5, FS_Surjection
<1>7. ASSUME NoDup(s) PROVE Cardinality(ToSet(s)) = Len(s)
  <2>1. s \in [1 .. Len(s) -> ToSet(s)]
    BY <1>4 DEF Surjection
  <2>2. s \in Injection(1 .. Len(s), ToSet(s))
    BY <1>7, <2>1, Fun_IsInj DEF NoDup
  <2> QED BY <1>4, <1>5, <2>2, FS_Surjection
<1> QED BY <1>2, <1>3, <1>6, <1>7

\* The last element, and the sequence without it.
LEMMA PoppedFacts ==
  ASSUME NEW S, NEW s \in Seq(S), s # <<>>
  PROVE  /\ Front(s) \in Seq(S) /\ Len(Front(s)) = Len(s) - 1 /\ Last(s) \in S
         /\ \A a : Contains(s, a) <=> Contains(Front(s), a) \/ a = Last(s)
         /\ NoDup(s) => NoDup(Front(s)) /\ ~Contains(Front(s), Last(s))
<1>1. Len(s) \in Nat /\ Len(s) > 0
  BY LenProperties, EmptySeq
<1> DEFINE r == SubSeq(s, 1, Len(s) - 1)
<1>2. Len(s) - 1 \in 0 .. Len(s)
  BY <1>1
<1>3. r \in Seq(S) /\ Len(r) = Len(s) - 1 /\ \A i \in 1 .. Len(s) - 1 : r[i] = s[i]
  <2>1. PICK n \in 0 .. Len(s) : n = Len(s) - 1
    BY <1>2
  <2>2. PICK t : t = SubSeq(s, 1, n)
    OBVIOUS
  <2>3. t \in Seq(S) /\ Len(t) = n /\ \A i \in 1 .. n : t[i] = s[i]
    BY <2>2, SplitFacts
  <2>4. r = t
    BY <2>1, <2>2
  <2> HIDE DEF r
  <2> QED BY <2>1, <2>3, <2>4
<1>4. Front(s) = r /\ Last(s) = s[Len(s)]
  BY DEF Front, Last
<1> HIDE DEF r
<1>5. s[Len(s)] \in S
  BY <1>1, ElementOfSeq
<1>6. \A a : Contains(s, a) <=> Contains(r, a) \/ a = s[Len(s)]
  BY <1>1, <1>3 DEF Contains
<1>7. NoDup(s) => NoDup(r) /\ ~Contains(r, s[Len(s)])
  BY <1>1, <1>3 DEF Contains, NoDup
<1> QED BY <1>3, <1>4, <1>5, <1>6, <1>7

\* One in front.
LEMMA PushedFront ==
  ASSUME NEW S, NEW s \in Seq(S), NEW e \in S
  PROVE  /\ <<e>> \o s \in Seq(S) /\ Head(<<e>> \o s) = e /\ <<e>> \o s # <<>>
         /\ \A a : Contains(<<e>> \o s, a) <=> Contains(s, a) \/ a = e
         /\ NoDup(s) /\ ~Contains(s, e) => NoDup(<<e>> \o s)
<1>1. <<e>> \in Seq(S) /\ Len(<<e>>) = 1 /\ <<e>>[1] = e
  OBVIOUS
<1>2. (\A a : Contains(<<e>>, a) <=> a = e) /\ NoDup(<<e>>)
  BY <1>1 DEF Contains, NoDup
<1>3. /\ <<e>> \o s \in Seq(S) /\ Len(<<e>> \o s) = Len(<<e>>) + Len(s)
      /\ \A a : Contains(<<e>> \o s, a) <=> Contains(<<e>>, a) \/ Contains(s, a)
      /\ NoDup(<<e>>) /\ NoDup(s) /\ (\A a : ~(Contains(<<e>>, a) /\ Contains(s, a)))
           => NoDup(<<e>> \o s)
  BY <1>1, ConcatSet
<1>4. /\ (<<e>> \o s)[1] = e /\ Len(<<e>> \o s) # 0
  BY <1>1, <1>3, PrependFacts, LenProperties
<1>5. Head(<<e>> \o s) = e /\ <<e>> \o s # <<>>
  BY <1>3, <1>4
<1> QED BY <1>2, <1>3, <1>5

-----------------------------------------------------------------------------
(* Alignment.                                                              *)

\* What align_offset adds to an address is less than the alignment and brings it to
\* a multiple of that.
LEMMA PaddingFacts ==
  ASSUME NEW a \in Nat, NEW n \in Nat \ {0}
  PROVE  LET pad == (n - (a % n)) % n
         IN /\ pad \in Nat /\ pad < n /\ (a + pad) % n = 0
            /\ a % n = 0 => pad = 0
<1>1. PICK q \in Nat, r \in Nat : a = n * q + r /\ r < n /\ r = a % n
  BY SMTT(30)
<1>2. CASE r = 0
  <2>1. (n - (a % n)) % n = 0
    BY <1>1, <1>2
  <2>2. (a + 0) % n = 0
    BY <1>1, <1>2
  <2> QED BY <2>1, <2>2
<1>3. CASE r # 0
  <2>1. n - r \in Nat /\ n - r < n
    BY <1>1, <1>3
  <2>2. (n - r) % n = n - r
    BY <2>1
  <2>3. a + (n - r) = n * (q + 1)
    BY <1>1
  <2>4. (n * (q + 1)) % n = 0
    BY <1>1
  <2> QED BY <1>1, <1>3, <2>1, <2>2, <2>3, <2>4
<1> QED BY <1>2, <1>3

\* Divisibility is transitive.
LEMMA Divides ==
  ASSUME NEW a \in Nat, NEW m \in Nat \ {0}, NEW n \in Nat \ {0}, a % n = 0, n % m = 0
  PROVE  a % m = 0
<1>1. PICK q \in Nat : a = n * q
  <2>1. a = n * (a \div n) + (a % n) /\ a \div n \in Nat
    OBVIOUS
  <2>2. n * (a \div n) = a
    BY <2>1
  <2> QED BY <2>1, <2>2
<1>2. PICK r \in Nat : n = m * r
  <2>1. n = m * (n \div m) + (n % m) /\ n \div m \in Nat
    OBVIOUS
  <2>2. m * (n \div m) = n
    BY <2>1
  <2> QED BY <2>1, <2>2
<1>3. PICK t \in Nat : t = r * q
  BY <1>1, <1>2
<1>4. a = m * t
  BY <1>1, <1>2, <1>3
<1>5. (m * t) % m = 0
  OBVIOUS
<1> QED BY <1>4, <1>5

-----------------------------------------------------------------------------
(* Words of blocks, counted.                                              *)

\* One more buffer, and that many words more.
LEMMA MoreWords ==
  ASSUME NEW W, IsFiniteSet(W), NEW b, NEW n \in Nat, W \cap ({b} \X (1 .. n)) = {}
  PROVE  /\ IsFiniteSet(W \cup ({b} \X (1 .. n)))
         /\ Cardinality(W \cup ({b} \X (1 .. n))) = Cardinality(W) + n
<1>1. PICK A, B, X : A = {b} /\ B = 1 .. n /\ X = A \X B
  OBVIOUS
<1>2. IsFiniteSet(A) /\ Cardinality(A) = 1
  BY <1>1, FS_Singleton
<1>3. IsFiniteSet(B) /\ Cardinality(B) = n
  BY <1>1, CountUpTo
<1>4. IsFiniteSet(X) /\ Cardinality(X) = n
  <2>1. IsFiniteSet(A \X B) /\ Cardinality(A \X B) = Cardinality(A) * Cardinality(B)
    BY <1>2, <1>3, FS_Product
  <2> QED BY <1>1, <1>2, <1>3, <2>1
<1>5. W \cap X = {}
  BY <1>1
<1>6. /\ IsFiniteSet(W \cup X)
      /\ Cardinality(W \cup X) = Cardinality(W) + Cardinality(X) - Cardinality(W \cap X)
  BY <1>4, FS_Union, Zenon
<1>7. Cardinality(W \cap X) = 0 /\ Cardinality(W) \in Nat
  BY <1>5, FS_EmptySet, FS_CardinalityType
<1>8. IsFiniteSet(W \cup X) /\ Cardinality(W \cup X) = Cardinality(W) + n
  BY <1>4, <1>6, <1>7
<1> QED BY <1>1, <1>8

\* Taking some buffers away, and their words.
LEMMA FewerWords ==
  ASSUME NEW W, IsFiniteSet(W), NEW V \in SUBSET W
  PROVE  /\ IsFiniteSet(W \ V) /\ IsFiniteSet(V)
         /\ Cardinality(W) \in Nat /\ Cardinality(V) \in Nat /\ Cardinality(V) <= Cardinality(W)
         /\ Cardinality(W \ V) = Cardinality(W) - Cardinality(V)
<1>1. W \cap V = V
  OBVIOUS
<1>2. IsFiniteSet(V) /\ Cardinality(V) <= Cardinality(W)
  BY FS_Subset
<1>3. Cardinality(W) \in Nat /\ Cardinality(V) \in Nat
  BY <1>2, FS_CardinalityType
<1>4. IsFiniteSet(W \ V) /\ Cardinality(W \ V) = Cardinality(W) - Cardinality(W \cap V)
  BY FS_Difference, Zenon
<1> QED BY <1>1, <1>2, <1>3, <1>4
=============================================================================
