--------------------------- MODULE RootList_proofs ---------------------------
(***************************************************************************)
(* Proofs about RootList: for any number of nodes, and whether or not the  *)
(* context is moved or dropped early, the two directions of the list agree.*)
(***************************************************************************)
EXTENDS RootList, VecOps_proofs

\* The sentinel, the null link and the nodes are different things.
LEMMA SymbolsDistinct ==
  /\ Sentinel \in Link /\ Null \notin Link /\ RootNode \subseteq Link
  /\ Sentinel # Null /\ Sentinel \notin RootNode /\ Null \notin RootNode
BY NodeAssumption DEF Link, Sentinel, Null

\* The empty list is well formed.
LEMMA InitInv == Init => IInv
<1> SUFFICES ASSUME Init PROVE IInv
  OBVIOUS
<1>1. Sentinel \in Link /\ Null \notin Link /\ RootNode \subseteq Link
  BY SymbolsDistinct
<1>2. TypeOK
  BY DEF Init, TypeOK
<1>3. \A l \in Link : prev[l] = Null /\ next[l] = Null
  BY DEF Init
<1>4. LinksAgree
  BY <1>1, <1>3 DEF LinksAgree
<1>5. allocated = {}
  BY DEF Init
<1>6. \A l \in Link : next[l] # Sentinel
  BY <1>1, <1>3
<1> QED BY <1>1, <1>2, <1>3, <1>4, <1>5, <1>6 DEF IInv

\* Linking a free node behind the sentinel keeps the list well formed.
LEMMA NewRootInv ==
  ASSUME IInv, NEW n \in RootNode, NewRoot(n)
  PROVE  IInv'
<1> USE DEF NewRoot, LinkAfter, PrevLinked, IInv
<1>1. /\ Sentinel \in Link /\ n \in Link /\ n # Sentinel /\ n # Null
      /\ Sentinel # Null /\ Sentinel \notin RootNode /\ Null \notin RootNode
  BY SymbolsDistinct
<1>2. next[Sentinel] \in RootNode \cup {Null} /\ next[Sentinel] # n
  BY <1>1 DEF TypeOK, Link, LinksAgree
<1>3. \A l \in Link : prev'[l] = IF l = n THEN Sentinel
                                 ELSE IF l = next[Sentinel] THEN n ELSE prev[l]
  OBVIOUS
<1>4. \A l \in Link : next'[l] = IF l = Sentinel THEN n
                                 ELSE IF l = n THEN next[Sentinel] ELSE next[l]
  BY <1>1 DEF TypeOK
<1>5. TypeOK'
  BY <1>1 DEF TypeOK, Link
<1>6. LinksAgree'
  <2> SUFFICES ASSUME NEW l \in Link, NEW m \in RootNode
               PROVE  next'[l] = m <=> prev'[m] = l
    BY DEF LinksAgree
  <2>1. m \in Link
    BY DEF Link
  <2>2. prev[n] = Null /\ next[n] = Null /\ l # Null
    BY SymbolsDistinct
  <2>3. /\ next[l] = m <=> prev[m] = l
        /\ next[l] = n <=> prev[n] = l
        /\ next[Sentinel] = m <=> prev[m] = Sentinel
        /\ next[n] = m <=> prev[m] = n
    BY <1>1 DEF LinksAgree
  <2>4. prev'[m] = IF m = n THEN Sentinel
                   ELSE IF m = next[Sentinel] THEN n ELSE prev[m]
    BY <1>3, <2>1
  <2>5. next'[l] = IF l = Sentinel THEN n
                   ELSE IF l = n THEN next[Sentinel] ELSE next[l]
    BY <1>4
  <2> HIDE DEF NewRoot, LinkAfter, PrevLinked, IInv
  <2>6. CASE m = n
    BY <1>1, <1>2, <2>2, <2>3, <2>4, <2>5, <2>6
  <2>7. CASE m # n
    BY <1>1, <1>2, <2>2, <2>3, <2>4, <2>5, <2>7
  <2> QED BY <2>6, <2>7
<1>7. \A m \in RootNode : m \in allocated' <=> prev'[m] # Null
  BY <1>1, <1>2, <1>3 DEF LinksAgree, Link
<1>8. \A m \in RootNode \ allocated' : next'[m] = Null
  BY <1>1, <1>4 DEF Link
<1>9. prev'[Sentinel] = Null
  BY <1>1, <1>2, <1>3
<1>10. \A l \in Link : next'[l] # Sentinel
  <2>1. n # Sentinel /\ next[Sentinel] # Sentinel /\ \A l \in Link : next[l] # Sentinel
    BY <1>1
  <2> HIDE DEF NewRoot, LinkAfter, PrevLinked, IInv
  <2>2. SUFFICES ASSUME NEW l \in Link PROVE next'[l] # Sentinel
    OBVIOUS
  <2>3. next'[l] = IF l = Sentinel THEN n ELSE IF l = n THEN next[Sentinel] ELSE next[l]
    BY <1>4
  <2> QED BY <2>1, <2>3
<1> QED BY <1>5, <1>6, <1>7, <1>8, <1>9, <1>10

\* Unlinking a node, wherever it is in the list, joins its neighbours.
LEMMA DropRootInv ==
  ASSUME IInv, NEW n \in RootNode, DropRoot(n)
  PROVE  IInv'
<1> USE DEF DropRoot, DropDefined, IsLinked, Unlink, NextJoined, IInv
<1>1. /\ Sentinel \in Link /\ n \in Link /\ n # Sentinel /\ n # Null
      /\ Sentinel # Null /\ Sentinel \notin RootNode /\ Null \notin RootNode
  BY SymbolsDistinct
<1>2. prev[n] # Null /\ prev[n] \in Link /\ next[prev[n]] = n
  <2>1. n \in allocated
    OBVIOUS
  <2>2. prev[n] \in Link
    BY <1>1, <2>1 DEF TypeOK
  <2> QED BY <2>1, <2>2 DEF LinksAgree
<1>3. next[n] = Null \/ (next[n] \in RootNode /\ prev[next[n]] = n)
  <2>1. next[n] \in RootNode \cup {Null}
    BY <1>1 DEF TypeOK, Link
  <2>2. ASSUME next[n] \in RootNode PROVE prev[next[n]] = n
    BY <1>1, <2>2 DEF LinksAgree
  <2> QED BY <2>1, <2>2
<1>4. \A l \in Link : prev'[l] = IF l = n THEN Null
                                 ELSE IF l = next[n] THEN prev[n] ELSE prev[l]
  BY <1>2
<1>5. \A l \in Link : next'[l] = IF l = n THEN Null
                                 ELSE IF l = prev[n] THEN next[n] ELSE next[l]
  BY <1>2
<1>6. TypeOK'
  <2>1. prev' \in [Link -> Link \cup {Null}]
    BY <1>2 DEF TypeOK
  <2>2. next' \in [Link -> Link \cup {Null}]
    BY <1>1, <1>2 DEF TypeOK
  <2> QED BY <2>1, <2>2 DEF TypeOK
<1>7. LinksAgree'
  <2> SUFFICES ASSUME NEW l \in Link, NEW m \in RootNode
               PROVE  next'[l] = m <=> prev'[m] = l
    BY DEF LinksAgree
  <2>1. m \in Link /\ m # Null /\ l # Null
    BY <1>1 DEF Link
  <2>2. next[l] = m <=> prev[m] = l
    BY DEF LinksAgree
  <2>3. next[l] = n <=> prev[n] = l
    BY DEF LinksAgree
  <2>4. next[n] = m <=> prev[m] = n
    BY <1>1 DEF LinksAgree
  <2>5. CASE l = n
    BY <1>4, <1>5, <1>2, <1>3, <2>1, <2>2, <2>3, <2>4, <2>5
  <2>6. CASE l # n /\ m = n
    BY <1>4, <1>5, <1>2, <1>3, <2>1, <2>2, <2>3, <2>4, <2>6
  <2>7. CASE l # n /\ m # n
    BY <1>4, <1>5, <1>2, <1>3, <2>1, <2>2, <2>3, <2>4, <2>7
  <2> QED BY <2>5, <2>6, <2>7
<1>8. \A m \in RootNode : m \in allocated' <=> prev'[m] # Null
  BY <1>1, <1>2, <1>4 DEF Link, LinksAgree
<1>9. \A m \in RootNode \ allocated' : next'[m] = Null
  BY <1>1, <1>2, <1>5 DEF Link, LinksAgree
<1>10. prev'[Sentinel] = Null
  BY <1>1, <1>3, <1>4
<1>11. \A l \in Link : next'[l] # Sentinel
  BY <1>1, <1>5
<1> QED BY <1>6, <1>7, <1>8, <1>9, <1>10, <1>11

\* Dropping the context clears every link it owned.
LEMMA DropContextInv ==
  ASSUME IInv, DropContext
  PROVE  IInv'
<1>1. TypeOK'
  BY DEF DropContext, IInv, TypeOK
<1>2. \A l \in Link : prev'[l] = Null /\ next'[l] = Null
  BY DEF DropContext
<1>3. LinksAgree'
  BY <1>2, SymbolsDistinct DEF LinksAgree
<1>4. allocated' = {}
  BY DEF DropContext
<1>5. \A l \in Link : next'[l] # Sentinel
  BY <1>2, SymbolsDistinct
<1> QED BY <1>1, <1>2, <1>3, <1>4, <1>5, SymbolsDistinct DEF IInv

\* Forgetting a root, moving the context and stuttering leave the list alone.
LEMMA SameListInv ==
  ASSUME IInv, UNCHANGED <<links, allocated>>, TypeOK'
  PROVE  IInv'
BY DEF IInv, links, LinksAgree

\* Every step keeps the list well formed.
LEMMA NextInv ==
  ASSUME IInv, [Next]_vars
  PROVE  IInv'
<1>1. CASE \E n \in RootNode : ForgetRoot(n)
  <2>1. TypeOK' /\ UNCHANGED <<links, allocated>>
    BY <1>1 DEF ForgetRoot, IInv, TypeOK, links
  <2> QED BY <2>1, SameListInv
<1>2. CASE \E a \in Address : MoveContext(a)
  <2>1. TypeOK' /\ UNCHANGED <<links, allocated>>
    BY <1>2 DEF MoveContext, IInv, TypeOK, links
  <2> QED BY <2>1, SameListInv
<1>3. CASE UNCHANGED vars
  <2>1. TypeOK' /\ UNCHANGED <<links, allocated>>
    BY <1>3 DEF vars, IInv, TypeOK, links
  <2> QED BY <2>1, SameListInv
<1> QED BY <1>1, <1>2, <1>3, NewRootInv, DropRootInv, DropContextInv DEF Next

\* The inductive invariant holds in every reachable state: in particular a link
\* never names a node that was freed.
THEOREM ListInvariant == Spec => []IInv
<1>1. IInv /\ [Next]_vars => IInv'
  BY NextInv
<1> QED BY InitInv, <1>1, PTL DEF Spec

\* Every link and back pointer stays within its type.
THEOREM RootListTypes == Spec => []TypeOK
<1>1. IInv => TypeOK
  BY DEF IInv
<1> QED BY <1>1, ListInvariant, PTL

\* For any number of nodes the list's two directions agree in every state, so a
\* Root can be dropped in any order without damage to the others.
THEOREM LinksAlwaysAgree == Spec => []LinksAgree
<1>1. IInv => LinksAgree
  BY DEF IInv
<1> QED BY <1>1, ListInvariant, PTL
-----------------------------------------------------------------------------
(* The order of the list.  The walk is a recursive function, so what it    *)
(* reaches is found by induction; the library's induction theorems take    *)
(* an operator, so it is done by the least counterexample, on a set.       *)

\* s is the order of the list: the nodes in use, each once, linked one to the
\* next from the sentinel on.
IsOrder(s) ==
  /\ s \in Seq(RootNode)
  /\ \A i, j \in 1 .. Len(s) : s[i] = s[j] => i = j
  /\ \A n \in RootNode : n \in allocated <=> \E i \in 1 .. Len(s) : s[i] = n
  /\ next[Sentinel] = IF Len(s) = 0 THEN Null ELSE s[1]
  /\ \A i \in 1 .. Len(s) : next[s[i]] = IF i = Len(s) THEN Null ELSE s[i + 1]

\* Distinct nodes are no more than there are.
LEMMA OrderLength ==
  ASSUME NEW s, IsOrder(s)
  PROVE  Len(s) \in Nat /\ Cardinality(RootNode) \in Nat /\ Len(s) <= Cardinality(RootNode)
<1>1. s \in [1 .. Len(s) -> RootNode] /\ Len(s) \in Nat
  BY LenProperties DEF IsOrder
<1>2. s \in Injection(1 .. Len(s), RootNode)
  BY <1>1, Fun_IsInj DEF IsOrder
<1>3. Cardinality(1 .. Len(s)) <= Cardinality(RootNode)
  BY <1>2, NodeAssumption, FS_Injection
<1>4. Cardinality(1 .. Len(s)) = Len(s)
  BY <1>1, CountUpTo
<1> QED BY <1>1, <1>3, <1>4, NodeAssumption, FS_CardinalityType

\* Where the iterator is after i steps along an order.
Along(s) == [i \in Steps |-> IF i = 0 THEN Sentinel ELSE IF i <= Len(s) THEN s[i] ELSE Null]

\* The walk exists, and is the order followed by nulls.
LEMMA WalkIsOrder ==
  ASSUME NEW s, IsOrder(s)
  PROVE  Walk = Along(s)
<1> DEFINE N == Cardinality(RootNode) + 1
           step(W, i) == IF i = 0 THEN Sentinel
                         ELSE IF W[i - 1] = Null THEN Null ELSE next[W[i - 1]]
<1>0. Len(s) \in Nat /\ N \in Nat /\ Len(s) < N /\ Steps = 0 .. N
  BY OrderLength DEF Steps
<1>1. \A i \in 1 .. Len(s) : s[i] \in RootNode /\ s[i] # Null
  BY ElementOfSeq, SymbolsDistinct DEF IsOrder
<1> HIDE DEF N
<1>2. Along(s) = [i \in Steps |-> step(Along(s), i)]
  <2>1. ASSUME NEW i \in Steps PROVE Along(s)[i] = step(Along(s), i)
    <3>1. CASE i = 0
      BY <3>1, <1>0 DEF Along
    <3>2. CASE i # 0
      <4>1. i - 1 \in Steps /\ i \in Nat
        BY <3>2, <1>0
      <4>2. Along(s)[i - 1] = IF i - 1 = 0 THEN Sentinel
                              ELSE IF i - 1 <= Len(s) THEN s[i - 1] ELSE Null
        BY <4>1 DEF Along
      <4>3. Along(s)[i] = IF i <= Len(s) THEN s[i] ELSE Null
        BY <3>2 DEF Along
      <4>4. CASE i = 1
        BY <4>4, <4>2, <4>3, <1>0, SymbolsDistinct DEF IsOrder
      <4>5. CASE i # 1 /\ i - 1 <= Len(s)
        <5>1. i - 1 \in 1 .. Len(s) /\ (i - 1) + 1 = i
          BY <4>1, <4>5, <3>2, <1>0
        <5>2. next[s[i - 1]] = IF i - 1 = Len(s) THEN Null ELSE s[i]
          BY <5>1 DEF IsOrder
        <5>3. Along(s)[i - 1] = s[i - 1] /\ s[i - 1] # Null
          BY <4>2, <5>1, <1>1
        <5>4. (i <= Len(s)) <=> ~(i - 1 = Len(s))
          BY <5>1, <1>0
        <5> QED BY <5>2, <5>3, <5>4, <4>3, <3>2
      <4>6. CASE i # 1 /\ ~(i - 1 <= Len(s))
        BY <4>1, <4>2, <4>3, <4>6, <3>2, <1>0
      <4> QED BY <4>4, <4>5, <4>6
    <3> QED BY <3>1, <3>2
  <2>2. Along(s) = [i \in Steps |-> Along(s)[i]]
    BY DEF Along
  <2> HIDE DEF step
  <2> QED BY <2>1, <2>2
<1>3. Walk = [i \in Steps |-> step(Walk, i)]
  <2>1. \E W : W = [i \in Steps |-> step(W, i)]
    BY <1>2
  <2> QED BY <2>1, Zenon DEF Walk
<1>4. ASSUME NEW i \in Steps PROVE Walk[i] = Along(s)[i]
  <2> DEFINE Bad == {j \in Steps : Walk[j] # Along(s)[j]}
  <2>1. SUFFICES ASSUME Bad # {} PROVE FALSE
    OBVIOUS
  <2>2. Bad \in SUBSET Nat
    BY <1>0
  <2>3. PICK j \in Bad : \A k \in Bad : j <= k
    BY <2>1, <2>2, LeastNat
  <2>4. Walk[j] = step(Walk, j) /\ Along(s)[j] = step(Along(s), j)
    BY <1>2, <1>3, <2>3
  <2>5. j # 0
    BY <2>3, <2>4
  <2>6. j - 1 \in Steps /\ j - 1 \notin Bad
    BY <2>2, <2>3, <2>5, <1>0
  <2> QED BY <2>3, <2>4, <2>5, <2>6
<1> QED BY <1>2, <1>3, <1>4

\* A collection visits the nodes in the order of the list.
LEMMA VisitedIsOrder ==
  ASSUME NEW s, IsOrder(s)
  PROVE  Visited = s
<1> DEFINE L == {j \in Steps \ {0} : Walk[j] # Null}
<1>0. Len(s) \in Nat /\ Cardinality(RootNode) \in Nat /\ Len(s) <= Cardinality(RootNode)
  BY OrderLength
<1>1. \A i \in Steps \ {0} : Walk[i] = IF i <= Len(s) THEN s[i] ELSE Null
  BY WalkIsOrder DEF Along
<1>2. \A i \in 1 .. Len(s) : s[i] \in RootNode /\ s[i] # Null
  BY ElementOfSeq, SymbolsDistinct DEF IsOrder
<1>3. L = 1 .. Len(s)
  BY <1>0, <1>1, <1>2 DEF Steps
<1>4. Cardinality(L) = Len(s)
  BY <1>0, <1>3, CountUpTo
<1>5. Visited = [i \in 1 .. Len(s) |-> Walk[i]]
  BY <1>4 DEF Visited
<1>6. s \in [1 .. Len(s) -> RootNode]
  BY LenProperties DEF IsOrder
<1> QED BY <1>0, <1>1, <1>5, <1>6 DEF Steps

\* A new node comes first in the order.
LEMMA NewRootOrder ==
  ASSUME IInv, NEW s, IsOrder(s), NEW n \in RootNode, NewRoot(n)
  PROVE  IsOrder(<<n>> \o s)'
<1> DEFINE t == <<n>> \o s
<1>0. /\ s \in Seq(RootNode) /\ Len(s) \in Nat /\ <<n>> \in Seq(RootNode) /\ Len(<<n>>) = 1
      /\ <<n>>[1] = n
  BY LenProperties DEF IsOrder
<1>1. /\ t \in Seq(RootNode) /\ Len(t) = 1 + Len(s)
      /\ \A i \in 1 .. 1 + Len(s) : t[i] = IF i <= 1 THEN <<n>>[i] ELSE s[i - 1]
  BY <1>0, ConcatProperties
<1>2. /\ t[1] = n
      /\ \A i \in 2 .. Len(s) + 1 : t[i] = s[i - 1] /\ i - 1 \in 1 .. Len(s)
  BY <1>0, <1>1
<1> HIDE DEF t
<1>3. \A i \in 1 .. Len(s) : s[i] \in RootNode /\ s[i] \in allocated /\ s[i] # n /\ s[i] # Sentinel
                              /\ s[i] \in Link
  <2>1. ASSUME NEW i \in 1 .. Len(s) PROVE s[i] \in RootNode /\ s[i] \in allocated
    BY ElementOfSeq, <1>0 DEF IsOrder
  <2> QED BY <2>1, SymbolsDistinct DEF NewRoot
<1>4. \A l \in Link : next'[l] = IF l = Sentinel THEN n
                                 ELSE IF l = n THEN next[Sentinel] ELSE next[l]
  BY SymbolsDistinct DEF NewRoot, LinkAfter, IInv, TypeOK
<1>5. allocated' = allocated \cup {n} /\ n \notin allocated
  BY DEF NewRoot
<1>6. \A i, j \in 1 .. Len(t) : t[i] = t[j] => i = j
  <2> SUFFICES ASSUME NEW i \in 1 .. Len(t), NEW j \in 1 .. Len(t), t[i] = t[j] PROVE i = j
    OBVIOUS
  <2>1. \A h \in 1 .. Len(t) : h # 1 => t[h] # t[1]
    <3> TAKE h \in 1 .. Len(t)
    <3>1. h # 1 => h \in 2 .. Len(s) + 1
      BY <1>0, <1>1
    <3> QED BY <3>1, <1>2, <1>3
  <2>2. CASE i # 1 /\ j # 1
    <3>1. i \in 2 .. Len(s) + 1 /\ j \in 2 .. Len(s) + 1
      BY <2>2, <1>0, <1>1
    <3>2. /\ i - 1 \in 1 .. Len(s) /\ j - 1 \in 1 .. Len(s) /\ s[i - 1] = s[j - 1]
      BY <3>1, <1>2
    <3>3. i - 1 = j - 1
      BY <3>2 DEF IsOrder
    <3> QED BY <3>1, <3>3, <1>0
  <2> QED BY <2>1, <2>2
<1>7. ASSUME NEW m \in RootNode PROVE m \in allocated' <=> \E i \in 1 .. Len(t) : t[i] = m
  <2>1. CASE m = n
    BY <2>1, <1>0, <1>1, <1>2, <1>5
  <2>2. ASSUME m # n, m \in allocated PROVE \E i \in 1 .. Len(t) : t[i] = m
    <3>1. PICK i \in 1 .. Len(s) : s[i] = m
      BY <2>2 DEF IsOrder
    <3>2. i + 1 \in 2 .. Len(s) + 1 /\ i + 1 \in 1 .. Len(t) /\ (i + 1) - 1 = i
      BY <1>0, <1>1
    <3> QED BY <3>1, <3>2, <1>2
  <2>3. ASSUME m # n, NEW i \in 1 .. Len(t), t[i] = m PROVE m \in allocated
    <3>1. i \in 2 .. Len(s) + 1
      BY <2>3, <1>0, <1>1, <1>2
    <3> QED BY <3>1, <2>3, <1>2, <1>3
  <2> QED BY <2>1, <2>2, <2>3, <1>5
<1>8. next'[Sentinel] = IF Len(t) = 0 THEN Null ELSE t[1]
  BY <1>0, <1>1, <1>2, <1>4, SymbolsDistinct
<1>9. ASSUME NEW i \in 1 .. Len(t)
      PROVE  next'[t[i]] = IF i = Len(t) THEN Null ELSE t[i + 1]
  <2>1. CASE i = 1
    <3>1. next'[n] = next[Sentinel]
      BY <1>4, SymbolsDistinct
    <3>2. CASE Len(s) = 0
      BY <3>1, <3>2, <2>1, <1>1, <1>2 DEF IsOrder
    <3>3. CASE Len(s) # 0
      <4>1. 2 \in 2 .. Len(s) + 1 /\ 2 - 1 = 1
        BY <3>3, <1>0
      <4>2. t[2] = s[1]
        BY <4>1, <1>2
      <4> QED BY <3>1, <3>3, <2>1, <4>2, <1>0, <1>1, <1>2 DEF IsOrder
    <3> QED BY <3>2, <3>3
  <2>2. CASE i # 1
    <3>1. i \in 2 .. Len(s) + 1 /\ i - 1 \in 1 .. Len(s)
      BY <2>2, <1>0, <1>1
    <3>2. next'[t[i]] = next[s[i - 1]]
      BY <3>1, <1>2, <1>3, <1>4
    <3>3. next[s[i - 1]] = IF i - 1 = Len(s) THEN Null ELSE s[(i - 1) + 1]
      BY <3>1 DEF IsOrder
    <3>4. CASE i = Len(t)
      BY <3>1, <3>2, <3>3, <3>4, <1>0, <1>1
    <3>5. CASE i # Len(t)
      <4>1. i + 1 \in 2 .. Len(s) + 1 /\ (i + 1) - 1 = (i - 1) + 1 /\ i - 1 # Len(s)
        BY <3>1, <3>5, <1>0, <1>1
      <4> QED BY <4>1, <3>2, <3>3, <3>5, <1>2
    <3> QED BY <3>4, <3>5
  <2> QED BY <2>1, <2>2
<1> QED BY <1>1, <1>6, <1>7, <1>8, <1>9 DEF IsOrder, t

\* A node can be taken out of the order at any place.
LEMMA DropRootOrder ==
  ASSUME IInv, NEW s, IsOrder(s), NEW n \in RootNode, DropRoot(n),
         NEW k \in 1 .. Len(s), s[k] = n
  PROVE  IsOrder(RemoveAt(s, k))'
<1> DEFINE t == RemoveAt(s, k)
<1>0. s \in Seq(RootNode) /\ Len(s) \in Nat /\ \A i \in 1 .. Len(s) : s[i] \in RootNode
  BY LenProperties, ElementOfSeq DEF IsOrder
<1>1. /\ t \in Seq(RootNode) /\ Len(t) = Len(s) - 1
      /\ \A i \in 1 .. Len(s) - 1 : t[i] = IF i < k THEN s[i] ELSE s[i + 1]
  BY <1>0, RemoveAtFacts
<1> HIDE DEF t
<1>2. \A i, j \in 1 .. Len(s) : s[i] = s[j] => i = j
  BY DEF IsOrder
<1>3. \A i \in 1 .. Len(s) : i # k => s[i] # n
  BY <1>2
<1>4. n \in allocated /\ prev[n] # Null /\ allocated' = allocated \ {n}
  BY DEF DropRoot, DropDefined, IInv
<1>5. prev[n] = IF k = 1 THEN Sentinel ELSE s[k - 1]
  <2>1. CASE k = 1
    BY <2>1, SymbolsDistinct, <1>0 DEF IsOrder, IInv, LinksAgree
  <2>2. CASE k # 1
    <3>1. k - 1 \in 1 .. Len(s) /\ k - 1 # Len(s) /\ (k - 1) + 1 = k
      BY <2>2, <1>0
    <3>2. next[s[k - 1]] = n /\ s[k - 1] \in Link
      BY <3>1, <1>0, SymbolsDistinct DEF IsOrder
    <3> QED BY <3>2, <2>2 DEF IInv, LinksAgree
  <2> QED BY <2>1, <2>2
<1>6. next[n] = IF k = Len(s) THEN Null ELSE s[k + 1]
  BY DEF IsOrder
<1>7. \A l \in Link : next'[l] = IF l = n THEN Null
                                 ELSE IF l = prev[n] THEN next[n] ELSE next[l]
  BY <1>4 DEF DropRoot, IsLinked, Unlink, NextJoined
<1>8. \A i, j \in 1 .. Len(t) : t[i] = t[j] => i = j
  <2> SUFFICES ASSUME NEW i \in 1 .. Len(t), NEW j \in 1 .. Len(t), t[i] = t[j] PROVE i = j
    OBVIOUS
  <2>1. /\ i \in 1 .. Len(s) - 1 /\ i \in 1 .. Len(s) /\ i + 1 \in 1 .. Len(s)
        /\ j \in 1 .. Len(s) - 1 /\ j \in 1 .. Len(s) /\ j + 1 \in 1 .. Len(s)
    BY <1>0, <1>1
  <2> QED BY <2>1, <1>1, <1>2
<1>9. ASSUME NEW m \in RootNode PROVE m \in allocated' <=> \E i \in 1 .. Len(t) : t[i] = m
  <2>1. ASSUME m # n, m \in allocated PROVE \E i \in 1 .. Len(t) : t[i] = m
    <3>1. PICK i \in 1 .. Len(s) : s[i] = m
      BY <2>1 DEF IsOrder
    <3>2. CASE i < k
      <4>1. i \in 1 .. Len(s) - 1 /\ i \in 1 .. Len(t)
        BY <3>2, <1>0, <1>1
      <4> QED BY <4>1, <3>1, <3>2, <1>1
    <3>3. CASE i > k
      <4>1. i - 1 \in 1 .. Len(s) - 1 /\ i - 1 \in 1 .. Len(t) /\ ~(i - 1 < k) /\ (i - 1) + 1 = i
        BY <3>3, <1>0, <1>1
      <4> QED BY <4>1, <3>1, <1>1
    <3>4. i # k
      BY <3>1, <2>1
    <3> QED BY <3>2, <3>3, <3>4, <1>0
  <2>2. ASSUME NEW i \in 1 .. Len(t), t[i] = m PROVE m \in allocated /\ m # n
    <3>1. /\ i \in 1 .. Len(s) - 1 /\ i \in 1 .. Len(s) /\ i + 1 \in 1 .. Len(s)
          /\ i < k => i # k
          /\ ~(i < k) => i + 1 # k
      BY <1>0, <1>1
    <3>2. PICK j \in 1 .. Len(s) : s[j] = m /\ j # k
      BY <3>1, <2>2, <1>0, <1>1
    <3> QED BY <3>2, <1>3 DEF IsOrder
  <2> QED BY <2>1, <2>2, <1>4
<1>10. next'[Sentinel] = IF Len(t) = 0 THEN Null ELSE t[1]
  <2>1. CASE k = 1
    <3>1. next'[Sentinel] = next[n]
      BY <2>1, <1>5, <1>7, SymbolsDistinct
    <3>2. Len(s) > 1 => t[1] = s[2]
      BY <2>1, <1>0, <1>1
    <3> QED BY <3>1, <3>2, <2>1, <1>0, <1>1, <1>6
  <2>2. CASE k # 1
    <3>1. k - 1 \in 1 .. Len(s) /\ 1 \in 1 .. Len(s) - 1 /\ 1 < k /\ Len(s) # 0
      BY <2>2, <1>0
    <3>2. prev[n] # Sentinel
      BY <3>1, <2>2, <1>0, <1>5, SymbolsDistinct
    <3>3. next'[Sentinel] = next[Sentinel]
      BY <3>2, <1>7, SymbolsDistinct
    <3> QED BY <3>1, <3>3, <1>0, <1>1 DEF IsOrder
  <2> QED BY <2>1, <2>2
<1>11. ASSUME NEW i \in 1 .. Len(t)
       PROVE  next'[t[i]] = IF i = Len(t) THEN Null ELSE t[i + 1]
  <2>0. /\ i \in 1 .. Len(s) - 1 /\ i \in 1 .. Len(s) /\ i + 1 \in 1 .. Len(s) /\ i \in Nat
        /\ i # Len(t) => i + 1 \in 1 .. Len(s) - 1 /\ (i + 1) + 1 \in 1 .. Len(s)
    BY <1>0, <1>1
  <2>1. CASE i + 1 < k
    <3>1. t[i] = s[i] /\ t[i + 1] = s[i + 1] /\ i # Len(t) /\ i # k /\ i # Len(s)
      BY <2>0, <2>1, <1>0, <1>1
    <3>2. s[i] # n /\ s[i] # prev[n]
      <4>1. k - 1 \in 1 .. Len(s) /\ k # 1 /\ i # k - 1
        BY <2>0, <2>1, <1>0
      <4> QED BY <4>1, <3>1, <2>0, <1>2, <1>3, <1>5
    <3>3. next'[s[i]] = next[s[i]]
      BY <3>2, <2>0, <1>0, <1>7, SymbolsDistinct
    <3>4. next[s[i]] = s[i + 1]
      BY <3>1, <2>0 DEF IsOrder
    <3> QED BY <3>1, <3>3, <3>4
  <2>2. CASE i + 1 = k
    <3>1. t[i] = s[i] /\ s[i] = prev[n] /\ s[i] # n
      BY <2>0, <2>2, <1>0, <1>1, <1>3, <1>5
    <3>2. next'[s[i]] = next[n]
      BY <3>1, <2>0, <1>0, <1>7, SymbolsDistinct
    <3>3. CASE i = Len(t)
      BY <3>1, <3>2, <3>3, <2>0, <2>2, <1>0, <1>1, <1>6
    <3>4. CASE i # Len(t)
      <4>1. t[i + 1] = s[k + 1] /\ k # Len(s)
        BY <3>4, <2>0, <2>2, <1>0, <1>1
      <4> QED BY <4>1, <3>1, <3>2, <3>4, <1>6
    <3> QED BY <3>3, <3>4
  <2>3. CASE i >= k
    <3>1. t[i] = s[i + 1] /\ i + 1 # k
      BY <2>0, <2>3, <1>0, <1>1
    <3>2. s[i + 1] # n /\ s[i + 1] # prev[n]
      <4>1. CASE k = 1
        BY <4>1, <3>1, <2>0, <1>0, <1>3, <1>5, SymbolsDistinct
      <4>2. CASE k # 1
        <5>1. k - 1 \in 1 .. Len(s) /\ i + 1 # k - 1
          BY <4>2, <2>0, <2>3, <1>0
        <5> QED BY <5>1, <4>2, <3>1, <2>0, <1>2, <1>3, <1>5
      <4> QED BY <4>1, <4>2
    <3>3. next'[s[i + 1]] = next[s[i + 1]]
      BY <3>2, <2>0, <1>0, <1>7, SymbolsDistinct
    <3>4. next[s[i + 1]] = IF i + 1 = Len(s) THEN Null ELSE s[(i + 1) + 1]
      BY <2>0 DEF IsOrder
    <3>5. CASE i = Len(t)
      BY <3>1, <3>3, <3>4, <3>5, <2>0, <1>0, <1>1
    <3>6. CASE i # Len(t)
      <4>1. t[i + 1] = s[(i + 1) + 1] /\ i + 1 # Len(s)
        BY <3>6, <2>0, <2>3, <1>0, <1>1
      <4> QED BY <4>1, <3>1, <3>3, <3>4, <3>6
    <3> QED BY <3>5, <3>6
  <2> QED BY <2>0, <2>1, <2>2, <2>3, <1>0
<1> QED BY <1>1, <1>8, <1>9, <1>10, <1>11 DEF IsOrder, t

\* The order of a list is one sequence, the one a collection visits.
OrderIsVisited == \A s : IsOrder(s) => Visited = s

\* VisitedIsOrder, of any state.
LEMMA VisitedIsAnyOrder == OrderIsVisited
BY VisitedIsOrder DEF OrderIsVisited

\* An order of no nodes.
LEMMA EmptyOrder ==
  ASSUME allocated = {}, next[Sentinel] = Null
  PROVE  IsOrder(<<>>)
<1>1. <<>> \in Seq(RootNode) /\ Len(<<>>) = 0 /\ 1 .. Len(<<>>) = {}
  BY EmptySeq
<1> QED BY <1>1 DEF IsOrder

\* Registering a node, dropping its Root and closing the context are what the
\* registry allows, and what a collection visits is the order again; the other
\* steps leave the order alone.
LEMMA OrderNext ==
  ASSUME IInv, IsOrder(Visited), [Next]_vars
  PROVE  IsOrder(Visited)' /\ [Registry!Next]_Visited
<1>1. PICK s : s = Visited
  OBVIOUS
<1>2. \A t : IsOrder(t)' => Visited' = t
  <2>1. OrderIsVisited'
    BY VisitedIsAnyOrder, PTL
  <2> QED BY <2>1 DEF OrderIsVisited
<1>3. IsOrder(s)
  BY <1>1
<1>4. ASSUME NEW t, IsOrder(t)' PROVE Visited' = t /\ IsOrder(Visited)'
  <2>1. Visited' = t
    BY <1>2, <1>4
  <2> QED BY <2>1, <1>4 DEF IsOrder
<1>5. CASE \E n \in RootNode : NewRoot(n)
  <2>1. PICK n \in RootNode : NewRoot(n)
    BY <1>5
  <2>2. IsOrder(<<n>> \o s)'
    BY <1>3, <2>1, NewRootOrder
  <2>3. n \notin ToSet(s)
    <3>1. DOMAIN s = 1 .. Len(s)
      BY <1>3, LenProperties DEF IsOrder
    <3> QED BY <3>1, <1>3, <2>1 DEF IsOrder, NewRoot, ToSet
  <2>4. Visited' = <<n>> \o s
    BY <1>4, <2>2
  <2>5. Registry!Register(n)
    BY <1>1, <2>3, <2>4 DEF Registry!Register, Registry!ToSet, ToSet
  <2> QED BY <1>4, <2>2, <2>5 DEF Registry!Next
<1>6. CASE \E n \in RootNode : DropRoot(n)
  <2>1. PICK n \in RootNode : DropRoot(n)
    BY <1>6
  <2>2. PICK k \in 1 .. Len(s) : s[k] = n
    BY <1>3, <2>1 DEF IsOrder, DropRoot, DropDefined
  <2>3. IsOrder(RemoveAt(s, k))'
    BY <1>3, <2>1, <2>2, DropRootOrder
  <2>4. Visited' = RemoveAt(s, k)
    BY <1>4, <2>3
  <2>5. k \in DOMAIN s
    BY <1>3, <2>2, LenProperties DEF IsOrder
  <2>6. Registry!Unregister(n)
    BY <1>1, <2>2, <2>4, <2>5 DEF Registry!Unregister, Registry!RemoveAt, RemoveAt
  <2> QED BY <1>4, <2>3, <2>6 DEF Registry!Next
<1>7. CASE DropContext
  <2>1. IsOrder(<<>>)'
    <3>1. allocated' = {} /\ next'[Sentinel] = Null
      BY <1>7, SymbolsDistinct DEF DropContext
    <3>2. (allocated = {} /\ next[Sentinel] = Null => IsOrder(<<>>))'
      BY EmptyOrder, PTL
    <3> QED BY <3>1, <3>2
  <2>2. Registry!Close
    BY <1>4, <2>1 DEF Registry!Close
  <2> QED BY <1>4, <2>1, <2>2 DEF Registry!Next
<1>8. CASE UNCHANGED <<links, allocated>>
  <2>1. IsOrder(s)'
    BY <1>3, <1>8 DEF IsOrder, links
  <2> QED BY <1>1, <1>4, <2>1
<1> QED
  BY <1>5, <1>6, <1>7, <1>8 DEF Next, ForgetRoot, MoveContext, vars, links

\* In every state what a collection visits is the order of the list.
LEMMA AlwaysOrder == Spec => [](IInv /\ IsOrder(Visited))
<1>1. Init => IsOrder(Visited)
  <2> SUFFICES ASSUME Init PROVE IsOrder(Visited)
    OBVIOUS
  <2>1. IsOrder(<<>>)
    BY EmptyOrder, SymbolsDistinct DEF Init
  <2>2. Visited = <<>>
    BY <2>1, VisitedIsOrder
  <2> QED BY <2>1, <2>2
<1>2. IInv /\ IsOrder(Visited) /\ [Next]_vars => IInv' /\ IsOrder(Visited)'
  BY NextInv, OrderNext
<1> QED BY InitInv, <1>1, <1>2, PTL DEF Spec

\* For any number of nodes a collection visits every registered node exactly once,
\* whatever mixture of roots was made, dropped and forgotten before it.
THEOREM EveryRootVisited == Spec => []VisitsEveryRoot
<1>1. IInv /\ IsOrder(Visited) => VisitsEveryRoot
  <2> SUFFICES ASSUME IInv, IsOrder(Visited) PROVE VisitsEveryRoot
    OBVIOUS
  <2>1. DOMAIN Visited = 1 .. Len(Visited)
    BY LenProperties DEF IsOrder
  <2>2. IsInjective(Visited)
    BY <2>1 DEF IsOrder, IsInjective
  <2>3. ToSet(Visited) = allocated
    <3>1. \A i \in 1 .. Len(Visited) : Visited[i] \in RootNode
      BY ElementOfSeq DEF IsOrder
    <3>2. allocated \subseteq RootNode
      BY DEF IInv, TypeOK
    <3>3. ToSet(Visited) = {Visited[i] : i \in 1 .. Len(Visited)}
      BY <2>1 DEF ToSet
    <3>4. \A n \in RootNode : n \in allocated <=> \E i \in 1 .. Len(Visited) : Visited[i] = n
      BY DEF IsOrder
    <3> QED BY <3>1, <3>2, <3>3, <3>4
  <2> QED BY <2>2, <2>3 DEF VisitsEveryRoot
<1> QED BY <1>1, AlwaysOrder, PTL

\* The linked list is the registry the collector needs: nodes come in front, go
\* from anywhere, and a collection reads them newest first.
THEOREM ListImplementsRegistry == Spec => ImplementsRegistry
<1>1. Init => Registry!Init
  <2> SUFFICES ASSUME Init PROVE Visited = <<>>
    BY DEF Registry!Init
  <2>1. IsOrder(<<>>)
    BY EmptyOrder, SymbolsDistinct DEF Init
  <2> QED BY <2>1, VisitedIsOrder
<1>2. IInv /\ IsOrder(Visited) /\ [Next]_vars => [Registry!Next]_Visited
  BY OrderNext
<1> QED BY <1>1, <1>2, AlwaysOrder, PTL DEF Spec, ImplementsRegistry, Registry!Spec
=============================================================================
