--------------------------- MODULE FreeStackProofs ---------------------------
(***************************************************************************)
(* Proofs about FreeStack, for any number of threads, nodes and indices:   *)
(* LockFreeStack is a stack although a thread reads the next of a node     *)
(* that others have freed and pushed again. The stamp of top_ is what      *)
(* tells it.                                                               *)
(***************************************************************************)
EXTENDS FreeStack, FiniteSetTheorems, SequenceTheorems, WellFoundedInduction, TLAPS

-----------------------------------------------------------------------------
(* A set of numbers has a least one: induction over the data goes by it.   *)

Below == {pair \in Nat \X Nat : pair[1] < pair[2]}

LEMMA Least ==
  ASSUME NEW S \in SUBSET Nat, S # {}
  PROVE  \E n \in S : \A m \in S : n <= m
<1>1. IsWellFoundedOn(Below, Nat)
  BY NatLessThanWellFounded DEF OpToRel, Below
<1>2. PICK n \in S : \A m \in S : ~(<<m, n>> \in Below)
  BY <1>1, WFMin
<1>3. \A m \in S : ~(m < n)
  BY <1>2 DEF Below
<1>4. QED
  BY <1>3

-----------------------------------------------------------------------------
(* Lists of nodes.                                                         *)

LEMMA WalkType ==
  ASSUME StackAssumption, NEW l \in Walks
  PROVE  /\ l \in Seq(Nodes) /\ Len(l) \in Nat /\ DOMAIN l = 1..Len(l) /\ l \in [1..Len(l) -> Nodes]
         /\ l # <<>> <=> Len(l) >= 1
<1>1. PICK k \in 0..Cardinality(Nodes) : l \in [1..k -> Nodes]
  BY DEF Walks
<1>2. k \in Nat
  BY <1>1, FS_CardinalityType DEF StackAssumption
<1>3. l \in Seq(Nodes) /\ Len(l) = k
  BY <1>1, <1>2
<1>4. QED
  BY <1>1, <1>2, <1>3

\* The links of a list lead along another with the same beginning.
LEMMA Along ==
  ASSUME StackAssumption, NEW nx, NEW n, NEW l \in Lists(nx, n), NEW m \in Lists(nx, n)
  PROVE  \A i \in DOMAIN l : i \in DOMAIN m /\ l[i] = m[i]
<1>1. /\ Len(l) \in Nat /\ DOMAIN l = 1..Len(l) /\ l \in [1..Len(l) -> Nodes] /\ (l # <<>> => n = l[1])
      /\ \A i \in DOMAIN l : nx[l[i]] = IF i = Len(l) THEN nullptr ELSE l[i + 1]
      /\ l # <<>> <=> Len(l) >= 1
  BY WalkType DEF Lists
<1>2. /\ Len(m) \in Nat /\ DOMAIN m = 1..Len(m) /\ n = (IF m = <<>> THEN nullptr ELSE m[1])
      /\ \A i \in DOMAIN m : nx[m[i]] = IF i = Len(m) THEN nullptr ELSE m[i + 1]
      /\ m # <<>> <=> Len(m) >= 1
  BY WalkType DEF Lists
<1> DEFINE S == {i \in DOMAIN l : i \notin DOMAIN m \/ l[i] # m[i]}
<1>3. SUFFICES ASSUME S # {} PROVE FALSE
  OBVIOUS
<1>4. PICK k \in S : \A i \in S : ~(i < k)
  <2>1. S \in SUBSET Nat
    BY <1>1
  <2> HIDE DEF S
  <2>2. PICK k \in S : \A i \in S : k <= i
    BY <1>3, <2>1, Least
  <2>3. QED
    BY <2>1, <2>2
<1>5. k \in 1..Len(l) /\ l[k] \in Nodes /\ l[k] # nullptr
  BY <1>1 DEF StackAssumption
<1>6. CASE k = 1
  <2>1. n = l[1] /\ m # <<>>
    BY <1>1, <1>2, <1>5, <1>6
  <2>2. QED
    BY <1>2, <1>4, <1>6, <2>1
<1>7. CASE k # 1
  <2>1. k - 1 \in DOMAIN l /\ k - 1 \notin S /\ k - 1 # Len(l) /\ (k - 1) + 1 = k
    BY <1>1, <1>4, <1>5, <1>7
  <2>2. k - 1 \in DOMAIN m /\ l[k - 1] = m[k - 1]
    BY <2>1
  <2>3. nx[m[k - 1]] = l[k]
    BY <1>1, <2>1, <2>2
  <2>4. k - 1 # Len(m)
    BY <1>2, <1>5, <2>2, <2>3
  <2>5. k \in DOMAIN m /\ m[k] = l[k]
    BY <1>2, <1>5, <2>1, <2>2, <2>3, <2>4
  <2>6. QED
    BY <1>4, <2>5
<1>8. QED
  BY <1>6, <1>7

LEMMA OneList ==
  ASSUME StackAssumption, NEW nx, NEW n, NEW l \in Lists(nx, n), NEW m \in Lists(nx, n)
  PROVE  l = m
<1>1. (\A i \in DOMAIN l : i \in DOMAIN m /\ l[i] = m[i]) /\ (\A i \in DOMAIN m : i \in DOMAIN l)
  BY Along
<1>2. /\ Len(l) \in Nat /\ DOMAIN l = 1..Len(l) /\ l \in [1..Len(l) -> Nodes]
      /\ Len(m) \in Nat /\ DOMAIN m = 1..Len(m) /\ m \in [1..Len(m) -> Nodes]
  BY WalkType DEF Lists
<1>3. DOMAIN l = DOMAIN m
  BY <1>1
<1>4. QED
  BY <1>1, <1>2, <1>3

\* A list without a node twice is short enough to be looked for.
LEMMA ShortLists ==
  ASSUME StackAssumption, NEW k \in Nat, NEW l \in [1..k -> Nodes],
         \A i, j \in 1..k : l[i] = l[j] => i = j
  PROVE  l \in Walks
<1>1. IsFiniteSet(1..k) /\ Cardinality(1..k) = k
  BY FS_Interval
<1>2. l \in Injection(1..k, Nodes)
  BY DEF Injection, IsInjective
<1>3. Cardinality(1..k) <= Cardinality(Nodes)
  BY <1>1, <1>2, FS_Injection DEF StackAssumption
<1>4. k \in 0..Cardinality(Nodes)
  BY <1>1, <1>3, FS_CardinalityType DEF StackAssumption
<1>5. QED
  BY <1>4 DEF Walks

LEMMA ListIs ==
  ASSUME StackAssumption, NEW l \in Lists(next', top'.addr)
  PROVE  Listed' = l
<1>1. Listed' \in Lists(next', top'.addr)
  BY DEF Listed
<1>2. QED
  BY <1>1, OneList

LEMMA ListFacts ==
  ASSUME StackAssumption, ListLinked
  PROVE  /\ Listed \in Lists(next, top.addr) /\ Listed \in Seq(Nodes)
         /\ Len(Listed) \in Nat /\ DOMAIN Listed = 1..Len(Listed) /\ Listed \in [1..Len(Listed) -> Nodes]
         /\ Listed # <<>> <=> Len(Listed) >= 1
         /\ top.addr = (IF Listed = <<>> THEN nullptr ELSE Listed[1])
         /\ \A i \in DOMAIN Listed : next[Listed[i]] = IF i = Len(Listed) THEN nullptr ELSE Listed[i + 1]
<1>1. Listed \in Lists(next, top.addr)
  BY DEF Listed, ListLinked
<1>2. QED
  BY <1>1, WalkType DEF Lists

-----------------------------------------------------------------------------
(* What a step leaves as it is.                                            *)

LEMMA SameList ==
  ASSUME StackAssumption, ListLinked, top'.addr = top.addr,
         \A i \in DOMAIN Listed : next'[Listed[i]] = next[Listed[i]],
         \A i \in DOMAIN Listed : Listed[i] \notin pool'
  PROVE  Listed' = Listed /\ ListLinked'
<1>1. Listed \in Lists(next, top.addr)
  BY ListFacts
<1>2. Listed \in Lists(next', top'.addr)
  <2> HIDE DEF Listed
  <2>1. QED
    BY <1>1 DEF Lists
<1>3. Listed' = Listed
  BY <1>2, ListIs
<1>4. QED
  BY <1>2, <1>3 DEF ListLinked

\* A thread that does nothing: top_ is what it was, or its stamp has gone up.
LEMMA Bystander ==
  ASSUME TypeOK, NEW u \in Threads, ThreadSupport(u),
         pc'[u] = pc[u], node'[u] = node[u], localTop'[u] = localTop[u], localNext'[u] = localNext[u],
         next'[node[u]] = next[node[u]], node[u] \notin pool', \A i \in DOMAIN Listed' : Listed'[i] # node[u],
         top'.stamp >= top.stamp, top'.stamp \in Nat,
         top' # top => top'.stamp > top.stamp,
         next'[top.addr] = next[top.addr]
  PROVE  ThreadSupport(u)'
<1>1. localTop[u].stamp \in Nat /\ top.stamp \in Nat
  BY DEF TypeOK, Pointer
<1>2. pc[u] = "unlink" /\ localTop[u] = top' => localTop[u] = top
  BY <1>1 DEF ThreadSupport
<1>3. pc[u] \in {"link", "next", "unlink"} => localTop[u].stamp <= top'.stamp
  BY <1>1 DEF ThreadSupport
<1>4. QED
  BY <1>2, <1>3 DEF ThreadSupport

-----------------------------------------------------------------------------
(* Where an index is.                                                      *)

InList(i) == {n \in Nodes : data[n] = i /\ \E k \in DOMAIN Listed : Listed[k] = n}
Holders(i) == {t \in Threads : i \in held[t]}
OnePlace(i) == Cardinality(InList(i)) + Cardinality(InHand(i)) + Cardinality(Holders(i)) = 1

LEMMA PlacesFinite ==
  ASSUME StackAssumption, NEW i
  PROVE  /\ IsFiniteSet(InList(i)) /\ IsFiniteSet(InHand(i)) /\ IsFiniteSet(Holders(i))
         /\ Cardinality(InList(i)) \in Nat /\ Cardinality(InHand(i)) \in Nat /\ Cardinality(Holders(i)) \in Nat
<1>1. InList(i) \subseteq Nodes /\ InHand(i) \subseteq Threads /\ Holders(i) \subseteq Threads
  BY DEF InList, InHand, Holders
<1>2. IsFiniteSet(InList(i)) /\ IsFiniteSet(InHand(i)) /\ IsFiniteSet(Holders(i))
  BY <1>1, FS_Subset DEF StackAssumption
<1>3. QED
  BY <1>2, FS_CardinalityType

\* A node is in the list once, so that places of the list are nodes.
LEMMA NodesForPlaces ==
  StackAssumption /\ ListLinked
    => \A i : Cardinality({k \in DOMAIN Listed : data[Listed[k]] = i}) = Cardinality(InList(i))
<1> SUFFICES ASSUME StackAssumption, ListLinked, NEW i
    PROVE  Cardinality({k \in DOMAIN Listed : data[Listed[k]] = i}) = Cardinality(InList(i))
  OBVIOUS
<1> DEFINE S == {k \in DOMAIN Listed : data[Listed[k]] = i}
           f == [k \in S |-> Listed[k]]
<1>1. DOMAIN Listed = 1..Len(Listed) /\ Len(Listed) \in Nat /\ Listed \in [1..Len(Listed) -> Nodes]
  BY ListFacts
<1>2. IsFiniteSet(S)
  <2>1. IsFiniteSet(1..Len(Listed))
    BY <1>1, FS_Interval
  <2>2. QED
    BY <1>1, <2>1, FS_Subset
<1>3. f \in Bijection(S, InList(i))
  <2>1. f \in [S -> InList(i)]
    BY <1>1 DEF InList
  <2>2. \A a, b \in S : f[a] = f[b] => a = b
    BY DEF ListLinked
  <2>3. \A n \in InList(i) : \E k \in S : f[k] = n
    BY DEF InList
  <2> HIDE DEF f, S
  <2>4. QED
    BY <2>1, <2>2, <2>3 DEF Bijection, Injection, Surjection, IsInjective
<1> HIDE DEF f, S
<1>4. Cardinality(S) = Cardinality(InList(i))
  BY <1>2, <1>3, FS_Bijection DEF ExistsBijection
<1>5. QED
  BY <1>4 DEF S

LEMMA IndexOnceIs ==
  StackAssumption /\ ListLinked => (IndexOnce <=> \A i \in Indices : OnePlace(i))
BY NodesForPlaces DEF IndexOnce, OnePlace, Holders

LEMMA IndexOnceNext ==
  ASSUME StackAssumption, ListLinked', \A i \in Indices : OnePlace(i)'
  PROVE  IndexOnce'
<1>1. (StackAssumption /\ ListLinked => (IndexOnce <=> \A i \in Indices : OnePlace(i)))'
  BY IndexOnceIs, PTL
<1>2. QED
  BY <1>1

\* x is not in one of the sets that count an index any more, and in another now.
LEMMA Gone ==
  ASSUME NEW S, NEW x, IsFiniteSet(S), x \in S
  PROVE  Cardinality(S \ {x}) = Cardinality(S) - 1 /\ Cardinality(S) \in Nat
BY FS_RemoveElement, FS_CardinalityType

LEMMA Come ==
  ASSUME NEW S, NEW x, IsFiniteSet(S), x \notin S
  PROVE  Cardinality(S \cup {x}) = Cardinality(S) + 1 /\ Cardinality(S) \in Nat
BY FS_AddElement, FS_CardinalityType

LEMMA PlacesSame ==
  ASSUME StackAssumption, StackInv, ListLinked', data' = data, Listed' = Listed, node' = node, held' = held
  PROVE  IndexOnce'
<1>1. \A i \in Indices : OnePlace(i)
  BY IndexOnceIs DEF StackInv
<1>2. \A i \in Indices : InList(i)' = InList(i) /\ InHand(i)' = InHand(i) /\ Holders(i)' = Holders(i)
  BY DEF InList, InHand, Holders
<1>3. \A i \in Indices : OnePlace(i)'
  BY <1>1, <1>2 DEF OnePlace
<1>4. QED
  BY <1>3, IndexOnceNext

-----------------------------------------------------------------------------
(* The length of the list and size_.                                       *)

UnderWay == {"inc", "pop", "next", "unlink", "fail"}
Busy == {t \in Threads : pc[t] \in UnderWay}

LEMMA SizeMoves ==
  ASSUME StackAssumption, TypeOK, SizeSettles, NEW t \in Threads, NEW l, pc' = [pc EXCEPT ![t] = l],
         ListLinked, ListLinked', size' \in Int,
         size' - Len(Listed') - (size - Len(Listed))
           = (IF pc[t] \in UnderWay THEN 1 ELSE 0) - (IF l \in UnderWay THEN 1 ELSE 0)
  PROVE  SizeSettles'
<1>1. IsFiniteSet(Busy) /\ Cardinality(Busy) \in Nat
  BY FS_Subset, FS_CardinalityType DEF Busy, StackAssumption
<1>2. Cardinality(Busy') = Cardinality(Busy) - (IF pc[t] \in UnderWay THEN 1 ELSE 0) + (IF l \in UnderWay THEN 1 ELSE 0)
  <2>1. CASE pc[t] \in UnderWay /\ l \in UnderWay
    <3>1. Busy' = Busy
      BY <2>1 DEF Busy, TypeOK
    <3>2. QED
      BY <1>1, <2>1, <3>1
  <2>2. CASE pc[t] \in UnderWay /\ l \notin UnderWay
    <3>1. Busy' = Busy \ {t} /\ t \in Busy
      BY <2>2 DEF Busy, TypeOK
    <3>2. QED
      BY <1>1, <2>2, <3>1, Gone
  <2>3. CASE pc[t] \notin UnderWay /\ l \in UnderWay
    <3>1. Busy' = Busy \cup {t} /\ t \notin Busy
      BY <2>3 DEF Busy, TypeOK
    <3>2. QED
      BY <1>1, <2>3, <3>1, Come
  <2>4. CASE pc[t] \notin UnderWay /\ l \notin UnderWay
    <3>1. Busy' = Busy
      BY <2>4 DEF Busy, TypeOK
    <3>2. QED
      BY <1>1, <2>4, <3>1
  <2>5. QED
    BY <2>1, <2>2, <2>3, <2>4
<1>3. size = Len(Listed) - Cardinality(Busy)
  BY DEF SizeSettles, Busy, UnderWay
<1>4. Len(Listed) \in Nat
  BY ListFacts
<1>5. Len(Listed') \in Nat
  <2>1. (StackAssumption /\ ListLinked => Len(Listed) \in Nat)'
    BY ListFacts, PTL
  <2>2. QED
    BY <2>1
<1>6. size' = Len(Listed') - Cardinality(Busy')
  BY <1>1, <1>2, <1>3, <1>4, <1>5, SMTT(30), SMTT(30)
<1>7. QED
  BY <1>6 DEF SizeSettles, Busy, UnderWay

LEMMA SizeStays ==
  ASSUME StackAssumption, TypeOK, SizeSettles, NEW t \in Threads, NEW l, pc' = [pc EXCEPT ![t] = l],
         ListLinked, ListLinked', size' = size, Listed' = Listed, pc[t] \in UnderWay <=> l \in UnderWay
  PROVE  SizeSettles'
<1>1. Len(Listed) \in Nat /\ size \in Int
  BY ListFacts DEF TypeOK
<1>2. size' - Len(Listed') - (size - Len(Listed)) = 0
  BY <1>1
<1>3. (IF pc[t] \in UnderWay THEN 1 ELSE 0) - (IF l \in UnderWay THEN 1 ELSE 0) = 0
  OBVIOUS
<1>4. QED
  BY <1>1, <1>2, <1>3, SizeMoves

-----------------------------------------------------------------------------
(* The actions. Each step types its variables, keeps the list or changes   *)
(* it at the top, and is seen by its own thread only.                      *)

USE DEF At, Goto

LEMMA Typing ==
  ASSUME StackAssumption, TypeOK
  PROVE  /\ top.addr \in Nodes \cup {nullptr} /\ top.stamp \in 0..MaxStamp /\ top.stamp \in Nat
         /\ MaxStamp \in Nat /\ nullptr \notin Nodes
         /\ \A t \in Threads : /\ node[t] \in Nodes \cup {nullptr} /\ localTop[t] \in Pointer
                               /\ localTop[t].addr \in Nodes \cup {nullptr} /\ localTop[t].stamp \in Nat
                               /\ localNext[t] \in Nodes \cup {nullptr}
         /\ NoPointer \in Pointer
BY DEF StackAssumption, TypeOK, Pointer, NoPointer

LEMMA NewNodeKeeps ==
  ASSUME StackAssumption, StackInv, NEW t \in Threads, NewNode(t)
  PROVE  StackInv'
<1> USE DEF StackInv
<1>1. PICK i \in held[t], n \in pool :
        /\ held' = [held EXCEPT ![t] = @ \ {i}]
        /\ pool' = pool \ {n}
        /\ data' = [data EXCEPT ![n] = i]
        /\ node' = [node EXCEPT ![t] = n]
        /\ pc[t] = "idle" /\ pc' = [pc EXCEPT ![t] = "push"]
        /\ UNCHANGED <<next, top, size, localTop, localNext>>
  BY DEF NewNode
<1>2. i \in Indices /\ n \in Nodes /\ n # nullptr /\ node[t] = nullptr
  BY <1>1 DEF TypeOK, ThreadSupport, StackAssumption
<1>3. TypeOK'
  BY <1>1, <1>2 DEF TypeOK
<1>4. Listed' = Listed /\ ListLinked'
  BY <1>1, SameList DEF ListLinked
<1>5. \A k \in DOMAIN Listed : Listed[k] # n
  BY <1>1 DEF ListLinked
<1>6. \A u \in Threads : node[u] # n
  BY <1>1 DEF ThreadSupport
<1>7. OwnNodes'
  BY <1>1, <1>3, <1>6 DEF OwnNodes, TypeOK
<1>8. \A u \in Threads : ThreadSupport(u)'
  <2>1. ThreadSupport(t)'
    BY <1>1, <1>2, <1>4, <1>5 DEF ThreadSupport, TypeOK
  <2>2. ASSUME NEW u \in Threads, u # t PROVE ThreadSupport(u)'
    <3>1. /\ pc'[u] = pc[u] /\ node'[u] = node[u] /\ localTop'[u] = localTop[u] /\ localNext'[u] = localNext[u]
          /\ node[u] \notin pool' /\ \A k \in DOMAIN Listed' : Listed'[k] # node[u]
      BY <1>1, <1>4, <2>2 DEF ThreadSupport, TypeOK
    <3>2. QED
      BY <1>1, <3>1, Typing, Bystander
  <2>3. QED
    BY <2>1, <2>2
<1>9. IndexOnce'
  <2>1. ASSUME NEW j \in Indices PROVE OnePlace(j)'
    <3>1. OnePlace(j)
      BY IndexOnceIs
    <3>2. InList(j)' = InList(j)
      BY <1>1, <1>2, <1>4, <1>5 DEF InList, TypeOK
    <3>3. CASE j = i
      <4>1. InHand(i)' = InHand(i) \cup {t} /\ t \notin InHand(i)
        BY <1>1, <1>2, <1>6 DEF InHand, TypeOK
      <4>2. Holders(i)' = Holders(i) \ {t} /\ t \in Holders(i)
        BY <1>1 DEF Holders, TypeOK
      <4>3. QED
        BY <3>1, <3>2, <3>3, <4>1, <4>2, PlacesFinite, Gone, Come DEF OnePlace
    <3>4. CASE j # i
      <4>1. InHand(j)' = InHand(j)
        BY <1>1, <1>2, <1>6, <3>4 DEF InHand, TypeOK
      <4>2. Holders(j)' = Holders(j)
        BY <1>1, <3>4 DEF Holders, TypeOK
      <4>3. QED
        BY <3>1, <3>2, <4>1, <4>2 DEF OnePlace
    <3>5. QED
      BY <3>3, <3>4
  <2>2. QED
    BY <1>4, <2>1, IndexOnceNext
<1>10. SizeSettles'
  BY <1>1, <1>4, SizeStays DEF UnderWay
<1>11. QED
  BY <1>3, <1>4, <1>7, <1>8, <1>9, <1>10

LEMMA ReadTopToPushKeeps ==
  ASSUME StackAssumption, StackInv, NEW t \in Threads, ReadTopToPush(t)
  PROVE  StackInv'
<1> USE DEF StackInv
<1>1. /\ pc[t] = "push" /\ pc' = [pc EXCEPT ![t] = "link"]
      /\ localTop' = [localTop EXCEPT ![t] = top] /\ next' = [next EXCEPT ![node[t]] = top.addr]
      /\ UNCHANGED <<data, pool, top, size, held, node, localNext>>
  BY DEF ReadTopToPush
<1>2. node[t] \in Nodes /\ node[t] # nullptr /\ \A k \in DOMAIN Listed : Listed[k] # node[t]
  BY <1>1 DEF TypeOK, ThreadSupport
<1>3. TypeOK'
  BY <1>1, Typing DEF TypeOK
<1>4. Listed' = Listed /\ ListLinked'
  <2>1. \A k \in DOMAIN Listed : Listed[k] \in Nodes
    BY ListFacts
  <2>2. \A k \in DOMAIN Listed : next'[Listed[k]] = next[Listed[k]]
    BY <1>1, <1>2, <2>1 DEF TypeOK
  <2>3. QED
    BY <1>1, <2>2, SameList DEF ListLinked
<1>5. OwnNodes'
  BY <1>1 DEF OwnNodes
<1>6. top.addr # node[t]
  <2>1. top.addr = nullptr \/ \E k \in DOMAIN Listed : Listed[k] = top.addr
    BY ListFacts
  <2>2. QED
    BY <1>2, <2>1
<1>7. \A u \in Threads : ThreadSupport(u)'
  <2>1. ThreadSupport(t)'
    BY <1>1, <1>2, <1>4, Typing DEF ThreadSupport, TypeOK
  <2>2. ASSUME NEW u \in Threads, u # t PROVE ThreadSupport(u)'
    <3>1. node[u] # node[t]
      BY <1>2, <2>2 DEF OwnNodes
    <3>2. /\ pc'[u] = pc[u] /\ node'[u] = node[u] /\ localTop'[u] = localTop[u] /\ localNext'[u] = localNext[u]
          /\ node[u] \notin pool' /\ \A k \in DOMAIN Listed' : Listed'[k] # node[u]
          /\ next'[node[u]] = next[node[u]] /\ next'[top.addr] = next[top.addr]
      <4>1. \A x : x # node[t] => next'[x] = next[x]
        BY <1>1 DEF TypeOK
      <4>2. QED
        BY <1>1, <1>4, <1>6, <2>2, <3>1, <4>1 DEF ThreadSupport, TypeOK
    <3>3. QED
      BY <1>1, <3>2, Typing, Bystander
  <2>3. QED
    BY <2>1, <2>2
<1>8. IndexOnce'
  BY <1>1, <1>4, PlacesSame
<1>9. SizeSettles'
  BY <1>1, <1>4, SizeStays DEF UnderWay
<1>10. QED
  BY <1>3, <1>4, <1>5, <1>7, <1>8, <1>9

\* A step that reads, or counts: memory, top_ and what threads own stay.
LEMMA QuietKeeps ==
  ASSUME StackAssumption, StackInv, NEW t \in Threads, NEW l, TypeOK', ThreadSupport(t)',
         pc' = [pc EXCEPT ![t] = l], UNCHANGED <<data, next, pool, top, held, node>>,
         \A u \in Threads : u # t => localTop'[u] = localTop[u] /\ localNext'[u] = localNext[u],
         size' - size = (IF pc[t] \in UnderWay THEN 1 ELSE 0) - (IF l \in UnderWay THEN 1 ELSE 0)
  PROVE  StackInv'
<1> USE DEF StackInv
<1>1. Listed' = Listed /\ ListLinked'
  BY SameList DEF ListLinked
<1>2. OwnNodes'
  BY DEF OwnNodes
<1>3. \A u \in Threads : ThreadSupport(u)'
  <2>1. ASSUME NEW u \in Threads, u # t PROVE ThreadSupport(u)'
    <3>1. /\ pc'[u] = pc[u] /\ node'[u] = node[u]
          /\ node[u] \notin pool' /\ \A k \in DOMAIN Listed' : Listed'[k] # node[u]
      BY <1>1, <2>1 DEF ThreadSupport, TypeOK
    <3>2. QED
      BY <2>1, <3>1, Typing, Bystander
  <2>2. QED
    BY <2>1
<1>4. IndexOnce'
  BY <1>1, PlacesSame
<1>5. SizeSettles'
  <2>1. Len(Listed) \in Nat /\ size \in Int /\ size' \in Int
    BY ListFacts DEF TypeOK
  <2>2. size' - Len(Listed') - (size - Len(Listed)) = size' - size
    BY <1>1, <2>1
  <2>3. QED
    BY <1>1, <2>1, <2>2, SizeMoves
<1>6. QED
  BY <1>1, <1>2, <1>3, <1>4, <1>5

LEMMA LinkRetriedKeeps ==
  ASSUME StackAssumption, StackInv, NEW t \in Threads, LinkNode(t), top # localTop[t]
  PROVE  StackInv'
<1> USE DEF StackInv
<1>1. /\ pc[t] = "link" /\ pc' = [pc EXCEPT ![t] = "push"] /\ localTop' = [localTop EXCEPT ![t] = NoPointer]
      /\ UNCHANGED <<data, next, pool, top, size, held, node, localNext>>
  BY DEF LinkNode, memory
<1>2. TypeOK'
  BY <1>1, Typing DEF TypeOK
<1>3. Listed' = Listed
  BY <1>1, SameList DEF ListLinked
<1>4. ThreadSupport(t)'
  BY <1>1, <1>3 DEF ThreadSupport, TypeOK
<1>5. size' - size = 0 /\ "link" \notin UnderWay /\ "push" \notin UnderWay
  BY <1>1 DEF TypeOK, UnderWay
<1>6. \A u \in Threads : u # t => localTop'[u] = localTop[u] /\ localNext'[u] = localNext[u]
  BY <1>1 DEF TypeOK
<1>7. size' - size = (IF pc[t] \in UnderWay THEN 1 ELSE 0) - (IF "push" \in UnderWay THEN 1 ELSE 0)
  BY <1>1, <1>5
<1>8. QED
  BY <1>1, <1>2, <1>4, <1>6, <1>7, QuietKeeps

\* The exchange of top_: a node more.
LEMMA LinkExtends ==
  ASSUME StackAssumption, StackInv, NEW t \in Threads, pc[t] = "link", top = localTop[t],
         top'.addr = node[t], UNCHANGED memory
  PROVE  /\ ListLinked'
         /\ Listed' = [k \in 1 .. Len(Listed) + 1 |-> IF k = 1 THEN node[t] ELSE Listed[k - 1]]
         /\ Len(Listed') = Len(Listed) + 1
<1> USE DEF StackInv
<1> DEFINE n == node[t]
           len == Len(Listed)
           l == [k \in 1 .. len + 1 |-> IF k = 1 THEN n ELSE Listed[k - 1]]
<1>1. /\ len \in Nat /\ DOMAIN Listed = 1..len /\ Listed \in [1..len -> Nodes]
      /\ top.addr = (IF Listed = <<>> THEN nullptr ELSE Listed[1]) /\ (Listed # <<>> <=> len >= 1)
      /\ \A i \in DOMAIN Listed : next[Listed[i]] = IF i = len THEN nullptr ELSE Listed[i + 1]
  BY ListFacts
<1>2. n \in Nodes /\ n \notin pool /\ (\A i \in DOMAIN Listed : Listed[i] # n) /\ next[n] = top.addr
  BY DEF TypeOK, ThreadSupport
<1> HIDE DEF n, len
<1>3. l \in [1 .. len + 1 -> Nodes] /\ \A i, j \in 1 .. len + 1 : l[i] = l[j] => i = j
  <2>1. \A i \in 1 .. len + 1 : i # 1 => i - 1 \in 1..len /\ l[i] = Listed[i - 1]
    BY <1>1
  <2>2. l[1] = n /\ l \in [1 .. len + 1 -> Nodes]
    BY <1>1, <1>2
  <2>3. \A i, j \in 1..len : Listed[i] = Listed[j] => i = j
    BY <1>1 DEF ListLinked
  <2>4. ASSUME NEW i \in 1 .. len + 1, NEW j \in 1 .. len + 1, l[i] = l[j]
        PROVE  i = j
    <3>1. CASE i = 1
      <4>1. l[i] = n
        BY <2>2, <3>1
      <4>2. QED
        BY <1>1, <1>2, <2>1, <2>4, <3>1, <4>1
    <3>2. CASE j = 1
      <4>1. l[j] = n
        BY <2>2, <3>2
      <4>2. QED
        BY <1>1, <1>2, <2>1, <2>4, <3>2, <4>1
    <3>3. CASE i # 1 /\ j # 1
      <4>1. i - 1 = j - 1
        BY <2>1, <2>3, <2>4, <3>3
      <4>2. QED
        BY <1>1, <4>1
    <3>4. QED
      BY <3>1, <3>2, <3>3
  <2>5. QED
    BY <2>2, <2>4
<1>4. l \in Walks /\ Len(l) = len + 1 /\ DOMAIN l = 1 .. len + 1 /\ l # <<>> /\ l[1] = n
  <2>1. len + 1 \in Nat
    BY <1>1
  <2>2. l \in Walks
    BY <1>3, <2>1, ShortLists
  <2>3. Len(l) = len + 1 /\ DOMAIN l = 1 .. len + 1 /\ l[1] = n
    BY <1>1, <2>2, WalkType
  <2>4. QED
    BY <1>1, <2>2, <2>3
<1>5. \A i \in DOMAIN l : next[l[i]] = IF i = Len(l) THEN nullptr ELSE l[i + 1]
  <2>1. CASE len = 0
    BY <1>1, <1>2, <1>4, <2>1
  <2>2. CASE len # 0
    <3>1. next[l[1]] = l[2] /\ 1 # len + 1
      BY <1>1, <1>2, <1>4, <2>2
    <3>2. ASSUME NEW i \in 2 .. len + 1 PROVE next[l[i]] = IF i = len + 1 THEN nullptr ELSE l[i + 1]
      <4>1. i - 1 \in 1..len /\ l[i] = Listed[i - 1] /\ (i = len + 1 <=> i - 1 = len)
        BY <1>1, <3>2
      <4>2. i # len + 1 => l[i + 1] = Listed[(i - 1) + 1]
        BY <1>1, <3>2
      <4>3. QED
        BY <1>1, <4>1, <4>2, SMTT(30), SMTT(30)
    <3> HIDE DEF l
    <3>3. QED
      BY <1>1, <1>4, <3>1, <3>2
  <2>3. QED
    BY <2>1, <2>2
<1> HIDE DEF l
<1>6. l \in Lists(next', top'.addr)
  BY <1>4, <1>5 DEF Lists, memory, n
<1>7. Listed' = l
  BY <1>6, ListIs
<1>8. \A i \in DOMAIN l : l[i] \notin pool'
  BY <1>1, <1>2, <1>4 DEF l, ListLinked, memory
<1>9. ListLinked'
  BY <1>3, <1>4, <1>6, <1>7, <1>8 DEF ListLinked
<1>10. QED
  BY <1>4, <1>7, <1>9 DEF l, len, n

LEMMA LinkKeeps ==
  ASSUME StackAssumption, StackInv, NEW t \in Threads, LinkNode(t), top = localTop[t]
  PROVE  StackInv'
<1> USE DEF StackInv
<1>1. /\ pc[t] = "link" /\ pc' = [pc EXCEPT ![t] = "inc"] /\ localTop' = [localTop EXCEPT ![t] = NoPointer]
      /\ top.stamp < MaxStamp /\ top' = [addr |-> node[t], stamp |-> top.stamp + 1]
      /\ node' = [node EXCEPT ![t] = nullptr]
      /\ UNCHANGED <<data, next, pool, size, held, localNext>>
  BY DEF LinkNode, memory, Stamped
<1>2. node[t] \in Nodes /\ node[t] # nullptr /\ node[t] \notin pool /\ \A i \in DOMAIN Listed : Listed[i] # node[t]
  BY <1>1 DEF TypeOK, ThreadSupport
<1>3. TypeOK'
  <2>1. top' \in Pointer
    BY <1>1, <1>2, Typing DEF Pointer
  <2>2. QED
    BY <1>1, <2>1, Typing DEF TypeOK
<1>4. /\ ListLinked' /\ Len(Listed') = Len(Listed) + 1
      /\ Listed' = [k \in 1 .. Len(Listed) + 1 |-> IF k = 1 THEN node[t] ELSE Listed[k - 1]]
  BY <1>1, LinkExtends DEF memory
<1>5. Len(Listed) \in Nat /\ DOMAIN Listed = 1..Len(Listed)
  BY ListFacts
<1>6. \A m : (\E k \in DOMAIN Listed' : Listed'[k] = m) <=> m = node[t] \/ \E k \in DOMAIN Listed : Listed[k] = m
  <2>1. DOMAIN Listed' = 1 .. Len(Listed) + 1 /\ Listed'[1] = node[t]
    BY <1>4, <1>5
  <2>2. \A k \in 1..Len(Listed) : k + 1 \in DOMAIN Listed' /\ Listed'[k + 1] = Listed[k]
    BY <1>4, <1>5
  <2>3. \A k \in DOMAIN Listed' : k # 1 => k - 1 \in DOMAIN Listed /\ Listed'[k] = Listed[k - 1]
    BY <1>4, <1>5
  <2>4. 1 \in DOMAIN Listed'
    BY <1>5, <2>1
  <2>5. ASSUME NEW m PROVE (\E k \in DOMAIN Listed' : Listed'[k] = m) <=> m = node[t] \/ \E k \in DOMAIN Listed : Listed[k] = m
    BY <1>5, <2>1, <2>2, <2>3, <2>4, Zenon
  <2>6. QED
    BY <2>5
<1>7. OwnNodes'
  BY <1>1 DEF OwnNodes, TypeOK
<1>8. \A u \in Threads : ThreadSupport(u)'
  <2>1. ThreadSupport(t)'
    <3>1. node'[t] = nullptr /\ pc'[t] = "inc" /\ nullptr \notin pool'
      BY <1>1, Typing DEF TypeOK
    <3>2. \A k \in DOMAIN Listed' : Listed'[k] # nullptr
      <4>1. \A k \in DOMAIN Listed : Listed[k] # nullptr
        BY Typing, ListFacts
      <4>2. QED
        BY <1>2, <1>6, <4>1
    <3>3. QED
      BY <3>1, <3>2 DEF ThreadSupport
  <2>2. ASSUME NEW u \in Threads, u # t PROVE ThreadSupport(u)'
    <3>1. node[u] # node[t]
      BY <1>2, <2>2 DEF OwnNodes
    <3>2. /\ pc'[u] = pc[u] /\ node'[u] = node[u] /\ localTop'[u] = localTop[u] /\ localNext'[u] = localNext[u]
          /\ node[u] \notin pool' /\ \A k \in DOMAIN Listed' : Listed'[k] # node[u]
      BY <1>1, <1>6, <2>2, <3>1, ZenonT(40), ZenonT(40) DEF ThreadSupport, TypeOK
    <3>3. top'.stamp = top.stamp + 1
      BY <1>1
    <3>4. QED
      BY <1>1, <3>2, <3>3, Typing, Bystander
  <2>3. QED
    BY <2>1, <2>2
<1>9. IndexOnce'
  <2>1. ASSUME NEW j \in Indices PROVE OnePlace(j)'
    <3>1. OnePlace(j)
      BY IndexOnceIs
    <3>2. Holders(j)' = Holders(j)
      BY <1>1 DEF Holders
    <3>3. CASE data[node[t]] = j
      <4>1. InList(j)' = InList(j) \cup {node[t]} /\ node[t] \notin InList(j)
        BY <1>1, <1>2, <1>6, <3>3 DEF InList
      <4>2. InHand(j)' = InHand(j) \ {t} /\ t \in InHand(j)
        BY <1>1, <1>2, <3>3 DEF InHand, TypeOK
      <4>3. Cardinality(InList(j)') = Cardinality(InList(j)) + 1 /\ Cardinality(InHand(j)') = Cardinality(InHand(j)) - 1
        BY <4>1, <4>2, PlacesFinite, Gone, Come
      <4>4. QED
        BY <3>1, <3>2, <4>3, PlacesFinite DEF OnePlace
    <3>4. CASE data[node[t]] # j
      <4>1. InList(j)' = InList(j)
        BY <1>1, <1>6, <3>4 DEF InList
      <4>2. InHand(j)' = InHand(j)
        BY <1>1, <3>4 DEF InHand, TypeOK
      <4>3. Cardinality(InHand(j)') = Cardinality(InHand(j)) /\ Cardinality(InList(j)') = Cardinality(InList(j))
              /\ Cardinality(Holders(j)') = Cardinality(Holders(j))
        BY <3>2, <4>1, <4>2
      <4>4. QED
        BY <3>1, <4>3 DEF OnePlace
    <3>5. QED
      BY <3>3, <3>4
  <2>2. QED
    BY <1>4, <2>1, IndexOnceNext
<1>10. SizeSettles'
  <2>1. size' \in Int /\ size' - Len(Listed') - (size - Len(Listed)) = 0 - 1
    BY <1>1, <1>4, <1>5 DEF TypeOK
  <2>2. "link" \notin UnderWay /\ "inc" \in UnderWay
    BY DEF UnderWay
  <2>3. QED
    BY <1>1, <1>4, <2>1, <2>2, SizeMoves
<1>11. QED
  BY <1>3, <1>4, <1>7, <1>8, <1>9, <1>10

LEMMA IncrementSizeKeeps ==
  ASSUME StackAssumption, StackInv, NEW t \in Threads, IncrementSize(t)
  PROVE  StackInv'
<1> USE DEF StackInv
<1>1. /\ pc[t] \in {"inc", "fail"} /\ pc' = [pc EXCEPT ![t] = "idle"] /\ size' = size + 1
      /\ UNCHANGED <<data, next, pool, top, held, node, localTop, localNext>>
  BY DEF IncrementSize, memory, locals
<1>2. TypeOK'
  BY <1>1 DEF TypeOK
<1>3. Listed' = Listed
  BY <1>1, SameList DEF ListLinked
<1>4. ThreadSupport(t)'
  BY <1>1, <1>3 DEF ThreadSupport, TypeOK
<1>5. size' - size = (IF pc[t] \in UnderWay THEN 1 ELSE 0) - (IF "idle" \in UnderWay THEN 1 ELSE 0)
  <2>1. size' - size = 1 /\ pc[t] \in UnderWay /\ "idle" \notin UnderWay
    BY <1>1 DEF TypeOK, UnderWay
  <2>2. QED
    BY <2>1
<1>6. QED
  BY <1>1, <1>2, <1>4, <1>5, QuietKeeps

LEMMA DecrementSizeKeeps ==
  ASSUME StackAssumption, StackInv, NEW t \in Threads, DecrementSize(t)
  PROVE  StackInv'
<1> USE DEF StackInv
<1>1. /\ pc[t] = "idle" /\ pc' = [pc EXCEPT ![t] = "pop"] /\ size' = size - 1
      /\ UNCHANGED <<data, next, pool, top, held, node, localTop, localNext>>
  BY DEF DecrementSize, memory, locals
<1>2. TypeOK'
  BY <1>1 DEF TypeOK
<1>3. Listed' = Listed
  BY <1>1, SameList DEF ListLinked
<1>4. ThreadSupport(t)'
  BY <1>1, <1>3 DEF ThreadSupport, TypeOK
<1>5. size' - size = (IF pc[t] \in UnderWay THEN 1 ELSE 0) - (IF "pop" \in UnderWay THEN 1 ELSE 0)
  <2>1. size' - size = 0 - 1 /\ pc[t] \notin UnderWay /\ "pop" \in UnderWay
    BY <1>1 DEF TypeOK, UnderWay
  <2>2. QED
    BY <2>1
<1>6. QED
  BY <1>1, <1>2, <1>4, <1>5, QuietKeeps

LEMMA ReadTopKeeps ==
  ASSUME StackAssumption, StackInv, NEW t \in Threads, ReadTop(t)
  PROVE  StackInv'
<1> USE DEF StackInv
<1>1. /\ pc[t] = "pop"
      /\ \/ top.addr = nullptr /\ pc' = [pc EXCEPT ![t] = "fail"] /\ localTop' = localTop
         \/ top.addr # nullptr /\ pc' = [pc EXCEPT ![t] = "next"] /\ localTop' = [localTop EXCEPT ![t] = top]
      /\ UNCHANGED <<data, next, pool, top, size, held, node, localNext>>
  BY DEF ReadTop, memory
<1>2. TypeOK'
  BY <1>1, Typing DEF TypeOK
<1>3. Listed' = Listed
  BY <1>1, SameList DEF ListLinked
<1>4. ThreadSupport(t)'
  BY <1>1, <1>3, Typing DEF ThreadSupport, TypeOK
<1>5. PICK l \in {"fail", "next"} : pc' = [pc EXCEPT ![t] = l]
  BY <1>1
<1>6. size' - size = (IF pc[t] \in UnderWay THEN 1 ELSE 0) - (IF l \in UnderWay THEN 1 ELSE 0)
  <2>1. size' - size = 0 /\ pc[t] \in UnderWay /\ l \in UnderWay
    BY <1>1 DEF TypeOK, UnderWay
  <2>2. QED
    BY <2>1
<1>7. \A u \in Threads : u # t => localTop'[u] = localTop[u] /\ localNext'[u] = localNext[u]
  BY <1>1 DEF TypeOK
<1>8. QED
  BY <1>1, <1>2, <1>4, <1>5, <1>6, <1>7, QuietKeeps

LEMMA ReadNextKeeps ==
  ASSUME StackAssumption, StackInv, NEW t \in Threads, ReadNext(t)
  PROVE  StackInv'
<1> USE DEF StackInv
<1>1. /\ pc[t] = "next" /\ pc' = [pc EXCEPT ![t] = "unlink"]
      /\ localNext' = [localNext EXCEPT ![t] = next[localTop[t].addr]]
      /\ UNCHANGED <<data, next, pool, top, size, held, node, localTop>>
  BY DEF ReadNext, memory
<1>2. TypeOK'
  <2>1. localTop[t].addr \in Nodes
    BY <1>1, Typing DEF ThreadSupport
  <2>2. QED
    BY <1>1, <2>1, Typing DEF TypeOK
<1>3. Listed' = Listed
  BY <1>1, SameList DEF ListLinked
<1>4. ThreadSupport(t)'
  BY <1>1, <1>3, Typing DEF ThreadSupport, TypeOK
<1>5. size' - size = (IF pc[t] \in UnderWay THEN 1 ELSE 0) - (IF "unlink" \in UnderWay THEN 1 ELSE 0)
  <2>1. size' - size = 0 /\ pc[t] \in UnderWay /\ "unlink" \in UnderWay
    BY <1>1 DEF TypeOK, UnderWay
  <2>2. QED
    BY <2>1
<1>6. \A u \in Threads : u # t => localTop'[u] = localTop[u] /\ localNext'[u] = localNext[u]
  BY <1>1 DEF TypeOK
<1>7. QED
  BY <1>1, <1>2, <1>4, <1>5, <1>6, QuietKeeps

LEMMA UnlinkRetriedKeeps ==
  ASSUME StackAssumption, StackInv, NEW t \in Threads, UnlinkNode(t), top # localTop[t]
  PROVE  StackInv'
<1> USE DEF StackInv
<1>1. /\ pc[t] = "unlink" /\ pc' = [pc EXCEPT ![t] = "pop"] /\ localTop' = [localTop EXCEPT ![t] = NoPointer]
      /\ localNext' = [localNext EXCEPT ![t] = nullptr]
      /\ UNCHANGED <<data, next, pool, top, size, held, node>>
  BY DEF UnlinkNode, memory
<1>2. TypeOK'
  BY <1>1, Typing DEF TypeOK
<1>3. Listed' = Listed
  BY <1>1, SameList DEF ListLinked
<1>4. ThreadSupport(t)'
  BY <1>1, <1>3 DEF ThreadSupport, TypeOK
<1>5. size' - size = (IF pc[t] \in UnderWay THEN 1 ELSE 0) - (IF "pop" \in UnderWay THEN 1 ELSE 0)
  <2>1. size' - size = 0 /\ pc[t] \in UnderWay /\ "pop" \in UnderWay
    BY <1>1 DEF TypeOK, UnderWay
  <2>2. QED
    BY <2>1
<1>6. \A u \in Threads : u # t => localTop'[u] = localTop[u] /\ localNext'[u] = localNext[u]
  BY <1>1 DEF TypeOK
<1>7. QED
  BY <1>1, <1>2, <1>4, <1>5, <1>6, QuietKeeps

\* The exchange of top_: a node less. What the thread read as its next still is.
LEMMA UnlinkShortens ==
  ASSUME StackAssumption, StackInv, NEW t \in Threads, pc[t] = "unlink", top = localTop[t],
         top'.addr = localNext[t], UNCHANGED memory
  PROVE  /\ ListLinked'
         /\ Len(Listed) >= 1 /\ top.addr = Listed[1]
         /\ Listed' = [k \in 1 .. Len(Listed) - 1 |-> Listed[k + 1]]
         /\ Len(Listed') = Len(Listed) - 1
<1> USE DEF StackInv
<1> DEFINE len == Len(Listed)
           l == [k \in 1 .. len - 1 |-> Listed[k + 1]]
<1>1. /\ len \in Nat /\ DOMAIN Listed = 1..len /\ Listed \in [1..len -> Nodes]
      /\ top.addr = (IF Listed = <<>> THEN nullptr ELSE Listed[1]) /\ (Listed # <<>> <=> len >= 1)
      /\ \A i \in DOMAIN Listed : next[Listed[i]] = IF i = len THEN nullptr ELSE Listed[i + 1]
  BY ListFacts
<1>2. len >= 1 /\ top.addr = Listed[1] /\ localNext[t] = next[top.addr]
  BY <1>1 DEF ThreadSupport
<1> HIDE DEF len
<1>3. len - 1 \in Nat /\ \A i \in 1 .. len - 1 : i + 1 \in 1..len /\ l[i] = Listed[i + 1]
  BY <1>1, <1>2
<1>4. l \in [1 .. len - 1 -> Nodes] /\ \A i, j \in 1 .. len - 1 : l[i] = l[j] => i = j
  <2>1. \A i, j \in 1..len : Listed[i] = Listed[j] => i = j
    BY <1>1 DEF ListLinked
  <2>2. l \in [1 .. len - 1 -> Nodes]
    BY <1>1, <1>3
  <2>3. ASSUME NEW i \in 1 .. len - 1, NEW j \in 1 .. len - 1, l[i] = l[j]
        PROVE  i = j
    <3>1. i + 1 = j + 1
      BY <1>3, <2>1, <2>3
    <3>2. QED
      BY <3>1, <1>1
  <2>4. QED
    BY <2>2, <2>3
<1>5. l \in Walks /\ Len(l) = len - 1 /\ DOMAIN l = 1 .. len - 1 /\ (l # <<>> <=> len - 1 >= 1)
  <2>1. l \in Walks
    BY <1>3, <1>4, ShortLists
  <2>2. Len(l) = len - 1 /\ DOMAIN l = 1 .. len - 1
    BY <1>3, <2>1, WalkType
  <2>3. QED
    BY <2>1, <2>2, WalkType
<1>6. top'.addr = IF l = <<>> THEN nullptr ELSE l[1]
  <2>1. next[Listed[1]] = IF 1 = len THEN nullptr ELSE Listed[2]
    BY <1>1, <1>2
  <2>2. CASE len = 1
    BY <1>2, <1>5, <2>1, <2>2
  <2>3. CASE len # 1
    <3>1. 1 \in 1 .. len - 1 /\ len - 1 >= 1 /\ 1 + 1 = 2
      BY <1>1, <1>2, <2>3
    <3> HIDE DEF l
    <3>2. l # <<>> /\ l[1] = Listed[2]
      BY <1>3, <1>5, <3>1
    <3>3. QED
      BY <1>2, <2>1, <2>3, <3>2
  <2>4. QED
    BY <2>2, <2>3
<1>7. \A i \in DOMAIN l : next[l[i]] = IF i = Len(l) THEN nullptr ELSE l[i + 1]
  <2>1. ASSUME NEW i \in 1 .. len - 1 PROVE next[l[i]] = IF i = len - 1 THEN nullptr ELSE l[i + 1]
    <3>1. i + 1 \in 1..len /\ l[i] = Listed[i + 1] /\ (i = len - 1 <=> i + 1 = len)
      BY <1>1, <1>3
    <3>2. i # len - 1 => l[i + 1] = Listed[(i + 1) + 1]
      BY <1>1, <1>3, <2>1
    <3>3. next[Listed[i + 1]] = IF i + 1 = len THEN nullptr ELSE Listed[(i + 1) + 1]
      BY <1>1, <3>1
    <3>4. QED
      BY <3>1, <3>2, <3>3
  <2> HIDE DEF l
  <2>2. QED
    BY <1>5, <2>1
<1> HIDE DEF l
<1>8. l \in Lists(next', top'.addr)
  BY <1>5, <1>6, <1>7 DEF Lists, memory
<1>9. Listed' = l
  BY <1>8, ListIs
<1>10. \A i \in DOMAIN l : l[i] \notin pool'
  BY <1>1, <1>3, <1>5 DEF ListLinked, memory
<1>11. ListLinked'
  BY <1>4, <1>5, <1>8, <1>9, <1>10 DEF ListLinked
<1>12. QED
  BY <1>2, <1>5, <1>9, <1>11 DEF l, len

LEMMA UnlinkKeeps ==
  ASSUME StackAssumption, StackInv, NEW t \in Threads, UnlinkNode(t), top = localTop[t]
  PROVE  StackInv'
<1> USE DEF StackInv
<1>1. /\ pc[t] = "unlink" /\ pc' = [pc EXCEPT ![t] = "data"] /\ localTop' = [localTop EXCEPT ![t] = NoPointer]
      /\ top.stamp < MaxStamp /\ top' = [addr |-> localNext[t], stamp |-> top.stamp + 1]
      /\ node' = [node EXCEPT ![t] = top.addr] /\ localNext' = [localNext EXCEPT ![t] = nullptr]
      /\ UNCHANGED <<data, next, pool, size, held>>
  BY DEF UnlinkNode, memory, Stamped
<1>2. node[t] = nullptr
  BY <1>1 DEF ThreadSupport
<1>3. TypeOK'
  <2>1. top' \in Pointer
    BY <1>1, Typing DEF Pointer
  <2>2. QED
    BY <1>1, <2>1, Typing DEF TypeOK
<1>4. /\ ListLinked' /\ Len(Listed') = Len(Listed) - 1 /\ Len(Listed) >= 1 /\ top.addr = Listed[1]
      /\ Listed' = [k \in 1 .. Len(Listed) - 1 |-> Listed[k + 1]]
  BY <1>1, UnlinkShortens DEF memory
<1>5. Len(Listed) \in Nat /\ DOMAIN Listed = 1..Len(Listed) /\ 1 \in DOMAIN Listed /\ top.addr \in Nodes
  BY <1>4, ListFacts
<1>6. \A m : (\E k \in DOMAIN Listed' : Listed'[k] = m) <=> m # top.addr /\ \E k \in DOMAIN Listed : Listed[k] = m
  <2>1. DOMAIN Listed' = 1 .. Len(Listed) - 1
    BY <1>4
  <2>2. \A k \in DOMAIN Listed' : k + 1 \in DOMAIN Listed /\ k + 1 # 1 /\ Listed'[k] = Listed[k + 1]
    BY <1>4, <1>5
  <2>3. \A k \in DOMAIN Listed : k # 1 => k - 1 \in DOMAIN Listed' /\ Listed'[k - 1] = Listed[k]
    BY <1>4, <1>5
  <2>4. \A k \in DOMAIN Listed : k # 1 => Listed[k] # Listed[1]
    BY <1>5 DEF ListLinked
  <2>5. ASSUME NEW m, NEW k \in DOMAIN Listed', Listed'[k] = m
        PROVE  m # top.addr /\ \E i \in DOMAIN Listed : Listed[i] = m
    <3>1. k + 1 \in DOMAIN Listed /\ k + 1 # 1 /\ m = Listed[k + 1]
      BY <2>2, <2>5
    <3>2. m # top.addr
      BY <1>4, <2>4, <3>1
    <3>3. QED
      BY <3>1, <3>2
  <2>6. ASSUME NEW m, m # top.addr, NEW k \in DOMAIN Listed, Listed[k] = m
        PROVE  \E i \in DOMAIN Listed' : Listed'[i] = m
    <3>1. k # 1
      BY <1>4, <2>6
    <3>2. QED
      BY <2>3, <2>6, <3>1
  <2>7. QED
    BY <2>5, <2>6
<1>7. \A u \in Threads : node[u] # top.addr
  BY <1>4, <1>5 DEF ThreadSupport
<1>8. OwnNodes'
  BY <1>1, <1>3, <1>7 DEF OwnNodes, TypeOK
<1>9. \A u \in Threads : ThreadSupport(u)'
  <2>1. ThreadSupport(t)'
    <3>1. node'[t] = top.addr /\ pc'[t] = "data" /\ top.addr \notin pool' /\ top.addr # nullptr
      BY <1>1, <1>4, <1>5, Typing DEF TypeOK, ListLinked
    <3>2. \A k \in DOMAIN Listed' : Listed'[k] # top.addr
      BY <1>6
    <3>3. QED
      BY <3>1, <3>2 DEF ThreadSupport
  <2>2. ASSUME NEW u \in Threads, u # t PROVE ThreadSupport(u)'
    <3>1. /\ pc'[u] = pc[u] /\ node'[u] = node[u] /\ localTop'[u] = localTop[u] /\ localNext'[u] = localNext[u]
          /\ node[u] \notin pool' /\ \A k \in DOMAIN Listed' : Listed'[k] # node[u]
      BY <1>1, <1>6, <2>2, ZenonT(40), ZenonT(40) DEF ThreadSupport, TypeOK
    <3>2. top'.stamp = top.stamp + 1
      BY <1>1
    <3>3. QED
      BY <1>1, <3>1, <3>2, Typing, Bystander
  <2>3. QED
    BY <2>1, <2>2
<1>10. IndexOnce'
  <2>1. ASSUME NEW j \in Indices PROVE OnePlace(j)'
    <3>1. OnePlace(j)
      BY IndexOnceIs
    <3>2. Holders(j)' = Holders(j)
      BY <1>1 DEF Holders
    <3>3. CASE data[top.addr] = j
      <4>1. InList(j)' = InList(j) \ {top.addr} /\ top.addr \in InList(j)
        <5>1. top.addr \in InList(j)
          BY <1>4, <1>5, <3>3 DEF InList
        <5>2. InList(j)' = {n \in Nodes : data[n] = j /\ \E k \in DOMAIN Listed' : Listed'[k] = n}
          BY <1>1 DEF InList
        <5>3. \A n \in Nodes : n \in InList(j)' <=> n \in InList(j) /\ n # top.addr
          BY <1>6, <5>2 DEF InList
        <5>4. QED
          BY <5>1, <5>2, <5>3 DEF InList
      <4>2. InHand(j)' = InHand(j) \cup {t} /\ t \notin InHand(j)
        BY <1>1, <1>2, <1>5, <3>3, Typing DEF InHand, TypeOK
      <4>3. Cardinality(InList(j)') = Cardinality(InList(j)) - 1 /\ Cardinality(InHand(j)') = Cardinality(InHand(j)) + 1
        BY <4>1, <4>2, PlacesFinite, Gone, Come
      <4>4. QED
        BY <3>1, <3>2, <4>3, PlacesFinite DEF OnePlace
    <3>4. CASE data[top.addr] # j
      <4>1. InList(j)' = InList(j)
        BY <1>1, <1>6, <3>4 DEF InList
      <4>2. InHand(j)' = InHand(j)
        BY <1>1, <1>2, <3>4 DEF InHand, TypeOK
      <4>3. Cardinality(InHand(j)') = Cardinality(InHand(j)) /\ Cardinality(InList(j)') = Cardinality(InList(j))
              /\ Cardinality(Holders(j)') = Cardinality(Holders(j))
        BY <3>2, <4>1, <4>2
      <4>4. QED
        BY <3>1, <4>3 DEF OnePlace
    <3>5. QED
      BY <3>3, <3>4
  <2>2. QED
    BY <1>4, <2>1, IndexOnceNext
<1>11. SizeSettles'
  <2>1. size' \in Int /\ size' - Len(Listed') - (size - Len(Listed)) = 1
    BY <1>1, <1>4, <1>5 DEF TypeOK
  <2>2. (IF pc[t] \in UnderWay THEN 1 ELSE 0) - (IF "data" \in UnderWay THEN 1 ELSE 0) = 1
    BY <1>1 DEF UnderWay
  <2>3. QED
    BY <1>1, <1>3, <1>4, <2>1, <2>2, SizeMoves
<1>12. QED
  BY <1>3, <1>4, <1>8, <1>9, <1>10, <1>11

LEMMA TakeDataKeeps ==
  ASSUME StackAssumption, StackInv, NEW t \in Threads, TakeData(t)
  PROVE  StackInv'
<1> USE DEF StackInv
<1>1. /\ pc[t] = "data" /\ pc' = [pc EXCEPT ![t] = "idle"]
      /\ held' = [held EXCEPT ![t] = @ \cup {data[node[t]]}]
      /\ pool' = pool \cup {node[t]} /\ node' = [node EXCEPT ![t] = nullptr]
      /\ UNCHANGED <<data, next, top, size, localTop, localNext>>
  BY DEF TakeData
<1>2. node[t] \in Nodes /\ node[t] # nullptr /\ data[node[t]] \in Indices /\ \A k \in DOMAIN Listed : Listed[k] # node[t]
  BY <1>1 DEF TypeOK, ThreadSupport
<1>3. TypeOK'
  BY <1>1, <1>2 DEF TypeOK
<1>4. Listed' = Listed /\ ListLinked'
  BY <1>1, <1>2, SameList DEF ListLinked
<1>5. OwnNodes'
  BY <1>1 DEF OwnNodes, TypeOK
<1>6. \A u \in Threads : ThreadSupport(u)'
  <2>1. ThreadSupport(t)'
    <3>1. node'[t] = nullptr /\ pc'[t] = "idle" /\ nullptr \notin pool'
      BY <1>1, <1>2, Typing DEF TypeOK
    <3>2. \A k \in DOMAIN Listed' : Listed'[k] # nullptr
      BY <1>4, Typing, ListFacts
    <3>3. QED
      BY <3>1, <3>2 DEF ThreadSupport
  <2>2. ASSUME NEW u \in Threads, u # t PROVE ThreadSupport(u)'
    <3>1. node[u] # node[t]
      BY <1>2, <2>2 DEF OwnNodes
    <3>2. /\ pc'[u] = pc[u] /\ node'[u] = node[u] /\ localTop'[u] = localTop[u] /\ localNext'[u] = localNext[u]
          /\ node[u] \notin pool' /\ \A k \in DOMAIN Listed' : Listed'[k] # node[u]
      BY <1>1, <1>4, <2>2, <3>1 DEF ThreadSupport, TypeOK
    <3>3. QED
      BY <1>1, <3>2, Typing, Bystander
  <2>3. QED
    BY <2>1, <2>2
<1>7. IndexOnce'
  <2>1. ASSUME NEW j \in Indices PROVE OnePlace(j)'
    <3>1. OnePlace(j) /\ InList(j)' = InList(j)
      BY <1>1, <1>4, IndexOnceIs DEF InList
    <3>2. CASE data[node[t]] = j
      <4>1. t \notin Holders(j)
        <5>1. t \in InHand(j)
          BY <1>2, <3>2 DEF InHand
        <5>2. Cardinality(InHand(j)) >= 1
          <6>1. Cardinality(InHand(j) \ {t}) = Cardinality(InHand(j)) - 1 /\ Cardinality(InHand(j) \ {t}) \in Nat
            BY <5>1, PlacesFinite, Gone, FS_CardinalityType, FS_RemoveElement
          <6>2. QED
            BY <6>1, PlacesFinite
        <5>3. Cardinality(Holders(j)) = 0
          BY <3>1, <5>2, PlacesFinite DEF OnePlace
        <5>4. QED
          BY <5>3, PlacesFinite, FS_EmptySet
      <4>2. Holders(j)' = Holders(j) \cup {t}
        BY <1>1, <3>2 DEF Holders, TypeOK
      <4>3. InHand(j)' = InHand(j) \ {t} /\ t \in InHand(j)
        BY <1>1, <1>2, <3>2 DEF InHand, TypeOK
      <4>4. Cardinality(Holders(j)') = Cardinality(Holders(j)) + 1 /\ Cardinality(InHand(j)') = Cardinality(InHand(j)) - 1
        BY <4>1, <4>2, <4>3, PlacesFinite, Gone, Come
      <4>5. QED
        BY <3>1, <4>4, PlacesFinite DEF OnePlace
    <3>3. CASE data[node[t]] # j
      <4>1. Holders(j)' = Holders(j)
        BY <1>1, <3>3 DEF Holders, TypeOK
      <4>2. InHand(j)' = InHand(j)
        BY <1>1, <3>3 DEF InHand, TypeOK
      <4>3. Cardinality(InHand(j)') = Cardinality(InHand(j)) /\ Cardinality(InList(j)') = Cardinality(InList(j))
              /\ Cardinality(Holders(j)') = Cardinality(Holders(j))
        BY <3>1, <4>1, <4>2
      <4>4. QED
        BY <3>1, <4>3 DEF OnePlace
    <3>4. QED
      BY <3>2, <3>3
  <2>2. QED
    BY <1>4, <2>1, IndexOnceNext
<1>8. SizeSettles'
  BY <1>1, <1>4, SizeStays DEF UnderWay
<1>9. QED
  BY <1>3, <1>4, <1>5, <1>6, <1>7, <1>8

-----------------------------------------------------------------------------
(* The constructor, and the first Pushes.                                  *)

OneToOne(s, n) == \A i, j \in 1..n : s[i] = s[j] => i = j

LEMMA OrderExists ==
  ASSUME StackAssumption
  PROVE  LET n == Cardinality(Indices)
         IN  /\ n \in Nat /\ n >= 1
             /\ \E s \in [1..n -> Indices] : OneToOne(s, n)
             /\ \E s \in [1..n -> Nodes] : OneToOne(s, n)
<1> DEFINE n == Cardinality(Indices)
<1>1. n \in Nat /\ n >= 1 /\ ExistsBijection(1..n, Indices)
  BY FS_CardinalityType, FS_EmptySet DEF StackAssumption
<1>2. Cardinality(Nodes) \in Nat /\ n <= Cardinality(Nodes) /\ ExistsBijection(1..Cardinality(Nodes), Nodes)
  BY FS_CardinalityType DEF StackAssumption
<1> HIDE DEF n
<1>3. \E s \in [1..n -> Indices] : OneToOne(s, n)
  <2>1. PICK s \in [1..n -> Indices] : \A i, j \in 1..n : s[i] = s[j] => i = j
    BY <1>1 DEF ExistsBijection, Bijection, Injection, IsInjective
  <2>2. QED
    BY <2>1 DEF OneToOne
<1>4. \E s \in [1..n -> Nodes] : OneToOne(s, n)
  <2>1. PICK b \in [1..Cardinality(Nodes) -> Nodes] : \A i, j \in 1..Cardinality(Nodes) : b[i] = b[j] => i = j
    BY <1>2 DEF ExistsBijection, Bijection, Injection, IsInjective
  <2>2. 1..n \subseteq 1..Cardinality(Nodes)
    BY <1>1, <1>2
  <2>3. [i \in 1..n |-> b[i]] \in [1..n -> Nodes]
    BY <2>1, <2>2
  <2>4. OneToOne([i \in 1..n |-> b[i]], n)
    BY <2>1, <2>2 DEF OneToOne
  <2>5. QED
    BY <2>3, <2>4
<1>5. QED
  BY <1>1, <1>3, <1>4 DEF n

\* as many different indices as there are: all of them
LEMMA OrderOnto ==
  ASSUME StackAssumption, NEW s \in [1 .. Cardinality(Indices) -> Indices], OneToOne(s, Cardinality(Indices))
  PROVE  \A i \in Indices : \E k \in 1 .. Cardinality(Indices) : s[k] = i
<1> DEFINE n == Cardinality(Indices)
<1>1. n \in Nat /\ IsFiniteSet(1..n) /\ Cardinality(1..n) = n
  BY FS_CardinalityType, FS_Interval DEF StackAssumption
<1>2. s \in Injection(1..n, Indices)
  BY DEF Injection, IsInjective, OneToOne
<1>3. s \in Surjection(1..n, Indices)
  BY <1>1, <1>2, FS_Injection DEF StackAssumption
<1>4. QED
  BY <1>3 DEF Surjection

LEMMA InitIs ==
  ASSUME StackAssumption, Init
  PROVE  \E n \in Nat, order \in [1 .. Cardinality(Indices) -> Indices], used \in [1 .. Cardinality(Indices) -> Nodes] :
           /\ n = Cardinality(Indices) /\ n >= 1
           /\ OneToOne(order, n) /\ OneToOne(used, n)
           /\ data \in [Nodes -> Indices] /\ \A i \in 1..n : data[used[i]] = order[i]
           /\ next \in [Nodes -> Nodes \cup {nullptr}]
           /\ next[used[1]] = nullptr /\ \A i \in 2..n : next[used[i]] = used[i - 1]
           /\ pool = {m \in Nodes : \A i \in 1..n : used[i] # m}
           /\ top = [addr |-> used[n], stamp |-> 0] /\ size = n
<1> DEFINE n == Cardinality(Indices)
           order == CHOOSE s \in [1..n -> Indices] : \A i, j \in 1..n : s[i] = s[j] => i = j
           used == CHOOSE s \in [1..n -> Nodes] : \A i, j \in 1..n : s[i] = s[j] => i = j
<1>1. n \in Nat /\ n >= 1
  BY OrderExists
<1>2. order \in [1..n -> Indices] /\ OneToOne(order, n)
  <2>1. \E s \in [1..n -> Indices] : \A i, j \in 1..n : s[i] = s[j] => i = j
    BY OrderExists DEF OneToOne
  <2>2. QED
    BY <2>1 DEF OneToOne
<1>3. used \in [1..n -> Nodes] /\ OneToOne(used, n)
  <2>1. \E s \in [1..n -> Nodes] : \A i, j \in 1..n : s[i] = s[j] => i = j
    BY OrderExists DEF OneToOne
  <2>2. QED
    BY <2>1 DEF OneToOne
<1>4. /\ data = [m \in Nodes |-> IF \E i \in 1..n : used[i] = m
                                   THEN order[CHOOSE i \in 1..n : used[i] = m] ELSE order[1]]
      /\ next = [m \in Nodes |-> IF \E i \in 2..n : used[i] = m
                                   THEN used[(CHOOSE i \in 2..n : used[i] = m) - 1] ELSE nullptr]
      /\ pool = {m \in Nodes : \A i \in 1..n : ~(used[i] = m)}
      /\ top = [addr |-> used[n], stamp |-> 0] /\ size = n
  BY DEF Init
<1> HIDE DEF n, order, used
<1>5. \A i \in 1..n, j \in 1..n : used[i] = used[j] => i = j
  BY <1>3 DEF OneToOne
<1>6. data \in [Nodes -> Indices] /\ \A i \in 1..n : data[used[i]] = order[i]
  <2>1. ASSUME NEW m \in Nodes PROVE data[m] \in Indices
    BY <1>1, <1>2, <1>4
  <2>2. ASSUME NEW i \in 1..n PROVE data[used[i]] = order[i]
    <3>1. used[i] \in Nodes
      BY <1>3
    <3>2. (CHOOSE j \in 1..n : used[j] = used[i]) = i
      BY <1>5
    <3>3. QED
      BY <1>4, <3>1, <3>2
  <2>3. QED
    BY <1>4, <2>1, <2>2
<1>7. /\ next \in [Nodes -> Nodes \cup {nullptr}]
      /\ next[used[1]] = nullptr /\ \A i \in 2..n : next[used[i]] = used[i - 1]
  <2>1. ASSUME NEW m \in Nodes PROVE next[m] \in Nodes \cup {nullptr}
    <3>1. CASE \E i \in 2..n : used[i] = m
      <4>1. (CHOOSE i \in 2..n : used[i] = m) \in 2..n
        BY <3>1
      <4>2. (CHOOSE i \in 2..n : used[i] = m) - 1 \in 1..n
        BY <1>1, <4>1
      <4>3. QED
        BY <1>3, <1>4, <3>1, <4>2
    <3>2. QED
      BY <1>4, <3>1
  <2>2. ASSUME NEW i \in 2..n PROVE next[used[i]] = used[i - 1]
    <3>1. used[i] \in Nodes /\ 2..n \subseteq 1..n
      BY <1>1, <1>3
    <3>2. (CHOOSE j \in 2..n : used[j] = used[i]) = i
      BY <1>5, <3>1
    <3>3. QED
      BY <1>4, <3>1, <3>2
  <2>3. next[used[1]] = nullptr
    <3>1. used[1] \in Nodes /\ 1 \in 1..n /\ 2..n \subseteq 1..n /\ 1 \notin 2..n
      BY <1>1, <1>3
    <3>2. \A i \in 2..n : used[i] # used[1]
      BY <1>5, <3>1
    <3>3. QED
      BY <1>4, <3>1, <3>2
  <2>4. QED
    BY <1>4, <2>1, <2>2, <2>3
<1>8. QED
  BY <1>1, <1>2, <1>3, <1>4, <1>6, <1>7 DEF n

LEMMA InitHasInv == ASSUME StackAssumption, Init PROVE StackInv
<1>1. PICK n \in Nat, order \in [1 .. Cardinality(Indices) -> Indices], used \in [1 .. Cardinality(Indices) -> Nodes] :
           /\ n = Cardinality(Indices) /\ n >= 1
           /\ OneToOne(order, n) /\ OneToOne(used, n)
           /\ data \in [Nodes -> Indices] /\ \A i \in 1..n : data[used[i]] = order[i]
           /\ next \in [Nodes -> Nodes \cup {nullptr}]
           /\ next[used[1]] = nullptr /\ \A i \in 2..n : next[used[i]] = used[i - 1]
           /\ pool = {m \in Nodes : \A i \in 1..n : used[i] # m}
           /\ top = [addr |-> used[n], stamp |-> 0] /\ size = n
  BY InitIs
<1>2. /\ held = [t \in Threads |-> {}] /\ pc = [t \in Threads |-> "idle"] /\ node = [t \in Threads |-> nullptr]
      /\ localTop = [t \in Threads |-> NoPointer] /\ localNext = [t \in Threads |-> nullptr]
  BY DEF Init
<1>3. order \in [1..n -> Indices] /\ used \in [1..n -> Nodes] /\ \A i \in 1..n, j \in 1..n : used[i] = used[j] => i = j
  BY <1>1 DEF OneToOne
<1>4. nullptr \notin Nodes /\ MaxStamp \in Nat /\ used[n] \in Nodes
  BY <1>1, <1>3 DEF StackAssumption
<1>5. TypeOK
  <2>1. top \in Pointer /\ NoPointer \in Pointer
    BY <1>1, <1>4 DEF Pointer, NoPointer
  <2>2. QED
    BY <1>1, <1>2, <2>1 DEF TypeOK
<1> DEFINE l == [k \in 1..n |-> used[n + 1 - k]]
<1>6. l \in [1..n -> Nodes] /\ Len(l) = n /\ DOMAIN l = 1..n /\ l # <<>> /\ l[1] = used[n]
  BY <1>1, <1>3
<1>7. \A k \in 1..n : l[k] = used[n + 1 - k] /\ n + 1 - k \in 1..n
  BY <1>1
<1> HIDE DEF l
<1>8. \A i, j \in 1..n : l[i] = l[j] => i = j
  BY <1>1, <1>3, <1>7
<1>9. \A i \in 1..n : next[l[i]] = IF i = n THEN nullptr ELSE l[i + 1]
  <2>1. ASSUME NEW i \in 1..n PROVE next[l[i]] = IF i = n THEN nullptr ELSE l[i + 1]
    <3>1. CASE i = n
      <4>1. n + 1 - i = 1
        BY <3>1
      <4>2. l[i] = used[n + 1 - i]
        BY <1>7
      <4>3. l[i] = used[1]
        BY <4>1, <4>2
      <4>4. QED
        BY <1>1, <3>1, <4>3
    <3>2. CASE i # n
      <4>1. n + 1 - i \in 2..n /\ i + 1 \in 1..n /\ (n + 1 - i) - 1 = n + 1 - (i + 1)
        BY <1>1, <3>2
      <4>2. l[i] = used[n + 1 - i] /\ l[i + 1] = used[(n + 1 - i) - 1]
        BY <1>7, <4>1
      <4>3. next[used[n + 1 - i]] = used[(n + 1 - i) - 1]
        BY <1>1, <4>1
      <4>4. QED
        BY <3>2, <4>2, <4>3
    <3>3. QED
      BY <3>1, <3>2
  <2>2. QED
    BY <2>1
<1>10. l \in Lists(next, top.addr)
  <2>1. l \in Walks
    BY <1>6, <1>8, ShortLists
  <2>2. QED
    BY <1>1, <1>6, <1>9, <2>1 DEF Lists
<1>11. Listed = l
  <2>1. Listed \in Lists(next, top.addr)
    BY <1>10 DEF Listed
  <2>2. QED
    BY <1>10, <2>1, OneList
<1>12. ListLinked
  <2>1. \A i \in 1..n : l[i] \notin pool
    BY <1>1, <1>7
  <2>2. QED
    BY <1>6, <1>8, <1>10, <1>11, <2>1 DEF ListLinked
<1>13. OwnNodes /\ \A t \in Threads : ThreadSupport(t)
  <2>1. nullptr \notin pool /\ \A i \in DOMAIN Listed : Listed[i] # nullptr
    BY <1>1, <1>4, <1>6, <1>11
  <2>2. QED
    BY <1>2, <2>1 DEF OwnNodes, ThreadSupport
<1>14. IndexOnce
  <2>1. ASSUME NEW i \in Indices PROVE OnePlace(i)
    <3>1. PICK k \in 1..n : order[k] = i
      BY <1>1, OrderOnto
    <3>2. InList(i) = {used[k]}
      <4>1. used[k] \in InList(i)
        <5>1. n + 1 - k \in 1..n /\ n + 1 - (n + 1 - k) = k
          BY <1>1
        <5>2. l[n + 1 - k] = used[k]
          BY <1>7, <5>1
        <5>3. QED
          BY <1>1, <1>3, <1>6, <1>11, <3>1, <5>1, <5>2 DEF InList
      <4>2. ASSUME NEW m \in InList(i) PROVE m = used[k]
        <5>1. PICK j \in 1..n : m = used[j] /\ data[m] = i
          BY <1>6, <1>7, <1>11 DEF InList
        <5>2. order[j] = order[k]
          BY <1>1, <3>1, <5>1
        <5>3. QED
          BY <1>1, <5>1, <5>2 DEF OneToOne
      <4>3. QED
        BY <4>1, <4>2
    <3>3. InHand(i) = {} /\ Holders(i) = {}
      BY <1>2 DEF InHand, Holders
    <3>4. Cardinality(InList(i)) = 1 /\ Cardinality(InHand(i)) = 0 /\ Cardinality(Holders(i)) = 0
      BY <3>2, <3>3, FS_Singleton, FS_EmptySet
    <3>5. QED
      BY <3>4 DEF OnePlace
  <2>2. QED
    BY <1>12, <2>1, IndexOnceIs
<1>15. SizeSettles
  <2>1. {t \in Threads : pc[t] \in {"inc", "pop", "next", "unlink", "fail"}} = {}
    BY <1>2
  <2>2. Len(Listed) = n /\ Cardinality({}) = 0
    BY <1>6, <1>11, FS_EmptySet
  <2>3. n - 0 = n /\ size = n
    BY <1>1
  <2>4. QED
    BY <2>1, <2>2, <2>3 DEF SizeSettles
<1>16. QED
  BY <1>5, <1>12, <1>13, <1>14, <1>15 DEF StackInv

LEMMA StepKeeps == ASSUME StackAssumption, StackInv, [Next]_vars PROVE StackInv'
<1>1. CASE Next
  <2>1. PICK t \in Threads : Push(t) \/ Pop(t) \/ IncrementSize(t)
    BY <1>1 DEF Next
  <2>2. CASE LinkNode(t)
    BY <2>2, LinkKeeps, LinkRetriedKeeps
  <2>3. CASE UnlinkNode(t)
    BY <2>3, UnlinkKeeps, UnlinkRetriedKeeps
  <2>4. QED
    BY <2>1, <2>2, <2>3, NewNodeKeeps, ReadTopToPushKeeps, IncrementSizeKeeps, DecrementSizeKeeps,
       ReadTopKeeps, ReadNextKeeps, TakeDataKeeps DEF Push, Pop
<1>2. CASE UNCHANGED vars
  <2> USE <1>2 DEF vars, memory, locals, StackInv
  <2>1. Listed' = Listed
    BY DEF Listed, Lists
  <2>2. TypeOK' /\ OwnNodes' /\ SizeSettles'
    BY <2>1 DEF TypeOK, OwnNodes, SizeSettles
  <2>3. ListLinked'
    BY <2>1 DEF ListLinked, Lists
  <2>4. \A t \in Threads : ThreadSupport(t)'
    BY <2>1 DEF ThreadSupport
  <2>5. IndexOnce'
    BY <2>1 DEF IndexOnce, InHand
  <2>6. QED
    BY <2>2, <2>3, <2>4, <2>5
<1>3. QED
  BY <1>1, <1>2

(* The list from top_ ends, without free nodes or a node that a thread is  *)
(* about to push or has just popped, every index is in it once or with one *)
(* thread, and size_ is behind it by the calls under way: whatever the     *)
(* threads read of nodes that others free (LockFreeStack.h 87-152).        *)
THEOREM StackIsSound == StackAssumption => (Spec => []StackInv)
<1> SUFFICES ASSUME StackAssumption PROVE Spec => []StackInv
  OBVIOUS
<1>1. Init => StackInv
  BY InitHasInv
<1>2. StackInv /\ [Next]_vars => StackInv'
  BY StepKeeps
<1>3. QED
  BY <1>1, <1>2, PTL DEF Spec

-----------------------------------------------------------------------------
(* The list implements the stack.                                          *)

LEMMA StackType ==
  StackAssumption /\ StackInv
    => /\ StackOf \in Seq(Indices) /\ Len(StackOf) = Len(Listed) /\ Len(Listed) \in Nat
       /\ DOMAIN Listed = 1..Len(Listed) /\ \A k \in 1..Len(Listed) : StackOf[k] = data[Listed[k]]
<1> SUFFICES ASSUME StackAssumption, StackInv
    PROVE  /\ StackOf \in Seq(Indices) /\ Len(StackOf) = Len(Listed) /\ Len(Listed) \in Nat
           /\ DOMAIN Listed = 1..Len(Listed) /\ \A k \in 1..Len(Listed) : StackOf[k] = data[Listed[k]]
  OBVIOUS
<1>1. Len(Listed) \in Nat /\ DOMAIN Listed = 1..Len(Listed) /\ Listed \in [1..Len(Listed) -> Nodes]
  BY ListFacts DEF StackInv
<1>2. StackOf \in [1..Len(Listed) -> Indices]
  BY <1>1 DEF StackOf, StackInv, TypeOK
<1>3. QED
  BY <1>1, <1>2 DEF StackOf

LEMMA StackStays ==
  ASSUME StackAssumption, StackInv, Listed' = Listed, \A k \in DOMAIN Listed : data'[Listed[k]] = data[Listed[k]]
  PROVE  StackOf' = StackOf
BY DEF StackOf

LEMMA QuietStack ==
  ASSUME StackAssumption, StackInv, NEW t \in Threads, Push(t) \/ Pop(t) \/ IncrementSize(t),
         ~(LinkNode(t) /\ top = localTop[t]), ~(UnlinkNode(t) /\ top = localTop[t])
  PROVE  StackOf' = StackOf
<1>1. TypeOK /\ ListLinked
  BY DEF StackInv
<1>2. \A k \in DOMAIN Listed : Listed[k] \in Nodes /\ Listed[k] \notin pool
  BY <1>1, ListFacts DEF ListLinked
<1>3. CASE NewNode(t)
  <2>1. PICK n \in pool : data' = [data EXCEPT ![n] = data'[n]] /\ next' = next /\ top' = top /\ pool' \subseteq pool
    <3>1. PICK i \in held[t], n \in pool : data' = [data EXCEPT ![n] = i] /\ next' = next /\ top' = top /\ pool' \subseteq pool
      BY <1>3 DEF NewNode
    <3>2. data'[n] = i
      BY <1>1, <3>1 DEF TypeOK
    <3>3. QED
      BY <3>1, <3>2
  <2>2. Listed' = Listed
    BY <1>1, <1>2, <2>1, SameList
  <2>3. \A k \in DOMAIN Listed : data'[Listed[k]] = data[Listed[k]]
    BY <1>1, <1>2, <2>1 DEF TypeOK
  <2>4. QED
    BY <2>2, <2>3, StackStays
<1>4. CASE ReadTopToPush(t)
  <2>1. data' = data /\ top' = top /\ pool' = pool /\ next' = [next EXCEPT ![node[t]] = top.addr]
    BY <1>4 DEF ReadTopToPush
  <2>2. \A k \in DOMAIN Listed : Listed[k] # node[t]
    BY DEF StackInv, ThreadSupport
  <2>3. \A k \in DOMAIN Listed : next'[Listed[k]] = next[Listed[k]]
    BY <1>1, <1>2, <2>1, <2>2 DEF TypeOK
  <2>4. QED
    BY <1>1, <1>2, <2>1, <2>3, SameList, StackStays
<1>5. CASE ~NewNode(t) /\ ~ReadTopToPush(t)
  <2>1. data' = data /\ next' = next /\ top' = top
    BY <1>5 DEF Push, Pop, LinkNode, UnlinkNode, IncrementSize, DecrementSize, ReadTop, ReadNext, TakeData, memory
  <2>2. Listed' = Listed
    BY <2>1 DEF Listed, Lists
  <2>3. QED
    BY <2>1, <2>2, StackStays
<1>6. QED
  BY <1>3, <1>4, <1>5

\* The exchange of top_ that links a node puts its element on top.
LEMMA LinkPushes ==
  ASSUME StackAssumption, StackInv, StackInv', NEW t \in Threads, LinkNode(t), top = localTop[t]
  PROVE  StackOf' = <<data[node[t]]>> \o StackOf /\ data[node[t]] \in Indices
<1> DEFINE len == Len(Listed)
           d == data[node[t]]
<1>1. /\ pc[t] = "link" /\ top' = [addr |-> node[t], stamp |-> top.stamp + 1] /\ UNCHANGED memory
      /\ data' = data
  BY DEF LinkNode, Stamped, memory
<1>2. d \in Indices
  BY <1>1 DEF StackInv, TypeOK, ThreadSupport
<1>3. Listed' = [k \in 1 .. len + 1 |-> IF k = 1 THEN node[t] ELSE Listed[k - 1]] /\ Len(Listed') = len + 1
  BY <1>1, LinkExtends
<1>4. /\ StackOf \in Seq(Indices) /\ Len(StackOf) = len /\ len \in Nat
      /\ \A k \in 1..len : StackOf[k] = data[Listed[k]]
  BY StackType
<1>5. (StackAssumption /\ StackInv
    => /\ StackOf \in Seq(Indices) /\ Len(StackOf) = Len(Listed) /\ Len(Listed) \in Nat
       /\ DOMAIN Listed = 1..Len(Listed) /\ \A k \in 1..Len(Listed) : StackOf[k] = data[Listed[k]])'
  BY StackType, PTL
<1>6. /\ StackOf' \in Seq(Indices) /\ Len(StackOf') = len + 1
      /\ \A k \in 1 .. len + 1 : StackOf'[k] = data[Listed'[k]]
  BY <1>1, <1>3, <1>5
<1> DEFINE s == <<d>> \o StackOf
<1> HIDE DEF len, d
<1>7. s \in Seq(Indices) /\ Len(s) = len + 1 /\ s[1] = d /\ \A k \in 2 .. len + 1 : s[k] = StackOf[k - 1]
  BY <1>2, <1>4
<1> HIDE DEF s
<1>8. ASSUME NEW k \in 1 .. len + 1 PROVE StackOf'[k] = s[k]
  <2>1. CASE k = 1
    BY <1>3, <1>4, <1>6, <1>7, <2>1 DEF d
  <2>2. CASE k # 1
    <3>1. k \in 2 .. len + 1 /\ k - 1 \in 1..len
      BY <1>4, <2>2
    <3>2. Listed'[k] = Listed[k - 1]
      BY <1>3, <2>2
    <3>3. QED
      BY <1>4, <1>6, <1>7, <3>1, <3>2
  <2>3. QED
    BY <2>1, <2>2
<1>9. StackOf' = s
  BY <1>6, <1>7, <1>8, SeqEqual
<1>10. QED
  BY <1>2, <1>9 DEF s, d

\* The one that unlinks a node takes the topmost element.
LEMMA UnlinkPops ==
  ASSUME StackAssumption, StackInv, StackInv', NEW t \in Threads, UnlinkNode(t), top = localTop[t]
  PROVE  StackOf # <<>> /\ StackOf' = Tail(StackOf)
<1> DEFINE len == Len(Listed)
<1>1. /\ pc[t] = "unlink" /\ top' = [addr |-> localNext[t], stamp |-> top.stamp + 1] /\ UNCHANGED memory
      /\ data' = data
  BY DEF UnlinkNode, Stamped, memory
<1>2. /\ len >= 1 /\ Listed' = [k \in 1 .. len - 1 |-> Listed[k + 1]] /\ Len(Listed') = len - 1
  BY <1>1, UnlinkShortens, SMTT(30)
<1>3. /\ StackOf \in Seq(Indices) /\ Len(StackOf) = len /\ len \in Nat
      /\ \A k \in 1..len : StackOf[k] = data[Listed[k]]
  BY StackType
<1>4. (StackAssumption /\ StackInv
    => /\ StackOf \in Seq(Indices) /\ Len(StackOf) = Len(Listed) /\ Len(Listed) \in Nat
       /\ DOMAIN Listed = 1..Len(Listed) /\ \A k \in 1..Len(Listed) : StackOf[k] = data[Listed[k]])'
  BY StackType, PTL
<1>5. /\ StackOf' \in Seq(Indices) /\ Len(StackOf') = len - 1
      /\ \A k \in 1 .. len - 1 : StackOf'[k] = data[Listed'[k]]
  BY <1>1, <1>2, <1>4, ZenonT(40)
<1>6. StackOf # <<>>
  BY <1>2, <1>3
<1> HIDE DEF len
<1>7. Tail(StackOf) \in Seq(Indices) /\ Len(Tail(StackOf)) = len - 1 /\ \A k \in 1 .. len - 1 : Tail(StackOf)[k] = StackOf[k + 1]
  BY <1>3, <1>6, HeadTailProperties
<1>8. ASSUME NEW k \in 1 .. len - 1 PROVE StackOf'[k] = Tail(StackOf)[k]
  <2>1. k + 1 \in 1..len
    BY <1>3
  <2>2. QED
    BY <1>2, <1>3, <1>5, <1>7, <2>1
<1>9. QED
  BY <1>5, <1>6, <1>7, <1>8, SeqEqual

LEMMA StepIsLifo ==
  ASSUME StackAssumption, StackInv, StackInv', [Next]_vars
  PROVE  [Lifo!Next]_StackOf
<1>1. CASE Next
  <2>1. PICK t \in Threads : Push(t) \/ Pop(t) \/ IncrementSize(t)
    BY <1>1 DEF Next
  <2>2. CASE LinkNode(t) /\ top = localTop[t]
    BY <2>2, LinkPushes DEF Lifo!Next, Lifo!Push, StackOf
  <2>3. CASE UnlinkNode(t) /\ top = localTop[t]
    BY <2>3, UnlinkPops DEF Lifo!Next, Lifo!Pop, StackOf
  <2>4. QED
    BY <2>1, <2>2, <2>3, QuietStack
<1>2. CASE UNCHANGED vars
  BY <1>2 DEF vars, memory, StackOf, Listed, Lists
<1>3. QED
  BY <1>1, <1>2

(* The list is a stack: the exchange of top_ puts an element on it or      *)
(* takes the topmost one, at once, and no other step changes it            *)
(* (LockFreeStack.h 87-152).                                               *)
THEOREM ImplementsLifo == StackAssumption => (Spec => LifoSpec)
<1> SUFFICES ASSUME StackAssumption PROVE Spec => LifoSpec
  OBVIOUS
<1>1. StackInv => StackOf \in Seq(Indices)
  BY StackType
<1>2. Init => Lifo!Init
  BY <1>1, InitHasInv DEF Lifo!Init, StackOf
<1>3. StackInv /\ StackInv' /\ [Next]_vars => [Lifo!Next]_StackOf
  BY StepIsLifo
<1>4. Spec => []StackInv
  BY StackIsSound
<1>5. QED
  BY <1>2, <1>3, <1>4, PTL DEF Spec, LifoSpec, Lifo!Spec
=============================================================================
