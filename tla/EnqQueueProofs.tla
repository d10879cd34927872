--------------------------- MODULE EnqQueueProofs ---------------------------
(***************************************************************************)
(* Proofs about EnqQueue and LockFreeQueue, for any number of producers,   *)
(* consumers, nodes and elements, as long as no stamp is given twice and   *)
(* no producer links to a freed node. QueueCore is what both queues rest   *)
(* on: the lemmas about Enqueue, and about a Dequeue that moves head_ or   *)
(* leaves it, know nothing of who dequeues.                                *)
(***************************************************************************)
EXTENDS LockFreeQueue, FiniteSetTheorems, SequenceTheorems, WellFoundedInduction, TLAPS

USE NodesAssumption, BoundsAssumption, StampsAssumption

-----------------------------------------------------------------------------
(* A set of numbers has a least one: induction over the data goes by it.   *)

Below == {pair \in Nat \X Nat : pair[1] < pair[2]}

LEMMA Least ==
  ASSUME NEW S \in SUBSET Nat, S # {}
  PROVE  \E n \in S : \A m \in S : n <= m
<1>1. IsWellFoundedOn(Below, Nat)
  BY NatLessThanWellFounded DEF OpToRel, Below
<1>2. PICK n \in S : \A m \in S : ~(<<m, n>> \in Below)
  BY <1>1, WFMin
<1>3. \A m \in S : ~(m < n)
  BY <1>2 DEF Below
<1>4. QED
  BY <1>3

-----------------------------------------------------------------------------
(* Lists of nodes.                                                         *)

LEMMA WalkType ==
  ASSUME NEW l \in Walks
  PROVE  /\ l \in Seq(Nodes) /\ Len(l) \in 1..Cardinality(Nodes) /\ DOMAIN l = 1..Len(l)
         /\ l \in [1..Len(l) -> Nodes] /\ l[1] \in Nodes /\ l[Len(l)] \in Nodes
<1>1. PICK k \in 1..Cardinality(Nodes) : l \in [1..k -> Nodes]
  BY DEF Walks
<1>2. k \in Nat \ {0}
  BY <1>1, FS_CardinalityType
<1>3. l \in Seq(Nodes) /\ Len(l) = k
  BY <1>1, <1>2
<1>4. QED
  BY <1>1, <1>2, <1>3

LEMMA ListsType ==
  ASSUME NEW nx, NEW n, NEW l \in Lists(nx, n)
  PROVE  /\ l \in Walks /\ l[1] = n /\ nx[l[Len(l)]] = This
         /\ \A i \in DOMAIN l : i # Len(l) => nx[l[i]] # This /\ nx[l[i]].addr = l[i + 1]
<1>1. l \in Walks
  BY DEF Lists
<1>2. Len(l) \in DOMAIN l
  BY <1>1, WalkType
<1>3. QED
  BY <1>1, <1>2 DEF Lists

\* The links determine the list.
LEMMA OneList ==
  ASSUME NEW nx, NEW n, NEW l \in Lists(nx, n), NEW m \in Lists(nx, n)
  PROVE  l = m
<1>1. /\ l \in Walks /\ l[1] = n /\ nx[l[Len(l)]] = This
      /\ \A i \in DOMAIN l : i # Len(l) => nx[l[i]] # This /\ nx[l[i]].addr = l[i + 1]
      /\ Len(l) \in Nat /\ Len(l) >= 1 /\ DOMAIN l = 1..Len(l) /\ l \in [1..Len(l) -> Nodes]
  BY ListsType, WalkType
<1>2. /\ m \in Walks /\ m[1] = n /\ nx[m[Len(m)]] = This
      /\ \A i \in DOMAIN m : i # Len(m) => nx[m[i]] # This /\ nx[m[i]].addr = m[i + 1]
      /\ Len(m) \in Nat /\ Len(m) >= 1 /\ DOMAIN m = 1..Len(m) /\ m \in [1..Len(m) -> Nodes]
  BY ListsType, WalkType
<1> DEFINE S == {i \in DOMAIN l : i \notin DOMAIN m \/ l[i] # m[i]}
<1>3. S = {}
  <2>1. SUFFICES ASSUME S # {} PROVE FALSE
    OBVIOUS
  <2>2. PICK k \in S : \A i \in S : k <= i
    <3>1. S \in SUBSET Nat
      BY <1>1
    <3> HIDE DEF S
    <3>2. QED
      BY <2>1, <3>1, Least
  <2>3. k \in 1..Len(l) /\ k # 1
    BY <1>1, <1>2
  <2>4. k - 1 \in DOMAIN l /\ k - 1 \notin S
    BY <1>1, <2>2, <2>3
  <2>5. k - 1 \in DOMAIN m /\ l[k - 1] = m[k - 1]
    BY <2>4
  <2>6. nx[l[k - 1]] # This /\ nx[l[k - 1]].addr = l[k]
    <3>1. k - 1 # Len(l) /\ (k - 1) + 1 = k
      BY <1>1, <2>3
    <3>2. QED
      BY <1>1, <2>4, <3>1
  <2>7. k - 1 # Len(m)
    BY <1>2, <2>5, <2>6
  <2>8. k \in DOMAIN m /\ nx[m[k - 1]].addr = m[k]
    <3>1. k \in 1..Len(m) /\ (k - 1) + 1 = k
      BY <1>1, <1>2, <2>3, <2>5, <2>7
    <3>2. QED
      BY <1>2, <2>5, <2>7, <3>1
  <2>9. QED
    BY <2>2, <2>5, <2>6, <2>8
<1>4. \A i \in 1..Len(l) : i \in 1..Len(m) /\ l[i] = m[i]
  BY <1>1, <1>2, <1>3, SMTT(30)
<1>5. Len(l) = Len(m)
  <2>1. Len(l) \in 1..Len(m) /\ m[Len(l)] = l[Len(l)]
    BY <1>1, <1>4
  <2>2. QED
    BY <1>1, <1>2, <2>1, ZenonT(40)
<1>6. QED
  BY <1>1, <1>2, <1>4, <1>5

LEMMA FromIs ==
  ASSUME NEW n, NEW l \in Lists(next, n)
  PROVE  From(n) = l
<1>1. From(n) \in Lists(next, n)
  BY DEF From
<1>2. QED
  BY <1>1, OneList

LEMMA FromIsNext ==
  ASSUME NEW n, NEW l \in Lists(next', n')
  PROVE  From(n)' = l
<1>1. From(n)' \in Lists(next', n')
  BY DEF From
<1>2. QED
  BY <1>1, OneList

LEMMA FromType == ASSUME NEW n \in Nodes PROVE From(n) \in Seq(Nodes) /\ From(n) # <<>>
<1>1. CASE Lists(next, n) = {}
  BY <1>1 DEF From
<1>2. CASE Lists(next, n) # {}
  <2>1. From(n) \in Lists(next, n)
    BY <1>2 DEF From
  <2>2. QED
    BY <2>1, ListsType, WalkType
<1>3. QED
  BY <1>1, <1>2

LEMMA ShortLists ==
  ASSUME NEW k \in Nat \ {0}, NEW l \in [1..k -> Nodes], \A i, j \in 1..k : l[i] = l[j] => i = j
  PROVE  l \in Walks
<1>1. IsFiniteSet(1..k) /\ Cardinality(1..k) = k
  BY FS_Interval
<1>2. l \in Injection(1..k, Nodes)
  BY DEF Injection, IsInjective
<1>3. Cardinality(1..k) <= Cardinality(Nodes)
  BY <1>1, <1>2, FS_Injection
<1>4. k \in 1..Cardinality(Nodes)
  BY <1>1, <1>3, FS_CardinalityType
<1>5. QED
  BY <1>4 DEF Walks

LEMMA ListIs == ASSUME NEW l \in Lists(next', head'.addr) PROVE List' = l
<1>1. From(head.addr)' = l
  BY FromIsNext
<1>2. QED
  BY <1>1 DEF List

-----------------------------------------------------------------------------
(* The list of the queue. Here says that a pointer is the i-th of it.      *)

Here(ptr, i) == i \in DOMAIN List /\ ptr = [addr |-> List[i], stamp |-> head.stamp + i - 1]

LEMMA ListFacts ==
  ASSUME MemoryTypeOK, ListLinked
  PROVE  /\ List \in Lists(next, head.addr)
         /\ Len(List) \in Nat /\ Len(List) >= 1 /\ DOMAIN List = 1..Len(List)
         /\ List \in Seq(Nodes) /\ List \in [1..Len(List) -> Nodes]
         /\ List[1] = head.addr /\ next[List[Len(List)]] = This
         /\ head.stamp \in Nat
<1>1. List \in Lists(next, head.addr)
  BY DEF ListLinked, List, From
<1>2. head.stamp \in Nat
  BY DEF MemoryTypeOK, Ptr
<1>3. List \in Walks
  BY <1>1, ListsType
<1>4. QED
  BY <1>1, <1>2, <1>3, WalkType, ListsType

LEMMA ThisIsNone == ASSUME NEW ptr \in Ptr PROVE ptr # This /\ ptr.addr \in Nodes /\ ptr.stamp \in Nat
BY DEF Ptr, This

LEMMA CountedFinite ==
  /\ IsFiniteSet(LinkedElements) /\ Cardinality(LinkedElements) \in Nat
  /\ IsFiniteSet(Elements) /\ Cardinality(Elements) \in Nat
  /\ Cardinality(LinkedElements) <= Cardinality(Elements)
  /\ IsFiniteSet(Counting) /\ Cardinality(Counting) \in Nat
<1>1. IsFiniteSet(Elements)
  <2>1. IsFiniteSet(1..MaxEnq)
    BY FS_Interval
  <2>2. QED
    BY <2>1, FS_Product DEF Elements
<1>2. LinkedElements \subseteq Elements /\ Counting \subseteq Producers
  BY DEF LinkedElements, Counting
<1>3. QED
  BY <1>1, <1>2, FS_Subset, FS_CardinalityType

\* The node behind the i-th is there as long as the i-th is not the last.
LEMMA NextInList ==
  ASSUME MemoryTypeOK, ListLinked, NEW ptr, NEW i, Here(ptr, i)
  PROVE  /\ i \in 1..Len(List)
         /\ next[ptr.addr] = This <=> i = Len(List)
         /\ next[ptr.addr] # This => Here(next[ptr.addr], i + 1)
<1>1. i \in 1..Len(List) /\ ptr.addr = List[i]
  BY ListFacts DEF Here
<1>2. next[List[Len(List)]] = This /\ head.stamp \in Nat /\ List \in [1..Len(List) -> Nodes] /\ Len(List) \in Nat
  BY ListFacts
<1>3. CASE i = Len(List)
  BY <1>1, <1>2, <1>3
<1>4. CASE i # Len(List)
  <2>1. i \in 1 .. Len(List) - 1 /\ i + 1 \in 1 .. Len(List)
    <3>1. \A k \in Nat : i \in 1..k /\ i # k => i \in 1 .. k - 1 /\ i + 1 \in 1..k
      OBVIOUS
    <3>2. QED
      BY <1>1, <1>2, <1>4, <3>1, ZenonT(40)
  <2>2. next[List[i]] = [addr |-> List[i + 1], stamp |-> head.stamp + i]
    BY <2>1 DEF ListLinked
  <2>3. List[i + 1] \in Nodes
    BY <1>2, <2>1
  <2>4. next[List[i]] # This
    BY <2>2, <2>3 DEF This
  <2>5. head.stamp + i = head.stamp + (i + 1) - 1
    BY <1>2, <2>1
  <2>6. Here(next[List[i]], i + 1)
    BY <2>1, <2>2, <2>5, ListFacts DEF Here
  <2>7. QED
    BY <1>1, <1>4, <2>4, <2>6, SMTT(30), SMTT(30)
<1>5. QED
  BY <1>3, <1>4

\* Pointers into the list are one if their places or their nodes are.
LEMMA OnePointer ==
  ASSUME MemoryTypeOK, ListLinked, NEW ptr, NEW i, Here(ptr, i), NEW q, NEW j, Here(q, j)
  PROVE  /\ i = j => ptr = q
         /\ ptr.addr = q.addr => i = j
         /\ ptr.stamp = head.stamp + i - 1 /\ q.stamp = head.stamp + j - 1
BY DEF Here, ListLinked

LEMMA HeadIsHere == ASSUME MemoryTypeOK, ListLinked PROVE Here(head, 1)
<1>1. head = [addr |-> head.addr, stamp |-> head.stamp]
  BY DEF MemoryTypeOK, Ptr
<1>2. head.stamp = head.stamp + 1 - 1 /\ head.addr = List[1] /\ 1 \in DOMAIN List
  BY ListFacts
<1>3. QED
  BY <1>1, <1>2 DEF Here

LEMMA ListedIsHere ==
  ASSUME MemoryTypeOK, ListLinked, NEW ptr \in Ptr
  PROVE  Listed(ptr) <=> \E i \in DOMAIN List : Here(ptr, i)
<1>1. ASSUME ptr = head PROVE \E i \in DOMAIN List : Here(ptr, i)
  BY <1>1, HeadIsHere DEF Here
<1>2. ASSUME NEW k \in DOMAIN List, next[List[k]] = ptr PROVE \E i \in DOMAIN List : Here(ptr, i)
  <2> DEFINE at == [addr |-> List[k], stamp |-> head.stamp + k - 1]
  <2>1. Here(at, k) /\ at.addr = List[k]
    BY DEF Here
  <2>2. next[at.addr] # This
    BY <1>2, <2>1, ThisIsNone
  <2>3. Here(next[at.addr], k + 1)
    BY <2>1, <2>2, NextInList
  <2>4. QED
    BY <1>2, <2>1, <2>3 DEF Here
<1>3. ASSUME NEW i \in DOMAIN List, Here(ptr, i) PROVE Listed(ptr)
  <2>1. CASE i = 1
    BY <1>3, <2>1, HeadIsHere, OnePointer DEF Listed
  <2>2. CASE i # 1
    <3>1. i - 1 \in 1 .. Len(List) - 1 /\ (i - 1) + 1 = i /\ head.stamp + (i - 1) = head.stamp + i - 1
      BY <2>2, ListFacts
    <3>2. next[List[i - 1]] = [addr |-> List[i], stamp |-> head.stamp + i - 1]
      BY <3>1 DEF ListLinked
    <3>3. i - 1 \in DOMAIN List /\ next[List[i - 1]] = ptr
      BY <1>3, <3>1, <3>2, ListFacts DEF Here
    <3>4. QED
      BY <3>3 DEF Listed
  <2>3. QED
    BY <2>1, <2>2
<1>4. QED
  BY <1>1, <1>2, <1>3 DEF Listed

-----------------------------------------------------------------------------
(* What a step leaves as it is.                                            *)

ListFixed == List' = List /\ head' = head /\ \A i \in DOMAIN List : next'[List[i]] = next[List[i]]

LEMMA SameList ==
  ASSUME MemoryTypeOK, ListLinked, head' = head, \A i \in DOMAIN List : next'[List[i]] = next[List[i]]
  PROVE  ListFixed
<1>1. List \in Lists(next', head'.addr)
  <2>1. List \in Lists(next, head.addr) /\ Len(List) \in Nat /\ DOMAIN List = 1..Len(List)
    BY ListFacts
  <2> HIDE DEF List
  <2>2. QED
    BY <2>1 DEF Lists
<1>2. QED
  BY <1>1, ListIs DEF ListFixed

LEMMA ListLinkedKept ==
  ASSUME MemoryTypeOK, ListLinked, ListFixed, \A i \in DOMAIN List : List[i] \notin pool',
         LinkedElements' = LinkedElements
  PROVE  ListLinked'
<1>1. List \in Lists(next', head'.addr)
  <2>1. List \in Lists(next, head.addr) /\ Len(List) \in Nat /\ DOMAIN List = 1..Len(List)
    BY ListFacts
  <2> HIDE DEF List
  <2>2. QED
    BY <2>1 DEF Lists, ListFixed
<1>2. Cardinality(LinkedElements)' = Cardinality(LinkedElements)
  OBVIOUS
<1>5. Lists(next', head'.addr) # {}
  BY <1>1
<1>6. \A i \in 1 .. Len(List') - 1 : next'[List'[i]] = [addr |-> List'[i + 1], stamp |-> head'.stamp + i]
  <2>1. Len(List) \in Nat /\ DOMAIN List = 1..Len(List)
    BY ListFacts
  <2>2. \A i \in 1 .. Len(List) - 1 : next'[List[i]] = next[List[i]]
    BY <2>1 DEF ListFixed
  <2>3. QED
    BY <2>2 DEF ListFixed, ListLinked
<1>7. QED
  BY <1>2, <1>5, <1>6 DEF ListLinked, ListFixed

LEMMA TailKept ==
  ASSUME TailInList, ListFixed, tail' = tail
  PROVE  TailInList'
BY DEF TailInList, ListFixed

LEMMA TailIsHere == ASSUME TailInList PROVE \E i \in DOMAIN List : Here(tail, i)
BY DEF TailInList, Here

\* tail_ moves on to the next node.
LEMMA TailAdvances ==
  ASSUME MemoryTypeOK, ListLinked, TailInList, ListFixed, next[tail.addr] # This, tail' = next[tail.addr]
  PROVE  TailInList' /\ tail.stamp < tail'.stamp
<1>1. PICK i \in DOMAIN List : Here(tail, i)
  BY TailIsHere
<1>2. Here(tail', i + 1) /\ i \in 1..Len(List) /\ Len(List) \in Nat /\ head.stamp \in Nat
  BY <1>1, NextInList, ListFacts
<1>3. tail.stamp = head.stamp + i - 1 /\ tail'.stamp = head.stamp + (i + 1) - 1
  BY <1>1, <1>2 DEF Here
<1>4. tail.stamp < tail'.stamp
  BY <1>2, <1>3
<1>5. i + 1 \in DOMAIN List' /\ tail' = [addr |-> List'[i + 1], stamp |-> head'.stamp + (i + 1) - 1]
  BY <1>2 DEF Here, ListFixed
<1>6. QED
  BY <1>4, <1>5 DEF TailInList, ListFixed

\* tail_ is not behind head_, so it is not brought back to it.
LEMMA TailBehindHead ==
  ASSUME MemoryTypeOK, ListLinked, TailInList
  PROVE  /\ tail.stamp \in Nat /\ head.stamp \in Nat /\ head.stamp <= tail.stamp
         /\ \A ptr : tail.stamp < ptr.stamp => ptr # head
<1>1. PICK i \in DOMAIN List : Here(tail, i)
  BY TailIsHere
<1>2. i \in 1..Len(List) /\ Len(List) \in Nat /\ head.stamp \in Nat /\ tail.stamp = head.stamp + i - 1
  BY <1>1, ListFacts DEF Here
<1>3. tail.stamp \in Nat /\ head.stamp <= tail.stamp
  BY <1>2
<1>4. QED
  BY <1>2, <1>3

\* The next of the first node has a stamp of its own.
LEMMA NextIsAnother ==
  ASSUME MemoryTypeOK, ListLinked, next[head.addr] # This
  PROVE  next[head.addr] # head
<1>1. Here(head, 1) /\ Here(next[head.addr], 1 + 1)
  BY HeadIsHere, NextInList
<1>2. QED
  BY <1>1, OnePointer

LEMMA StampedType ==
  ASSUME NEW n \in Nodes, NEW ptr \in Ptr
  PROVE  /\ Stamped(n, ptr) \in Ptr /\ Stamped(n, ptr).addr = n
         /\ ptr.stamp + 1 < StampSize => Stamped(n, ptr) = [addr |-> n, stamp |-> ptr.stamp + 1]
<1>1. StampSize \in Nat \ {0} /\ ptr.stamp \in Nat
  BY CountedFinite, ThisIsNone
<1>2. (ptr.stamp + 1) % StampSize \in 0 .. StampSize - 1
  BY <1>1
<1>3. ptr.stamp + 1 < StampSize => (ptr.stamp + 1) % StampSize = ptr.stamp + 1
  BY <1>1
<1>4. QED
  BY <1>2, <1>3 DEF Stamped, Ptr

\* What producer r knows stays true while r rests.
LEMMA ProducerKept ==
  ASSUME MemoryTypeOK, NEW r \in Producers, ProducerSupport(r),
         pc'[r] = pc[r], count'[r] = count[r], new'[r] = new[r], lt'[r] = lt[r], ln'[r] = ln[r],
         pc[r] \in Linking => /\ new[r] \notin pool' /\ next'[new[r]] = next[new[r]]
                              /\ data'[new[r]] = data[new[r]]
                              /\ \A i \in DOMAIN List' : List'[i] # new[r],
         \/ tail' = tail /\ (next[tail.addr] # This => next'[tail.addr] = next[tail.addr])
         \/ tail.stamp < tail'.stamp,
         tail' \in Ptr
  PROVE  ProducerSupport(r)'
<1>1. lt[r].stamp \in Nat /\ tail.stamp \in Nat /\ tail'.stamp \in Nat /\ new[r] \in Nodes
  BY ThisIsNone DEF MemoryTypeOK
<1>2. Stamped(new[r], tail) # This
  BY <1>1, StampedType, ThisIsNone DEF MemoryTypeOK
<1>3. (pc'[r] # "idle" => count'[r] > 0)
  BY DEF ProducerSupport
<1>4. pc'[r] \in Linking => /\ new'[r] \notin pool' /\ \A i \in DOMAIN List' : List'[i] # new'[r]
                            /\ next'[new'[r]] = This /\ data'[new'[r]] = Element(r)'
  BY DEF ProducerSupport, Element
<1>5. pc'[r] \in {"next", "cas", "swing"} => lt'[r].stamp <= tail'.stamp
  BY <1>1 DEF ProducerSupport
<1>6. CASE tail' = tail /\ (next[tail.addr] # This => next'[tail.addr] = next[tail.addr])
  <2>1. pc'[r] = "cas" /\ tail' = lt'[r] /\ ln'[r] # This => next'[tail'.addr] = ln'[r]
    BY <1>6 DEF ProducerSupport
  <2>2. pc'[r] = "swing" /\ tail' = lt'[r] => next'[tail'.addr] = Stamped(new'[r], tail')
    BY <1>2, <1>6 DEF ProducerSupport
  <2>3. QED
    BY <1>3, <1>4, <1>5, <2>1, <2>2 DEF ProducerSupport, Linking, Stamped
<1>7. CASE tail.stamp < tail'.stamp
  <2>1. pc'[r] \in {"next", "cas", "swing"} => tail' # lt'[r]
    BY <1>1, <1>7 DEF ProducerSupport
  <2>2. QED
    BY <1>3, <1>4, <1>5, <2>1 DEF ProducerSupport, Linking
<1>8. QED
  BY <1>6, <1>7

-----------------------------------------------------------------------------
(* Types.                                                                  *)

LEMMA Moves ==
  ASSUME MemoryTypeOK, NEW p \in Producers, NEW l, Goto(p, l)
  PROVE  pc'[p] = l /\ \A r \in Producers \ {p} : pc'[r] = pc[r]
BY DEF MemoryTypeOK, Goto

LEMMA TypeEnqueue ==
  ASSUME MemoryTypeOK, NEW p \in Producers, ProducerSupport(p), Enqueue(p)
  PROVE  MemoryTypeOK'
<1> USE DEF MemoryTypeOK
<1>1. CASE isFull(p)
  <2>1. count[p] + 1 \in 0..MaxEnq
    BY <1>1 DEF isFull
  <2>2. QED
    BY <1>1, <2>1 DEF isFull, Goto, memory, pointers
<1>2. CASE NewNode(p)
  <2>1. PICK n \in pool : /\ pool' = pool \ {n} /\ data' = [data EXCEPT ![n] = Element(p)]
                          /\ next' = [next EXCEPT ![n] = This] /\ new' = [new EXCEPT ![p] = n]
    BY <1>2 DEF NewNode
  <2>2. n \in Nodes
    OBVIOUS
  <2>3. Element(p) \in Elements
    BY <1>2 DEF NewNode, At, ProducerSupport, Element, Elements
  <2>4. QED
    BY <1>2, <2>1, <2>2, <2>3 DEF NewNode, Goto, pointers
<1>3. CASE ReadTail(p)
  BY <1>3 DEF ReadTail, Goto, memory, pointers
<1>4. CASE ReadNext(p)
  <2>1. next[lt[p].addr] \in Ptr \cup {This}
    BY ThisIsNone
  <2>2. QED
    BY <1>4, <2>1 DEF ReadNext, Goto, memory, pointers
<1>5. CASE LinkNode(p)
  <2>1. Stamped(new[p], lt[p]) \in Ptr /\ lt[p].addr \in Nodes
    BY StampedType, ThisIsNone
  <2>2. next' \in [Nodes -> Ptr \cup {This}]
    BY <1>5, <2>1 DEF LinkNode
  <2>3. pc' \in [Producers -> {"idle", "alloc", "tail", "next", "cas", "swing", "inc"}]
    BY <1>5 DEF LinkNode, Goto
  <2>4. QED
    BY <1>5, <2>2, <2>3 DEF LinkNode, pointers
<1>6. CASE HelpTail(p)
  <2>1. tail' \in Ptr
    BY <1>6 DEF HelpTail
  <2>2. QED
    BY <1>6, <2>1 DEF HelpTail, Goto, memory
<1>7. CASE SwingTail(p)
  <2>1. tail' \in Ptr
    BY <1>7, StampedType DEF SwingTail
  <2>2. QED
    BY <1>7, <2>1 DEF SwingTail, Goto, memory
<1>8. CASE IncrementSize(p)
  BY <1>8 DEF IncrementSize, Goto, memory, pointers
<1>9. QED
  BY <1>1, <1>2, <1>3, <1>4, <1>5, <1>6, <1>7, <1>8 DEF Enqueue

-----------------------------------------------------------------------------
(* Where the sets of the counts come from.                                 *)

LEMMA LinkedElementsKept ==
  ASSUME MemoryTypeOK, NEW p \in Producers, \A r \in Producers \ {p} : pc'[r] = pc[r],
         count' = count, pc[p] \in {"alloc"} \cup Linking <=> pc'[p] \in {"alloc"} \cup Linking
  PROVE  LinkedElements' = LinkedElements
BY DEF LinkedElements, Elements, Linking

LEMMA CountingKept ==
  ASSUME MemoryTypeOK, NEW p \in Producers, \A r \in Producers \ {p} : pc'[r] = pc[r],
         pc[p] \in {"swing", "inc"} <=> pc'[p] \in {"swing", "inc"}
  PROVE  Counting' = Counting
BY DEF Counting

LEMMA MemoryKept ==
  ASSUME MemoryTypeOK, ListLinked, UNCHANGED <<memory, head>>
  PROVE  ListFixed /\ \A i \in DOMAIN List : List[i] \notin pool'
<1>1. next' = next /\ pool' = pool /\ head' = head
  BY DEF memory
<1>2. ListFixed
  BY <1>1, SameList
<1>3. QED
  BY <1>1, <1>2 DEF ListLinked

LEMMA OwnNodesKept ==
  ASSUME OwnNodes, new' = new, \A r \in Producers : pc'[r] \in Linking => pc[r] \in Linking
  PROVE  OwnNodes'
BY DEF OwnNodes, Linking

LEMMA CountedType ==
  ASSUME MemoryTypeOK, ListLinked
  PROVE  size \in Int /\ Len(List) \in Nat /\ Cardinality(Counting) \in Nat /\ Uncounted \in Int
<1> DEFINE l == Len(List)
           c == Cardinality(Counting)
<1>1. size \in Int /\ l \in Nat /\ c \in Nat /\ Uncounted = l - 1 - size - c
  BY CountedFinite, ListFacts DEF MemoryTypeOK, Uncounted
<1> HIDE DEF l, c
<1>2. Uncounted \in Int
  BY <1>1
<1>3. QED
  BY <1>1, <1>2 DEF l, c

\* What a step of a producer is to those who dequeue.
Enqueued ==
  /\ head' = head /\ (next[head.addr] # This => next'[head.addr] = next[head.addr])
  /\ tail' = tail \/ tail.stamp < tail'.stamp
  /\ \A i \in DOMAIN List : /\ i \in DOMAIN List' /\ List'[i] = List[i]
                           /\ data'[List[i]] = data[List[i]]
  /\ Uncounted' = Uncounted

LEMMA SameUncounted ==
  ASSUME MemoryTypeOK, ListLinked, MemoryTypeOK', ListLinked', Len(List') = Len(List),
         size' + Cardinality(Counting') = size + Cardinality(Counting)
  PROVE  Uncounted' = Uncounted
<1> DEFINE l == Len(List)
           c == Cardinality(Counting)
           d == Cardinality(Counting')
<1>1. /\ size \in Int /\ l \in Nat /\ c \in Nat /\ Uncounted = l - 1 - size - c
      /\ size' + d = size + c
  BY CountedType DEF Uncounted
<1>2. size' \in Int /\ d \in Nat
  <2>1. Counting' \subseteq Producers
    BY DEF Counting
  <2>2. QED
    BY <2>1, FS_Subset, FS_CardinalityType DEF MemoryTypeOK
<1>3. Uncounted' = l - 1 - size' - d
  BY DEF Uncounted
<1> HIDE DEF l, c, d
<1>4. PICK s \in Int, e \in Nat : s = size' /\ e = d
  BY <1>2
<1>5. s + e = size + c /\ Uncounted' = l - 1 - s - e
  BY <1>1, <1>3, <1>4
<1>6. QED
  BY <1>1, <1>5

\* A step of producer p that writes no node: tail_ stays or moves on to the next node.
LEMMA ProducerReads ==
  ASSUME QueueCore, MemoryTypeOK', NEW p \in Producers, UNCHANGED <<memory, head, new>>,
         \A r \in Producers \ {p} :
            pc'[r] = pc[r] /\ count'[r] = count[r] /\ lt'[r] = lt[r] /\ ln'[r] = ln[r],
         pc'[p] \in Linking => pc[p] \in Linking,
         LinkedElements' = LinkedElements,
         size' + Cardinality(Counting') = size + Cardinality(Counting),
         tail' = tail \/ (next[tail.addr] # This /\ tail' = next[tail.addr]),
         ProducerSupport(p)'
  PROVE  QueueCore' /\ Enqueued
<1>1. MemoryTypeOK /\ ListLinked /\ TailInList /\ OwnNodes
  BY DEF QueueCore
<1>2. ListFixed /\ \A i \in DOMAIN List : List[i] \notin pool'
  BY <1>1, MemoryKept
<1>3. next' = next /\ pool' = pool /\ data' = data /\ head' = head /\ new' = new
  BY DEF memory
<1>4. ListLinked'
  BY <1>1, <1>2, ListLinkedKept
<1>5. TailInList' /\ (tail' = tail \/ tail.stamp < tail'.stamp)
  BY <1>1, <1>2, <1>3, TailKept, TailAdvances
<1>6. Uncounted' = Uncounted
  <2>1. Len(List') = Len(List)
    BY <1>2 DEF ListFixed
  <2>2. QED
    BY <1>1, <1>4, <2>1, SameUncounted
<1>7. OwnNodes'
  BY <1>1, <1>3, OwnNodesKept
<1>8. ASSUME NEW r \in Producers PROVE ProducerSupport(r)'
  <2>1. CASE r = p
    BY <2>1
  <2>2. CASE r # p
    <3>1. ProducerSupport(r) /\ List' = List /\ tail' \in Ptr
      BY <1>2 DEF QueueCore, ListFixed, MemoryTypeOK
    <3>2. pc[r] \in Linking => new[r] \notin pool' /\ \A i \in DOMAIN List' : List'[i] # new[r]
      BY <1>3, <3>1 DEF ProducerSupport
    <3>3. pc'[r] = pc[r] /\ count'[r] = count[r] /\ new'[r] = new[r] /\ lt'[r] = lt[r] /\ ln'[r] = ln[r]
      BY <1>3, <2>2
    <3>4. QED
      BY <1>1, <1>3, <1>5, <3>1, <3>2, <3>3, ProducerKept
  <2>3. QED
    BY <2>1, <2>2
<1>9. Enqueued
  BY <1>2, <1>3, <1>5, <1>6 DEF Enqueued, ListFixed
<1>10. QED
  BY <1>4, <1>5, <1>7, <1>8, <1>9 DEF QueueCore

-----------------------------------------------------------------------------
(* Enqueue.                                                                *)

LEMMA isFullKeeps ==
  ASSUME QueueCore, NEW p \in Producers, isFull(p)
  PROVE  QueueCore' /\ Enqueued
<1>1. MemoryTypeOK /\ ProducerSupport(p) /\ MemoryTypeOK'
  BY TypeEnqueue DEF QueueCore, Enqueue
<1>2. pc[p] = "idle" /\ pc'[p] = "alloc" /\ \A r \in Producers \ {p} : pc'[r] = pc[r]
  BY <1>1, Moves DEF isFull, At
<1>3. count[p] \in Nat /\ count' = [count EXCEPT ![p] = @ + 1] /\ count \in [Producers -> 0..MaxEnq]
  BY <1>1 DEF isFull, MemoryTypeOK
<1>4. LinkedElements' = LinkedElements
  <2>1. ASSUME NEW e \in Elements
        PROVE  (e[2] < count'[e[1]] \/ (e[2] = count'[e[1]] /\ pc'[e[1]] \notin {"alloc"} \cup Linking))
           <=> (e[2] < count[e[1]] \/ (e[2] = count[e[1]] /\ pc[e[1]] \notin {"alloc"} \cup Linking))
    <3>1. e[1] \in Producers /\ e[2] \in Nat
      BY DEF Elements
    <3>2. CASE e[1] = p
      BY <1>2, <1>3, <3>1, <3>2 DEF Linking
    <3>3. CASE e[1] # p
      BY <1>2, <1>3, <3>1, <3>3
    <3>4. QED
      BY <3>2, <3>3
  <2>2. QED
    BY <2>1 DEF LinkedElements, Linking
<1>5. Counting' = Counting
  BY <1>1, <1>2, CountingKept
<1>6. UNCHANGED <<memory, head, new>> /\ tail' = tail /\ size' = size /\ lt' = lt /\ ln' = ln
  BY DEF isFull, pointers
<1>8. ProducerSupport(p)'
  BY <1>2, <1>3 DEF ProducerSupport, Linking
<1>9. \A r \in Producers \ {p} :
        pc'[r] = pc[r] /\ count'[r] = count[r] /\ lt'[r] = lt[r] /\ ln'[r] = ln[r]
  BY <1>2, <1>3, <1>6
<1>10. pc'[p] \in Linking => pc[p] \in Linking
  BY <1>2 DEF Linking
<1>11. size' + Cardinality(Counting') = size + Cardinality(Counting)
  BY <1>5, <1>6
<1>12. QED
  BY <1>1, <1>4, <1>6, <1>8, <1>9, <1>10, <1>11, ProducerReads

LEMMA NewNodeKeeps ==
  ASSUME QueueCore, NEW p \in Producers, NewNode(p)
  PROVE  QueueCore' /\ Enqueued
<1>1. MemoryTypeOK /\ ListLinked /\ TailInList /\ OwnNodes /\ ProducerSupport(p) /\ MemoryTypeOK'
  BY TypeEnqueue DEF QueueCore, Enqueue
<1>2. pc[p] = "alloc" /\ pc'[p] = "tail" /\ \A r \in Producers \ {p} : pc'[r] = pc[r]
  BY <1>1, Moves DEF NewNode, At
<1>3. PICK n \in pool : /\ pool' = pool \ {n} /\ data' = [data EXCEPT ![n] = Element(p)]
                        /\ next' = [next EXCEPT ![n] = This] /\ new' = [new EXCEPT ![p] = n]
  BY DEF NewNode
<1>4. /\ n \in Nodes /\ next'[n] = This /\ data'[n] = Element(p) /\ new'[p] = n
      /\ \A m \in Nodes \ {n} : next'[m] = next[m] /\ data'[m] = data[m]
      /\ \A r \in Producers \ {p} : new'[r] = new[r]
  BY <1>1, <1>3 DEF MemoryTypeOK
<1>5. UNCHANGED <<head, tail, size, lt, ln, count>> /\ lt' = lt /\ ln' = ln /\ count' = count
  BY DEF NewNode, pointers
<1>6. \A i \in DOMAIN List : List[i] # n /\ List[i] \in Nodes /\ List[i] \notin pool'
  <2>1. \A i \in DOMAIN List : List[i] \notin pool /\ List[i] \in Nodes
    BY <1>1, ListFacts DEF ListLinked
  <2>2. QED
    BY <1>3, <2>1
<1>7. ListFixed
  BY <1>1, <1>4, <1>5, <1>6, SameList
<1>8. tail.addr \in Nodes \ {n} /\ head.addr \in Nodes \ {n}
  BY <1>1, <1>6, TailIsHere, HeadIsHere DEF Here
<1>9. LinkedElements' = LinkedElements /\ Counting' = Counting
  BY <1>1, <1>2, <1>5, LinkedElementsKept, CountingKept DEF Linking
<1>10. ListLinked'
  BY <1>1, <1>5, <1>6, <1>7, <1>9, ListLinkedKept
<1>11. TailInList'
  BY <1>1, <1>5, <1>7, TailKept
<1>12. Enqueued
  <2>1. Len(List') = Len(List)
    BY <1>7 DEF ListFixed
  <2>2. Uncounted' = Uncounted
    BY <1>1, <1>5, <1>9, <1>10, <2>1, SameUncounted
  <2>3. \A i \in DOMAIN List : List[i] \in Nodes \ {n}
    BY <1>6
  <2>4. next'[head.addr] = next[head.addr] /\ \A i \in DOMAIN List : data'[List[i]] = data[List[i]]
    BY <1>4, <1>8, <2>3
  <2>5. QED
    BY <1>5, <1>7, <2>2, <2>4 DEF Enqueued, ListFixed
<1>13. \A r \in Producers \ {p} : pc[r] \in Linking => new[r] \in Nodes \ {n} /\ new[r] \notin pool'
  BY <1>1, <1>3 DEF QueueCore, ProducerSupport, MemoryTypeOK
<1>14. OwnNodes'
  BY <1>1, <1>2, <1>4, <1>13 DEF OwnNodes, Linking
<1>15. ASSUME NEW r \in Producers PROVE ProducerSupport(r)'
  <2>1. CASE r = p
    <3>1. pc'[p] = "tail" /\ count'[p] > 0 /\ Element(p)' = Element(p)
      BY <1>1, <1>2, <1>5 DEF ProducerSupport, Element
    <3>2. new'[p] \notin pool' /\ \A i \in DOMAIN List' : List'[i] # new'[p]
      BY <1>3, <1>4, <1>6, <1>7 DEF ListFixed
    <3>3. QED
      BY <1>4, <2>1, <3>1, <3>2 DEF ProducerSupport
  <2>2. CASE r # p
    <3>1. ProducerSupport(r) /\ List' = List /\ tail' \in Ptr
      BY <1>1, <1>7 DEF QueueCore, ListFixed, MemoryTypeOK
    <3>2. pc[r] \in Linking => /\ new[r] \notin pool' /\ next'[new[r]] = next[new[r]]
                               /\ data'[new[r]] = data[new[r]]
                               /\ \A i \in DOMAIN List' : List'[i] # new[r]
      BY <1>4, <1>13, <2>2, <3>1 DEF ProducerSupport
    <3>3. pc'[r] = pc[r] /\ count'[r] = count[r] /\ new'[r] = new[r] /\ lt'[r] = lt[r] /\ ln'[r] = ln[r]
      BY <1>2, <1>4, <1>5, <2>2
    <3>4. tail' = tail /\ next'[tail.addr] = next[tail.addr]
      BY <1>4, <1>5, <1>8
    <3>5. QED
      BY <1>1, <3>1, <3>2, <3>3, <3>4, ProducerKept
  <2>3. QED
    BY <2>1, <2>2
<1>16. QED
  BY <1>1, <1>10, <1>11, <1>12, <1>14, <1>15 DEF QueueCore

LEMMA ReadTailKeeps ==
  ASSUME QueueCore, NEW p \in Producers, ReadTail(p)
  PROVE  QueueCore' /\ Enqueued
<1>1. MemoryTypeOK /\ ProducerSupport(p) /\ MemoryTypeOK'
  BY TypeEnqueue DEF QueueCore, Enqueue
<1>2. pc[p] = "tail" /\ pc'[p] = "next" /\ \A r \in Producers \ {p} : pc'[r] = pc[r]
  BY <1>1, Moves DEF ReadTail, At
<1>3. UNCHANGED <<memory, head, tail, size, new, ln, count>> /\ lt' = [lt EXCEPT ![p] = tail]
  BY DEF ReadTail, pointers
<1>4. LinkedElements' = LinkedElements /\ Counting' = Counting
  BY <1>1, <1>2, <1>3, LinkedElementsKept, CountingKept DEF Linking
<1>5. lt'[p] = tail /\ \A r \in Producers \ {p} : lt'[r] = lt[r]
  BY <1>1, <1>3 DEF MemoryTypeOK
<1>6. ProducerSupport(p)'
  <2>1. ListLinked /\ tail.stamp \in Nat
    BY <1>1, ThisIsNone DEF QueueCore, MemoryTypeOK
  <2>2. List' = List
    BY <1>1, <1>3, <2>1, MemoryKept DEF ListFixed
  <2>3. QED
    BY <1>1, <1>2, <1>3, <1>5, <2>1, <2>2 DEF ProducerSupport, Linking, memory, Element
<1>7. pc'[p] \in Linking => pc[p] \in Linking
  BY <1>2 DEF Linking
<1>8. QED
  BY <1>1, <1>2, <1>3, <1>4, <1>5, <1>6, <1>7, ProducerReads

LEMMA ReadNextKeeps ==
  ASSUME QueueCore, NEW p \in Producers, ReadNext(p)
  PROVE  QueueCore' /\ Enqueued
<1>1. MemoryTypeOK /\ ProducerSupport(p) /\ MemoryTypeOK'
  BY TypeEnqueue DEF QueueCore, Enqueue
<1>2. pc[p] = "next" /\ pc'[p] = "cas" /\ \A r \in Producers \ {p} : pc'[r] = pc[r]
  BY <1>1, Moves DEF ReadNext, At
<1>3. UNCHANGED <<memory, head, tail, size, new, lt, count>>
      /\ ln' = [ln EXCEPT ![p] = next[lt[p].addr]]
  BY DEF ReadNext, pointers
<1>4. LinkedElements' = LinkedElements /\ Counting' = Counting
  BY <1>1, <1>2, <1>3, LinkedElementsKept, CountingKept DEF Linking
<1>5. ln'[p] = next[lt[p].addr] /\ \A r \in Producers \ {p} : ln'[r] = ln[r]
  BY <1>1, <1>3 DEF MemoryTypeOK
<1>6. ProducerSupport(p)'
  <2>1. List' = List
    BY <1>1, <1>3, MemoryKept DEF ListFixed, QueueCore
  <2>2. QED
    BY <1>1, <1>2, <1>3, <1>5, <2>1 DEF ProducerSupport, Linking, memory, Element
<1>7. pc'[p] \in Linking => pc[p] \in Linking
  BY <1>2 DEF Linking
<1>8. QED
  BY <1>1, <1>2, <1>3, <1>4, <1>5, <1>6, <1>7, ProducerReads

LEMMA HelpTailKeeps ==
  ASSUME QueueCore, NEW p \in Producers, HelpTail(p)
  PROVE  QueueCore' /\ Enqueued
<1>1. MemoryTypeOK /\ ProducerSupport(p) /\ MemoryTypeOK'
  BY TypeEnqueue DEF QueueCore, Enqueue
<1>2. pc[p] = "cas" /\ pc'[p] = "tail" /\ \A r \in Producers \ {p} : pc'[r] = pc[r]
  BY <1>1, Moves DEF HelpTail, At
<1>3. UNCHANGED <<memory, head, size, new, lt, ln, count>>
  BY DEF HelpTail
<1>4. LinkedElements' = LinkedElements /\ Counting' = Counting
  BY <1>1, <1>2, <1>3, LinkedElementsKept, CountingKept DEF Linking
<1>5. tail' = tail \/ (next[tail.addr] # This /\ tail' = next[tail.addr])
  BY <1>1, <1>2 DEF HelpTail, ProducerSupport
<1>6. ProducerSupport(p)'
  <2>1. List' = List
    BY <1>1, <1>3, MemoryKept DEF ListFixed, QueueCore
  <2>2. QED
    BY <1>1, <1>2, <1>3, <2>1 DEF ProducerSupport, Linking, memory, Element
<1>7. pc'[p] \in Linking => pc[p] \in Linking
  BY <1>2 DEF Linking
<1>8. QED
  BY <1>1, <1>2, <1>3, <1>4, <1>5, <1>6, <1>7, ProducerReads

LEMMA SwingTailKeeps ==
  ASSUME QueueCore, NEW p \in Producers, SwingTail(p)
  PROVE  QueueCore' /\ Enqueued
<1>1. MemoryTypeOK /\ ProducerSupport(p) /\ MemoryTypeOK'
  BY TypeEnqueue DEF QueueCore, Enqueue
<1>2. pc[p] = "swing" /\ pc'[p] = "inc" /\ \A r \in Producers \ {p} : pc'[r] = pc[r]
  BY <1>1, Moves DEF SwingTail, At
<1>3. UNCHANGED <<memory, head, size, new, lt, ln, count>>
  BY DEF SwingTail
<1>4. LinkedElements' = LinkedElements /\ Counting' = Counting
  BY <1>1, <1>2, <1>3, LinkedElementsKept, CountingKept DEF Linking
<1>5. tail' = tail \/ (next[tail.addr] # This /\ tail' = next[tail.addr])
  <2>1. Stamped(new[p], lt[p]) # This
    BY <1>1, StampedType, ThisIsNone DEF MemoryTypeOK
  <2>2. CASE tail = lt[p]
    BY <1>1, <1>2, <2>1, <2>2 DEF SwingTail, ProducerSupport
  <2>3. CASE tail # lt[p]
    BY <2>3 DEF SwingTail
  <2>4. QED
    BY <2>2, <2>3
<1>6. ProducerSupport(p)'
  BY <1>1, <1>2, <1>3 DEF ProducerSupport, Linking
<1>7. pc'[p] \in Linking => pc[p] \in Linking
  BY <1>2 DEF Linking
<1>8. QED
  BY <1>1, <1>2, <1>3, <1>4, <1>5, <1>6, <1>7, ProducerReads

LEMMA IncrementSizeKeeps ==
  ASSUME QueueCore, NEW p \in Producers, IncrementSize(p)
  PROVE  QueueCore' /\ Enqueued
<1>1. MemoryTypeOK /\ ProducerSupport(p) /\ MemoryTypeOK'
  BY TypeEnqueue DEF QueueCore, Enqueue
<1>2. pc[p] = "inc" /\ pc'[p] = "idle" /\ \A r \in Producers \ {p} : pc'[r] = pc[r]
  BY <1>1, Moves DEF IncrementSize, At
<1>3. UNCHANGED <<memory, head, tail, new, lt, ln, count>> /\ size' = size + 1
  BY DEF IncrementSize, pointers
<1>4. LinkedElements' = LinkedElements
  BY <1>1, <1>2, <1>3, LinkedElementsKept DEF Linking
<1>5. size' + Cardinality(Counting') = size + Cardinality(Counting)
  <2>1. Counting' = Counting \ {p} /\ p \in Counting
    BY <1>2 DEF Counting
  <2>2. Cardinality(Counting') = Cardinality(Counting) - 1
    BY <2>1, CountedFinite, FS_RemoveElement
  <2> DEFINE c == Cardinality(Counting)
  <2>3. c \in Nat /\ size \in Int
    BY <1>1, CountedFinite DEF MemoryTypeOK
  <2> HIDE DEF c
  <2>4. (size + 1) + (c - 1) = size + c
    BY <2>3
  <2>5. QED
    BY <1>3, <1>4, <2>2, <2>4 DEF c
<1>6. ProducerSupport(p)'
  BY <1>2 DEF ProducerSupport, Linking
<1>7. pc'[p] \in Linking => pc[p] \in Linking
  BY <1>2 DEF Linking
<1>8. QED
  BY <1>1, <1>2, <1>3, <1>4, <1>5, <1>6, <1>7, ProducerReads

LEMMA LinkRetriedKeeps ==
  ASSUME QueueCore, NEW p \in Producers, LinkNode(p), next[lt[p].addr] # This
  PROVE  QueueCore' /\ Enqueued
<1>1. MemoryTypeOK /\ ProducerSupport(p) /\ MemoryTypeOK'
  BY TypeEnqueue DEF QueueCore, Enqueue
<1>2. pc[p] = "cas" /\ pc'[p] = "tail" /\ \A r \in Producers \ {p} : pc'[r] = pc[r]
  BY <1>1, Moves DEF LinkNode, At
<1>3. UNCHANGED <<memory, head, tail, size, new, lt, ln, count>>
  BY DEF LinkNode, pointers, memory
<1>4. LinkedElements' = LinkedElements /\ Counting' = Counting
  BY <1>1, <1>2, <1>3, LinkedElementsKept, CountingKept DEF Linking
<1>5. ProducerSupport(p)'
  <2>1. List' = List
    BY <1>1, <1>3, MemoryKept DEF ListFixed, QueueCore
  <2>2. QED
    BY <1>1, <1>2, <1>3, <2>1 DEF ProducerSupport, Linking, memory, Element
<1>6. pc'[p] \in Linking => pc[p] \in Linking
  BY <1>2 DEF Linking
<1>7. QED
  BY <1>1, <1>2, <1>3, <1>4, <1>5, <1>6, ProducerReads

\* The node that p links to is the last one, as it is in the list.
LEMMA LinkAtEnd ==
  ASSUME QueueCore, NEW p \in Producers, LinkNode(p), next[lt[p].addr] = This, Listed(lt[p])
  PROVE  /\ Here(lt[p], Len(List)) /\ lt[p].addr = List[Len(List)]
         /\ next' = [next EXCEPT ![lt[p].addr] = [addr |-> new[p], stamp |-> head.stamp + Len(List)]]
<1>1. MemoryTypeOK /\ ListLinked /\ ProducerSupport(p) /\ lt[p] \in Ptr /\ new[p] \in Nodes
  BY DEF QueueCore, MemoryTypeOK
<1>2. PICK i \in DOMAIN List : Here(lt[p], i)
  BY <1>1, ListedIsHere
<1>3. i = Len(List)
  BY <1>1, <1>2, NextInList
<1>4. lt[p].stamp + 1 = head.stamp + Len(List) /\ lt[p].addr = List[Len(List)]
  <2>1. lt[p].stamp = head.stamp + Len(List) - 1 /\ lt[p].addr = List[Len(List)]
    BY <1>2, <1>3 DEF Here
  <2>2. Len(List) \in Nat /\ head.stamp \in Nat
    BY <1>1, ListFacts
  <2>3. QED
    BY <2>1, <2>2
<1>5. lt[p].stamp + 1 < StampSize
  <2>1. Element(p) \in Elements \ LinkedElements
    BY <1>1 DEF LinkNode, At, Linking, ProducerSupport, Element, Elements, LinkedElements, MemoryTypeOK
  <2>2. LinkedElements \subseteq Elements \ {Element(p)}
    BY <2>1 DEF LinkedElements
  <2>3. Cardinality(LinkedElements) <= Cardinality(Elements) - 1
    <3>1. Cardinality(Elements \ {Element(p)}) = Cardinality(Elements) - 1 /\ IsFiniteSet(Elements \ {Element(p)})
      BY <2>1, CountedFinite, FS_RemoveElement
    <3>2. QED
      BY <2>2, <3>1, FS_Subset
  <2>4. head.stamp + Len(List) = Cardinality(LinkedElements) + 1
    BY <1>1 DEF ListLinked
  <2> DEFINE a == Cardinality(LinkedElements)
             b == Cardinality(Elements)
  <2>5. a \in Nat /\ b \in Nat /\ a <= b - 1 /\ lt[p].stamp + 1 = a + 1 /\ b < StampSize /\ StampSize \in Nat
    BY <1>4, <2>3, <2>4, CountedFinite
  <2> HIDE DEF a, b
  <2>6. QED
    BY <2>5
<1>6. Stamped(new[p], lt[p]) = [addr |-> new[p], stamp |-> head.stamp + Len(List)]
  BY <1>1, <1>4, <1>5, StampedType
<1>7. QED
  BY <1>2, <1>3, <1>4, <1>6 DEF LinkNode

\* The list becomes longer by the node.
LEMMA LinkExtends ==
  ASSUME QueueCore, NEW p \in Producers, LinkNode(p), next[lt[p].addr] = This, Listed(lt[p])
  PROVE  /\ List' \in Seq(Nodes) /\ Len(List') = Len(List) + 1 /\ DOMAIN List' = 1 .. Len(List) + 1
         /\ List'[Len(List) + 1] = new[p] /\ \A i \in DOMAIN List : List'[i] = List[i]
         /\ ListLinked'
<1>1. MemoryTypeOK /\ ListLinked /\ ProducerSupport(p) /\ new[p] \in Nodes /\ next \in [Nodes -> Ptr \cup {This}]
  BY DEF QueueCore, MemoryTypeOK
<1> DEFINE n == Len(List)
           M == Append(List, new[p])
<1>2. /\ List \in Seq(Nodes) /\ n \in Nat /\ n >= 1 /\ DOMAIN List = 1..n
      /\ List[1] = head.addr /\ next[List[n]] = This /\ head.stamp \in Nat
  BY <1>1, ListFacts
<1>3. next' = [next EXCEPT ![List[n]] = [addr |-> new[p], stamp |-> head.stamp + n]]
  BY LinkAtEnd
<1>4. head' = head /\ pool' = pool /\ size' = size /\ count' = count
  BY DEF LinkNode, pointers
<1>5. pc[p] = "cas" /\ pc'[p] = "swing" /\ \A r \in Producers \ {p} : pc'[r] = pc[r]
  BY <1>1, Moves DEF LinkNode, At
<1>6. /\ new[p] \notin pool /\ next[new[p]] = This
      /\ \A i \in DOMAIN List : List[i] # new[p]
  BY <1>1, <1>5 DEF ProducerSupport, Linking
<1>7. /\ M \in Seq(Nodes) /\ Len(M) = n + 1 /\ DOMAIN M = 1 .. n + 1 /\ M[n + 1] = new[p]
      /\ \A i \in 1..n : M[i] = List[i] /\ M[i] \in Nodes /\ M[i] # new[p]
  BY <1>1, <1>2, <1>6
<1>8. \A i, j \in 1 .. n + 1 : M[i] = M[j] => i = j
  <2>1. \A i, j \in 1..n : List[i] = List[j] => i = j
    BY <1>1, <1>2 DEF ListLinked
  <2>2. \A i \in 1 .. n + 1 : i \in 1..n \/ i = n + 1
    BY <1>2
  <2> HIDE DEF n, M
  <2>3. QED
    BY <1>7, <2>1, <2>2
<1>9. /\ next'[M[n]] = [addr |-> new[p], stamp |-> head.stamp + n] /\ next'[new[p]] = This
      /\ \A i \in 1 .. n - 1 : next'[M[i]] = [addr |-> M[i + 1], stamp |-> head.stamp + i]
  <2>1. n \in 1..n /\ M[n] = List[n] /\ List[n] \in Nodes /\ List[n] # new[p]
    BY <1>2, <1>7
  <2>2. ASSUME NEW i \in 1 .. n - 1
        PROVE  next'[M[i]] = [addr |-> M[i + 1], stamp |-> head.stamp + i]
    <3>1. i \in 1..n /\ i + 1 \in 1..n /\ i # n
      BY <1>2
    <3>2. next[List[i]] = [addr |-> List[i + 1], stamp |-> head.stamp + i]
      BY <1>1, SMTT(30) DEF ListLinked
    <3>3. List[i] # List[n] /\ List[i] \in Nodes /\ M[i] = List[i] /\ M[i + 1] = List[i + 1]
      BY <1>1, <1>2, <1>7, <2>1, <3>1, ZenonT(40) DEF ListLinked
    <3> HIDE DEF n, M
    <3>4. QED
      BY <1>1, <1>3, <3>2, <3>3
  <2> HIDE DEF n, M
  <2>3. QED
    BY <1>1, <1>3, <1>6, <2>1, <2>2
<1>10. \A i \in 1..n : next'[M[i]] = [addr |-> M[i + 1], stamp |-> head.stamp + i]
  <2>1. \A k \in Nat : \A i \in 1..k : i = k \/ i \in 1 .. k - 1
    OBVIOUS
  <2> HIDE DEF n, M
  <2>2. QED
    BY <1>2, <1>7, <1>9, <2>1
<1>11. M \in Lists(next', head'.addr)
  <2>1. M \in [1 .. n + 1 -> Nodes] /\ n + 1 \in Nat \ {0}
    <3>1. n + 1 \in Nat \ {0}
      BY <1>2
    <3>2. M \in [1..Len(M) -> Nodes]
      <4> HIDE DEF n, M
      <4>1. QED
        BY <1>7
    <3>3. QED
      BY <1>7, <3>1, <3>2
  <2>2. M \in Walks
    <3> HIDE DEF n, M
    <3>1. QED
      BY <1>8, <2>1, ShortLists
  <2>3. \A i \in 1 .. n + 1 : i # n + 1 => i \in 1..n /\ M[i + 1] \in Nodes
    BY <1>1, <1>2, <1>7
  <2>4. \A i \in 1 .. n + 1 : i # n + 1 => next'[M[i]] # This /\ next'[M[i]].addr = M[i + 1]
    <3> HIDE DEF n, M
    <3>1. ASSUME NEW i \in 1 .. n + 1, i # n + 1
          PROVE  next'[M[i]] # This /\ next'[M[i]].addr = M[i + 1]
      <4>1. next'[M[i]] = [addr |-> M[i + 1], stamp |-> head.stamp + i] /\ M[i + 1] \in Nodes
        BY <1>10, <2>3, <3>1
      <4>2. M[i + 1] # This.addr
        BY <4>1
      <4>3. QED
        BY <4>1, <4>2
    <3>2. QED
      BY <3>1
  <2>5. M[1] = head'.addr
    BY <1>2, <1>4, <1>7
  <2> HIDE DEF n, M
  <2>6. QED
    BY <1>7, <1>9, <2>2, <2>4, <2>5 DEF Lists
<1>12. List' = M
  <2> HIDE DEF M
  <2>1. QED
    BY <1>11, ListIs
<1>13. head'.stamp + Len(List') = Cardinality(LinkedElements)' + 1
  <2>1. Element(p) \in Elements \ LinkedElements
    BY <1>1, <1>5 DEF Linking, ProducerSupport, Element, Elements, LinkedElements, MemoryTypeOK
  <2>2. LinkedElements' = LinkedElements \cup {Element(p)}
    <3>1. ASSUME NEW e \in Elements, e[1] # p
          PROVE  pc'[e[1]] = pc[e[1]]
      BY <1>5, <3>1 DEF Elements
    <3>2. ASSUME NEW e \in Elements, e[1] = p
          PROVE  (e[2] < count'[p] \/ e[2] = count'[p]) <=> (e[2] < count[p] \/ e = Element(p))
      BY <1>4, <3>2 DEF Elements, Element
    <3>3. QED
      BY <1>4, <1>5, <2>1, <3>1, <3>2 DEF LinkedElements, Linking, Element
  <2>3. Cardinality(LinkedElements \cup {Element(p)}) = Cardinality(LinkedElements) + 1
    BY <2>1, CountedFinite, FS_AddElement
  <2>4. head.stamp + n = Cardinality(LinkedElements) + 1
    BY <1>1 DEF ListLinked
  <2> DEFINE a == Cardinality(LinkedElements)
  <2>5. a \in Nat /\ Cardinality(LinkedElements)' = a + 1
    BY <2>2, <2>3, CountedFinite
  <2>6. Len(List') = n + 1 /\ head'.stamp = head.stamp
    BY <1>4, <1>7, <1>12
  <2> HIDE DEF a, n
  <2>7. QED
    BY <1>2, <2>4, <2>5, <2>6 DEF a
<1>15. \A i \in 1 .. n + 1 : M[i] \notin pool'
  <2>1. \A i \in 1..n : List[i] \notin pool
    BY <1>1, <1>2 DEF ListLinked
  <2>2. \A i \in 1 .. n + 1 : i \in 1..n \/ i = n + 1
    BY <1>2
  <2> HIDE DEF n, M
  <2>3. QED
    BY <1>4, <1>6, <1>7, <2>1, <2>2
<1>16. ListLinked'
  <2>1. Lists(next', head'.addr) # {}
    BY <1>11
  <2>2. Len(M) = n + 1 /\ (n + 1) - 1 = n /\ DOMAIN M = 1 .. n + 1 /\ head'.stamp = head.stamp
    BY <1>2, <1>4, <1>7
  <2> HIDE DEF n, M
  <2>3. QED
    BY <1>8, <1>10, <1>12, <1>13, <1>15, <2>1, <2>2 DEF ListLinked
<1>17. QED
  BY <1>2, <1>7, <1>12, <1>16

LEMMA LinkKeeps ==
  ASSUME QueueCore, NEW p \in Producers, LinkNode(p), next[lt[p].addr] = This, Listed(lt[p])
  PROVE  QueueCore' /\ Enqueued
<1>1. MemoryTypeOK /\ ListLinked /\ TailInList /\ OwnNodes /\ ProducerSupport(p) /\ MemoryTypeOK'
  BY TypeEnqueue DEF QueueCore, Enqueue
<1>2. pc[p] = "cas" /\ pc'[p] = "swing" /\ \A r \in Producers \ {p} : pc'[r] = pc[r]
  BY <1>1, Moves DEF LinkNode, At
<1>3. /\ UNCHANGED <<pool, head, tail, size, new, lt, ln, count>> /\ data' = data
      /\ next' = [next EXCEPT ![lt[p].addr] = Stamped(new[p], lt[p])]
  BY DEF LinkNode, pointers
<1>4. /\ Len(List) \in Nat /\ Len(List) >= 1 /\ DOMAIN List = 1..Len(List)
      /\ DOMAIN List' = 1 .. Len(List) + 1 /\ List'[Len(List) + 1] = new[p]
      /\ \A i \in DOMAIN List : List'[i] = List[i]
      /\ Len(List') = Len(List) + 1 /\ ListLinked' /\ lt[p].addr = List[Len(List)]
  BY <1>1, ListFacts, LinkExtends, LinkAtEnd
<1>5. \A m \in Nodes : next[m] # This => next'[m] = next[m]
  BY <1>1, <1>3 DEF MemoryTypeOK
<1>6. TailInList'
  <2>1. PICK i \in DOMAIN List : tail = [addr |-> List[i], stamp |-> head.stamp + i - 1]
    BY <1>1 DEF TailInList
  <2>2. i \in DOMAIN List' /\ tail' = [addr |-> List'[i], stamp |-> head'.stamp + i - 1]
    BY <1>3, <1>4, <2>1
  <2>3. QED
    BY <1>1, <1>3, <2>2 DEF TailInList
<1>7. Enqueued
  <2> DEFINE l == Len(List)
             c == Cardinality(Counting)
  <2>1. next[head.addr] # This => next'[head.addr] = next[head.addr]
    BY <1>1, <1>5, ThisIsNone DEF MemoryTypeOK
  <2>2. Counting' = Counting \cup {p} /\ p \notin Counting
    BY <1>2 DEF Counting
  <2>3. Cardinality(Counting)' = c + 1
    BY <2>2, CountedFinite, FS_AddElement
  <2>4. Uncounted = l - 1 - size - c /\ Uncounted' = (l + 1) - 1 - size - (c + 1)
    BY <1>3, <1>4, <2>3 DEF Uncounted
  <2>5. l \in Nat /\ c \in Nat /\ size \in Int
    BY <1>1, CountedType
  <2>6. \A i \in DOMAIN List : i \in DOMAIN List' /\ List'[i] = List[i]
    BY <1>4
  <2> HIDE DEF l, c
  <2>7. Uncounted' = Uncounted
    BY <2>4, <2>5
  <2>8. QED
    BY <1>3, <2>1, <2>6, <2>7 DEF Enqueued
<1>8. OwnNodes'
  BY <1>1, <1>2, <1>3, OwnNodesKept DEF Linking
<1>9. ASSUME NEW r \in Producers PROVE ProducerSupport(r)'
  <2>1. CASE r = p
    <3>1. next'[lt[p].addr] = Stamped(new[p], lt[p])
      BY <1>1, <1>3, ThisIsNone DEF MemoryTypeOK
    <3>2. pc'[p] = "swing" /\ count'[p] > 0 /\ lt'[p].stamp <= tail'.stamp
      BY <1>1, <1>2, <1>3 DEF ProducerSupport
    <3>3. tail' = lt'[p] => next'[tail'.addr] = Stamped(new[p], tail)'
      BY <1>3, <3>1 DEF Stamped
    <3>4. QED
      BY <2>1, <3>2, <3>3 DEF ProducerSupport, Linking
  <2>2. CASE r # p
    <3>1. ProducerSupport(r) /\ tail' \in Ptr /\ tail.addr \in Nodes
      BY <1>1, ThisIsNone DEF QueueCore, MemoryTypeOK
    <3>2. ASSUME pc[r] \in Linking
          PROVE  /\ new[r] \notin pool' /\ next'[new[r]] = next[new[r]] /\ data'[new[r]] = data[new[r]]
                 /\ \A i \in DOMAIN List' : List'[i] # new[r]
      <4>1. new[r] \notin pool /\ \A i \in DOMAIN List : List[i] # new[r]
        BY <3>1, <3>2 DEF ProducerSupport
      <4>2. new[r] # new[p]
        BY <1>1, <1>2, <2>2, <3>2 DEF OwnNodes, Linking
      <4>3. new[r] # lt[p].addr /\ new[r] \in Nodes
        <5>1. Len(List) \in DOMAIN List /\ lt[p].addr = List[Len(List)]
          BY <1>4
        <5>2. QED
          BY <1>1, <4>1, <5>1 DEF MemoryTypeOK
      <4>4. next'[new[r]] = next[new[r]]
        BY <1>1, <1>3, <4>3 DEF MemoryTypeOK
      <4>5. \A i \in DOMAIN List' : i \in DOMAIN List \/ i = Len(List) + 1
        BY <1>4
      <4>6. QED
        BY <1>3, <1>4, <4>1, <4>2, <4>4, <4>5
    <3>3. pc'[r] = pc[r] /\ count'[r] = count[r] /\ new'[r] = new[r] /\ lt'[r] = lt[r] /\ ln'[r] = ln[r]
      BY <1>2, <1>3, <2>2
    <3>4. tail' = tail /\ (next[tail.addr] # This => next'[tail.addr] = next[tail.addr])
      BY <1>3, <1>5, <3>1
    <3>5. QED
      BY <1>1, <3>1, <3>2, <3>3, <3>4, ProducerKept
  <2>3. QED
    BY <2>1, <2>2
<1>10. QED
  BY <1>1, <1>4, <1>6, <1>7, <1>8, <1>9 DEF QueueCore

LEMMA EnqueueKeeps ==
  ASSUME QueueCore, NEW p \in Producers, Enqueue(p), NoStaleLink
  PROVE  QueueCore' /\ Enqueued
<1>1. CASE LinkNode(p)
  <2>1. CASE next[lt[p].addr] = This
    <3>1. MemoryTypeOK /\ pc[p] = "cas" /\ Goto(p, "swing")
      BY <1>1, <2>1 DEF LinkNode, At, QueueCore
    <3>2. Listed(lt[p])
      BY <3>1, Moves DEF NoStaleLink, At
    <3>3. QED
      BY <1>1, <2>1, <3>2, LinkKeeps
  <2>2. QED
    BY <1>1, <2>1, LinkRetriedKeeps
<1>2. QED
  BY <1>1, isFullKeeps, NewNodeKeeps, ReadTailKeeps, ReadNextKeeps, HelpTailKeeps, SwingTailKeeps,
     IncrementSizeKeeps DEF Enqueue

-----------------------------------------------------------------------------
(* Dequeue, whoever dequeues.                                              *)

\* A step that does not move head_.
LEMMA HeadRests ==
  ASSUME QueueCore, MemoryTypeOK', UNCHANGED <<memory, head, producers>>,
         tail' = tail \/ (next[tail.addr] # This /\ tail' = next[tail.addr])
  PROVE  /\ QueueCore' /\ List' = List /\ Counting' = Counting
         /\ tail' = tail \/ tail.stamp < tail'.stamp
<1>1. MemoryTypeOK /\ ListLinked /\ TailInList /\ OwnNodes
  BY DEF QueueCore
<1>2. ListFixed /\ \A i \in DOMAIN List : List[i] \notin pool'
  BY <1>1, MemoryKept
<1>3. /\ next' = next /\ pool' = pool /\ data' = data /\ head' = head
      /\ pc' = pc /\ new' = new /\ lt' = lt /\ ln' = ln /\ count' = count
  BY DEF memory, producers
<1>4. LinkedElements' = LinkedElements /\ Counting' = Counting
  BY <1>3 DEF LinkedElements, Counting
<1>5. ListLinked'
  BY <1>1, <1>2, <1>4, ListLinkedKept
<1>6. TailInList' /\ (tail' = tail \/ tail.stamp < tail'.stamp)
  BY <1>1, <1>2, TailKept, TailAdvances
<1>7. OwnNodes'
  BY <1>1, <1>3, OwnNodesKept
<1>8. ASSUME NEW r \in Producers PROVE ProducerSupport(r)'
  <2>1. ProducerSupport(r) /\ List' = List /\ tail' \in Ptr
    BY <1>2 DEF QueueCore, ListFixed, MemoryTypeOK
  <2>2. pc[r] \in Linking => new[r] \notin pool' /\ \A i \in DOMAIN List' : List'[i] # new[r]
    BY <1>3, <2>1 DEF ProducerSupport
  <2>3. QED
    BY <1>1, <1>3, <1>6, <2>1, <2>2, ProducerKept
<1>9. QED
  BY <1>2, <1>4, <1>5, <1>6, <1>7, <1>8 DEF QueueCore, ListFixed

\* The count that is left over changes by what size_ does.
LEMMA UncountedRests ==
  ASSUME QueueCore, List' = List, Counting' = Counting, size' \in Int
  PROVE  Uncounted' = Uncounted + size - size'
<1> DEFINE l == Len(List)
           c == Cardinality(Counting)
<1>1. size \in Int /\ l \in Nat /\ c \in Nat
  BY CountedType DEF QueueCore
<1>2. Uncounted = l - 1 - size - c
  BY DEF Uncounted
<1>3. Uncounted' = l - 1 - size' - c
  BY DEF Uncounted
<1> HIDE DEF l, c
<1>4. QED
  BY <1>1, <1>2, <1>3

\* The exchange of head_, by the next of the first node: the list without this node.
Moved ==
  /\ next[head.addr] # This /\ head' = next[head.addr] /\ pool' = pool \cup {head.addr}
  /\ UNCHANGED <<data, next, tail, size, producers>>

LEMMA MoveShortens ==
  ASSUME QueueCore, Moved
  PROVE  /\ Len(List) >= 2 /\ Here(head', 2) /\ head.stamp < head'.stamp
         /\ List' \in Seq(Nodes) /\ Len(List') = Len(List) - 1 /\ DOMAIN List' = 1 .. Len(List) - 1
         /\ \A i \in 1 .. Len(List) - 1 : List'[i] = List[i + 1]
         /\ ListLinked'
<1>1. MemoryTypeOK /\ ListLinked
  BY DEF QueueCore
<1> DEFINE n == Len(List)
           M == Tail(List)
<1>2. /\ List \in Seq(Nodes) /\ n \in Nat /\ n >= 1 /\ DOMAIN List = 1..n
      /\ List[1] = head.addr /\ next[List[n]] = This /\ head.stamp \in Nat
  BY <1>1, ListFacts
<1>3. head' = next[head.addr] /\ next[head.addr] # This
  BY DEF Moved
<1>4. n >= 2 /\ Here(head', 2)
  <2>1. Here(head, 1)
    BY <1>1, HeadIsHere
  <2>2. (next[head.addr] = This <=> 1 = Len(List)) /\ (next[head.addr] # This => Here(next[head.addr], 1 + 1))
    BY <1>1, <2>1, NextInList
  <2>3. n # 1 /\ Here(head', 1 + 1)
    BY <1>3, <2>2
  <2> HIDE DEF n
  <2>4. QED
    BY <1>2, <2>3
<1>5. /\ head' = [addr |-> List[2], stamp |-> head.stamp + 1] /\ pool' = pool \cup {List[1]}
      /\ next' = next /\ pc' = pc /\ count' = count
  <2>1. head' = [addr |-> List[2], stamp |-> head.stamp + 2 - 1]
    BY <1>4 DEF Here
  <2>2. head.stamp + 2 - 1 = head.stamp + 1
    BY <1>2
  <2>3. QED
    BY <1>2, <2>1, <2>2 DEF Moved, producers
<1>6. /\ M \in Seq(Nodes) /\ Len(M) = n - 1 /\ DOMAIN M = 1 .. n - 1
      /\ \A i \in 1 .. n - 1 : M[i] = List[i + 1]
  <2>1. List # <<>>
    BY <1>2
  <2>2. QED
    BY <1>2, <2>1, HeadTailProperties
<1>7. \A i \in 1 .. n - 1 : i \in 1..n /\ i + 1 \in 1..n
  BY <1>2
<1>8. \A i, j \in 1..n : List[i] = List[j] => i = j
  BY <1>1, <1>2 DEF ListLinked
<1>9. \A i, j \in 1 .. n - 1 : M[i] = M[j] => i = j
  <2>1. ASSUME NEW i \in 1 .. n - 1, NEW j \in 1 .. n - 1, M[i] = M[j] PROVE i = j
    <3>1. i + 1 = j + 1
      <4> HIDE DEF n, M
      <4>1. QED
        BY <1>6, <1>7, <1>8, <2>1
    <3>2. i \in Int /\ j \in Int
      BY <1>2
    <3>3. QED
      BY <3>1, <3>2
  <2>2. QED
    BY <2>1
<1>10. \A i \in 1 .. n - 2 : next[M[i]] = [addr |-> M[i + 1], stamp |-> head'.stamp + i]
  <2>1. ASSUME NEW i \in 1 .. n - 2
        PROVE  next[M[i]] = [addr |-> M[i + 1], stamp |-> head'.stamp + i]
    <3>1. i + 1 \in 1 .. n - 1 /\ i \in 1 .. n - 1 /\ i \in Int
      BY <1>2
    <3>2. next[List[i + 1]] = [addr |-> List[(i + 1) + 1], stamp |-> head.stamp + (i + 1)]
      BY <1>1, <3>1 DEF ListLinked
    <3>3. head.stamp + (i + 1) = head'.stamp + i
      BY <1>2, <1>5, <3>1, SMTT(30), SMTT(30)
    <3>4. M[i] = List[i + 1] /\ M[i + 1] = List[(i + 1) + 1]
      BY <1>6, <3>1
    <3>5. QED
      BY <3>2, <3>3, <3>4
  <2>2. QED
    BY <2>1
<1>11. M[n - 1] = List[n] /\ n - 1 \in 1 .. n - 1
  <2>1. n - 1 \in 1 .. n - 1 /\ (n - 1) + 1 = n
    BY <1>2, <1>4
  <2> HIDE DEF M
  <2>2. QED
    BY <1>6, <2>1
<1>12. M \in Lists(next', head'.addr)
  <2>1. M \in Walks
    <3>1. n - 1 \in Nat \ {0}
      BY <1>2, <1>4
    <3>2. M \in [1 .. n - 1 -> Nodes]
      <4> HIDE DEF M, n
      <4>1. QED
        BY <1>6
    <3> HIDE DEF M, n
    <3>3. QED
      BY <1>9, <3>1, <3>2, ShortLists
  <2>2. M[1] = head'.addr
    <3>1. 1 \in 1 .. n - 1 /\ 1 + 1 = 2
      BY <1>2, <1>4
    <3> HIDE DEF M, n
    <3>2. QED
      BY <1>5, <1>6, <3>1
  <2>3. ASSUME NEW i \in 1 .. n - 1, i # n - 1
        PROVE  next[M[i]] # This /\ next[M[i]].addr = M[i + 1]
    <3>1. i \in 1 .. n - 2 /\ i + 1 \in 1 .. n - 1
      <4> HIDE DEF n
      <4>1. QED
        BY <1>2, <2>3
    <3>2. M[i + 1] \in Nodes
      <4> HIDE DEF M, n
      <4>1. QED
        BY <1>6, <3>1
    <3>3. next[M[i]] = [addr |-> M[i + 1], stamp |-> head'.stamp + i]
      BY <1>10, <3>1
    <3>4. M[i + 1] # This.addr
      BY <3>2
    <3> HIDE DEF M, n
    <3>5. QED
      BY <3>3, <3>4
  <2> HIDE DEF M, n
  <2>4. QED
    BY <1>2, <1>5, <1>6, <1>11, <2>1, <2>2, <2>3 DEF Lists
<1>13. List' = M
  <2> HIDE DEF M
  <2>1. QED
    BY <1>12, ListIs
<1>14. \A i \in 1 .. n - 1 : M[i] \notin pool'
  <2>1. ASSUME NEW i \in 1 .. n - 1 PROVE M[i] \notin pool'
    <3>1. i + 1 \in 1..n /\ 1 \in 1..n /\ i + 1 # 1
      BY <1>2
    <3>2. List[i + 1] # List[1] /\ List[i + 1] \notin pool
      BY <1>1, <1>2, <1>8, <3>1 DEF ListLinked
    <3> HIDE DEF M, n
    <3>3. QED
      BY <1>5, <1>6, <3>2
  <2>2. QED
    BY <2>1
<1>15. LinkedElements' = LinkedElements /\ Counting' = Counting
  BY <1>5 DEF LinkedElements, Counting
<1>16. head'.stamp + (n - 1) = Cardinality(LinkedElements)' + 1
  <2>1. head.stamp + n = Cardinality(LinkedElements) + 1
    BY <1>1 DEF ListLinked
  <2>2. head'.stamp = head.stamp + 1 /\ Cardinality(LinkedElements)' = Cardinality(LinkedElements)
    BY <1>5, <1>15
  <2>3. (head.stamp + 1) + (n - 1) = head.stamp + n
    BY <1>2
  <2> HIDE DEF n
  <2>4. QED
    BY <2>1, <2>2, <2>3
<1>18. ListLinked'
  <2>1. Lists(next', head'.addr) # {}
    BY <1>12
  <2>2. (n - 1) - 1 = n - 2
    BY <1>2
  <2> HIDE DEF n, M
  <2>3. QED
    BY <1>5, <1>6, <1>9, <1>10, <1>13, <1>14, <1>16, <2>1, <2>2 DEF ListLinked
<1>19. head.stamp < head'.stamp
  BY <1>2, <1>5
<1>20. QED
  BY <1>4, <1>6, <1>13, <1>18, <1>19

LEMMA MoveKeeps ==
  ASSUME QueueCore, Moved, tail # head
  PROVE  QueueCore' /\ Uncounted' = Uncounted - 1
<1>1. MemoryTypeOK /\ ListLinked /\ TailInList /\ OwnNodes
  BY SMTT(30) DEF QueueCore
<1>2. /\ Len(List) \in Nat /\ Len(List) >= 2 /\ DOMAIN List = 1..Len(List) /\ head.stamp \in Nat
      /\ List[1] = head.addr /\ Len(List') = Len(List) - 1
      /\ DOMAIN List' = 1 .. Len(List) - 1 /\ \A i \in 1 .. Len(List) - 1 : List'[i] = List[i + 1]
      /\ Here(head', 2) /\ ListLinked'
  BY <1>1, ListFacts, MoveShortens, ZenonT(40)
<1>3. /\ next' = next /\ data' = data /\ tail' = tail /\ head' = next[head.addr] /\ size' = size
      /\ pc' = pc /\ new' = new /\ lt' = lt /\ ln' = ln /\ count' = count
      /\ pool' = pool \cup {List[1]} /\ next[head.addr] # This
  BY <1>2 DEF Moved, producers
<1>4. MemoryTypeOK'
  <2>1. head.addr \in Nodes /\ List[1] \in Nodes
    BY <1>1, <1>2, ThisIsNone DEF MemoryTypeOK
  <2>2. head' \in Ptr /\ pool' \subseteq Nodes
    BY <1>1, <1>3, <2>1 DEF MemoryTypeOK
  <2>3. QED
    BY <1>1, <1>3, <2>2 DEF MemoryTypeOK
<1>5. TailInList'
  <2>1. PICK i \in DOMAIN List : Here(tail, i)
    BY <1>1, TailIsHere
  <2>2. i # 1
    BY <1>1, <2>1, HeadIsHere, OnePointer
  <2>3. i - 1 \in 1 .. Len(List) - 1 /\ (i - 1) + 1 = i /\ i \in Int
    BY <1>2, <2>1, <2>2
  <2>4. head'.stamp = head.stamp + 2 - 1
    BY <1>2 DEF Here
  <2>5. head.stamp + i - 1 = head'.stamp + (i - 1) - 1
    BY <1>2, <2>3, <2>4
  <2>6. List'[i - 1] = List[i]
    BY <1>2, <2>3
  <2>7. tail' = [addr |-> List'[i - 1], stamp |-> head'.stamp + (i - 1) - 1]
    BY <1>3, <2>1, <2>5, <2>6 DEF Here
  <2>8. QED
    BY <1>2, <2>3, <2>7 DEF TailInList
<1>6. OwnNodes'
  BY <1>1, <1>3, OwnNodesKept
<1>7. \A i \in DOMAIN List' : \E j \in DOMAIN List : List'[i] = List[j]
  <2>1. \A i \in 1 .. Len(List) - 1 : i + 1 \in 1..Len(List)
    BY <1>2
  <2>2. QED
    BY <1>2, <2>1
<1>8. ASSUME NEW r \in Producers PROVE ProducerSupport(r)'
  <2>1. ProducerSupport(r) /\ tail' \in Ptr /\ 1 \in DOMAIN List
    BY <1>2, <1>4 DEF QueueCore, MemoryTypeOK
  <2>2. pc[r] \in Linking => /\ new[r] \notin pool'
                             /\ \A i \in DOMAIN List' : List'[i] # new[r]
    BY <1>3, <1>7, <2>1 DEF ProducerSupport
  <2>3. QED
    BY <1>1, <1>3, <2>1, <2>2, ProducerKept
<1>9. Uncounted' = Uncounted - 1
  <2> DEFINE l == Len(List)
             c == Cardinality(Counting)
  <2>1. Counting' = Counting
    BY <1>3 DEF Counting
  <2>2. Uncounted = l - 1 - size - c /\ Uncounted' = (l - 1) - 1 - size - c
    BY <1>2, <1>3, <2>1 DEF Uncounted
  <2>3. l \in Nat /\ c \in Nat /\ size \in Int
    BY <1>1, CountedType
  <2> HIDE DEF l, c
  <2>4. QED
    BY <2>2, <2>3
<1>10. QED
  BY <1>2, <1>4, <1>5, <1>6, <1>8, <1>9 DEF QueueCore

-----------------------------------------------------------------------------
(* The queue with one consumer.                                            *)

LEMMA EnqueueIsNoDequeue ==
  ASSUME NEW p \in Producers, Enqueue(p)
  PROVE  UNCHANGED consumer /\ (size' = size \/ size' = size + 1)
BY DEF Enqueue, isFull, NewNode, ReadTail, ReadNext, LinkNode, HelpTail, SwingTail, IncrementSize

LEMMA EnqueueKeepsInv ==
  ASSUME IInv, NEW p \in Producers, Enqueue(p), NoStaleLink
  PROVE  IInv'
<1>1. QueueCore /\ TypeOK /\ ConsumerSupport /\ Uncounted = Taken /\ MemoryTypeOK /\ ListLinked /\ TailInList
  BY DEF IInv, QueueCore
<1>2. QueueCore' /\ Enqueued
  BY <1>1, EnqueueKeeps
<1>3. cpc' = cpc /\ lh' = lh /\ cn' = cn
  BY EnqueueIsNoDequeue DEF consumer
<1>4. TypeOK'
  <2>1. size' \in Nat
    BY <1>1, EnqueueIsNoDequeue DEF TypeOK
  <2>2. QED
    BY <1>1, <1>2, <1>3, <2>1 DEF TypeOK, QueueCore
<1>5. Uncounted' = Taken'
  BY <1>1, <1>2, <1>3 DEF Enqueued, Taken
<1>6. tail # head => tail' # head'
  BY <1>1, <1>2, TailBehindHead DEF Enqueued
<1>7. ConsumerSupport'
  BY <1>1, <1>2, <1>3, <1>6 DEF ConsumerSupport, Enqueued
<1>8. QED
  BY <1>2, <1>4, <1>5, <1>7 DEF IInv

\* A step of the consumer that does not move head_.
LEMMA ConsumerReads ==
  ASSUME IInv, TypeOK', UNCHANGED <<memory, head, producers>>,
         size' + Taken' = size + Taken, ConsumerSupport',
         tail' = tail \/ (next[tail.addr] # This /\ tail' = next[tail.addr])
  PROVE  IInv'
<1>1. QueueCore /\ MemoryTypeOK' /\ Uncounted = Taken /\ size \in Nat /\ size' \in Nat
  BY DEF IInv, TypeOK
<1>2. QueueCore' /\ List' = List /\ Counting' = Counting
  BY <1>1, HeadRests
<1>3. Uncounted' = Uncounted + size - size'
  BY <1>1, <1>2, UncountedRests
<1>4. Uncounted' = Taken'
  <2>1. PICK s \in Nat, k \in Int : s = size' /\ k = Taken'
    BY <1>1 DEF Taken
  <2>2. PICK z \in Nat, t \in Int : z = size /\ t = Taken
    BY <1>1 DEF Taken
  <2>3. Uncounted' = t + z - s
    BY <1>1, <1>3, <2>1, <2>2
  <2>4. s + k = z + t
    BY <2>1, <2>2
  <2>5. t + z - s = k
    BY <2>4
  <2>6. QED
    BY <2>1, <2>3, <2>5
<1>5. QED
  BY <1>2, <1>4 DEF IInv

LEMMA TypeDequeue ==
  ASSUME TypeOK, ConsumerSupport, Dequeue
  PROVE  TypeOK'
<1> USE DEF TypeOK, MemoryTypeOK
<1>1. CASE DecrementSize
  <2>1. size' \in Nat
    BY <1>1 DEF DecrementSize
  <2>2. QED
    BY <1>1, <2>1 DEF DecrementSize, memory, pointers, producers
<1>2. CASE ReadHead
  <2>1. next[head.addr] \in Ptr \cup {This}
    BY ThisIsNone
  <2>2. QED
    BY <1>2, <2>1 DEF ReadHead, memory, pointers, producers
<1>3. CASE DequeueSwingTail
  <2>1. tail' \in Ptr
    BY <1>3 DEF DequeueSwingTail, ConsumerSupport
  <2>2. QED
    BY <1>3, <2>1 DEF DequeueSwingTail, memory, producers
<1>4. CASE MoveHead
  <2>1. head' \in Ptr /\ lh.addr \in Nodes
    BY <1>4, ThisIsNone DEF MoveHead, ConsumerSupport
  <2>2. QED
    BY <1>4, <2>1 DEF MoveHead, producers
<1>5. QED
  BY <1>1, <1>2, <1>3, <1>4 DEF Dequeue

LEMMA DecrementSizeKeeps ==
  ASSUME IInv, DecrementSize
  PROVE  IInv'
<1>1. TypeOK /\ TypeOK'
  BY TypeDequeue DEF IInv, Dequeue
<1>2. UNCHANGED <<memory, head, producers>> /\ tail' = tail
  BY DEF DecrementSize, pointers
<1>3. size' + Taken' = size + Taken
  <2>1. size \in Nat /\ size' = size - 1 /\ Taken = 0 /\ Taken' = 1
    BY <1>1 DEF DecrementSize, Taken, TypeOK
  <2>2. QED
    BY <2>1
<1>4. ConsumerSupport'
  BY DEF DecrementSize, ConsumerSupport
<1>5. QED
  BY <1>1, <1>2, <1>3, <1>4, ConsumerReads

LEMMA ReadHeadKeeps ==
  ASSUME IInv, ReadHead
  PROVE  IInv'
<1>1. TypeOK /\ TypeOK'
  BY TypeDequeue DEF IInv, Dequeue
<1>2. UNCHANGED <<memory, head, producers>> /\ tail' = tail /\ size' = size
  BY DEF ReadHead, pointers
<1>3. size' + Taken' = size + Taken
  BY <1>2 DEF ReadHead, Taken
<1>4. ConsumerSupport'
  BY DEF ReadHead, ConsumerSupport, memory, pointers
<1>5. QED
  BY <1>1, <1>2, <1>3, <1>4, ConsumerReads

LEMMA DequeueSwingTailKeeps ==
  ASSUME IInv, DequeueSwingTail
  PROVE  IInv'
<1>1. TypeOK /\ TypeOK' /\ ConsumerSupport /\ MemoryTypeOK /\ ListLinked /\ TailInList
  BY TypeDequeue DEF IInv, Dequeue, QueueCore
<1>2. UNCHANGED <<memory, head, producers>> /\ next' = next /\ size' = size /\ head' = head
  BY DEF DequeueSwingTail, memory
<1>3. size' + Taken' = size + Taken
  BY <1>2 DEF DequeueSwingTail, Taken
<1>4. lh = head /\ cn = next[head.addr] /\ cn # This
  BY <1>1 DEF DequeueSwingTail, ConsumerSupport
<1>5. tail' = tail \/ (next[tail.addr] # This /\ tail' = next[tail.addr])
  BY <1>4 DEF DequeueSwingTail
<1>6. tail' # head
  <2>1. CASE tail = head
    BY <1>1, <1>4, <2>1, HeadIsHere, NextIsAnother DEF DequeueSwingTail
  <2>2. CASE tail # head
    BY <1>4, <2>2 DEF DequeueSwingTail
  <2>3. QED
    BY <2>1, <2>2
<1>7. ConsumerSupport'
  BY <1>2, <1>4, <1>6 DEF DequeueSwingTail, ConsumerSupport
<1>8. QED
  BY <1>1, <1>2, <1>3, <1>5, <1>7, ConsumerReads

LEMMA MoveHeadMoves ==
  ASSUME IInv, MoveHead
  PROVE  QueueCore /\ Moved /\ tail # head
BY DEF IInv, MoveHead, ConsumerSupport, Moved

LEMMA MoveHeadKeeps ==
  ASSUME IInv, MoveHead
  PROVE  IInv'
<1>1. QueueCore' /\ Uncounted' = Uncounted - 1
  BY MoveHeadMoves, MoveKeeps
<1>2. TypeOK'
  BY TypeDequeue DEF IInv, Dequeue
<1>3. Uncounted' = Taken'
  BY <1>1 DEF IInv, MoveHead, Taken
<1>4. ConsumerSupport'
  BY DEF MoveHead, ConsumerSupport
<1>5. QED
  BY <1>1, <1>2, <1>3, <1>4 DEF IInv

-----------------------------------------------------------------------------
\* What the queues are made as, and what it is to be the list of the dummy.
Made(n) ==
  /\ data = [m \in Nodes |-> NoElement] /\ next = [m \in Nodes |-> This] /\ pool = Nodes \ {n}
  /\ head = [addr |-> n, stamp |-> 0] /\ tail = [addr |-> n, stamp |-> 0] /\ size = 0
  /\ pc = [p \in Producers |-> "idle"] /\ new = [p \in Producers |-> n]
  /\ lt = [p \in Producers |-> [addr |-> n, stamp |-> 0]] /\ ln = [p \in Producers |-> This]
  /\ count = [p \in Producers |-> 0]

LEMMA MadeHasCore ==
  ASSUME NEW n \in Nodes, Made(n)
  PROVE  QueueCore /\ Uncounted = 0 /\ [addr |-> n, stamp |-> 0] \in Ptr /\ Len(List) = 1
<1>1. /\ data = [m \in Nodes |-> NoElement] /\ next = [m \in Nodes |-> This] /\ pool = Nodes \ {n}
      /\ head = [addr |-> n, stamp |-> 0] /\ tail = [addr |-> n, stamp |-> 0] /\ size = 0
      /\ pc = [p \in Producers |-> "idle"] /\ new = [p \in Producers |-> n]
      /\ lt = [p \in Producers |-> [addr |-> n, stamp |-> 0]] /\ ln = [p \in Producers |-> This]
      /\ count = [p \in Producers |-> 0]
  BY DEF Made
<1>2. [addr |-> n, stamp |-> 0] \in Ptr
  <2>1. 0 \in 0 .. StampSize - 1
    BY CountedFinite
  <2>2. QED
    BY <2>1 DEF Ptr
<1>3. MemoryTypeOK
  BY <1>1, <1>2 DEF MemoryTypeOK
<1>4. List = <<n>> /\ List \in Lists(next, head.addr)
  <2>1. <<n>> \in [1..1 -> Nodes] /\ Len(<<n>>) = 1 /\ DOMAIN <<n>> = 1..1 /\ <<n>>[1] = n
    OBVIOUS
  <2>2. <<n>> \in Walks
    <3>1. 1 \in Nat \ {0} /\ \A i, j \in 1..1 : i = j
      OBVIOUS
    <3>2. QED
      BY <2>1, <3>1, ShortLists
  <2>3. <<n>> \in Lists(next, n)
    BY <1>1, <2>1, <2>2 DEF Lists
  <2>4. head.addr = n
    BY <1>1
  <2>5. QED
    BY <2>3, <2>4, FromIs DEF List
<1>5. LinkedElements = {} /\ Counting = {}
  <2>1. \A e \in Elements : e[1] \in Producers /\ e[2] \in Nat /\ e[2] > 0
    BY DEF Elements
  <2>2. QED
    BY <1>1, <2>1 DEF LinkedElements, Counting
<1>6. Len(List) = 1 /\ DOMAIN List = {1} /\ List[1] = n /\ 1 .. Len(List) - 1 = {}
  BY <1>4
<1>7. ListLinked /\ Uncounted = 0
  <2>1. Lists(next, head.addr) # {}
    BY <1>4
  <2>2. Cardinality({}) = 0
    BY FS_EmptySet
  <2>3. head.stamp + Len(List) = Cardinality(LinkedElements) + 1
    BY <1>1, <1>5, <1>6, <2>2
  <2>4. Uncounted = 0
    BY <1>1, <1>5, <1>6, <2>2 DEF Uncounted
  <2>5. QED
    BY <1>1, <1>6, <2>1, <2>3, <2>4 DEF ListLinked
<1>8. TailInList
  <2>1. tail = [addr |-> List[1], stamp |-> head.stamp + 1 - 1]
    BY <1>1, <1>6
  <2>2. QED
    BY <1>1, <1>6, <2>1 DEF TailInList
<1>9. OwnNodes /\ \A p \in Producers : ProducerSupport(p)
  BY <1>1 DEF OwnNodes, ProducerSupport, Linking
<1>10. QED
  BY <1>2, <1>3, <1>6, <1>7, <1>8, <1>9 DEF QueueCore

LEMMA InitHasInv == ASSUME Init PROVE IInv /\ Len(List) = 1
<1>1. PICK n \in Nodes : Made(n) /\ cpc = "idle" /\ lh = [addr |-> n, stamp |-> 0] /\ cn = This
  BY DEF Init, Made
<1>2. QueueCore /\ Uncounted = 0 /\ [addr |-> n, stamp |-> 0] \in Ptr /\ Len(List) = 1
  BY <1>1, MadeHasCore
<1>3. TypeOK
  BY <1>1, <1>2 DEF TypeOK, QueueCore, Made
<1>4. Uncounted = Taken /\ ConsumerSupport
  BY <1>1, <1>2 DEF Taken, ConsumerSupport
<1>5. QED
  BY <1>2, <1>3, <1>4 DEF IInv

\* A step that changes nothing of the memory and the producers.
LEMMA QuietKeeps ==
  ASSUME QueueCore, UNCHANGED <<memory, pointers, size, producers>>
  PROVE  QueueCore' /\ List' = List /\ Uncounted' = Uncounted
<1>1. MemoryTypeOK' /\ UNCHANGED <<memory, head, producers>> /\ tail' = tail /\ size' = size
  BY DEF QueueCore, MemoryTypeOK, memory, pointers, producers
<1>2. QueueCore' /\ List' = List /\ Counting' = Counting
  BY <1>1, HeadRests
<1>3. QED
  BY <1>1, <1>2 DEF Uncounted

LEMMA StepKeeps == ASSUME IInv, [Next /\ NoStaleLink]_vars PROVE IInv'
<1>1. CASE Next /\ NoStaleLink
  BY <1>1, EnqueueKeepsInv, DecrementSizeKeeps, ReadHeadKeeps, DequeueSwingTailKeeps, MoveHeadKeeps
     DEF Next, Dequeue
<1>2. CASE UNCHANGED vars
  <2>1. QueueCore' /\ List' = List /\ Uncounted' = Uncounted
    BY <1>2, QuietKeeps DEF IInv, vars
  <2>2. cpc' = cpc /\ lh' = lh /\ cn' = cn /\ next' = next /\ head' = head /\ tail' = tail /\ size' = size
    BY <1>2 DEF vars, memory, pointers, consumer
  <2>3. TypeOK' /\ Uncounted' = Taken' /\ ConsumerSupport'
    BY <2>1, <2>2 DEF IInv, TypeOK, QueueCore, Taken, ConsumerSupport
  <2>4. QED
    BY <2>1, <2>3 DEF IInv
<1>3. QED
  BY <1>1, <1>2

(* The list from head_ is linked, without free nodes, and as long as       *)
(* size_ and the steps under way say; tail_ is in it, and a node that is   *)
(* about to be linked is its producer's own (LockFreeEnqQueue.h 79-169).   *)
THEOREM InductiveInvariant == FreshSpec => []IInv
<1>1. Init => IInv
  BY InitHasInv
<1>2. IInv /\ [Next /\ NoStaleLink]_vars => IInv'
  BY StepKeeps
<1>3. QED
  BY <1>1, <1>2, PTL DEF FreshSpec

-----------------------------------------------------------------------------
(* What the list promises.                                                 *)

LEMMA ListIntactHolds == QueueCore => ListIntact
<1> SUFFICES ASSUME QueueCore PROVE ListIntact
  OBVIOUS
<1>1. MemoryTypeOK /\ ListLinked /\ TailInList
  BY DEF QueueCore
<1>2. next[List[Len(List)]] = This
  BY <1>1, ListFacts
<1>3. Listed(tail)
  BY <1>1, TailIsHere, ListedIsHere DEF MemoryTypeOK
<1>4. QED
  BY <1>1, <1>2, <1>3 DEF ListIntact, ListLinked

\* What is behind head_, and what there is behind the nodes of the producers.
Remaining == UNION {{Behind(n)[i] : i \in DOMAIN Behind(n)} : n \in Pending}

LEMMA BehindHead ==
  ASSUME QueueCore
  PROVE  /\ Cardinality(Remaining) \in Nat /\ Len(Behind(head.addr)) \in Nat
         /\ size + Uncounted <= Len(Behind(head.addr)) + Cardinality(Remaining)
<1>1. MemoryTypeOK /\ ListLinked
  BY DEF QueueCore
<1>2. List \in Seq(Nodes) /\ Len(List) \in Nat /\ Len(List) >= 1 /\ List # <<>>
  BY <1>1, ListFacts
<1>3. Len(Behind(head.addr)) = Len(List) - 1
  BY <1>2, HeadTailProperties DEF Behind, List
<1>4. Cardinality(Remaining) \in Nat
  <2>1. Pending \subseteq Nodes
    BY <1>1 DEF Pending, MemoryTypeOK
  <2>2. ASSUME NEW n \in Nodes, NEW i \in DOMAIN Behind(n) PROVE Behind(n)[i] \in Nodes
    <3>1. From(n) \in Seq(Nodes) /\ From(n) # <<>>
      BY FromType
    <3>2. Behind(n) \in Seq(Nodes)
      BY <3>1, HeadTailProperties DEF Behind
    <3>3. QED
      BY <2>2, <3>2
  <2>3. Remaining \subseteq Nodes
    BY <2>1, <2>2 DEF Remaining
  <2>4. QED
    BY <2>3, FS_Subset, FS_CardinalityType
<1> DEFINE l == Len(List)
           b == Len(Behind(head.addr))
           c == Cardinality(Counting)
           d == Cardinality(Remaining)
<1>5. /\ size \in Int /\ l \in Nat /\ l >= 1 /\ c \in Nat /\ d \in Nat /\ b = l - 1
      /\ Uncounted = l - 1 - size - c
  BY <1>1, <1>2, <1>3, <1>4, CountedType DEF Uncounted
<1> HIDE DEF l, b, c, d
<1>6. b \in Nat /\ size + Uncounted <= b + d
  BY <1>5
<1>7. QED
  BY <1>5, <1>6 DEF b, d

LEMMA ListSoundHolds == IInv => ListSound
<1> SUFFICES ASSUME IInv PROVE ListSound
  OBVIOUS
<1>1. size + Uncounted <= Len(Behind(head.addr)) + Cardinality(Remaining)
  BY BehindHead DEF IInv
<1>2. SizeCovered
  BY <1>1 DEF IInv, SizeCovered, Remaining
<1>3. QED
  BY <1>2, ListIntactHolds DEF IInv, ListSound

(* The list is one list from head_ to tail_, without free nodes, and       *)
(* size_ never counts an element that cannot be reached, at every access   *)
(* of a producer or the consumer (LockFreeEnqQueue.h 79-169).              *)
THEOREM ListIsSound == FreshSpec => []ListSound
BY InductiveInvariant, ListSoundHolds, PTL

-----------------------------------------------------------------------------
(* The list implements the queue.                                          *)

QueueOfList ==
  /\ Queue \in Seq(Elements \cup {NoElement}) /\ Len(Queue) = Len(List) - 1
  /\ \A i \in 1 .. Len(List) - 1 : Queue[i] = data[List[i + 1]]

LEMMA QueueIs == QueueCore => QueueOfList
<1> SUFFICES ASSUME QueueCore PROVE QueueOfList
  OBVIOUS
<1> DEFINE behind == Tail(List)
           n == Len(List)
<1>1. /\ List \in Seq(Nodes) /\ n \in Nat /\ n >= 1 /\ List # <<>>
  BY ListFacts DEF QueueCore
<1>2. /\ Len(behind) = n - 1 /\ DOMAIN behind = 1 .. n - 1 /\ n - 1 \in Nat
      /\ \A i \in 1 .. n - 1 : behind[i] = List[i + 1] /\ behind[i] \in Nodes
  BY <1>1, HeadTailProperties
<1>3. Queue = [i \in 1 .. n - 1 |-> data[behind[i]]]
  BY <1>2 DEF Queue, Behind, List
<1>4. \A i \in 1 .. n - 1 : data[behind[i]] \in Elements \cup {NoElement}
  <2> HIDE DEF behind, n
  <2>1. QED
    BY <1>2 DEF QueueCore, MemoryTypeOK
<1> HIDE DEF behind, n
<1>5. Queue \in Seq(Elements \cup {NoElement}) /\ Len(Queue) = n - 1
  BY <1>2, <1>3, <1>4
<1>6. \A i \in 1 .. n - 1 : Queue[i] = data[List[i + 1]]
  BY <1>2, <1>3
<1>7. QED
  BY <1>5, <1>6 DEF QueueOfList, n

LEMMA QueueStays ==
  ASSUME QueueCore, QueueOfList, QueueOfList', List' = List,
         \A i \in DOMAIN List : data'[List[i]] = data[List[i]]
  PROVE  Queue' = Queue
<1> DEFINE n == Len(List)
<1>1. n \in Nat /\ DOMAIN List = 1..n
  BY ListFacts DEF QueueCore
<1>2. ASSUME NEW i \in 1 .. n - 1 PROVE Queue'[i] = Queue[i]
  <2>1. i + 1 \in 1..n
    BY <1>1
  <2>2. QED
    BY <1>1, <2>1, SMTT(30), SMTT(30) DEF QueueOfList
<1>3. /\ Queue \in Seq(Elements \cup {NoElement}) /\ Len(Queue) = n - 1
      /\ Queue' \in Seq(Elements \cup {NoElement}) /\ Len(Queue') = n - 1
  BY DEF QueueOfList
<1> HIDE DEF n
<1>4. QED
  BY <1>2, <1>3, SeqEqual

LEMMA QuietEnqueue ==
  ASSUME QueueCore, NEW p \in Producers, Enqueue(p), ~(LinkNode(p) /\ next[lt[p].addr] = This)
  PROVE  List' = List /\ \A i \in DOMAIN List : data'[List[i]] = data[List[i]]
<1>1. MemoryTypeOK /\ ListLinked
  BY DEF QueueCore
<1>2. CASE NewNode(p)
  <2>1. PICK n \in pool : /\ data' = [data EXCEPT ![n] = Element(p)]
                          /\ next' = [next EXCEPT ![n] = This]
    BY <1>2 DEF NewNode
  <2>2. \A i \in DOMAIN List : List[i] # n /\ List[i] \in Nodes
    BY <1>1, ListFacts DEF ListLinked
  <2>3. \A i \in DOMAIN List : next'[List[i]] = next[List[i]] /\ data'[List[i]] = data[List[i]]
    BY <1>1, <2>1, <2>2 DEF MemoryTypeOK
  <2>4. head' = head
    BY <1>2 DEF NewNode, pointers
  <2>5. QED
    BY <1>1, <2>3, <2>4, SameList DEF ListFixed
<1>3. CASE ~NewNode(p)
  <2>1. UNCHANGED <<memory, head>> /\ data' = data
    BY <1>3 DEF Enqueue, isFull, ReadTail, ReadNext, LinkNode, HelpTail, SwingTail, IncrementSize,
                memory, pointers
  <2>2. QED
    BY <1>1, <2>1, MemoryKept DEF ListFixed
<1>4. QED
  BY <1>2, <1>3

LEMMA QuietDequeue ==
  ASSUME QueueCore, UNCHANGED <<memory, head>>
  PROVE  List' = List /\ \A i \in DOMAIN List : data'[List[i]] = data[List[i]]
<1>1. data' = data
  BY DEF memory
<1>2. QED
  BY <1>1, MemoryKept DEF ListFixed, QueueCore

\* The exchange of next puts the element at the end.
LEMMA LinkPuts ==
  ASSUME QueueCore, QueueOfList, QueueOfList', NEW p \in Producers,
         LinkNode(p), next[lt[p].addr] = This, Listed(lt[p])
  PROVE  Element(p) \in Elements /\ Fifo!Put(Element(p))
<1> DEFINE n == Len(List)
<1>1. /\ n \in Nat /\ n >= 1 /\ DOMAIN List = 1..n /\ Len(List') = n + 1
      /\ List'[n + 1] = new[p] /\ \A i \in 1..n : List'[i] = List[i]
  BY ListFacts, LinkExtends DEF QueueCore
<1>2. data' = data /\ data[new[p]] = Element(p) /\ Element(p) \in Elements
  BY DEF LinkNode, At, QueueCore, ProducerSupport, Linking, Element, Elements, MemoryTypeOK
<1>3. /\ Queue \in Seq(Elements \cup {NoElement}) /\ Len(Queue) = n - 1
      /\ Queue' \in Seq(Elements \cup {NoElement}) /\ Len(Queue') = n
  <2>1. Len(Queue') = Len(List') - 1
    BY DEF QueueOfList
  <2>2. Len(Queue') = n
    BY <1>1, <2>1
  <2>3. QED
    BY <2>2 DEF QueueOfList
<1>4. ASSUME NEW i \in 1 .. n - 1 PROVE Queue'[i] = Queue[i]
  <2>1. i + 1 \in 1..n /\ i \in 1..n /\ i \in 1 .. (n + 1) - 1
    BY <1>1
  <2>2. Queue'[i] = data[List'[i + 1]]
    BY <1>1, <1>2, <2>1 DEF QueueOfList
  <2>3. QED
    BY <1>1, <2>1, <2>2 DEF QueueOfList
<1>5. Queue'[n] = Element(p)
  <2>1. n \in 1 .. (n + 1) - 1
    BY <1>1
  <2>2. QED
    BY <1>1, <1>2, <2>1 DEF QueueOfList
<1>6. Queue' = Append(Queue, Element(p))
  <2> DEFINE q == Append(Queue, Element(p))
  <2>1. q \in Seq(Elements \cup {NoElement}) /\ Len(q) = n /\ q[n] = Element(p)
        /\ \A i \in 1 .. n - 1 : q[i] = Queue[i]
    <3> HIDE DEF n
    <3>1. QED
      BY <1>1, <1>2, <1>3
  <2> HIDE DEF q, n
  <2>2. \A i \in 1..n : i = n \/ i \in 1 .. n - 1
    BY <1>1
  <2>3. \A i \in 1..n : Queue'[i] = q[i]
    BY <1>4, <1>5, <2>1, <2>2
  <2>4. Queue' = q
    BY <1>3, <2>1, <2>3, SeqEqual, SMTT(30)
  <2>5. QED
    BY <2>4 DEF q
<1>7. QED
  BY <1>2, <1>6 DEF Fifo!Put

\* head_ takes the first one out.
LEMMA MoveTakes == ASSUME QueueCore, QueueOfList, QueueOfList', Moved PROVE Fifo!Take
<1> DEFINE n == Len(List)
<1>1. /\ n \in Nat /\ n >= 2 /\ DOMAIN List = 1..n /\ Len(List') = n - 1
      /\ \A i \in 1 .. n - 1 : List'[i] = List[i + 1]
  BY ListFacts, MoveShortens, ZenonT(40) DEF QueueCore
<1>2. data' = data
  BY DEF Moved
<1>3. /\ Queue \in Seq(Elements \cup {NoElement}) /\ Len(Queue) = n - 1
      /\ Queue' \in Seq(Elements \cup {NoElement}) /\ Len(Queue') = n - 2
  <2>1. Len(Queue') = Len(List') - 1
    BY DEF QueueOfList
  <2>2. Len(Queue') = n - 2
    BY <1>1, <2>1
  <2>3. QED
    BY <2>2 DEF QueueOfList
<1>4. Queue # <<>>
  BY <1>1, <1>3
<1>5. ASSUME NEW i \in 1 .. n - 2 PROVE Queue'[i] = Queue[i + 1]
  <2>1. i + 1 \in 1 .. n - 1 /\ i \in 1 .. (n - 1) - 1
    BY <1>1
  <2>2. Queue'[i] = data[List'[i + 1]]
    BY <1>1, <1>2, <2>1 DEF QueueOfList
  <2>3. QED
    BY <1>1, <2>1, <2>2 DEF QueueOfList
<1>6. Queue' = Tail(Queue)
  <2>1. Tail(Queue) \in Seq(Elements \cup {NoElement}) /\ Len(Tail(Queue)) = n - 2
    <3>1. (n - 1) - 1 = n - 2
      BY <1>1
    <3> HIDE DEF n
    <3>2. QED
      BY <1>3, <1>4, <3>1, HeadTailProperties
  <2>2. \A i \in 1 .. n - 2 : Tail(Queue)[i] = Queue[i + 1]
    <3> HIDE DEF n
    <3>1. QED
      BY <1>3, <1>4, <2>1, HeadTailProperties
  <2> HIDE DEF n
  <2>3. QED
    BY <1>3, <1>5, <2>1, <2>2, SeqEqual
<1>7. QED
  BY <1>4, <1>6 DEF Fifo!Take

LEMMA NothingIsEmpty == ASSUME QueueOfList, Len(List) = 1 PROVE Queue = <<>>
<1>1. Len(Queue) = 0
  BY DEF QueueOfList
<1>2. QED
  BY <1>1 DEF QueueOfList

LEMMA EnqueueIsFifo ==
  ASSUME QueueCore, QueueOfList, QueueOfList', NEW p \in Producers, Enqueue(p), NoStaleLink
  PROVE  [Fifo!Next]_Queue
<1>1. CASE LinkNode(p) /\ next[lt[p].addr] = This
  <2>1. MemoryTypeOK /\ pc[p] = "cas" /\ Goto(p, "swing")
    BY <1>1 DEF LinkNode, At, QueueCore
  <2>2. Listed(lt[p])
    BY <2>1, Moves DEF NoStaleLink, At
  <2>3. Element(p) \in Elements /\ Fifo!Put(Element(p))
    BY <1>1, <2>2, LinkPuts
  <2>4. QED
    BY <2>3 DEF Fifo!Next
<1>2. CASE ~(LinkNode(p) /\ next[lt[p].addr] = This)
  BY <1>2, QuietEnqueue, QueueStays
<1>3. QED
  BY <1>1, <1>2

LEMMA StepIsFifo ==
  ASSUME IInv, QueueOfList, QueueOfList', [Next /\ NoStaleLink]_vars
  PROVE  [Fifo!Next]_Queue
<1>1. ASSUME NEW p \in Producers, Enqueue(p), NoStaleLink PROVE [Fifo!Next]_Queue
  BY <1>1, EnqueueIsFifo DEF IInv
<1>2. CASE MoveHead
  BY <1>2, MoveHeadMoves, MoveTakes DEF Fifo!Next
<1>3. CASE DecrementSize \/ ReadHead \/ DequeueSwingTail
  <2>1. UNCHANGED <<memory, head>>
    BY <1>3 DEF DecrementSize, ReadHead, DequeueSwingTail, pointers
  <2>2. QED
    BY <2>1, QuietDequeue, QueueStays DEF IInv
<1>4. CASE UNCHANGED vars
  BY <1>4 DEF vars, memory, pointers, Queue, Behind, From, Lists
<1>5. QED
  BY <1>1, <1>2, <1>3, <1>4 DEF Next, Dequeue

(* The data behind head_ is a first-in-first-out queue: the exchange of    *)
(* next puts an element at the end, moving head_ takes the first one out,  *)
(* and no other step changes it (LockFreeEnqQueue.h 79-169).               *)
THEOREM ImplementsFifo == FreshSpec => FifoSpec
<1>1. Init => Fifo!Init
  BY InitHasInv, QueueIs, NothingIsEmpty DEF Fifo!Init, IInv
<1>2. IInv /\ QueueOfList /\ QueueOfList' /\ [Next /\ NoStaleLink]_vars => [Fifo!Next]_Queue
  BY StepIsFifo
<1>3. FreshSpec => []QueueOfList
  <2>1. IInv => QueueOfList
    BY QueueIs DEF IInv
  <2>2. QED
    BY <2>1, InductiveInvariant, PTL
<1>4. QED
  BY <1>1, <1>2, <1>3, InductiveInvariant, PTL DEF FreshSpec, FifoSpec, Fifo!Spec
-----------------------------------------------------------------------------
(* The queue with any number of consumers.                                 *)

InDequeue == {c \in Consumers : cpc[c] # "idle"}

\* A step of consumer c leaves the others where they are.
OthersRest(c) ==
  \A d \in Consumers \ {c} : cpc'[d] = cpc[d] /\ lh'[d] = lh[d] /\ cn'[d] = cn[d] /\ got'[d] = got[d]

\* head_ has moved on, or what is at it is still there.
HeadKept ==
  /\ head' = head
  /\ next[head.addr] # This => /\ next'[head.addr] = next[head.addr]
                               /\ data'[next[head.addr].addr] = data[next[head.addr].addr]
  /\ tail # head => tail' # head

LEMMA ConsumerKept ==
  ASSUME QueueTypeOK, QueueCore, NEW c \in Consumers, ConsumerKnows(c),
         cpc'[c] = cpc[c], lh'[c] = lh[c], cn'[c] = cn[c], got'[c] = got[c],
         head'.stamp \in Nat, HeadKept \/ head.stamp < head'.stamp
  PROVE  ConsumerKnows(c)'
<1>1. CASE HeadKept
  BY <1>1 DEF HeadKept, ConsumerKnows, Holding, HoldsNode
<1>2. CASE head.stamp < head'.stamp
  <2>1. lh[c].stamp \in Nat /\ head.stamp \in Nat
    BY ThisIsNone DEF QueueTypeOK, MemoryTypeOK
  <2>2. cpc[c] \in Holding => lh[c].stamp < head'.stamp /\ lh[c] # head'
    BY <1>2, <2>1 DEF ConsumerKnows
  <2>3. cpc[c] \in {"check"} \cup HoldsNode => cpc[c] \in Holding
    BY DEF Holding, HoldsNode
  <2>4. QED
    BY <2>2, <2>3 DEF ConsumerKnows, Holding, HoldsNode
<1>3. QED
  BY <1>1, <1>2

LEMMA SecondNode ==
  ASSUME QueueCore, next[head.addr] # This
  PROVE  2 \in DOMAIN List /\ next[head.addr].addr = List[2]
<1>1. Here(head, 1) /\ Here(next[head.addr], 1 + 1)
  BY HeadIsHere, NextInList DEF QueueCore
<1>2. QED
  BY <1>1 DEF Here

LEMMA EnqueueKeepsQueue ==
  ASSUME QueueInv, NEW p \in Producers, Enqueue(p), NoStaleLink, UNCHANGED got
  PROVE  QueueInv'
<1>1. QueueCore /\ QueueTypeOK /\ MemoryTypeOK /\ ListLinked /\ TailInList
  BY DEF QueueInv, QueueCore
<1>2. QueueCore' /\ Enqueued
  BY <1>1, EnqueueKeeps
<1>3. cpc' = cpc /\ lh' = lh /\ cn' = cn /\ got' = got
  BY EnqueueIsNoDequeue DEF consumer
<1>4. QueueTypeOK'
  BY <1>1, <1>2, <1>3 DEF QueueTypeOK, QueueCore
<1>5. HeadKept
  <2>1. tail # head => tail' # head
    BY <1>1, <1>2, TailBehindHead DEF Enqueued
  <2>2. next[head.addr] # This => data'[next[head.addr].addr] = data[next[head.addr].addr]
    BY <1>1, <1>2, SecondNode DEF Enqueued
  <2>3. QED
    BY <1>2, <2>1, <2>2 DEF HeadKept, Enqueued
<1>6. head'.stamp \in Nat
  BY <1>1, <1>2, TailBehindHead DEF Enqueued
<1>7. \A c \in Consumers : ConsumerKnows(c)'
  BY <1>1, <1>3, <1>5, <1>6, ConsumerKept DEF QueueInv
<1>8. QED
  BY <1>2, <1>3, <1>4, <1>7 DEF QueueInv, Enqueued

\* What size_ loses, a consumer has taken off.
LEMMA CountsMove ==
  ASSUME IsFiniteSet(Consumers), QueueInv, NEW c \in Consumers, OthersRest(c), QueueTypeOK',
         List' = List, Counting' = Counting,
         \/ size' = size /\ (cpc[c] = "idle" <=> cpc'[c] = "idle")
         \/ size' = size - 1 /\ cpc[c] = "idle" /\ cpc'[c] # "idle"
         \/ size' = size + 1 /\ cpc[c] # "idle" /\ cpc'[c] = "idle"
  PROVE  Uncounted' = Cardinality(InDequeue')
<1>1. QueueCore /\ QueueTypeOK /\ size \in Int /\ size' \in Int
  BY DEF QueueInv, QueueTypeOK, MemoryTypeOK
<1>2. IsFiniteSet(InDequeue) /\ Cardinality(InDequeue) \in Nat
  BY FS_Subset, FS_CardinalityType DEF InDequeue
<1>3. Uncounted = Cardinality(InDequeue)
  BY DEF QueueInv, InDequeue
<1>4. Uncounted' = Uncounted + size - size'
  BY <1>1, UncountedRests
<1>5. CASE size' = size /\ (cpc[c] = "idle" <=> cpc'[c] = "idle")
  <2>1. InDequeue' = InDequeue
    BY <1>5 DEF InDequeue, OthersRest
  <2>2. QED
    BY <1>1, <1>2, <1>3, <1>4, <1>5, <2>1
<1>6. CASE size' = size - 1 /\ cpc[c] = "idle" /\ cpc'[c] # "idle"
  <2>1. InDequeue' = InDequeue \cup {c} /\ c \notin InDequeue
    BY <1>6 DEF InDequeue, OthersRest
  <2>2. Cardinality(InDequeue') = Cardinality(InDequeue) + 1
    BY <1>2, <2>1, FS_AddElement
  <2>3. QED
    BY <1>1, <1>2, <1>3, <1>4, <1>6, <2>2
<1>7. CASE size' = size + 1 /\ cpc[c] # "idle" /\ cpc'[c] = "idle"
  <2>1. InDequeue' = InDequeue \ {c} /\ c \in InDequeue
    BY <1>7 DEF InDequeue, OthersRest
  <2>2. Cardinality(InDequeue') = Cardinality(InDequeue) - 1
    BY <1>2, <2>1, FS_RemoveElement
  <2>3. QED
    BY <1>1, <1>2, <1>3, <1>4, <1>7, <2>2
<1>8. QED
  BY <1>5, <1>6, <1>7

\* A step of consumer c that does not move head_.
LEMMA ConsumerRests ==
  ASSUME IsFiniteSet(Consumers), QueueInv, NEW c \in Consumers, OthersRest(c), QueueTypeOK',
         UNCHANGED <<memory, head, producers>>,
         tail' = tail \/ (next[tail.addr] # This /\ tail' = next[tail.addr]),
         \/ size' = size /\ (cpc[c] = "idle" <=> cpc'[c] = "idle")
         \/ size' = size - 1 /\ cpc[c] = "idle" /\ cpc'[c] # "idle"
         \/ size' = size + 1 /\ cpc[c] # "idle" /\ cpc'[c] = "idle",
         ConsumerKnows(c)'
  PROVE  QueueInv'
<1>1. QueueCore /\ QueueTypeOK /\ MemoryTypeOK /\ ListLinked /\ TailInList /\ MemoryTypeOK'
  BY DEF QueueInv, QueueCore, QueueTypeOK
<1>2. QueueCore' /\ List' = List /\ Counting' = Counting /\ (tail' = tail \/ tail.stamp < tail'.stamp)
  BY <1>1, HeadRests
<1>3. Uncounted' = Cardinality(InDequeue')
  BY <1>2, CountsMove
<1>4. head' = head /\ next' = next /\ data' = data
  BY DEF memory
<1>5. HeadKept /\ head'.stamp \in Nat
  BY <1>1, <1>2, <1>4, TailBehindHead DEF HeadKept
<1>6. ASSUME NEW d \in Consumers PROVE ConsumerKnows(d)'
  <2>1. CASE d = c
    BY <2>1
  <2>2. CASE d # c
    <3>1. cpc'[d] = cpc[d] /\ lh'[d] = lh[d] /\ cn'[d] = cn[d] /\ got'[d] = got[d] /\ ConsumerKnows(d)
      BY <2>2 DEF OthersRest, QueueInv
    <3>2. QED
      BY <1>1, <1>5, <3>1, ConsumerKept
  <2>3. QED
    BY <2>1, <2>2
<1>7. QED
  BY <1>2, <1>3, <1>6 DEF QueueInv, InDequeue

-----------------------------------------------------------------------------
(* What the step of a consumer writes.                                     *)

ConsumerPcs == {"idle", "undo", "head", "next", "check", "tail", "swing", "data", "move"}

LEMMA ConsumerMoves ==
  ASSUME QueueTypeOK, NEW c \in Consumers, NEW l \in ConsumerPcs, ConsumerGoto(c, l)
  PROVE  /\ cpc'[c] = l /\ cpc' \in [Consumers -> ConsumerPcs]
         /\ \A d \in Consumers \ {c} : cpc'[d] = cpc[d]
BY DEF QueueTypeOK, ConsumerGoto, ConsumerPcs

LEMMA CountDownKeeps ==
  ASSUME IsFiniteSet(Consumers), QueueInv, NEW c \in Consumers, CountDown(c)
  PROVE  QueueInv'
<1>1. QueueTypeOK
  BY DEF QueueInv
<1>2. PICK l \in {"undo", "head"} : ConsumerGoto(c, l)
  BY DEF CountDown
<1>3. cpc[c] = "idle" /\ cpc'[c] = l /\ cpc' \in [Consumers -> ConsumerPcs] /\ \A d \in Consumers \ {c} : cpc'[d] = cpc[d]
  BY <1>1, <1>2, ConsumerMoves DEF CountDown, ConsumerAt, ConsumerPcs
<1>4. /\ UNCHANGED <<memory, head, producers>> /\ tail' = tail /\ lh' = lh /\ cn' = cn /\ got' = got
      /\ size' = size - 1
  BY DEF CountDown, pointers
<1>5. QueueTypeOK'
  <2>1. MemoryTypeOK'
    BY <1>1, <1>4 DEF QueueTypeOK, MemoryTypeOK, memory, producers
  <2>2. QED
    BY <1>1, <1>3, <1>4, <2>1 DEF QueueTypeOK, ConsumerPcs
<1>6. OthersRest(c)
  BY <1>3, <1>4 DEF OthersRest
<1>7. ConsumerKnows(c)'
  BY <1>3 DEF ConsumerKnows, Holding, HoldsNode
<1>8. QED
  BY <1>2, <1>3, <1>4, <1>5, <1>6, <1>7, ConsumerRests

LEMMA UndoCountKeeps ==
  ASSUME IsFiniteSet(Consumers), QueueInv, NEW c \in Consumers, UndoCount(c)
  PROVE  QueueInv'
<1>1. QueueTypeOK
  BY DEF QueueInv
<1>2. cpc[c] = "undo" /\ cpc'[c] = "idle" /\ cpc' \in [Consumers -> ConsumerPcs] /\ \A d \in Consumers \ {c} : cpc'[d] = cpc[d]
  BY <1>1, ConsumerMoves DEF UndoCount, ConsumerAt, ConsumerPcs
<1>3. /\ UNCHANGED <<memory, head, producers>> /\ tail' = tail /\ lh' = lh /\ cn' = cn /\ got' = got
      /\ size' = size + 1
  BY DEF UndoCount, pointers
<1>4. QueueTypeOK'
  <2>1. MemoryTypeOK'
    BY <1>1, <1>3 DEF QueueTypeOK, MemoryTypeOK, memory, producers
  <2>2. QED
    BY <1>1, <1>2, <1>3, <2>1 DEF QueueTypeOK, ConsumerPcs
<1>5. OthersRest(c)
  BY <1>2, <1>3 DEF OthersRest
<1>6. ConsumerKnows(c)'
  BY <1>2 DEF ConsumerKnows, Holding, HoldsNode
<1>7. QED
  BY <1>2, <1>3, <1>4, <1>5, <1>6, ConsumerRests

LEMMA ConsumerReadHeadKeeps ==
  ASSUME IsFiniteSet(Consumers), QueueInv, NEW c \in Consumers, ConsumerReadHead(c)
  PROVE  QueueInv'
<1>1. QueueTypeOK
  BY DEF QueueInv
<1>2. cpc[c] = "head" /\ cpc'[c] = "next" /\ cpc' \in [Consumers -> ConsumerPcs] /\ \A d \in Consumers \ {c} : cpc'[d] = cpc[d]
  BY <1>1, ConsumerMoves DEF ConsumerReadHead, ConsumerAt, ConsumerPcs
<1>3. /\ UNCHANGED <<memory, head, producers>> /\ tail' = tail /\ size' = size /\ cn' = cn /\ got' = got
      /\ lh' = [lh EXCEPT ![c] = head] /\ head' = head
  BY DEF ConsumerReadHead, pointers
<1>4. QueueTypeOK'
  <2>1. MemoryTypeOK'
    BY <1>1, <1>3 DEF QueueTypeOK, MemoryTypeOK, memory, producers
  <2>2. lh' \in [Consumers -> Ptr]
    BY <1>1, <1>3 DEF QueueTypeOK, MemoryTypeOK
  <2>3. QED
    BY <1>1, <1>2, <1>3, <2>1, <2>2 DEF QueueTypeOK, ConsumerPcs
<1>5. OthersRest(c) /\ lh'[c] = head
  BY <1>1, <1>2, <1>3 DEF OthersRest, QueueTypeOK
<1>6. ConsumerKnows(c)'
  BY <1>2, <1>3, <1>5 DEF ConsumerKnows, Holding, HoldsNode
<1>7. QED
  BY <1>2, <1>3, <1>4, <1>5, <1>6, ConsumerRests

LEMMA ConsumerReadNextKeeps ==
  ASSUME IsFiniteSet(Consumers), QueueInv, NEW c \in Consumers, ConsumerReadNext(c)
  PROVE  QueueInv'
<1>1. QueueTypeOK /\ ConsumerKnows(c)
  BY DEF QueueInv
<1>2. cpc[c] = "next" /\ cpc'[c] = "check" /\ cpc' \in [Consumers -> ConsumerPcs] /\ \A d \in Consumers \ {c} : cpc'[d] = cpc[d]
  BY <1>1, ConsumerMoves DEF ConsumerReadNext, ConsumerAt, ConsumerPcs
<1>3. /\ UNCHANGED <<memory, head, producers>> /\ tail' = tail /\ size' = size /\ lh' = lh /\ got' = got
      /\ cn' = [cn EXCEPT ![c] = next[lh[c].addr]] /\ head' = head /\ next' = next
  BY DEF ConsumerReadNext, pointers, memory
<1>4. QueueTypeOK'
  <2>1. MemoryTypeOK'
    BY <1>1, <1>3 DEF QueueTypeOK, MemoryTypeOK, memory, producers
  <2>2. lh[c].addr \in Nodes
    BY <1>1, ThisIsNone DEF QueueTypeOK
  <2>3. cn' \in [Consumers -> Ptr \cup {This}]
    BY <1>1, <1>3, <2>2 DEF QueueTypeOK, MemoryTypeOK
  <2>4. QED
    BY <1>1, <1>2, <1>3, <2>1, <2>3 DEF QueueTypeOK, ConsumerPcs
<1>5. OthersRest(c) /\ cn'[c] = next[lh[c].addr]
  BY <1>1, <1>2, <1>3 DEF OthersRest, QueueTypeOK
<1>6. ConsumerKnows(c)'
  BY <1>1, <1>2, <1>3, <1>5 DEF ConsumerKnows, Holding, HoldsNode
<1>7. QED
  BY <1>2, <1>3, <1>4, <1>5, <1>6, ConsumerRests

LEMMA CheckHeadKeeps ==
  ASSUME IsFiniteSet(Consumers), QueueInv, NEW c \in Consumers, CheckHead(c)
  PROVE  QueueInv'
<1>1. QueueTypeOK /\ ConsumerKnows(c)
  BY DEF QueueInv
<1>2. PICK l \in {"head", "tail"} : ConsumerGoto(c, l) /\ (l = "tail" => head = lh[c] /\ cn[c] # This)
  BY DEF CheckHead
<1>3. cpc[c] = "check" /\ cpc'[c] = l /\ cpc' \in [Consumers -> ConsumerPcs] /\ \A d \in Consumers \ {c} : cpc'[d] = cpc[d]
  BY <1>1, <1>2, ConsumerMoves DEF CheckHead, ConsumerAt, ConsumerPcs
<1>4. /\ UNCHANGED <<memory, head, producers>> /\ tail' = tail /\ size' = size /\ lh' = lh /\ cn' = cn /\ got' = got
      /\ head' = head /\ next' = next
  BY DEF CheckHead, pointers, memory
<1>5. QueueTypeOK'
  <2>1. MemoryTypeOK'
    BY <1>1, <1>4 DEF QueueTypeOK, MemoryTypeOK, memory, producers
  <2>2. QED
    BY <1>1, <1>3, <1>4, <2>1 DEF QueueTypeOK, ConsumerPcs
<1>6. OthersRest(c)
  BY <1>3, <1>4 DEF OthersRest
<1>7. ConsumerKnows(c)'
  BY <1>1, <1>2, <1>3, <1>4 DEF ConsumerKnows, Holding, HoldsNode
<1>8. QED
  BY <1>2, <1>3, <1>4, <1>5, <1>6, <1>7, ConsumerRests

LEMMA CheckTailKeeps ==
  ASSUME IsFiniteSet(Consumers), QueueInv, NEW c \in Consumers, CheckTail(c)
  PROVE  QueueInv'
<1>1. QueueTypeOK /\ ConsumerKnows(c)
  BY DEF QueueInv
<1>2. PICK l \in {"swing", "data"} : ConsumerGoto(c, l) /\ (l = "data" => lh[c] # tail \/ lh[c] # head)
  BY DEF CheckTail
<1>3. cpc[c] = "tail" /\ cpc'[c] = l /\ cpc' \in [Consumers -> ConsumerPcs] /\ \A d \in Consumers \ {c} : cpc'[d] = cpc[d]
  BY <1>1, <1>2, ConsumerMoves DEF CheckTail, ConsumerAt, ConsumerPcs
<1>4. /\ UNCHANGED <<memory, head, producers>> /\ tail' = tail /\ size' = size /\ lh' = lh /\ cn' = cn /\ got' = got
      /\ head' = head /\ next' = next
  BY DEF CheckTail, pointers, memory
<1>5. QueueTypeOK'
  <2>1. MemoryTypeOK'
    BY <1>1, <1>4 DEF QueueTypeOK, MemoryTypeOK, memory, producers
  <2>2. QED
    BY <1>1, <1>3, <1>4, <2>1 DEF QueueTypeOK, ConsumerPcs
<1>6. OthersRest(c)
  BY <1>3, <1>4 DEF OthersRest
<1>7. ConsumerKnows(c)'
  BY <1>1, <1>2, <1>3, <1>4 DEF ConsumerKnows, Holding, HoldsNode
<1>8. QED
  BY <1>2, <1>3, <1>4, <1>5, <1>6, <1>7, ConsumerRests

\* A consumer that finds tail_ as it read head_ has head_ as it read it.
LEMMA ConsumerSwingTailKeeps ==
  ASSUME IsFiniteSet(Consumers), QueueInv, NEW c \in Consumers, ConsumerSwingTail(c)
  PROVE  QueueInv'
<1>1. QueueTypeOK /\ ConsumerKnows(c) /\ MemoryTypeOK /\ ListLinked /\ TailInList
  BY DEF QueueInv, QueueCore
<1>2. cpc[c] = "swing" /\ cpc'[c] = "data" /\ cpc' \in [Consumers -> ConsumerPcs] /\ \A d \in Consumers \ {c} : cpc'[d] = cpc[d]
  BY <1>1, ConsumerMoves DEF ConsumerSwingTail, ConsumerAt, ConsumerPcs
<1>3. /\ UNCHANGED <<memory, head, producers>> /\ size' = size /\ lh' = lh /\ cn' = cn /\ got' = got
      /\ head' = head /\ next' = next
  BY DEF ConsumerSwingTail, memory
<1>4. cn[c] # This /\ cn[c] \in Ptr
  BY <1>1, <1>2 DEF ConsumerKnows, HoldsNode, QueueTypeOK
<1>5. tail = lh[c] => lh[c] = head /\ cn[c] = next[head.addr]
  <2>1. tail.stamp \in Nat /\ head.stamp \in Nat /\ head.stamp <= tail.stamp
    BY <1>1, TailBehindHead
  <2>2. lh[c] = head \/ lh[c].stamp < head.stamp
    BY <1>1, <1>2 DEF ConsumerKnows, Holding
  <2>3. tail = lh[c] => lh[c] = head
    BY <2>1, <2>2
  <2>4. QED
    BY <1>1, <1>2, <1>4, <2>3 DEF ConsumerKnows, HoldsNode
<1>6. tail' = tail \/ (next[tail.addr] # This /\ tail' = next[tail.addr])
  BY <1>4, <1>5 DEF ConsumerSwingTail
<1>7. lh[c] = head => tail' # head
  <2>1. CASE tail = lh[c]
    BY <1>1, <1>4, <1>5, <2>1, NextIsAnother DEF ConsumerSwingTail
  <2>2. CASE tail # lh[c]
    BY <2>2 DEF ConsumerSwingTail
  <2>3. QED
    BY <2>1, <2>2
<1>8. QueueTypeOK'
  <2>1. tail' \in Ptr
    BY <1>1, <1>4 DEF ConsumerSwingTail, MemoryTypeOK
  <2>2. MemoryTypeOK'
    BY <1>1, <1>3, <2>1 DEF MemoryTypeOK, memory, producers
  <2>3. QED
    BY <1>1, <1>2, <1>3, <2>2 DEF QueueTypeOK, ConsumerPcs
<1>9. OthersRest(c)
  BY <1>2, <1>3 DEF OthersRest
<1>10. ConsumerKnows(c)'
  BY <1>1, <1>2, <1>3, <1>7 DEF ConsumerKnows, Holding, HoldsNode
<1>11. QED
  BY <1>2, <1>3, <1>6, <1>8, <1>9, <1>10, ConsumerRests

LEMMA ReadDataKeeps ==
  ASSUME IsFiniteSet(Consumers), QueueInv, NEW c \in Consumers, ReadData(c)
  PROVE  QueueInv'
<1>1. QueueTypeOK /\ ConsumerKnows(c)
  BY DEF QueueInv
<1>2. cpc[c] = "data" /\ cpc'[c] = "move" /\ cpc' \in [Consumers -> ConsumerPcs] /\ \A d \in Consumers \ {c} : cpc'[d] = cpc[d]
  BY <1>1, ConsumerMoves DEF ReadData, ConsumerAt, ConsumerPcs
<1>3. /\ UNCHANGED <<memory, head, producers>> /\ tail' = tail /\ size' = size /\ lh' = lh /\ cn' = cn
      /\ got' = [got EXCEPT ![c] = data[cn[c].addr]] /\ head' = head /\ next' = next /\ data' = data
  BY DEF ReadData, pointers, memory
<1>4. QueueTypeOK'
  <2>1. MemoryTypeOK'
    BY <1>1, <1>3 DEF QueueTypeOK, MemoryTypeOK, memory, producers
  <2>2. cn[c] \in Ptr
    BY <1>1, <1>2 DEF ConsumerKnows, HoldsNode, QueueTypeOK
  <2>3. cn[c].addr \in Nodes
    BY <2>2, ThisIsNone
  <2>4. got' \in [Consumers -> Elements \cup {NoElement}]
    BY <1>1, <1>3, <2>3 DEF QueueTypeOK, MemoryTypeOK
  <2>5. QED
    BY <1>1, <1>2, <1>3, <2>1, <2>4 DEF QueueTypeOK, ConsumerPcs
<1>5. OthersRest(c) /\ got'[c] = data[cn[c].addr]
  BY <1>1, <1>2, <1>3 DEF OthersRest, QueueTypeOK
<1>6. ConsumerKnows(c)'
  BY <1>1, <1>2, <1>3, <1>5 DEF ConsumerKnows, Holding, HoldsNode
<1>7. QED
  BY <1>2, <1>3, <1>4, <1>5, <1>6, ConsumerRests

\* The exchange of head_ succeeds for the one whose head_ it still is.
LEMMA ExchangeMoves ==
  ASSUME QueueInv, NEW c \in Consumers, ExchangeHead(c), head = lh[c]
  PROVE  /\ Moved /\ tail # head /\ cpc[c] = "move" /\ ConsumerGoto(c, "idle")
         /\ cn[c] = next[head.addr] /\ got[c] = data[cn[c].addr]
<1>1. cpc[c] = "move" /\ ConsumerKnows(c)
  BY DEF ExchangeHead, ConsumerAt, QueueInv
<1>2. cn[c] # This /\ cn[c] = next[head.addr] /\ tail # head /\ got[c] = data[cn[c].addr]
  BY <1>1 DEF ConsumerKnows, HoldsNode
<1>3. QED
  BY <1>1, <1>2 DEF ExchangeHead, Moved

LEMMA ExchangeHeadKeeps ==
  ASSUME IsFiniteSet(Consumers), QueueInv, NEW c \in Consumers, ExchangeHead(c)
  PROVE  QueueInv'
<1>1. QueueTypeOK /\ ConsumerKnows(c) /\ QueueCore /\ cpc[c] = "move"
  BY DEF QueueInv, ExchangeHead, ConsumerAt
<1>2. CASE head = lh[c]
  <2>1. Moved /\ tail # head /\ ConsumerGoto(c, "idle") /\ lh' = lh /\ cn' = cn /\ got' = got
    BY <1>2, ExchangeMoves DEF ExchangeHead
  <2>2. QueueCore' /\ Uncounted' = Uncounted - 1 /\ head.stamp < head'.stamp
    BY <1>1, <2>1, MoveKeeps, MoveShortens
  <2>3. cpc'[c] = "idle" /\ cpc' \in [Consumers -> ConsumerPcs] /\ \A d \in Consumers \ {c} : cpc'[d] = cpc[d]
    BY <1>1, <2>1, ConsumerMoves DEF ConsumerPcs
  <2>4. QueueTypeOK'
    BY <1>1, <2>1, <2>2, <2>3 DEF QueueTypeOK, QueueCore, ConsumerPcs
  <2>5. Uncounted' = Cardinality(InDequeue')
    <3>1. IsFiniteSet(InDequeue)
      BY FS_Subset DEF InDequeue
    <3>2. InDequeue' = InDequeue \ {c} /\ c \in InDequeue
      BY <1>1, <2>3 DEF InDequeue
    <3>3. Cardinality(InDequeue') = Cardinality(InDequeue) - 1
      BY <3>1, <3>2, FS_RemoveElement
    <3>4. QED
      BY <2>2, <3>3 DEF QueueInv, InDequeue
  <2>6. head'.stamp \in Nat
    BY <2>2, ThisIsNone DEF QueueCore, MemoryTypeOK
  <2>7. ASSUME NEW d \in Consumers PROVE ConsumerKnows(d)'
    <3>1. CASE d = c
      BY <2>3, <3>1 DEF ConsumerKnows, Holding, HoldsNode
    <3>2. CASE d # c
      <4>1. cpc'[d] = cpc[d] /\ lh'[d] = lh[d] /\ cn'[d] = cn[d] /\ got'[d] = got[d] /\ ConsumerKnows(d)
        BY <2>1, <2>3, <3>2 DEF QueueInv
      <4>2. QED
        BY <1>1, <2>2, <2>6, <4>1, ConsumerKept
    <3>3. QED
      BY <3>1, <3>2
  <2>8. QED
    BY <2>2, <2>4, <2>5, <2>7 DEF QueueInv, InDequeue
<1>3. CASE head # lh[c]
  <2>1. /\ UNCHANGED <<memory, head, producers>> /\ tail' = tail /\ size' = size /\ lh' = lh /\ cn' = cn /\ got' = got
        /\ ConsumerGoto(c, "head")
    BY <1>3 DEF ExchangeHead, memory
  <2>2. cpc'[c] = "head" /\ cpc' \in [Consumers -> ConsumerPcs] /\ \A d \in Consumers \ {c} : cpc'[d] = cpc[d]
    BY <1>1, <2>1, ConsumerMoves DEF ConsumerPcs
  <2>3. QueueTypeOK'
    <3>1. MemoryTypeOK'
      BY <1>1, <2>1 DEF QueueTypeOK, MemoryTypeOK, memory, producers
    <3>2. QED
      BY <1>1, <2>1, <2>2, <3>1 DEF QueueTypeOK, ConsumerPcs
  <2>4. OthersRest(c)
    BY <2>1, <2>2 DEF OthersRest
  <2>5. ConsumerKnows(c)'
    BY <2>2 DEF ConsumerKnows, Holding, HoldsNode
  <2>6. QED
    BY <1>1, <2>1, <2>2, <2>3, <2>4, <2>5, ConsumerRests
<1>4. QED
  BY <1>2, <1>3

-----------------------------------------------------------------------------
LEMMA QueueInitHasInv == ASSUME QueueInit PROVE QueueInv /\ Len(List) = 1
<1> DEFINE n == CHOOSE m \in Nodes : TRUE
<1>1. n \in Nodes
  <2>1. Nodes # {}
    <3>1. Cardinality(Producers) \in Nat
      BY FS_CardinalityType
    <3>2. Cardinality(Nodes) # 0
      BY <3>1, FS_CardinalityType
    <3>3. QED
      BY <3>2, FS_EmptySet
  <2>2. QED
    BY <2>1
<1>2. /\ Made(n) /\ cpc = [c \in Consumers |-> "idle"] /\ lh = [c \in Consumers |-> [addr |-> n, stamp |-> 0]]
      /\ cn = [c \in Consumers |-> This] /\ got = [c \in Consumers |-> NoElement]
  BY DEF QueueInit, Made
<1> HIDE DEF n
<1>3. QueueCore /\ Uncounted = 0 /\ [addr |-> n, stamp |-> 0] \in Ptr /\ Len(List) = 1
  BY <1>1, <1>2, MadeHasCore
<1>4. QueueTypeOK
  BY <1>2, <1>3 DEF QueueTypeOK, QueueCore
<1>5. Uncounted = Cardinality({c \in Consumers : cpc[c] # "idle"})
  <2>1. {c \in Consumers : cpc[c] # "idle"} = {}
    BY <1>2
  <2>2. QED
    BY <1>3, <2>1, FS_EmptySet
<1>6. \A c \in Consumers : ConsumerKnows(c)
  BY <1>2 DEF ConsumerKnows, Holding, HoldsNode
<1>7. QED
  BY <1>3, <1>4, <1>5, <1>6 DEF QueueInv

LEMMA QueueStepKeeps ==
  ASSUME IsFiniteSet(Consumers), QueueInv, [QueueNext /\ NoStaleLink]_queueVars
  PROVE  QueueInv'
<1>1. ASSUME NEW p \in Producers, Enqueue(p), UNCHANGED got, NoStaleLink PROVE QueueInv'
  BY <1>1, EnqueueKeepsQueue
<1>2. ASSUME NEW c \in Consumers, DequeueBy(c) PROVE QueueInv'
  <2>1. CASE CountDown(c) \/ UndoCount(c) \/ ConsumerReadHead(c)
    BY <2>1, CountDownKeeps, UndoCountKeeps, ConsumerReadHeadKeeps
  <2>2. CASE ConsumerReadNext(c) \/ CheckHead(c) \/ CheckTail(c)
    BY <2>2, ConsumerReadNextKeeps, CheckHeadKeeps, CheckTailKeeps
  <2>3. CASE ConsumerSwingTail(c) \/ ReadData(c) \/ ExchangeHead(c)
    BY <2>3, ConsumerSwingTailKeeps, ReadDataKeeps, ExchangeHeadKeeps
  <2>4. QED
    BY <1>2, <2>1, <2>2, <2>3 DEF DequeueBy
<1>3. CASE UNCHANGED queueVars
  <2>1. QueueCore' /\ List' = List /\ Uncounted' = Uncounted
    BY <1>3, QuietKeeps DEF QueueInv, queueVars, vars
  <2>2. /\ cpc' = cpc /\ lh' = lh /\ cn' = cn /\ got' = got
        /\ next' = next /\ data' = data /\ head' = head /\ tail' = tail
    BY <1>3 DEF queueVars, vars, memory, pointers, consumer
  <2>3. QueueTypeOK' /\ \A c \in Consumers : ConsumerKnows(c)'
    BY <2>1, <2>2 DEF QueueInv, QueueTypeOK, QueueCore, ConsumerKnows
  <2>4. QED
    BY <2>1, <2>2, <2>3 DEF QueueInv
<1>4. QED
  BY <1>1, <1>2, <1>3 DEF QueueNext

(* The list of LockFreeQueue is that of LockFreeEnqQueue, and what its     *)
(* consumers know of head_ and the node behind it is true as long as       *)
(* head_ is what they read (LockFreeQueue.h 80-177).                       *)
THEOREM QueueInvariant == IsFiniteSet(Consumers) => (QueueSpec => []QueueInv)
<1> SUFFICES ASSUME IsFiniteSet(Consumers) PROVE QueueSpec => []QueueInv
  OBVIOUS
<1>1. QueueInit => QueueInv
  BY QueueInitHasInv
<1>2. QueueInv /\ [QueueNext /\ NoStaleLink]_queueVars => QueueInv'
  BY QueueStepKeeps
<1>3. QED
  BY <1>1, <1>2, PTL DEF QueueSpec

LEMMA CountCoveredHolds == ASSUME IsFiniteSet(Consumers), QueueInv PROVE CountCovered
<1> DEFINE U == {c \in Consumers : cpc[c] = "undo"}
           C == {c \in Consumers : cpc[c] \notin {"idle", "undo"}}
<1>1. IsFiniteSet(U) /\ IsFiniteSet(C) /\ Cardinality(U) \in Nat /\ Cardinality(C) \in Nat
  BY FS_Subset, FS_CardinalityType
<1>2. U \cap C = {} /\ InDequeue = U \cup C
  BY DEF InDequeue
<1>3. Cardinality(InDequeue) = Cardinality(U) + Cardinality(C)
  <2>1. Cardinality(U \cup C) = Cardinality(U) + Cardinality(C) - Cardinality(U \cap C)
    BY <1>1, FS_Union
  <2>2. Cardinality(U \cap C) = 0
    BY <1>2, FS_EmptySet
  <2> HIDE DEF U, C
  <2>3. QED
    BY <1>1, <1>2, <2>1, <2>2
<1>4. Uncounted = Cardinality(InDequeue) /\ size \in Int
  BY DEF QueueInv, InDequeue, QueueTypeOK, MemoryTypeOK
<1>5. size + Uncounted <= Len(Behind(head.addr)) + Cardinality(Remaining)
  BY BehindHead DEF QueueInv
<1>6. size + Cardinality(U) + Cardinality(C) <= Len(Behind(head.addr)) + Cardinality(Remaining)
  <2>1. size + (Cardinality(U) + Cardinality(C)) = size + Cardinality(U) + Cardinality(C)
    <3> HIDE DEF U, C
    <3>1. QED
      BY <1>1, <1>4
  <2>2. QED
    BY <1>3, <1>4, <1>5, <2>1
<1>7. QED
  BY <1>6 DEF CountCovered, Remaining

(* One list from head_ to tail_, without free nodes, and a Dequeue that    *)
(* found size_ above zero finds an element, for any number of consumers    *)
(* (LockFreeQueue.h 80-177).                                               *)
THEOREM QueueIsSound ==
  IsFiniteSet(Consumers) => (QueueSpec => [](QueueTypeOK /\ ListIntact /\ CountCovered))
<1> SUFFICES ASSUME IsFiniteSet(Consumers)
             PROVE  QueueSpec => [](QueueTypeOK /\ ListIntact /\ CountCovered)
  OBVIOUS
<1>1. QueueInv => QueueTypeOK /\ ListIntact /\ CountCovered
  BY ListIntactHolds, CountCoveredHolds DEF QueueInv
<1>2. QueueSpec => []QueueInv
  BY QueueInvariant
<1>3. QED
  BY <1>1, <1>2, PTL

LEMMA QueueStepIsFifo ==
  ASSUME QueueInv, QueueOfList, QueueOfList', [QueueNext /\ NoStaleLink]_queueVars
  PROVE  [Fifo!Next]_Queue /\ [DeliversFirstStep]_queueVars
<1>1. QueueCore /\ QueueTypeOK
  BY DEF QueueInv
<1>2. ASSUME NEW p \in Producers, Enqueue(p), NoStaleLink
      PROVE  [Fifo!Next]_Queue /\ DeliversFirstStep
  <2>1. cpc' = cpc
    BY <1>2, EnqueueIsNoDequeue DEF consumer
  <2>2. QED
    BY <1>1, <1>2, <2>1, EnqueueIsFifo DEF DeliversFirstStep, ConsumerAt
<1>3. ASSUME NEW c \in Consumers, ExchangeHead(c), head = lh[c]
      PROVE  [Fifo!Next]_Queue /\ DeliversFirstStep
  <2>1. /\ Moved /\ cpc[c] = "move" /\ ConsumerGoto(c, "idle")
        /\ cn[c] = next[head.addr] /\ got[c] = data[cn[c].addr]
    BY <1>3, ExchangeMoves
  <2>2. Fifo!Next
    BY <1>1, <2>1, MoveTakes DEF Fifo!Next
  <2>3. next[head.addr].addr = List[2] /\ head' = next[head.addr]
    BY <1>1, <2>1, SecondNode DEF Moved
  <2>4. \A d \in Consumers \ {c} : cpc'[d] = cpc[d]
    BY <1>1, <2>1, ConsumerMoves DEF ConsumerPcs
  <2>5. DeliversFirstStep
    BY <2>1, <2>3, <2>4 DEF DeliversFirstStep, ConsumerAt
  <2>6. QED
    BY <2>2, <2>5
<1>4. ASSUME NEW c \in Consumers, DequeueBy(c), ~(ExchangeHead(c) /\ head = lh[c])
      PROVE  [Fifo!Next]_Queue /\ DeliversFirstStep
  <2>1. UNCHANGED <<memory, head>>
    BY <1>4 DEF DequeueBy, CountDown, UndoCount, ConsumerReadHead, ConsumerReadNext, CheckHead, CheckTail,
                ConsumerSwingTail, ReadData, ExchangeHead, memory, pointers
  <2>2. Queue' = Queue
    BY <1>1, <2>1, QuietDequeue, QueueStays
  <2>3. PICK l \in ConsumerPcs : ConsumerGoto(c, l) /\ (cpc[c] = "move" => l # "idle")
    BY <1>4 DEF DequeueBy, CountDown, UndoCount, ConsumerReadHead, ConsumerReadNext, CheckHead, CheckTail,
                ConsumerSwingTail, ReadData, ExchangeHead, ConsumerAt, ConsumerPcs
  <2>4. cpc'[c] = l /\ \A d \in Consumers \ {c} : cpc'[d] = cpc[d]
    BY <1>1, <2>3, ConsumerMoves
  <2>5. DeliversFirstStep
    BY <2>3, <2>4 DEF DeliversFirstStep, ConsumerAt
  <2>6. QED
    BY <2>2, <2>5
<1>5. CASE UNCHANGED queueVars
  <2>1. UNCHANGED <<memory, head>>
    BY <1>5 DEF queueVars, vars, pointers
  <2>2. Queue' = Queue
    BY <1>1, <2>1, QuietDequeue, QueueStays
  <2>3. QED
    BY <1>5, <2>2
<1>6. QED
  BY <1>2, <1>3, <1>4, <1>5 DEF QueueNext

(* The data behind head_ is a first-in-first-out queue for any number of   *)
(* producers and consumers, and what a consumer read before its exchange,  *)
(* of a node that may have been freed and filled again, is what the        *)
(* exchange takes out (LockFreeQueue.h 80-177).                            *)
THEOREM QueueImplementsFifo ==
  IsFiniteSet(Consumers) => (QueueSpec => FifoSpec /\ DeliversFirst)
<1>1. QueueInit => Fifo!Init
  BY QueueInitHasInv, QueueIs, NothingIsEmpty DEF Fifo!Init, QueueInv
<1>2. /\ QueueInv /\ QueueOfList /\ QueueOfList' /\ [QueueNext /\ NoStaleLink]_queueVars
        => [Fifo!Next]_Queue /\ [DeliversFirstStep]_queueVars
  BY QueueStepIsFifo
<1>3. QueueInv => QueueOfList
  BY QueueIs DEF QueueInv
<1>4. QED
  BY <1>1, <1>2, <1>3, QueueInvariant, PTL DEF QueueSpec, FifoSpec, Fifo!Spec, DeliversFirst
=============================================================================
