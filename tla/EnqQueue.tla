------------------------------ MODULE EnqQueue ------------------------------
(***************************************************************************)
(* LockFreeEnqQueue, the sendQ_ of a session: a linked list with a dummy   *)
(* node, any number of producers and one consumer at a time. Pointers      *)
(* carry a stamp; the end of the list is a next that points at the queue   *)
(* itself. Nodes come from a pool the threads share (MemTLS), so that a    *)
(* node a producer looks at may be freed and in use again.                 *)
(*                                                                         *)
(* One action is one access of memory that other threads write. Which free *)
(* node Alloc finds is left open, and it waits if none is free. Enqueue    *)
(* returning FALSE changes nothing.                                        *)
(***************************************************************************)
EXTENDS Integers, FiniteSets, Sequences

CONSTANTS
  Producers,
  Nodes,          \* the nodes of the pool, the dummy included
  MaxEnq,         \* bound of the model: elements each producer enqueues
  QUEUE_MAX_SIZE,
  StampSize       \* 2^16: the stamp is in bits 48 to 63

\* the elements: the k-th that producer p enqueues
Elements == Producers \X (1..MaxEnq)
NoElement == <<>>

Ptr == [addr : Nodes, stamp : 0 .. StampSize - 1]
This == [addr |-> "this", stamp |-> 0]

ASSUME NodesAssumption ==
  /\ IsFiniteSet(Nodes) /\ IsFiniteSet(Producers) /\ This.addr \notin Nodes
  /\ Cardinality(Nodes) >= Cardinality(Producers) + 1
ASSUME BoundsAssumption == MaxEnq \in Nat /\ QUEUE_MAX_SIZE \in Nat
\* no stamp is given twice
ASSUME StampsAssumption == StampSize \in Nat /\ Cardinality(Elements) < StampSize

VARIABLES
  data, next,      \* of every node
  pool,            \* nodePool_: the nodes that are free
  head, tail, size,
  pc, new, lt, ln, \* of a producer: newNode, localTail and localNext
  cpc, lh, cn,     \* of the consumer: localHead and localNext
  count            \* the elements each producer has begun to enqueue

memory    == <<data, next, pool>>
pointers  == <<head, tail>>
producers == <<pc, new, lt, ln, count>>
consumer  == <<cpc, lh, cn>>
vars == <<memory, pointers, size, producers, consumer>>

(* Every pointer is a stamped node or the mark of the end, and size_ is    *)
(* never seen below zero by anybody.                                       *)
MemoryTypeOK ==
  /\ data \in [Nodes -> Elements \cup {NoElement}]
  /\ next \in [Nodes -> Ptr \cup {This}]
  /\ pool \subseteq Nodes
  /\ head \in Ptr /\ tail \in Ptr
  /\ size \in Int
  /\ pc \in [Producers -> {"idle", "alloc", "tail", "next", "cas", "swing", "inc"}]
  /\ new \in [Producers -> Nodes]
  /\ lt \in [Producers -> Ptr]
  /\ ln \in [Producers -> Ptr \cup {This}]
  /\ count \in [Producers -> 0..MaxEnq]
TypeOK ==
  /\ MemoryTypeOK /\ size \in Nat
  /\ cpc \in {"idle", "next", "swing", "move"}
  /\ lh \in Ptr /\ cn \in Ptr \cup {This}

Element(p) == <<p, count[p]>>
Stamped(n, ptr) == [addr |-> n, stamp |-> (ptr.stamp + 1) % StampSize]
Goto(p, l) == pc' = [pc EXCEPT ![p] = l]
At(p, l) == pc[p] = l

\* the nodes one gets to from n, n first, if they end with the mark
Walks == UNION {[1..k -> Nodes] : k \in 1..Cardinality(Nodes)}
Lists(nx, n) ==
  {l \in Walks : l[1] = n /\ \A i \in DOMAIN l :
     IF i = Len(l) THEN nx[l[i]] = This ELSE nx[l[i]] # This /\ nx[l[i]].addr = l[i + 1]}
From(n) == LET lists == Lists(next, n) IN IF lists = {} THEN <<n>> ELSE CHOOSE l \in lists : TRUE

List == From(head.addr)       \* the dummy is its first node
Behind(n) == Tail(From(n))    \* the nodes behind n
Listed(ptr) == ptr = head \/ \E i \in DOMAIN List : next[List[i]] = ptr
-----------------------------------------------------------------------------
(* Enqueue                                                                 *)

isFull(p) ==
  /\ At(p, "idle") /\ count[p] < MaxEnq
  /\ size < QUEUE_MAX_SIZE
  /\ count' = [count EXCEPT ![p] = @ + 1]
  /\ Goto(p, "alloc")
  /\ UNCHANGED <<memory, pointers, size, new, lt, ln, consumer>>

MutEndNotMarked(p) ==
  /\ At(p, "alloc")
  /\ \E n \in pool :
       /\ pool' = pool \ {n}
       /\ data' = [data EXCEPT ![n] = Element(p)]
       /\ new' = [new EXCEPT ![p] = n]
  /\ Goto(p, "tail")
  /\ UNCHANGED <<next, pointers, size, lt, ln, count, consumer>>

NewNode(p) ==
  /\ At(p, "alloc")
  /\ \E n \in pool :
       /\ pool' = pool \ {n}
       /\ data' = [data EXCEPT ![n] = Element(p)]
       /\ next' = [next EXCEPT ![n] = This]
       /\ new' = [new EXCEPT ![p] = n]
  /\ Goto(p, "tail")
  /\ UNCHANGED <<pointers, size, lt, ln, count, consumer>>

ReadTail(p) ==
  /\ At(p, "tail")
  /\ lt' = [lt EXCEPT ![p] = tail]
  /\ Goto(p, "next")
  /\ UNCHANGED <<memory, pointers, size, new, ln, count, consumer>>

\* the node may have been freed, and be anybody's, by now
ReadNext(p) ==
  /\ At(p, "next")
  /\ ln' = [ln EXCEPT ![p] = next[lt[p].addr]]
  /\ Goto(p, "cas")
  /\ UNCHANGED <<memory, pointers, size, new, lt, count, consumer>>

MutLinkNotCompared(p) ==
  /\ At(p, "cas") /\ ln[p] = This
  /\ next' = [next EXCEPT ![lt[p].addr] = Stamped(new[p], lt[p])]
  /\ Goto(p, "swing")
  /\ UNCHANGED <<data, pool, pointers, size, new, lt, ln, count, consumer>>

MutLinkNotRetried(p) ==
  /\ At(p, "cas") /\ ln[p] = This
  /\ next' = IF next[lt[p].addr] = This
               THEN [next EXCEPT ![lt[p].addr] = Stamped(new[p], lt[p])] ELSE next
  /\ Goto(p, "swing")
  /\ UNCHANGED <<data, pool, pointers, size, new, lt, ln, count, consumer>>

\* the end of the list, as it seems: the compare-and-exchange of next
LinkNode(p) ==
  /\ At(p, "cas") /\ ln[p] = This
  /\ IF next[lt[p].addr] = This
       THEN /\ next' = [next EXCEPT ![lt[p].addr] = Stamped(new[p], lt[p])]
            /\ Goto(p, "swing")
       ELSE Goto(p, "tail") /\ UNCHANGED next
  /\ UNCHANGED <<data, pool, pointers, size, new, lt, ln, count, consumer>>

\* tail_ lags behind: help, and try again
HelpTail(p) ==
  /\ At(p, "cas") /\ ln[p] # This
  /\ tail' = IF tail = lt[p] THEN ln[p] ELSE tail
  /\ Goto(p, "tail")
  /\ UNCHANGED <<memory, head, size, new, lt, ln, count, consumer>>

SwingTail(p) ==
  /\ At(p, "swing")
  /\ tail' = IF tail = lt[p] THEN Stamped(new[p], lt[p]) ELSE tail
  /\ Goto(p, "inc")
  /\ UNCHANGED <<memory, head, size, new, lt, ln, count, consumer>>

IncrementSize(p) ==
  /\ At(p, "inc")
  /\ size' = size + 1
  /\ Goto(p, "idle")
  /\ UNCHANGED <<memory, pointers, new, lt, ln, count, consumer>>

-----------------------------------------------------------------------------
(* Dequeue                                                                 *)

MutSizeNotTested ==
  /\ cpc = "idle"
  /\ size' = size - 1
  /\ cpc' = "next"
  /\ UNCHANGED <<memory, pointers, producers, lh, cn>>

\* the caller has seen that Size() is above zero, and is the only consumer
DecrementSize ==
  /\ cpc = "idle" /\ size > 0
  /\ size' = size - 1
  /\ cpc' = "next"
  /\ UNCHANGED <<memory, pointers, producers, lh, cn>>

\* localHead and localNext; the loop starts over while head_ is the last node
ReadHead ==
  /\ cpc = "next"
  /\ next[head.addr] # This
  /\ lh' = head /\ cn' = next[head.addr]
  /\ cpc' = "swing"
  /\ UNCHANGED <<memory, pointers, size, producers>>

\* tail_ is not to stay behind at the node that is freed
DequeueSwingTail ==
  /\ cpc = "swing"
  /\ tail' = IF tail = lh THEN cn ELSE tail
  /\ cpc' = "move"
  /\ UNCHANGED <<memory, head, size, producers, lh, cn>>

\* the first element moves to the new dummy's place, and the old one is freed
MoveHead ==
  /\ cpc = "move"
  /\ head' = cn
  /\ pool' = pool \cup {lh.addr}
  /\ cpc' = "idle"
  /\ UNCHANGED <<data, next, tail, size, producers, lh, cn>>

-----------------------------------------------------------------------------
Init ==
  \E n \in Nodes : LET dummy == [addr |-> n, stamp |-> 0] IN
    /\ data = [m \in Nodes |-> NoElement]
    /\ next = [m \in Nodes |-> This]
    /\ pool = Nodes \ {n}
    /\ head = dummy /\ tail = dummy /\ size = 0
    /\ pc = [p \in Producers |-> "idle"]
    /\ new = [p \in Producers |-> n]
    /\ lt = [p \in Producers |-> dummy]
    /\ ln = [p \in Producers |-> This]
    /\ cpc = "idle" /\ lh = dummy /\ cn = This
    /\ count = [p \in Producers |-> 0]

Enqueue(p) ==
  \/ isFull(p) \/ NewNode(p) \/ ReadTail(p) \/ ReadNext(p)
  \/ LinkNode(p) \/ HelpTail(p) \/ SwingTail(p) \/ IncrementSize(p)

Dequeue == DecrementSize \/ ReadHead \/ DequeueSwingTail \/ MoveHead

Next == (\E p \in Producers : Enqueue(p)) \/ Dequeue

Spec == Init /\ [][Next]_vars

(* The executions in which the compare-and-exchange of next does not       *)
(* succeed at a node that was freed since the producer read tail_: the     *)
(* mark of the end carries no stamp, so that the code cannot tell.         *)
NoStaleLink ==
  \A p \in Producers : At(p, "cas") /\ pc'[p] = "swing" => Listed(lt[p])

FreshSpec == Init /\ [][Next /\ NoStaleLink]_vars
\* only the thread that is inside Dequeue needs to run
FairFreshSpec == FreshSpec /\ WF_vars(cpc # "idle" /\ Dequeue)
-----------------------------------------------------------------------------
\* The list does not run into a free node or into itself, and tail_ is never on a
\* node that was freed: Dequeue takes only what size_ counts, and who counts an
\* element has moved tail_ over it, or seen that another has.
ListIntact ==
  LET list == List IN
  /\ \A i, j \in DOMAIN list : list[i] = list[j] => i = j
  /\ \A i \in DOMAIN list : list[i] \notin pool
  /\ next[list[Len(list)]] = This
  /\ Listed(tail)

\* the nodes a producer has allocated and not yet linked
Pending == {new[p] : p \in {r \in Producers : pc[r] \in {"tail", "next", "cas"}}}

\* the elements a Dequeue has taken off size_ and not yet out of the list
Taken == IF cpc = "idle" THEN 0 ELSE 1

\* Every element size_ counts, and the one a Dequeue has taken off size_, is behind
\* head_ or at least behind a node that is about to be linked: what Destroy, and
\* SendPost, rely on when they take Size() > 0 to mean that Dequeue delivers.
SizeCovered ==
  size + Taken
    <= Len(Behind(head.addr))
       + Cardinality(UNION {{Behind(n)[i] : i \in DOMAIN Behind(n)} : n \in Pending})

\* The data behind head_ is a first-in-first-out queue: Put at the exchange of next,
\* Take when head_ moves.
Queue == LET behind == Behind(head.addr) IN [i \in DOMAIN behind |-> data[behind[i]]]
Fifo == INSTANCE PacketQueue WITH queue <- Queue
FifoStep == [Fifo!Next]_Queue
FifoSpec == Fifo!Spec

\* A Dequeue that has taken one off size_ ends: it does not spin at an empty list.
DequeueEnds == (cpc # "idle") ~> (cpc = "idle")

(* The list is one list from head_ to tail_, without free nodes, and       *)
(* size_ never counts an element that cannot be reached, at every access   *)
(* of a producer or the consumer (LockFreeEnqQueue.h 79-169).              *)
ListSound == TypeOK /\ ListIntact /\ SizeCovered

\* What it rests on, most of it whoever dequeues. The stamps of the list count up to
\* the number of elements that were linked.
Linking == {"tail", "next", "cas"}
LinkedElements ==
  {e \in Elements : \/ e[2] < count[e[1]]
                    \/ e[2] = count[e[1]] /\ pc[e[1]] \notin {"alloc"} \cup Linking}
Counting == {p \in Producers : pc[p] \in {"swing", "inc"}}

ListLinked ==
  /\ Lists(next, head.addr) # {}
  /\ \A i, j \in DOMAIN List : List[i] = List[j] => i = j
  /\ \A i \in 1 .. Len(List) - 1 : next[List[i]] = [addr |-> List[i + 1], stamp |-> head.stamp + i]
  /\ \A i \in DOMAIN List : List[i] \notin pool
  /\ head.stamp + Len(List) = Cardinality(LinkedElements) + 1

TailInList == \E i \in DOMAIN List : tail = [addr |-> List[i], stamp |-> head.stamp + i - 1]

\* What a producer knows; of tail_, as long as it is what the producer read.
ProducerSupport(p) ==
  /\ pc[p] # "idle" => count[p] > 0
  /\ pc[p] \in Linking => /\ new[p] \notin pool /\ \A i \in DOMAIN List : List[i] # new[p]
                          /\ next[new[p]] = This /\ data[new[p]] = Element(p)
  /\ pc[p] \in {"next", "cas", "swing"} => lt[p].stamp <= tail.stamp
  /\ pc[p] = "cas" /\ tail = lt[p] /\ ln[p] # This => next[tail.addr] = ln[p]
  /\ pc[p] = "swing" /\ tail = lt[p] => next[tail.addr] = Stamped(new[p], tail)

OwnNodes == \A p, r \in Producers : pc[p] \in Linking /\ pc[r] \in Linking /\ new[p] = new[r] => p = r

QueueCore ==
  /\ MemoryTypeOK /\ ListLinked /\ TailInList
  /\ OwnNodes /\ \A p \in Producers : ProducerSupport(p)

\* the elements of the list that neither size_ nor a producer on its way to size_ counts
Uncounted == Len(List) - 1 - size - Cardinality(Counting)

\* The consumer works at the first two nodes, and moves tail_ off the one it frees.
ConsumerSupport ==
  /\ cpc \in {"swing", "move"} => lh = head /\ cn = next[head.addr] /\ cn # This
  /\ cpc = "move" => tail # head

IInv == TypeOK /\ QueueCore /\ Uncounted = Taken /\ ConsumerSupport
=============================================================================
