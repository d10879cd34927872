----------------------------- MODULE SwapQueue -----------------------------
(***************************************************************************)
(* SwapQueue: producers fill the current one of two queues under shared    *)
(* locks of the pair and an exclusive lock of the queue; the consumer      *)
(* swaps them under the exclusive lock of the pair and empties the one it  *)
(* got without a lock. Clear is left out: it assigns queues to pointers,   *)
(* which no use of the template can compile.                               *)
(***************************************************************************)
EXTENDS Naturals, Sequences

CONSTANTS Producers, MaxItems, QUEUE_MAX_SIZE

VARIABLES
  queue,       \* the two queues, as what is between front_ and rear_
  curQueue,    \* 1 or 2
  lock,        \* of the pair: the producers that share it
  inner,       \* of each queue: the producer in Enqueue, or 0
  mine,        \* the queue that Swap returned last, or 0
  sent,        \* items enqueued, by each producer
  received, dropped
vars == <<queue, curQueue, lock, inner, mine, sent, received, dropped>>

Items == Producers \X (1..MaxItems)
TypeOK ==
  /\ queue \in [{1, 2} -> Seq(Items)] /\ curQueue \in {1, 2}
  /\ lock \subseteq Producers /\ inner \in [{1, 2} -> Producers \cup {0}] /\ mine \in 0..2
  /\ sent \in [Producers -> 0..MaxItems] /\ received \in Seq(Items) /\ dropped \subseteq Items

Init ==
  /\ queue = [q \in {1, 2} |-> <<>>] /\ curQueue = 1
  /\ lock = {} /\ inner = [q \in {1, 2} |-> 0] /\ mine = 0
  /\ sent = [p \in Producers |-> 0] /\ received = <<>> /\ dropped = {}

\* ReadLock
EnterShared(p) ==
  /\ sent[p] < MaxItems /\ p \notin lock
  /\ lock' = lock \cup {p}
  /\ UNCHANGED <<queue, curQueue, inner, mine, sent, received, dropped>>

\* curQueue_->Enqueue: WriteLock of the queue
LockQueue(p) ==
  /\ p \in lock /\ inner[curQueue] = 0
  /\ inner' = [inner EXCEPT ![curQueue] = p]
  /\ UNCHANGED <<queue, curQueue, lock, mine, sent, received, dropped>>

isFull(q) == Len(queue[q]) = QUEUE_MAX_SIZE - 1

\* the item goes in, or is refused by a full queue; both locks are given up
Enqueue(p) ==
  \E q \in {1, 2} :
    /\ inner[q] = p
    /\ IF isFull(q)
       THEN dropped' = dropped \cup {<<p, sent[p] + 1>>} /\ UNCHANGED queue
       ELSE queue' = [queue EXCEPT ![q] = Append(@, <<p, sent[p] + 1>>)] /\ UNCHANGED dropped
    /\ inner' = [inner EXCEPT ![q] = 0] /\ lock' = lock \ {p}
    /\ sent' = [sent EXCEPT ![p] = @ + 1]
    /\ UNCHANGED <<curQueue, mine, received>>

MutSwap ==
  /\ mine # 0 => queue[mine] = <<>>
  /\ mine' = curQueue /\ curQueue' = 3 - curQueue
  /\ UNCHANGED <<queue, lock, inner, sent, received, dropped>>

\* Swap, under the exclusive lock; the consumer has emptied the other one
Swap ==
  /\ mine # 0 => queue[mine] = <<>>
  /\ lock = {}
  /\ mine' = curQueue /\ curQueue' = 3 - curQueue
  /\ UNCHANGED <<queue, lock, inner, sent, received, dropped>>

\* Dequeue of the queue that was swapped out, without a lock
Dequeue ==
  /\ mine # 0 /\ queue[mine] # <<>>
  /\ received' = Append(received, Head(queue[mine]))
  /\ queue' = [queue EXCEPT ![mine] = Tail(@)]
  /\ UNCHANGED <<curQueue, lock, inner, mine, sent, dropped>>

Next == Swap \/ Dequeue \/ \E p \in Producers : EnterShared(p) \/ LockQueue(p) \/ Enqueue(p)
Spec == Init /\ [][Next]_vars
-----------------------------------------------------------------------------
\* Nobody enqueues where the consumer dequeues without a lock.
ConsumerAlone == mine # 0 => inner[mine] = 0

\* Over the swaps of the two queues, the items of one producer arrive in the order in which it
\* enqueued them, and none but those refused by a full queue is missing in between.
Swapped == IF mine = 0 THEN <<>> ELSE queue[mine]
SwapKeepsOrder ==
  LET all == received \o Swapped \o queue[curQueue] IN
  /\ \A i, j \in DOMAIN all : i < j /\ all[i][1] = all[j][1] => all[i][2] < all[j][2]
  /\ {all[i] : i \in DOMAIN all} = {item \in Items : item[2] <= sent[item[1]]} \ dropped
-----------------------------------------------------------------------------
(* Why: a producer is under the shared lock of the pair from before it     *)
(* reads which queue is the current one, and Swap waits for all of them.   *)
AllItems == received \o queue[3 - curQueue] \o queue[curQueue]

SwapInv ==
  /\ TypeOK
  /\ mine \in {0, 3 - curQueue} /\ (mine = 0 => queue[3 - curQueue] = <<>>)
  /\ inner[3 - curQueue] = 0 /\ inner[curQueue] \in lock \cup {0}
  /\ \A p \in lock : sent[p] < MaxItems
  /\ \A i, j \in DOMAIN AllItems : i < j /\ AllItems[i][1] = AllItems[j][1] => AllItems[i][2] < AllItems[j][2]
  /\ \A i \in DOMAIN AllItems : AllItems[i] \notin dropped /\ AllItems[i][2] <= sent[AllItems[i][1]]
  /\ \A item \in dropped : item[2] <= sent[item[1]]
  /\ \A p \in Producers : \A k \in 1..sent[p] : <<p, k>> \in dropped \/ \E i \in DOMAIN AllItems : AllItems[i] = <<p, k>>
=============================================================================
