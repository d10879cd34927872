---------------------------- MODULE CountedQueue ----------------------------
(***************************************************************************)
(* Queue: an array with a count. front_ is the slot before the first       *)
(* element and rear_ the slot of the last, so that one slot is never used. *)
(***************************************************************************)
EXTENDS Naturals, Sequences

CONSTANTS Items, QUEUE_MAX_SIZE
QUEUE_MAX_SIZE_MASK == QUEUE_MAX_SIZE - 1

VARIABLES arr, front, rear, count
vars == <<arr, front, rear, count>>

TypeOK ==
  /\ arr \in [0..QUEUE_MAX_SIZE_MASK -> Items]
  /\ front \in 0..QUEUE_MAX_SIZE_MASK /\ rear \in 0..QUEUE_MAX_SIZE_MASK
  /\ count \in 0..QUEUE_MAX_SIZE_MASK

Init ==
  /\ arr = [i \in 0..QUEUE_MAX_SIZE_MASK |-> CHOOSE item \in Items : TRUE]   \* { 0 }
  /\ front = 0 /\ rear = 0 /\ count = 0

isEmpty == count = 0
MutisFull == count >= QUEUE_MAX_SIZE
isFull == count >= QUEUE_MAX_SIZE_MASK

\* a full queue ends the process: callers stay below
Enqueue(item) ==
  /\ ~isFull
  /\ rear' = (rear + 1) % QUEUE_MAX_SIZE
  /\ arr' = [arr EXCEPT ![rear'] = item]
  /\ count' = count + 1
  /\ UNCHANGED front

DequeuedItem == arr[(front + 1) % QUEUE_MAX_SIZE]     \* *buf
Dequeue ==
  /\ ~isEmpty
  /\ count' = count - 1
  /\ front' = (front + 1) % QUEUE_MAX_SIZE
  /\ UNCHANGED <<arr, rear>>

MutClear == front' = 0 /\ count' = 0 /\ UNCHANGED <<arr, rear>>
Clear == front' = 0 /\ rear' = 0 /\ count' = 0 /\ UNCHANGED arr

Next == Dequeue \/ Clear \/ \E item \in Items : Enqueue(item)
Spec == Init /\ [][Next]_vars
-----------------------------------------------------------------------------
Contents == [i \in 1..count |-> arr[(front + i) % QUEUE_MAX_SIZE]]

\* count_ and the two ends agree, at the end of the array and when all slots but one are
\* used too, and what comes out is what went in, in that order.
Fifo ==
  /\ (rear' + QUEUE_MAX_SIZE - front') % QUEUE_MAX_SIZE = count'
  /\ \A item \in Items : Enqueue(item) => Contents' = Append(Contents, item)
  /\ Dequeue => Contents = <<DequeuedItem>> \o Contents'
=============================================================================
