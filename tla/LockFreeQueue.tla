--------------------------- MODULE LockFreeQueue ---------------------------
(***************************************************************************)
(* LockFreeQueue (LockFreeJobQ of JobQueue.h): Enqueue is that of          *)
(* LockFreeEnqQueue, line by line, and Dequeue is for any number of        *)
(* consumers. cpc, lh and cn of EnqQueue are functions over them here.     *)
(***************************************************************************)
EXTENDS EnqQueue

CONSTANT Consumers

VARIABLE got        \* what a consumer has read from the node behind localHead

queueVars == <<vars, got>>

ConsumerAt(c, l) == cpc[c] = l
ConsumerGoto(c, l) == cpc' = [cpc EXCEPT ![c] = l]

(* As in EnqQueue, but that size_ may be seen below zero.                  *)
QueueTypeOK ==
  /\ MemoryTypeOK
  /\ cpc \in [Consumers -> {"idle", "undo", "head", "next", "check", "tail", "swing", "data", "move"}]
  /\ lh \in [Consumers -> Ptr] /\ cn \in [Consumers -> Ptr \cup {This}]
  /\ got \in [Consumers -> Elements \cup {NoElement}]
-----------------------------------------------------------------------------
CountDown(c) ==
  /\ ConsumerAt(c, "idle")
  /\ size' = size - 1
  /\ ConsumerGoto(c, IF size - 1 < 0 THEN "undo" ELSE "head")
  /\ UNCHANGED <<memory, pointers, producers, lh, cn, got>>

\* nothing was left: Dequeue returns false
UndoCount(c) ==
  /\ ConsumerAt(c, "undo")
  /\ size' = size + 1
  /\ ConsumerGoto(c, "idle")
  /\ UNCHANGED <<memory, pointers, producers, lh, cn, got>>

ConsumerReadHead(c) ==
  /\ ConsumerAt(c, "head")
  /\ lh' = [lh EXCEPT ![c] = head]
  /\ ConsumerGoto(c, "next")
  /\ UNCHANGED <<memory, pointers, size, producers, cn, got>>

\* the node may have been freed, and be anybody's, by now
ConsumerReadNext(c) ==
  /\ ConsumerAt(c, "next")
  /\ cn' = [cn EXCEPT ![c] = next[lh[c].addr]]
  /\ ConsumerGoto(c, "check")
  /\ UNCHANGED <<memory, pointers, size, producers, lh, got>>

\* head_ has moved, or the list is still empty: start over
CheckHead(c) ==
  /\ ConsumerAt(c, "check")
  /\ ConsumerGoto(c, IF head # lh[c] \/ cn[c] = This THEN "head" ELSE "tail")
  /\ UNCHANGED <<memory, pointers, size, producers, lh, cn, got>>

CheckTail(c) ==
  /\ ConsumerAt(c, "tail")
  /\ ConsumerGoto(c, IF lh[c] = tail /\ lh[c] = head THEN "swing" ELSE "data")
  /\ UNCHANGED <<memory, pointers, size, producers, lh, cn, got>>

ConsumerSwingTail(c) ==
  /\ ConsumerAt(c, "swing")
  /\ tail' = IF tail = lh[c] THEN cn[c] ELSE tail
  /\ ConsumerGoto(c, "data")
  /\ UNCHANGED <<memory, head, size, producers, lh, cn, got>>

\* before the exchange, which tells whether it was worth anything
ReadData(c) ==
  /\ ConsumerAt(c, "data")
  /\ got' = [got EXCEPT ![c] = data[cn[c].addr]]
  /\ ConsumerGoto(c, "move")
  /\ UNCHANGED <<memory, pointers, size, producers, lh, cn>>

MutHeadNotCompared(c) ==
  /\ ConsumerAt(c, "move")
  /\ head' = cn[c] /\ pool' = pool \cup {lh[c].addr} /\ ConsumerGoto(c, "idle")
  /\ UNCHANGED <<data, next, tail, size, producers, lh, cn, got>>

ExchangeHead(c) ==
  /\ ConsumerAt(c, "move")
  /\ IF head = lh[c]
       THEN head' = cn[c] /\ pool' = pool \cup {lh[c].addr} /\ ConsumerGoto(c, "idle")
       ELSE ConsumerGoto(c, "head") /\ UNCHANGED <<head, pool>>
  /\ UNCHANGED <<data, next, tail, size, producers, lh, cn, got>>
-----------------------------------------------------------------------------
QueueInit ==
  /\ data = [m \in Nodes |-> NoElement]
  /\ next = [m \in Nodes |-> This]
  /\ LET n == CHOOSE m \in Nodes : TRUE
         dummy == [addr |-> n, stamp |-> 0]
     IN  /\ pool = Nodes \ {n}
         /\ head = dummy /\ tail = dummy /\ size = 0
         /\ pc = [p \in Producers |-> "idle"]
         /\ new = [p \in Producers |-> n]
         /\ lt = [p \in Producers |-> dummy]
         /\ ln = [p \in Producers |-> This]
         /\ cpc = [c \in Consumers |-> "idle"]
         /\ lh = [c \in Consumers |-> dummy]
         /\ cn = [c \in Consumers |-> This]
  /\ count = [p \in Producers |-> 0]
  /\ got = [c \in Consumers |-> NoElement]

DequeueBy(c) ==
  \/ CountDown(c) \/ UndoCount(c) \/ ConsumerReadHead(c) \/ ConsumerReadNext(c) \/ CheckHead(c)
  \/ CheckTail(c) \/ ConsumerSwingTail(c) \/ ReadData(c) \/ ExchangeHead(c)

QueueNext ==
  \/ \E p \in Producers : Enqueue(p) /\ UNCHANGED got
  \/ \E c \in Consumers : DequeueBy(c)

\* without the exchanges that succeed at a node that was freed: see EnqQueue
QueueSpec == QueueInit /\ [][QueueNext /\ NoStaleLink]_queueVars
-----------------------------------------------------------------------------
\* What a consumer read before its exchange is the element the exchange takes out,
\* although the node may have been freed, and filled again, while it read.
DeliversFirstStep ==
  \A c \in Consumers : ConsumerAt(c, "move") /\ cpc'[c] = "idle"
    => got[c] = data[List[2]] /\ head'.addr = List[2]
DeliversFirst == [][DeliversFirstStep]_queueVars

\* size_ counts no element that a Dequeue could wait for in vain: those that are counted,
\* and those that consumers have taken off the count, are behind head_.
CountCovered ==
  LET counting(c) == cpc[c] \notin {"idle", "undo"}
      undone == Cardinality({c \in Consumers : cpc[c] = "undo"})
      pending == UNION {{Behind(n)[i] : i \in DOMAIN Behind(n)} : n \in Pending}
  IN  size + undone + Cardinality({c \in Consumers : counting(c)})
        <= Len(Behind(head.addr)) + Cardinality(pending)

\* What a consumer knows: head_ has moved on, with another stamp, or it still is what
\* the consumer read, and what was read behind it is there.
Holding == {"next", "check", "tail", "swing", "data", "move"}
HoldsNode == {"tail", "swing", "data", "move"}
ConsumerKnows(c) ==
  /\ cpc[c] \in Holding => lh[c] = head \/ lh[c].stamp < head.stamp
  /\ cpc[c] \in HoldsNode => cn[c] # This
  /\ cpc[c] \in {"check"} \cup HoldsNode /\ lh[c] = head /\ cn[c] # This => cn[c] = next[head.addr]
  /\ cpc[c] \in {"data", "move"} /\ lh[c] = head => tail # head
  /\ cpc[c] = "move" /\ lh[c] = head => got[c] = data[cn[c].addr]

QueueInv ==
  /\ QueueTypeOK /\ QueueCore
  /\ Uncounted = Cardinality({c \in Consumers : cpc[c] # "idle"})
  /\ \A c \in Consumers : ConsumerKnows(c)
=============================================================================
