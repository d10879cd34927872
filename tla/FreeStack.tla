----------------------------- MODULE FreeStack -----------------------------
(***************************************************************************)
(* LockFreeStack, as the stack of the free session indices: the listener   *)
(* pops the index of a slot for every session it accepts, and whoever      *)
(* releases the session pushes it back. Nodes come from a pool that the    *)
(* threads share, so that the node a thread looks at may be freed, and be  *)
(* in the stack again, before its compare-and-exchange.                    *)
(*                                                                         *)
(* One action is one access of what other threads write. Which free node   *)
(* Alloc finds is left open.                                               *)
(***************************************************************************)
EXTENDS Integers, FiniteSets, Sequences

CONSTANTS
  Threads,
  Nodes,
  Indices,     \* of the sessions: all of them are in the stack at first
  MaxStamp,    \* bound of the model: exchanges of top_
  nullptr

\* of the constants: there are sessions, and a node for each
StackAssumption ==
  /\ IsFiniteSet(Threads) /\ IsFiniteSet(Nodes) /\ nullptr \notin Nodes /\ MaxStamp \in Nat
  /\ IsFiniteSet(Indices) /\ Indices # {} /\ Cardinality(Indices) <= Cardinality(Nodes)

VARIABLES
  data, next,  \* of every node
  pool,        \* nodePool_: the nodes that are free
  top, size,
  held,        \* the indices every thread has popped and not pushed
  pc, node, localTop, localNext

memory == <<data, next, pool>>
locals == <<node, localTop, localNext>>
vars == <<memory, top, size, held, pc, locals>>

Pointer == [addr : Nodes \cup {nullptr}, stamp : 0..MaxStamp]

(* Pointers carry a stamp, everything else is a node or an index.          *)
TypeOK ==
  /\ data \in [Nodes -> Indices]
  /\ next \in [Nodes -> Nodes \cup {nullptr}]
  /\ pool \subseteq Nodes
  /\ top \in Pointer /\ size \in Int
  /\ held \in [Threads -> SUBSET Indices]
  /\ pc \in [Threads -> {"idle", "push", "link", "inc", "pop", "next", "unlink", "data", "fail"}]
  /\ node \in [Threads -> Nodes \cup {nullptr}]
  /\ localTop \in [Threads -> Pointer]
  /\ localNext \in [Threads -> Nodes \cup {nullptr}]

At(t, l) == pc[t] = l
Goto(t, l) == pc' = [pc EXCEPT ![t] = l]
MutStamped(n, ptr) == [addr |-> n, stamp |-> ptr.stamp]
Stamped(n, ptr) == [addr |-> n, stamp |-> ptr.stamp + 1]
NoPointer == [addr |-> nullptr, stamp |-> 0]

\* the nodes one gets to from n, n first, if they end with nullptr
Walks == UNION {[1..k -> Nodes] : k \in 0..Cardinality(Nodes)}
Lists(nx, n) ==
  {l \in Walks : /\ n = IF l = <<>> THEN nullptr ELSE l[1]
                 /\ \A i \in DOMAIN l : nx[l[i]] = IF i = Len(l) THEN nullptr ELSE l[i + 1]}
Listed == LET lists == Lists(next, top.addr) IN IF lists = {} THEN <<>> ELSE CHOOSE l \in lists : TRUE
-----------------------------------------------------------------------------
(* Push of an index                                                        *)

NewNode(t) ==
  /\ At(t, "idle")
  /\ \E i \in held[t], n \in pool :
       /\ held' = [held EXCEPT ![t] = @ \ {i}]
       /\ pool' = pool \ {n}
       /\ data' = [data EXCEPT ![n] = i]
       /\ node' = [node EXCEPT ![t] = n]
  /\ Goto(t, "push")
  /\ UNCHANGED <<next, top, size, localTop, localNext>>

ReadTopToPush(t) ==
  /\ At(t, "push")
  /\ localTop' = [localTop EXCEPT ![t] = top]
  /\ next' = [next EXCEPT ![node[t]] = top.addr]
  /\ Goto(t, "link")
  /\ UNCHANGED <<data, pool, top, size, held, node, localNext>>

LinkNode(t) ==
  /\ At(t, "link")
  /\ IF top = localTop[t]
       THEN /\ top.stamp < MaxStamp
            /\ top' = Stamped(node[t], localTop[t])
            /\ node' = [node EXCEPT ![t] = nullptr]
            /\ Goto(t, "inc")
       ELSE Goto(t, "push") /\ UNCHANGED <<top, node>>
  /\ localTop' = [localTop EXCEPT ![t] = NoPointer]
  /\ UNCHANGED <<memory, size, held, localNext>>

IncrementSize(t) ==
  /\ At(t, "inc") \/ At(t, "fail")
  /\ size' = size + 1
  /\ Goto(t, "idle")
  /\ UNCHANGED <<memory, top, held, locals>>
-----------------------------------------------------------------------------
(* Pop                                                                     *)

DecrementSize(t) ==
  /\ At(t, "idle")
  /\ size' = size - 1
  /\ Goto(t, "pop")
  /\ UNCHANGED <<memory, top, held, locals>>

MutEmptyNotUndone(t) ==
  /\ At(t, "pop")
  /\ IF top.addr = nullptr
       THEN Goto(t, "idle") /\ UNCHANGED localTop
       ELSE Goto(t, "next") /\ localTop' = [localTop EXCEPT ![t] = top]
  /\ UNCHANGED <<memory, top, size, held, node, localNext>>

\* nothing to pop: size_ is put right and Pop returns false
ReadTop(t) ==
  /\ At(t, "pop")
  /\ IF top.addr = nullptr
       THEN Goto(t, "fail") /\ UNCHANGED localTop
       ELSE Goto(t, "next") /\ localTop' = [localTop EXCEPT ![t] = top]
  /\ UNCHANGED <<memory, top, size, held, node, localNext>>

\* of a node that may be free by now, or in the stack again
ReadNext(t) ==
  /\ At(t, "next")
  /\ localNext' = [localNext EXCEPT ![t] = next[localTop[t].addr]]
  /\ Goto(t, "unlink")
  /\ UNCHANGED <<memory, top, size, held, node, localTop>>

UnlinkNode(t) ==
  /\ At(t, "unlink")
  /\ IF top = localTop[t]
       THEN /\ top.stamp < MaxStamp
            /\ top' = Stamped(localNext[t], localTop[t])
            /\ node' = [node EXCEPT ![t] = localTop[t].addr]
            /\ Goto(t, "data")
       ELSE Goto(t, "pop") /\ UNCHANGED <<top, node>>
  /\ localTop' = [localTop EXCEPT ![t] = NoPointer]
  /\ localNext' = [localNext EXCEPT ![t] = nullptr]
  /\ UNCHANGED <<memory, size, held>>

\* the element is read after the node has left the stack, and before it is freed
TakeData(t) ==
  /\ At(t, "data")
  /\ held' = [held EXCEPT ![t] = @ \cup {data[node[t]]}]
  /\ pool' = pool \cup {node[t]}
  /\ node' = [node EXCEPT ![t] = nullptr]
  /\ Goto(t, "idle")
  /\ UNCHANGED <<data, next, top, size, localTop, localNext>>
-----------------------------------------------------------------------------
\* the constructor, and the server's Push of every index
Init ==
  LET n == Cardinality(Indices)
      order == CHOOSE s \in [1..n -> Indices] : \A i, j \in 1..n : s[i] = s[j] => i = j
      used == CHOOSE s \in [1..n -> Nodes] : \A i, j \in 1..n : s[i] = s[j] => i = j
      is(m, i) == used[i] = m
  IN  /\ data = [m \in Nodes |-> IF \E i \in 1..n : is(m, i)
                                   THEN order[CHOOSE i \in 1..n : is(m, i)] ELSE order[1]]
      /\ next = [m \in Nodes |-> IF \E i \in 2..n : is(m, i)
                                   THEN used[(CHOOSE i \in 2..n : is(m, i)) - 1] ELSE nullptr]
      /\ pool = {m \in Nodes : \A i \in 1..n : ~ is(m, i)}
      /\ top = [addr |-> used[n], stamp |-> 0]
      /\ size = n
      /\ held = [t \in Threads |-> {}]
      /\ pc = [t \in Threads |-> "idle"]
      /\ node = [t \in Threads |-> nullptr]
      /\ localTop = [t \in Threads |-> NoPointer]
      /\ localNext = [t \in Threads |-> nullptr]

Push(t) == NewNode(t) \/ ReadTopToPush(t) \/ LinkNode(t)
Pop(t) == DecrementSize(t) \/ ReadTop(t) \/ ReadNext(t) \/ UnlinkNode(t) \/ TakeData(t)
Next == \E t \in Threads : Push(t) \/ Pop(t) \/ IncrementSize(t)

Spec == Init /\ [][Next]_vars
-----------------------------------------------------------------------------
\* the index in a thread's hands, between held and the stack
InHand(i) == {t \in Threads : node[t] # nullptr /\ data[node[t]] = i}

\* Every index is in the stack once, or with one thread: no two sessions get the same
\* slot, and no slot is lost, though threads read the next of nodes that are freed.
IndexOnce ==
  LET list == Listed IN
  \A i \in Indices :
    Cardinality({k \in DOMAIN list : data[list[k]] = i})
      + Cardinality(InHand(i)) + Cardinality({t \in Threads : i \in held[t]}) = 1

\* size_ is behind the stack by the calls that are under way, and by nothing else.
SizeSettles ==
  size = Len(Listed) - Cardinality({t \in Threads : pc[t] \in {"inc", "pop", "next", "unlink", "fail"}})

\* The list is a stack: it changes at one exchange of top_, by one element at the top.
StackOf == LET list == Listed IN [k \in DOMAIN list |-> data[list[k]]]
Lifo == INSTANCE IndexStack WITH Items <- Indices, stack <- StackOf
LifoStep == [Lifo!Next]_StackOf
LifoSpec == Lifo!Spec

\* What it rests on. Nodes are free, in the list, or one thread's:
ListLinked ==
  /\ Lists(next, top.addr) # {}
  /\ \A i, j \in DOMAIN Listed : Listed[i] = Listed[j] => i = j
  /\ \A i \in DOMAIN Listed : Listed[i] \notin pool

OwnNodes == \A t, u \in Threads : node[t] = node[u] => t = u \/ node[t] = nullptr

\* and what a thread has read is so as long as top_ is what it was then.
ThreadSupport(t) ==
  /\ node[t] # nullptr <=> pc[t] \in {"push", "link", "data"}
  /\ node[t] \notin pool /\ \A i \in DOMAIN Listed : Listed[i] # node[t]
  /\ pc[t] \in {"link", "next", "unlink"} => localTop[t].stamp <= top.stamp
  /\ pc[t] = "link" => next[node[t]] = localTop[t].addr
  /\ pc[t] \in {"next", "unlink"} => localTop[t].addr # nullptr
  /\ pc[t] = "unlink" /\ localTop[t] = top => localNext[t] = next[top.addr]

StackInv ==
  /\ TypeOK /\ ListLinked /\ OwnNodes /\ (\A t \in Threads : ThreadSupport(t))
  /\ IndexOnce /\ SizeSettles
=============================================================================
