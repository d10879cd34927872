----------------------------- MODULE ChunkPool -----------------------------
(***************************************************************************)
(* MemTLS over ChunkLockFree: every thread has a list of free blocks, and  *)
(* whole chunks of chunkSize_ blocks go from and to a stack that the       *)
(* threads share without a lock. The headers of the chunks, and the blocks *)
(* that GarbageCollect drops, come from and go back to the heap.           *)
(*                                                                         *)
(* One action is one access of what other threads write; a header goes     *)
(* back to the heap in the step that counts the chunk as used. What a      *)
(* thread reads in a header the heap has is anything.                      *)
(***************************************************************************)
EXTENDS Integers, FiniteSets, Sequences, FiniteSetsExt, SequencesExt

CONSTANTS
  Threads, nobody,
  Managers,              \* the threads of PipeManager
  Blocks, Headers,       \* bounds of the model: what the heap can give
  null,
  chunkSize, chunkCount,
  MaxStamp,              \* bound of the model: exchanges of topChunk_
  MaxInUse               \* bound of the model: blocks the program holds

\* chunks have blocks, and the heap has what Initialize takes from it
ASSUME ChunkAssumption ==
  /\ IsFiniteSet(Threads) /\ IsFiniteSet(Blocks) /\ IsFiniteSet(Headers)
  /\ null \notin Blocks \cup Headers /\ nobody \notin Threads
  /\ chunkSize \in Nat \ {0} /\ chunkCount \in Nat \ {0} /\ MaxStamp \in Nat /\ MaxInUse \in Nat
  /\ Cardinality(Headers) >= 3 * chunkCount /\ Cardinality(Blocks) >= 3 * chunkCount * chunkSize

VARIABLES
  next, inUse,           \* of every block; the blocks that are allocated
  chunk,                 \* head and nextChunk of every header
  heapBlocks, heapHeaders,
  topChunk, chunkCapacity, chunkUsed,
  tls,                   \* data and capacity of every thread's Top
  freeChunk, lock,       \* freeChunk_, and who has freeChunkLock_
  my                     \* where every thread is, its localTop, next, retChunk, diff
                         \* and i, and what it does with the chunk it pops

blocks == <<next, inUse, heapBlocks>>
headers == <<chunk, heapHeaders>>
counters == <<chunkCapacity, chunkUsed>>
destruction == <<freeChunk, lock>>
vars == <<blocks, headers, topChunk, counters, tls, destruction, my>>

Ptr == [addr : Headers \cup {null}, stamp : 0..MaxStamp]
NoTop == [data |-> null, capacity |-> 0]    \* also of a thread without a Top

(* Pointers, counts and places. A list may be as long as two chunks.       *)
TypeOK ==
  /\ next \in [Blocks -> Blocks \cup {null}]
  /\ inUse \subseteq Blocks /\ heapBlocks \subseteq Blocks
  /\ chunk \in [Headers -> [head : Blocks \cup {null}, nextChunk : Headers \cup {null}]]
  /\ heapHeaders \subseteq Headers
  /\ topChunk \in Ptr
  /\ chunkCapacity \in Int /\ chunkUsed \in Int
  /\ tls \in [Threads -> [data : Blocks \cup {null}, capacity : 0 .. 2 * chunkSize - 1]]
  /\ freeChunk \in [head : Blocks \cup {null}, tail : Blocks \cup {null}, count : Nat]
  /\ lock \in Threads \cup {nobody}
  /\ my \in [Threads ->
       [at : {"idle", "top", "next", "pop", "take", "push", "exchange", "lock", "collect",
              "used", "capacity"},
        top : Ptr, next : Headers \cup {null}, chunk : Headers \cup {null},
        goal : {"list", "heap"}, left : Nat, diff : Nat]]

At(t, l) == my[t].at = l
Go(t, l, r) == my' = [my EXCEPT ![t] = [r EXCEPT !.at = l]]
NoPtr == [addr |-> null, stamp |-> 0]
NoLocals == [at |-> "idle", top |-> NoPtr, next |-> null, chunk |-> null,
             goal |-> "list", left |-> 0, diff |-> 0]
Return(t) == my' = [my EXCEPT ![t] = NoLocals]
\* next of a block that leaves its list is not read again: it does not stay in the state
Forget(S) == next' = [b \in Blocks |-> IF b \in S THEN null ELSE next[b]]
Stamped(h, ptr) == [addr |-> h, stamp |-> ptr.stamp + 1]

\* the nodes one gets to from n along links, in their order
Along(Nodes, links, n) ==
  LET walk[fuel \in 0..Cardinality(Nodes)] ==
        [m \in Nodes \cup {null} |->
           IF m = null \/ fuel = 0 THEN <<>> ELSE <<m>> \o walk[fuel - 1][links[m]]]
  IN  walk[Cardinality(Nodes)][n]
ListFrom(b) == Along(Blocks, next, b)
In(list) == {list[i] : i \in DOMAIN list}
Nth(b, n) == ListFrom(b)[n]
-----------------------------------------------------------------------------
(* ChunkLockFree::Alloc, for a thread's list or for GarbageCollect         *)

ReadTop(t) ==
  /\ At(t, "top") /\ topChunk.addr # null
  /\ Go(t, "next", [my[t] EXCEPT !.top = topChunk])
  /\ UNCHANGED <<blocks, headers, topChunk, counters, tls, destruction>>

\* blocks of the heap: they are alike, so that it does not matter which
NewBlocks == SubSeq(SetToSeq(heapBlocks), 1, chunkSize)
After(list, b) ==
  LET i == CHOOSE j \in DOMAIN list : list[j] = b IN IF i = Len(list) THEN null ELSE list[i + 1]
Chained(links, list) == [b \in Blocks |-> IF b \in In(list) THEN After(list, b) ELSE links[b]]

\* the stack is empty: the heap gives chunkSize_ blocks
CreateNewChunk(t) ==
  /\ At(t, "top") /\ topChunk.addr = null
  /\ Cardinality(heapBlocks) >= chunkSize
  /\ \E h \in heapHeaders : LET new == NewBlocks IN
       /\ next' = Chained(next, new)
       /\ chunk' = [chunk EXCEPT ![h] = [head |-> new[1], nextChunk |-> null]]
       /\ heapBlocks' = heapBlocks \ In(new) /\ heapHeaders' = heapHeaders \ {h}
       /\ Go(t, "take", [my[t] EXCEPT !.chunk = h])
  /\ chunkCapacity' = chunkCapacity + 1
  /\ UNCHANGED <<inUse, topChunk, chunkUsed, tls, destruction>>

\* the header may be the heap's by now
ReadNextChunk(t) ==
  /\ At(t, "next")
  /\ LET h == my[t].top.addr IN
       \E n \in (IF h \in heapHeaders THEN Headers \cup {null} ELSE {chunk[h].nextChunk}) :
         Go(t, "pop", [my[t] EXCEPT !.next = n])
  /\ UNCHANGED <<blocks, headers, topChunk, counters, tls, destruction>>

Exchange(t, h) ==
  /\ topChunk.stamp < MaxStamp
  /\ topChunk' = Stamped(h, my[t].top)

\* what a thread knows after its exchange, with h in its hands
With(t, h) == [my[t] EXCEPT !.top = NoPtr, !.next = null, !.chunk = h]

MutAddressCompared(t) ==
  /\ At(t, "pop")
  /\ IF topChunk.addr = my[t].top.addr
       THEN Exchange(t, my[t].next) /\ Go(t, "take", With(t, my[t].top.addr))
       ELSE Go(t, "top", With(t, null)) /\ UNCHANGED topChunk
  /\ UNCHANGED <<blocks, headers, counters, tls, destruction>>

\* the compare-and-exchange of topChunk_
PopChunk(t) ==
  /\ At(t, "pop")
  /\ IF topChunk = my[t].top
       THEN Exchange(t, my[t].next) /\ Go(t, "take", With(t, my[t].top.addr))
       ELSE Go(t, "top", With(t, null)) /\ UNCHANGED topChunk
  /\ UNCHANGED <<blocks, headers, counters, tls, destruction>>

\* its header is cleared and freed
TakeChunk(t) ==
  /\ At(t, "take")
  /\ chunkUsed' = chunkUsed + 1
  /\ chunk' = [chunk EXCEPT ![my[t].chunk] = [head |-> null, nextChunk |-> null]]
  /\ heapHeaders' = heapHeaders \cup {my[t].chunk}

\* the thread that asked for the chunk gets its first block, the rest is its list
TakeForList(t) ==
  /\ TakeChunk(t) /\ my[t].goal = "list"
  /\ LET b == chunk[my[t].chunk].head IN
       /\ tls' = [tls EXCEPT ![t] = [data |-> next[b], capacity |-> chunkSize - 1]]
       /\ inUse' = inUse \cup {b}
       /\ Forget({b})
  /\ Return(t)
  /\ UNCHANGED <<heapBlocks, topChunk, chunkCapacity, destruction>>

\* GarbageCollect gives every block up to the end of the list back to the heap
CollectChunk(t) ==
  /\ TakeChunk(t) /\ my[t].goal = "heap"
  /\ LET list == In(ListFrom(chunk[my[t].chunk].head)) IN
       heapBlocks' = heapBlocks \cup list /\ Forget(list)
  /\ Go(t, IF my[t].left = 1 THEN "used" ELSE "top", [With(t, null) EXCEPT !.left = @ - 1])
  /\ UNCHANGED <<inUse, topChunk, chunkCapacity, tls, destruction>>
-----------------------------------------------------------------------------
(* ChunkLockFree::Free of the chunk that begins at head                    *)

CreateDummyChunkForFree(t, head) ==
  /\ \E h \in heapHeaders :
       /\ chunk' = [chunk EXCEPT ![h] = [head |-> head, nextChunk |-> null]]
       /\ heapHeaders' = heapHeaders \ {h}
       /\ Go(t, "push", [my[t] EXCEPT !.chunk = h])
  /\ chunkUsed' = chunkUsed - 1

ReadTopToPush(t) ==
  /\ At(t, "push")
  /\ chunk' = [chunk EXCEPT ![my[t].chunk].nextChunk = topChunk.addr]
  /\ Go(t, "exchange", [my[t] EXCEPT !.top = topChunk])
  /\ UNCHANGED <<blocks, heapHeaders, topChunk, counters, tls, destruction>>

\* who has freeChunkLock_ releases it and goes on to GarbageCollect
PushChunk(t) ==
  /\ At(t, "exchange")
  /\ IF topChunk = my[t].top
       THEN /\ Exchange(t, my[t].chunk)
            /\ IF lock = t THEN Go(t, "collect", With(t, null)) /\ lock' = nobody
                           ELSE Return(t) /\ UNCHANGED lock
       ELSE Go(t, "push", With(t, my[t].chunk)) /\ UNCHANGED <<topChunk, lock>>
  /\ UNCHANGED <<blocks, headers, counters, tls, freeChunk>>
-----------------------------------------------------------------------------
(* MemTLS                                                                  *)

Alloc(t) ==
  /\ At(t, "idle") /\ Cardinality(inUse) < MaxInUse
  /\ IF tls[t].capacity = 0
       THEN Go(t, "top", NoLocals) /\ UNCHANGED <<next, inUse, tls>>
       ELSE /\ inUse' = inUse \cup {tls[t].data}
            /\ tls' = [tls EXCEPT ![t] = [data |-> next[@.data], capacity |-> @.capacity - 1]]
            /\ Forget({tls[t].data})
            /\ UNCHANGED my
  /\ UNCHANGED <<heapBlocks, headers, topChunk, counters, destruction>>

\* a block in front of a thread's list
Freed(t, b) == [next EXCEPT ![b] = tls[t].data]

FreeToList(t, b) ==
  /\ next' = Freed(t, b)
  /\ tls' = [tls EXCEPT ![t] = [data |-> b, capacity |-> @.capacity + 1]]
  /\ UNCHANGED <<headers, counters, my>>

\* with two chunks in the list, the first one goes to the pool
ReturnDataToChunkPool(t, b) ==
  LET last == IF chunkSize = 1 THEN b ELSE Nth(tls[t].data, chunkSize - 1) IN
  /\ next' = [Freed(t, b) EXCEPT ![last] = null]
  /\ tls' = [tls EXCEPT ![t] = [data |-> Freed(t, b)[last], capacity |-> @.capacity + 1 - chunkSize]]
  /\ CreateDummyChunkForFree(t, b)
  /\ UNCHANGED chunkCapacity

\* any thread frees any block
Free(t) ==
  /\ At(t, "idle")
  /\ \E b \in inUse :
       /\ inUse' = inUse \ {b}
       /\ IF tls[t].capacity + 1 >= 2 * chunkSize THEN ReturnDataToChunkPool(t, b) ELSE FreeToList(t, b)
  /\ UNCHANGED <<heapBlocks, topChunk, destruction>>

\* the end of a thread: a list of one chunk goes to the stack as it is
RemoveRemainders(t) ==
  /\ At(t, "idle") /\ tls[t].capacity # 0
  /\ IF tls[t].capacity = chunkSize
       THEN CreateDummyChunkForFree(t, tls[t].data) /\ tls' = [tls EXCEPT ![t] = NoTop]
       ELSE Go(t, "lock", NoLocals) /\ UNCHANGED <<headers, chunkUsed, tls>>
  /\ UNCHANGED <<blocks, topChunk, chunkCapacity, destruction>>

\* freeChunk_ with the thread's list at its end
Joined(t) ==
  [head  |-> IF freeChunk.head = null THEN tls[t].data ELSE freeChunk.head,
   tail  |-> Nth(tls[t].data, tls[t].capacity),
   count |-> freeChunk.count + tls[t].capacity]
Linked(t) == IF freeChunk.head = null THEN next ELSE [next EXCEPT ![freeChunk.tail] = tls[t].data]

\* the chunkSize_ first blocks of freeChunk_ go to the stack, with the lock held
FreeFromTLSDestruction(t) ==
  /\ At(t, "lock") /\ lock = nobody
  /\ tls' = [tls EXCEPT ![t] = NoTop]
  /\ IF Joined(t).count >= chunkSize
       THEN LET list == ListFrom(freeChunk.head) \o ListFrom(tls[t].data)
                last == list[chunkSize]
            IN  /\ freeChunk' = [Joined(t) EXCEPT !.head = Linked(t)[last], !.count = @ - chunkSize]
                /\ next' = [Linked(t) EXCEPT ![last] = null]
                /\ CreateDummyChunkForFree(t, list[1])
                /\ lock' = t
       ELSE /\ freeChunk' = Joined(t) /\ next' = Linked(t)
            /\ Go(t, "collect", NoLocals)
            /\ UNCHANGED <<headers, chunkUsed, lock>>
  /\ UNCHANGED <<inUse, heapBlocks, topChunk, chunkCapacity>>
-----------------------------------------------------------------------------
(* GarbageCollect, at the end of a thread or called by PipeManager         *)

GarbageCollect(t) ==
  /\ At(t, "collect") \/ (At(t, "idle") /\ t \in Managers)
  /\ LET d == chunkCapacity - 3 * chunkUsed IN
       IF d > 0 THEN Go(t, "top", [NoLocals EXCEPT !.goal = "heap", !.left = d, !.diff = d])
                ELSE Return(t)
  /\ UNCHANGED <<blocks, headers, topChunk, counters, tls, destruction>>

SubtractUsed(t) ==
  /\ At(t, "used")
  /\ chunkUsed' = chunkUsed - my[t].diff
  /\ Go(t, "capacity", my[t])
  /\ UNCHANGED <<blocks, headers, topChunk, chunkCapacity, tls, destruction>>

SubtractCapacity(t) ==
  /\ At(t, "capacity")
  /\ chunkCapacity' = chunkCapacity - my[t].diff
  /\ Return(t)
  /\ UNCHANGED <<blocks, headers, topChunk, chunkUsed, tls, destruction>>
-----------------------------------------------------------------------------
(* Initialize: chunkCount * 3 chunks in the stack.                         *)
Init ==
  LET n == chunkCount * 3
      bs == SetToSeq(Blocks)
      hs == SubSeq(SetToSeq(Headers), 1, n)
      ofChunk(i) == SubSeq(bs, (i - 1) * chunkSize + 1, i * chunkSize)
      number(h) == CHOOSE i \in 1..n : hs[i] = h
      in(b, i) == b \in In(ofChunk(i))
  IN
  /\ next = [b \in Blocks |->
       IF \E i \in 1..n : in(b, i) THEN After(ofChunk(CHOOSE i \in 1..n : in(b, i)), b) ELSE null]
  /\ inUse = {}
  /\ chunk = [h \in Headers |->
       IF h \in In(hs) THEN [head |-> ofChunk(number(h))[1], nextChunk |-> After(hs, h)]
                       ELSE [head |-> null, nextChunk |-> null]]
  /\ heapBlocks = {b \in Blocks : \A i \in 1..n : ~ in(b, i)} /\ heapHeaders = Headers \ In(hs)
  /\ topChunk = [addr |-> hs[1], stamp |-> 0]
  /\ chunkCapacity = n /\ chunkUsed = 0
  /\ tls = [t \in Threads |-> NoTop]
  /\ freeChunk = [head |-> null, tail |-> null, count |-> 0]
  /\ lock = nobody
  /\ my = [t \in Threads |-> NoLocals]

AllocChunk(t) == ReadTop(t) \/ CreateNewChunk(t) \/ ReadNextChunk(t) \/ PopChunk(t) \/ TakeForList(t) \/ CollectChunk(t)
FreeChunk(t) == ReadTopToPush(t) \/ PushChunk(t)
Collect(t) == GarbageCollect(t) \/ SubtractUsed(t) \/ SubtractCapacity(t)

Next == \E t \in Threads :
  \/ Alloc(t) \/ Free(t) \/ RemoveRemainders(t) \/ FreeFromTLSDestruction(t)
  \/ AllocChunk(t) \/ FreeChunk(t) \/ Collect(t)

Spec == Init /\ [][Next]_vars
-----------------------------------------------------------------------------
\* the headers from topChunk_ down
NextChunks == [h \in Headers |-> chunk[h].nextChunk]
Stack == Along(Headers, NextChunks, topChunk.addr)

InHand == {t \in Threads : my[t].at \in {"take", "push", "exchange"}}
HeadersOut == In(Stack) \cup {my[t].chunk : t \in InHand}

\* the lists of blocks: of the chunks, of the threads, and freeChunk_'s
Lists == ({"chunk"} \X Headers) \cup ({"thread"} \X Threads) \cup {<<"gathered", null>>}
First(l) ==
  CASE l[1] = "chunk" -> chunk[l[2]].head
    [] l[1] = "thread" -> tls[l[2]].data
    [] l[1] = "gathered" -> freeChunk.head
Row(l) == ListFrom(First(l))

\* Every block is in use, or in exactly one list, or the heap's: no block is given
\* out twice and none is lost, although threads read headers that are freed, free
\* blocks that others allocated, and collect while others allocate.
BlocksAccounted ==
  /\ LET rows == {<<l, In(Row(l))>> : l \in Lists} IN
     \A b \in Blocks : Cardinality({r \in rows : b \in r[2]})
                       + Cardinality({b} \cap inUse) + Cardinality({b} \cap heapBlocks) = 1
  /\ heapHeaders = Headers \ HeadersOut

\* Every chunk has chunkSize_ blocks, ends in nullptr, and every other list is as long
\* as its count says: what the loops over a chunk, and GarbageCollect's, rely on.
ListsMeasured ==
  /\ \A h \in Headers : Len(Row(<<"chunk", h>>)) = IF h \in heapHeaders THEN 0 ELSE chunkSize
  /\ \A t \in Threads : Len(Row(<<"thread", t>>)) = tls[t].capacity
  /\ Len(Row(<<"gathered", null>>)) = freeChunk.count

\* chunkCapacity_ counts the chunks that exist, and chunkUsed_ those that are out of
\* the stack, but for what a thread has done and not yet counted: with every thread
\* idle both are exact, whatever GarbageCollect found when it read them.
Collected(t) == my[t].diff - my[t].left
Uncounted(t) == IF At(t, "capacity") THEN 0 ELSE Collected(t)
Units(n(_)) == UNION {{t} \X (1..n(t)) : t \in Threads}    \* their number is the sum of n
CountsExact ==
  LET exist == Cardinality(Blocks \ heapBlocks) IN
  /\ exist = chunkSize * (chunkCapacity - Cardinality(Units(Collected)))
  /\ exist = chunkSize * (chunkUsed + Len(Stack) + Cardinality(InHand) - Cardinality(Units(Uncounted)))

\* What it rests on. Links lead along rows to nullptr, and a row has a block once:
Leads(links, n, row) ==
  /\ n = IF row = <<>> THEN null ELSE row[1]
  /\ \A i \in DOMAIN row : links[row[i]] = IF i = Len(row) THEN null ELSE row[i + 1]
Apart(rows) ==
  \A l, m \in DOMAIN rows : \A i \in DOMAIN rows[l], j \in DOMAIN rows[m] :
    rows[l][i] = rows[m][j] => l = m /\ i = j
Sound(links, first, rows, U, H) ==
  /\ \A l \in Lists : Leads(links, first[l], rows[l])
  /\ Apart(rows) /\ U \cap H = {}
  /\ \A b \in Blocks : b \in U \cup H <=> \A l \in Lists : b \notin In(rows[l])
Firsts == [l \in Lists |-> First(l)]
Rows == [l \in Lists |-> Row(l)]

\* the stack is a list of headers that are neither the heap's nor a thread's, and every
\* other is one of these, once;
StackSound ==
  /\ Leads(NextChunks, topChunk.addr, Stack) /\ Apart(<<Stack>>)
  /\ heapHeaders = Headers \ HeadersOut
  /\ \A t \in InHand : my[t].chunk \notin In(Stack) /\ \A u \in InHand : my[t].chunk = my[u].chunk => t = u
  /\ \A h \in heapHeaders : chunk[h].nextChunk = null

\* what a thread has read of topChunk_ is so as long as its stamp is the same.
ThreadSupport(t) == LET m == my[t] IN
  /\ m.chunk # null <=> t \in InHand
  /\ m.at \in {"next", "pop", "exchange"} => m.top.stamp <= topChunk.stamp
  /\ m.at \in {"next", "pop"} => m.top.addr # null
  /\ m.at = "pop" /\ m.top = topChunk => m.next = chunk[topChunk.addr].nextChunk
  /\ m.at = "exchange" => chunk[m.chunk].nextChunk = m.top.addr
  /\ m.at \in {"top", "next", "pop", "take"} /\ m.goal = "list" => tls[t].capacity = 0
  /\ m.at = "lock" => tls[t].capacity > 0
  /\ m.goal = "list" => m.left = m.diff /\ m.at \notin {"used", "capacity"}
  /\ m.goal = "heap" => m.left <= m.diff
                        /\ \/ m.at \in {"top", "next", "pop", "take"} /\ m.left > 0
                           \/ m.at \in {"used", "capacity"} /\ m.left = 0

IInv ==
  /\ TypeOK /\ Sound(next, Firsts, Rows, inUse, heapBlocks) /\ ListsMeasured
  /\ LET row == Row(<<"gathered", null>>) IN row # <<>> => freeChunk.tail = row[Len(row)]
  /\ StackSound /\ CountsExact /\ \A t \in Threads : ThreadSupport(t)
=============================================================================
