----------------------------- MODULE SizedPool -----------------------------
(***************************************************************************)
(* SizedMemoryPool: one SizedMemTLS for every bucket. Alloc picks the      *)
(* bucket by the size that is asked for, Free by what the block says it    *)
(* is: the code 16 bytes in front of the data. Lists and chunks are        *)
(* counted here, what becomes of single blocks is in ChunkPool; a call is  *)
(* one step.                                                               *)
(***************************************************************************)
EXTENDS Integers, FiniteSets, FiniteSetsExt

CONSTANTS
  Threads,
  Buckets,          \* bucket1 and up: powers of two, each twice the one before
  Sizes,            \* the sizes that are asked for, up to the last bucket
  Handles,          \* bound of the model: what the program can have allocated
  MaxChunks,        \* bound of the model: chunks of a bucket
  chunkSize, chunkNum,
  nullptr

VARIABLES
  out,              \* what a handle points at: the size asked for, and the code
  list,             \* capacity of a thread's Top in every bucket
  freeCount,        \* freeChunk_.count
  chunkCapacity, chunkUsed

counters == <<chunkCapacity, chunkUsed>>
vars == <<out, list, freeCount, counters>>

bucket1 == Min(Buckets)
lastBucket == Max(Buckets)

(* Counts per bucket; a list is shorter than two chunks.                   *)
TypeOK ==
  /\ out \in [Handles -> [size : Sizes, code : Buckets] \cup {nullptr}]
  /\ list \in [Threads -> [Buckets -> 0 .. 2 * chunkSize - 1]]
  /\ freeCount \in [Buckets -> Nat]
  /\ chunkCapacity \in [Buckets -> Nat] /\ chunkUsed \in [Buckets -> Nat]
-----------------------------------------------------------------------------
\* the bits of digit smeared to the right, plus one: the next power of two above digit
GetBucketSize(digit) ==
  CHOOSE p \in Buckets \cup {2 * lastBucket} : p \div 2 <= digit /\ digit < p

BucketFor(size) == IF size > bucket1 THEN GetBucketSize(size) ELSE bucket1

\* a chunk leaves the stack of bucket b, or is made: it is used, or made and used
AllocateNewChunk(b) ==
  /\ chunkUsed[b] < MaxChunks
  /\ chunkUsed' = [chunkUsed EXCEPT ![b] = @ + 1]
  /\ chunkCapacity' = [chunkCapacity EXCEPT ![b] = IF chunkUsed[b] = @ THEN @ + 1 ELSE @]

Alloc(t, h, size) ==
  /\ out[h] = nullptr
  /\ LET b == BucketFor(size) IN
       IF b \notin Buckets
         THEN UNCHANGED vars       \* Alloc returns nullptr
         ELSE /\ out' = [out EXCEPT ![h] = [size |-> size, code |-> b]]
              /\ IF list[t][b] = 0
                   THEN AllocateNewChunk(b) /\ list' = [list EXCEPT ![t][b] = chunkSize - 1]
                   ELSE UNCHANGED counters /\ list' = [list EXCEPT ![t][b] = @ - 1]
              /\ UNCHANGED freeCount

\* any thread; a list of two chunks gives one back (ReturnDataToChunkPool)
Free(t, h) ==
  /\ out[h] # nullptr
  /\ LET b == out[h].code
         full == list[t][b] + 1 >= 2 * chunkSize
     IN  /\ list' = [list EXCEPT ![t][b] = IF full THEN @ + 1 - chunkSize ELSE @ + 1]
         /\ chunkUsed' = [chunkUsed EXCEPT ![b] = IF full THEN @ - 1 ELSE @]
  /\ out' = [out EXCEPT ![h] = nullptr]
  /\ UNCHANGED <<freeCount, chunkCapacity>>

\* RemoveRemainders of one bucket: whole chunks go back, parts are gathered, and the
\* chunks above three times the use are given to the heap
Remainder(t, b) ==
  LET n == list[t][b]
      whole == n = chunkSize
      gathered == freeCount[b] + n
      back == whole \/ gathered >= chunkSize
      used == IF n > 0 /\ back THEN chunkUsed[b] - 1 ELSE chunkUsed[b]
      diff == IF n = 0 \/ whole THEN 0 ELSE Max({0, chunkCapacity[b] - 3 * used})
  IN  [count |-> CASE n = 0 \/ whole -> freeCount[b]
                   [] n > 0 /\ ~ whole /\ back -> gathered - chunkSize
                   [] OTHER -> gathered,
       used |-> used,
       capacity |-> chunkCapacity[b] - diff]

MutDeleteTLS(t) ==
  LET B == Buckets \ {lastBucket} IN
  /\ list' = [list EXCEPT ![t] = [b \in Buckets |-> 0]]
  /\ freeCount' = [b \in Buckets |-> IF b \in B THEN Remainder(t, b).count ELSE freeCount[b]]
  /\ chunkUsed' = [b \in Buckets |-> IF b \in B THEN Remainder(t, b).used ELSE chunkUsed[b]]
  /\ chunkCapacity' = [b \in Buckets |-> IF b \in B THEN Remainder(t, b).capacity ELSE chunkCapacity[b]]
  /\ UNCHANGED out

\* the end of a thread: every bucket
DeleteTLS(t) ==
  /\ list' = [list EXCEPT ![t] = [b \in Buckets |-> 0]]
  /\ freeCount' = [b \in Buckets |-> Remainder(t, b).count]
  /\ chunkUsed' = [b \in Buckets |-> Remainder(t, b).used]
  /\ chunkCapacity' = [b \in Buckets |-> Remainder(t, b).capacity]
  /\ UNCHANGED out

Init ==
  /\ out = [h \in Handles |-> nullptr]
  /\ list = [t \in Threads |-> [b \in Buckets |-> 0]]
  /\ freeCount = [b \in Buckets |-> 0]
  /\ chunkCapacity = [b \in Buckets |-> 3 * chunkNum]
  /\ chunkUsed = [b \in Buckets |-> 0]

Next == \E t \in Threads :
  \/ \E h \in Handles : Free(t, h) \/ \E size \in Sizes : Alloc(t, h, size)
  \/ DeleteTLS(t)

Spec == Init /\ [][Next]_vars
-----------------------------------------------------------------------------
\* A block is as large as what was asked for, and every block outside the stack of its
\* bucket is in use, in a thread's list or gathered in freeChunk_: blocks go back to the
\* bucket they came from, whoever frees them, and no bucket keeps those of another.
BucketsBalance ==
  /\ \A h \in Handles : out[h] # nullptr => out[h].size <= out[h].code
  /\ \A b \in Buckets :
       LET lists(t) == list[t][b] IN
       /\ chunkUsed[b] * chunkSize
            = Cardinality({h \in Handles : out[h] # nullptr /\ out[h].code = b})
              + MapThenSumSet(lists, Threads) + freeCount[b]
       /\ chunkUsed[b] <= chunkCapacity[b]
=============================================================================
