------------------------------ MODULE MCPools ------------------------------
(***************************************************************************)
(* The stack of indices, the queue with several consumers and the memory   *)
(* pools, side by side: a behaviour uses one of them, `part`, and leaves   *)
(* the others as they were made.                                           *)
(***************************************************************************)
EXTENDS ChunkPool

VARIABLES
  part,
  sData, sNext, pool, top, size, held, sPc, node, localTop, localNext,
  qData, qNext, qPool, qHead, qTail, qSize, qPc, new, lt, ln, count, cpc, lh, cn, got,
  out, list, freeCount, capacities, uses

Indices == INSTANCE FreeStack WITH
  Nodes <- {"n1", "n2", "n3"}, Indices <- {0, 1, 2}, MaxStamp <- 5, nullptr <- "nullptr",
  data <- sData, next <- sNext, pc <- sPc
Queued == INSTANCE LockFreeQueue WITH
  Producers <- {"p1", "p2"}, Consumers <- {"c1", "c2"}, Nodes <- {"n1", "n2", "n3"},
  MaxEnq <- 1, QUEUE_MAX_SIZE <- 3, StampSize <- 65536,
  data <- qData, next <- qNext, pool <- qPool, head <- qHead, tail <- qTail, size <- qSize, pc <- qPc
Sized == INSTANCE SizedPool WITH
  Buckets <- {8, 16}, Sizes <- {8, 15, 16}, Handles <- {"h1", "h2"}, nullptr <- nobody,
  MaxChunks <- 4, chunkNum <- chunkCount, chunkCapacity <- capacities, chunkUsed <- uses

chunkVars == vars
stackVars == <<sData, sNext, pool, top, size, held, sPc, node, localTop, localNext>>
queueVars ==
  <<qData, qNext, qPool, qHead, qTail, qSize, qPc, new, lt, ln, count, cpc, lh, cn, got>>
sizedVars == <<out, list, freeCount, capacities, uses>>

PoolsInit ==
  /\ part \in {"chunks", "stack", "queue", "sized"}
  /\ Init /\ Indices!Init /\ Queued!QueueInit /\ Sized!Init

Idle(p) ==
  /\ p # "chunks" => UNCHANGED chunkVars
  /\ p # "stack" => UNCHANGED stackVars
  /\ p # "queue" => UNCHANGED queueVars
  /\ p # "sized" => UNCHANGED sizedVars

PoolsNext ==
  /\ UNCHANGED part
  /\ \/ part = "chunks" /\ Next
     \/ part = "stack" /\ Indices!Next
     \/ part = "queue" /\ Queued!QueueNext /\ Queued!NoStaleLink
     \/ part = "sized" /\ Sized!Next
  /\ Idle(part)

PoolsSpec == PoolsInit /\ [][PoolsNext]_<<part, chunkVars, stackVars, queueVars, sizedVars>>
-----------------------------------------------------------------------------
\* Blocks, chunks, headers, nodes and indices are in one place each, lists are as
\* long as their counts say, and the counts are exact but for what is under way:
\* of MemTLS and ChunkLockFree, LockFreeStack, LockFreeQueue and the sized pools.
PoolsIntact ==
  /\ part = "chunks" => TypeOK /\ BlocksAccounted /\ ListsMeasured /\ CountsExact
  /\ part = "stack" => Indices!TypeOK /\ Indices!IndexOnce /\ Indices!SizeSettles
  /\ part = "queue" => Queued!QueueTypeOK /\ Queued!ListIntact /\ Queued!CountCovered
  /\ part = "sized" => Sized!TypeOK /\ Sized!BucketsBalance

\* FreeStack implements a stack, and LockFreeQueue a first-in-first-out queue, in
\* which what a consumer read is what its exchange takes out (LockFreeStack.h
\* 87-152, LockFreeQueue.h 80-177).
LifoAndFifo ==
  /\ Indices!Lifo!Init /\ [][part = "stack" => Indices!LifoStep]_stackVars
  /\ Queued!Fifo!Init /\ [][part = "queue" => Queued!FifoStep /\ Queued!DeliversFirstStep]_queueVars
=============================================================================
