------------------------------- MODULE MCParts -------------------------------
(***************************************************************************)
(* The containers, the framing of packets, the packets of an application   *)
(* and the client, side by side: a behaviour uses one of them, `part`, and *)
(* leaves the others as they were made.                                    *)
(***************************************************************************)
EXTENDS Client, Sequences

CONSTANTS nullptr, NIL, head, tail, Unset

VARIABLES
  part,
  tree,
  table, cNext, cKey, cValue, cPool,
  data, lPrev, lNext, lSize, lPool,
  bytes, writePos, readPos,
  qArr, qFront, qRear, qCount,
  sQueue, curQueue, sLock, sInner, sMine, sent, received, dropped,
  jArr, jFront, jRear, session, made, finished, worker, owner, quit,
  who, stream, arrived, recvPacket, buf, fPool, set, sets, step, delivered,
  lan, free, mine, pData, pWrite, encodeFlag, refCnt, meant, posts, pQueue, overrun

Tree == INSTANCE RedBlackTree WITH Keys <- 1..7
Chains == INSTANCE HashChains WITH
  Keys <- {1, 2}, Values <- {"pipe 1", "pipe 2"}, Cells <- {"cell 1", "cell 2", "cell 3"},
  next <- cNext, key <- cKey, value <- cValue, pool <- cPool
List == INSTANCE LinkedList WITH
  Data <- {"a", "b"}, ListNodes <- 1..3, prev <- lPrev, next <- lNext, size <- lSize, pool <- lPool
Bytes == INSTANCE ByteRing WITH Bytes <- {1, 2}, bufferSize <- 4, array <- bytes
Counted == INSTANCE CountedQueue WITH
  Items <- {1, 2}, QUEUE_MAX_SIZE <- 4, arr <- qArr, front <- qFront, rear <- qRear, count <- qCount
Swapped == INSTANCE SwapQueue WITH
  Producers <- {1, 2}, MaxItems <- 2, QUEUE_MAX_SIZE <- 3,
  queue <- sQueue, lock <- sLock, inner <- sInner, mine <- sMine
Jobs == INSTANCE JobRing WITH
  QUEUE_MAX_SIZE <- 3, MaxJobs <- 4, MaxSessions <- 2, arr <- jArr, front <- jFront, rear <- jRear

Msg(l, k) == [len |-> l, kind |-> k]
Good(l) == Msg(l, "good")

\* messages of every length, and one that is wrong: its checksum, its code, its length
Streams ==
  {<<Good(1), Good(3), Good(1), Good(2), Good(1)>>, <<Good(3), Good(2), Good(3), Msg(2, "checksum"), Good(1)>>,
   <<Good(1), Msg(1, "code"), Good(1)>>, <<Good(2), Good(4), Good(1)>>}

Frames == INSTANCE Framing WITH
  HEADER <- 2, LAN_HEADER <- 1, CENTER <- 8, MSG_MAX <- 3, SET_MAX <- 4,
  Buffers <- 1..3, NoBuffer <- 0, FillsBuffer <- FALSE, pool <- fPool

\* a packet that is full with two of its items, and one that a session may have twice
Sends == INSTANCE NetPacket WITH
  Packets <- {1}, NoPacket <- 0, Sessions <- {1, 2}, Items <- {<<7>>, <<200, 255>>}, RandKeys <- {251},
  Capacity <- 10, waitingThreadNum_ <- 2, MaxQueued <- 2, MaxPosts <- 2,
  data <- pData, writePos <- pWrite, sendQ <- pQueue

Parts == {"tree", "chains", "list", "bytes", "counted", "swapped", "jobs", "frames", "packets", "client"}

chainVars == <<table, cNext, cKey, cValue, cPool>>
listVars == <<data, lPrev, lNext, lSize, lPool>>
byteVars == <<bytes, writePos, readPos>>
countedVars == <<qArr, qFront, qRear, qCount>>
swapVars == <<sQueue, curQueue, sLock, sInner, sMine, sent, received, dropped>>
jobVars == <<jArr, jFront, jRear, session, made, finished, worker, owner, quit>>
frameVars == <<who, stream, arrived, recvPacket, buf, fPool, set, sets, step, delivered>>
packetVars == <<lan, free, mine, pData, pWrite, encodeFlag, refCnt, meant, posts, pQueue, overrun>>

\* a part that is not used is made in one way
Init ==
  /\ part \in Parts
  /\ Tree!Init /\ Chains!Init /\ List!Init /\ Bytes!Init /\ Counted!Init /\ Swapped!Init /\ Jobs!Init
  /\ ClientInit
  /\ Frames!FrameInit /\ (part # "frames" => who = "net session" /\ stream = <<Good(2), Good(4), Good(1)>>)
  /\ Sends!PacketInit /\ (part # "packets" => ~lan)

Idle(p) ==
  /\ p # "tree" => UNCHANGED tree
  /\ p # "chains" => UNCHANGED chainVars
  /\ p # "list" => UNCHANGED listVars
  /\ p # "bytes" => UNCHANGED byteVars
  /\ p # "counted" => UNCHANGED countedVars
  /\ p # "swapped" => UNCHANGED swapVars
  /\ p # "jobs" => UNCHANGED jobVars
  /\ p # "frames" => UNCHANGED frameVars
  /\ p # "packets" => UNCHANGED packetVars
  /\ p # "client" => UNCHANGED clientVars

Next ==
  /\ UNCHANGED part
  /\ \/ part = "tree" /\ Tree!Next
     \/ part = "chains" /\ Chains!Next
     \/ part = "list" /\ List!Next
     \/ part = "bytes" /\ Bytes!Next
     \/ part = "counted" /\ Counted!Next
     \/ part = "swapped" /\ Swapped!Next
     \/ part = "jobs" /\ Jobs!Next /\ Jobs!NoClearUnderWorker
     \/ part = "frames" /\ Frames!FrameNext
     \/ part = "packets" /\ Sends!PacketNext
     \/ part = "client" /\ ClientNext
  /\ Idle(part)

vars ==
  <<part, tree, chainVars, listVars, byteVars, countedVars, swapVars, jobVars, frameVars, packetVars, clientVars>>
Spec == Init /\ [][Next]_vars /\ (part = "client" => ClientFairness)
-----------------------------------------------------------------------------
\* The red-black tree, after every Insert and Delete: Foreach visits the keys in
\* order, Successor and Predecessor agree with it, parents with children, and the
\* colours and black heights are right (MyRedBlackTree.h 61-537).
TreeSound == part = "tree" => Tree!TypeOK /\ Tree!Ordered /\ Tree!Neighbours /\ Tree!Balanced

\* What the containers promise: the tree is a set of keys with its size; a chain
\* appends and takes out one entry of its key; the list does what its operations
\* say; bytes and elements leave in the order in which they came, across the end of
\* the array (MyRedBlackTree.h, MyMultimap.h, MyList.h, RingBuffer.cpp, Queue.h).
ContainersKeepOrder ==
  /\ Tree!KeySetSpec
  /\ [][/\ part = "chains" => Chains!KeepsOrder
        /\ part = "list" => List!ListSteps
        /\ part = "bytes" => Bytes!RingIsFifo
        /\ part = "counted" => Counted!Fifo]_vars

\* Queues that two threads share, and cells that a pool takes back: the consumer of
\* a SwapQueue is alone in what it swapped out and every producer's items arrive in
\* order; a session's job is finished once, in order, by its own user, or still
\* somewhere; a cell or node is linked once or free (SwapQueue.h 138-156, Queue.h
\* 110-154, MyMultimap.h 119-198, MyList.h 120-229).
QueuesShared ==
  /\ Swapped!TypeOK /\ Swapped!ConsumerAlone /\ Swapped!SwapKeepsOrder
  /\ Jobs!TypeOK /\ Jobs!NoJobLost /\ Jobs!OwnJobs
  /\ Chains!TypeOK /\ Chains!CellsAccounted /\ List!TypeOK /\ List!BothDirections
  /\ Bytes!TypeOK /\ Counted!TypeOK

\* However the network cuts the bytes, and whatever buffer they are in meanwhile, the
\* application reads whole messages, in order, once and decoded once, and none that
\* came whole stays behind; a buffer is the receiver's, a set's or free, and large
\* enough (NetPacketSet.cpp 7-97, NetPacketSet.h 59-153, NetLargePacket.cpp 10-44).
FramesSound ==
  Frames!FrameTypeOK /\ Frames!MessagesInOrder /\ Frames!NothingStaysBehind /\ Frames!BuffersOnce /\ Frames!NeverOverrun

\* Every session that queued a packet sends what the application wrote, though it is
\* encoded in place and its memory used again; its references are those there are, and
\* a set of sessions is spread over posts without losing one (NetPacket.cpp 10-50,
\* NetPacket.h 101-109, 186-212, NetServer.cpp 413-449, 483-525).
PacketsArrive ==
  /\ Sends!PacketTypeOK /\ Sends!SaysWhatWasMeant /\ Sends!RefsCounted
  /\ part = "packets" /\ free = {1} /\ pData[1][1] = 0 => Sends!PartsHaveAll

\* Of the threads that find the connection lost one replaces the socket, no socket is
\* left open but the client's, and every call of SendPacket ends, unless the client
\* stops (NetClient.cpp 61-115, 157-265).
ClientGoesOn == SocketsKept /\ SendEnds
=============================================================================
