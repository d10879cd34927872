# NetRoot / NetPipe: a TLA+ verification project

`src/` holds NetRoot, a game-server library for Windows: overlapped sockets on an
I/O completion port, a fixed array of sessions, *pipes* (frame loops that own the
users of one zone), lock-free queues, stacks and pools under all of it, and a small
client. This directory models the parts in which threads meet, checks the models with
TLC on small instances, and proves the central invariants with TLAPS.

## The system

| part | state | operations | talks to |
|---|---|---|---|
| `NetSessionArray` | `sessionArray_`, `sessionIndexStack_`, `stamp_` | `AllocSession`, `PushSessionIndex`, `Validate`, `Invalidate`, `Timeout` | sessions, `NetRoot` |
| `NetSession` | `IOcount_` (reference count and, in bit 15, the delete flag), `ID_`, `isIOCanceled_`, `isSending_`, `sendQ_`, `sentQ_`, `recvPacket_`, `jobQ_`, `curPipe_`, `destPipe_`, `isMoving_` | `Initialize`, `RecvPost`, `SendPost`, `SendAndDisconnectPost`, `Disconnect`, `AcquireSession`, `SetDeleteFlag`, `Destroy` | the kernel |
| `NetRoot` | completion port, pipe map, thread handles | accept, worker, timeout and observer threads; `SendPacket`, `Disconnect`, `MovePipe`, `ReleaseSession`, `Start`, `Stop` | all |
| `NetPipe`, `NetUser` | join, leave, move-in and move-out queues, `userMap_`, `stopFlag_` | one frame: `Join`, `Move`, `Leave`, `MessageProc`, `UpdateProc` | `NetRoot`, sessions |
| `PipeManager` | number of pipes | `AutoCreate`, `GarbageCollect` every five seconds | the pipe map |
| packets | reference counts, encode flag, sets of received packets | framing, encryption, `AddRef`, `Free` | pools |
| `LockFreeEnqQueue`, `LockFreeQueue`, `LockFreeStack` | linked nodes with stamped pointers | `Enqueue`, `Dequeue`, `Push`, `Pop` | `MemTLS` |
| `MemTLS`, `ChunkLockFree`, sized pools | free lists of each thread, a shared stack of chunks | `Alloc`, `Free`, `GarbageCollect` | |
| `Queue`, `SwapQueue`, `RingBuffer`, `MyRedBlackTree`, `MyMultimap`, `MyList` | sequential containers (the job queue is shared by two threads) | | |
| `NetClient`, `LanClient`, `LanServer` | the same ideas on the client's side and on a local network | | |

The threads of a server are one that accepts, a number of workers on the completion
port, the frame loop of every pipe, a timeout and an observer thread. They share the
sessions. A session has no lock: whoever wants to touch it adds a reference first and
looks afterwards whether it is alive and still the one meant.

What is hard to test is listed, with the line where it bites, under `hazards` in
PROJECT.json. The most important ones: the race for the release of a session; an old
ID that meets the next session in its slot; a disconnect that falls between the posting
of an operation and the test of the flag; the send that holds one or two references
depending on the mode; the lost wake-up of the send flag; pipes that are stopped while
somebody enters them; nodes of the lock-free structures that are used again under a
thread that still holds their address.

What makes each part correct:
* sessions: references are accounted for exactly; a session is released once, when
  nobody and not even the kernel uses it; an ID reaches its own session or none; a
  disconnected session goes away; no slot is lost or shared;
* sends: one `WSASend` at a time, every packet accepted by `EnqueueSendQ` is sent, in
  order, or freed once; no packet waits for ever in the queue of a live session;
* pipes: a user is in one pipe at most, every enter request is answered, every user that
  entered leaves once; a deleted pipe is nobody's destination;
* queues, stacks, pools: linearizable against the abstract container; a node is in one
  place at a time;
* containers, framing, ring: equal to a reference definition;
* packets: what a session is sent is what the application wrote, however many sessions get it;
* control: Start and Stop find threads and what they use in the right order, and Stop ends;
* clients: a lost connection is replaced once, and every send ends.

## Modules

| module | models | instance |
|---|---|---|
| `SessionLife` | slots, reference counts, accept, receive, disconnect, release | `MCSessionLife` |
| `SessionLifeProofs` | its inductive invariant and theorems | |
| `SendPath` | the send side of one slot: `sendQ_`, `isSending_`, `sentQ_`, posts, completions, the references of a send | `MCSendModes`, `MCSendPath` |
| `SendPathProofs` | its inductive invariant and theorems | |
| `EnqQueue`, `PacketQueue` | `LockFreeEnqQueue` at the level of single memory accesses, and the first-in-first-out queue it implements | `MCEnqQueue` |
| `EnqQueueProofs` | the inductive invariants of `EnqQueue` and `LockFreeQueue`, that their list is sound, and that both implement `PacketQueue` | |
| `Pipes`, `PipeMembership` | pipes as frame loops, their four queues, users, `MovePipe`, the leave of a released session; and what the application is told of a client, which `Pipes` implements | `MCPipes` |
| `PipesProofs` | the inductive invariant of `Pipes`, its theorems, and that it implements `PipeMembership` | |
| `ServerControl` | `Start`, `ServerInitiate`, `Stop` and the threads they begin and end | `MCControl` |
| `PipePool` | `PipeManager`: pipes made, revived, destroyed and chosen | `MCControl` |
| `Timeouts` | `NetSessionArray::Timeout` | `MCControl` |
| `ControlProofs` | the inductive invariants of `ServerControl`, `PipePool`, `Timeouts` and `Monitor`, and their properties | |
| `Monitor` | the TPS counters of the threads and the observer | `MCControl` |
| `Logger` | `SystemLogger`, its singleton, queues and thread | `MCControl` |
| `LanServer` | `LanRoot` and `LanPipe` as a whole, handler by handler | `MCLan` |
| `LanServerProofs` | its inductive invariant and theorems | |
| `FreeStack`, `IndexStack` | `LockFreeStack`, and the stack it implements | `MCPools` |
| `FreeStackProofs` | its inductive invariant, that it is sound, and that it implements `IndexStack` | |
| `LockFreeQueue` | `LockFreeQueue`, with several consumers; implements `PacketQueue` | `MCPools` |
| `ChunkPool`, `SizedPool` | `MemTLS` over `ChunkLockFree`, access by access; `SizedMemoryPool`, call by call | `MCPools` |
| `RedBlackTree`, `KeySet` | `MyRedBlackTree`, and the set of keys it implements | `MCParts` |
| `HashChains`, `LinkedList` | `MyMultimap`, `MyList` | `MCParts` |
| `ByteRing`, `CountedQueue`, `SwapQueue`, `JobRing` | `RingBuffer`, `Queue`, `SwapQueue`, `QueueWithoutCount` as the job queue of a session | `MCParts` |
| `PartsProofs` | of `Client`, `SwapQueue`, `CountedQueue`, `ByteRing` and `JobRing`: that their properties hold at any size | |
| `Framing` | from the bytes that arrive to packets: large packets, packet sets, dummy packets | `MCParts` |
| `NetPacket` | a packet that is sent: writing, encoding, references, sets of sessions, reuse | `MCParts` |
| `Client` | `NetClient` and `LanClient`: one socket, a receive thread and senders | `MCParts` |

`SendPath` takes accept, receive and release from `SessionLife`, with fewer steps, and uses
`sendQ_` as a sequence; `EnqQueue` is that queue in detail. `Pipes` takes sessions from
`SessionLife` at a coarser grain and the queues of a pipe as sequences, which are
`LockFreeEnqJobQ` and so again what `EnqQueue` models. `ServerControl` composes sessions,
workers, the accept thread and a pipe, with a handler of a worker as one step; `LanServer`
composes everything a server has at that grain. `FreeStack` is the stack that is a set in
`SessionLife`.

`MCPools`, `MCControl` and `MCParts` put parts that do not meet side by side: the variable
`part` chooses one of them at the start of a behaviour, and the others stay as they were made.
A property of such a run is the conjunction of what its parts must satisfy. Variables of two
parts with the same name are renamed where the part is instantiated.

### SessionLife

One action is one access to memory that other threads see, or one call of the kernel; the
name of an action is that of the function it comes from, with the step where a function
takes several. `pc[t]` is where a thread is, `sess[t]` the session pointer it works
with, `tgt[t]` the `unique_` part of the ID it works for.

* `IOcount` is the 16-bit word itself: `Initialize` adds its reference while the flag is
  still set and clears the flag with a mask, so that references added meanwhile by threads
  with old IDs survive. `DropRefs` is `DecrementIOCount` / `SubIOCount` of `NetRoot`: who
  reaches zero continues in `ReleaseSession`, where a compare-and-exchange from 0 elects
  one.
* `recvIO` is the overlapped receive: none, in flight, or finished with bytes, a FIN, a
  reset or an abort and waiting on the completion port. `CancelIO` aborts what is in flight
  at that moment and nothing else, which is why `RecvPost` looks at `isIOCanceled_` again.
* `freeIdx` is the index stack, as a set: which index comes first is not decided.
* `quit` is `ErrorQuit`, the end of the process.
* `issued`, `joined` and `left` are history: `FindSession` is called with any ID ever given
  out, at any time, by any caller.

Not in this module: sends, pipes (`curPipe_` is `nullptr`, so `ReleaseSession` deletes the
session itself), `isLogicMultithreaded_` (leave is called by the releasing thread), the
wrap of `stamp_` after 2^32 sessions, a receive aborted by the local system without a
cancel (`ERROR_CONNECTION_ABORTED`), and a received length beyond what was posted
(`RECV_PACKET_FULL`). A callback that calls `Disconnect` from inside a worker is no more than
the same call from one of the `Callers` between two steps of that worker.

### SendPath

One slot of the array and the threads that send on it. `pc[t]` is where a thread is and
`job[t]` the call it works on; the positions after `FindSession` are those of `SessionLife`.

* A packet of the model is one reference of a `NetPacket`: `SendPacket` takes it with
  `AddRef` once the session is acquired, and `Free` drops it. `freed` counts these calls.
* `isSending`, `sendQ` and `sentQ` are the fields. `SendPost` tries the flag once
  (`TrySendFlag`); `SendAndDisconnectPost` spins for it (`SpinForSendFlag`).
* `sendIO` and `recvIO` are the two overlapped operations; `CancelIO` aborts both.
* `posts` is what `PostQueuedCompletionStatus` put on the port: a sign of `AsyncSendPacket`,
  which carries two references, and packets for IDs that a worker has yet to look up.
* `isSendIOPending_` decides how many references a send in the kernel keeps. If TRUE a
  pending send has given up one, and `OnSendComplete` takes it again; if FALSE a send is
  supposed to succeed at once and keeps both. `SendResults` is what `WSASend` answers, so
  that a run says whether the sends are those of its mode.

Left out: the content and framing of packets, pipes, a set of IDs with more than one member
(one post per session is what a worker makes of it), a send aborted by the local system
without a cancel, and what a worker does to a received packet.

### EnqQueue

Producers and one consumer: the flag `isSending_` makes the consumer single, which is
`OneSender` of `SendPath`. Pointers are pairs of a node and a stamp, and the mark of the end is
the address of the queue, with no stamp. Nodes come from a pool shared by the threads:
`Alloc` finds any free one, whichever order the chunks of `MemTLS` would bring them in, so that
a node is in use again sooner than with chunks of 500.

The mark of the end without a stamp has a consequence. A producer that has read `tail_`, and
sleeps until that node was freed and is the last of the list again (or is the new node of
somebody else), succeeds with the compare-and-exchange of `next` all the same. `NoStaleLink`
excludes these steps and no others; `FreshSpec`, the system without them, is a first-in-first-out
queue (`FifoSpec`), and its `Dequeue` never waits. The whole `Spec` is not, see Observations.

### Pipes

`pc[t]` is where a thread is; a pipe's own thread goes through the phases of a frame
(`join`, `in`, `out`, `leave`, `message`) and the steps of `AfterPipeEnter`. In the phase
`message`, which stands for `MessageProc`, `OnUpdate` and `OnUserUpdate`, it may move any of its
users; other threads move sessions by their ID. `who`, `code`, `user` and `to` are the locals of a
move.

* A user (`NetUser`) is the pair of its session and the number of the `OnUserJoin` that made it;
  the code makes a second one when a session joins twice.
* `cur`, `dest` and `moving` are the session's `curPipe_`, `destPipe_` and `isMoving_`, `uPipe` and
  `uMoving` those of the user, which is another flag.
* A move takes a reference in `FindSession` and drops it in `AfterPipeEnter`, in another thread
  and after one queue (`RequestEnter`) or two (`RequestMoveOut`, then the new pipe).
* `DropRef` is `DecrementIOCount` and `ReleaseSession` in one step. The steps between are those of
  `SessionLife`; here it matters what the release does, which is to leave the session to the pipe
  it is in, or to destroy it if it is in none.
* `ErrorQuit` is the position `quit`. `receiving` is whether the session's receive is out: its end
  stands for a peer that leaves and for every `Disconnect`.

Not in this module: pipes that start, stop and are deleted (`PipePool`, `ServerControl`); which pipe of a code has the fewest
users (any of them is chosen); the jobs of a user (`JobRing`); `isLogicMultithreaded_`
(`LanServer`); codes without a pipe
and the code 0 (both `ErrorQuit`, in the caller's argument); slots that are used again, for which
`ReleasedInItsPipe` and `RefsExact` are what `SessionLife` needs: the slot is kept until the pipe
is done with it.

### ServerControl, PipePool, Timeouts

`main` is where the thread is that calls `Start` and `Stop`, and the names of its positions are
the calls it makes. `sess` are the slots, with a reference count that is a number; a worker
handles a completion in one step, while `Invalidate`, `RecvPost` and accept keep their steps,
because those are where Stop and the rest meet. `SleptLongEnough` is what the five seconds in
Stop are for: sessions that were canceled have gone as far as they can without Stop. `passed` and
`told` are history.

`PipePool` counts time in rounds of five seconds. A move that chose a pipe is in it within
`DestroyAfter - AvoidAfter` rounds; that is its assumption, and 35 seconds in the code. Pipes have
as many users as entered them.

`Timeouts` reads `lastRecvTime_` and the ID of a slot in two steps and holds no reference, as the
code does. `heard` and `dropped` are history.

### Monitor, Logger

`Monitor` has one of the six counters of a `TPSInfo`, for they are alike; `ReadTPS` and
`WriteTPS` are the two halves of `+=`. `raced` remembers in whose `+=` the last zero fell. An
observer that meets an entry `MakeTPS` has counted and not yet written uses what the memory held; this is undefined,
the model is then in the position `wild` and stops, and `MonitorCounts` says nothing of it.

In `Logger` a log knows its thread, its number, and its way: text or CSV, `LEVEL_APC` or another.
The logger's thread is asleep alertably or not, or runs the procedure of a kind.
`GetInstance` calls no constructor, and the queues are assumed to be zero.

### LanServer

One record per slot and one position per worker, who keep the steps in which a handler waits for
or posts to somebody else: the two references of a sign, the spin for `isSending_`, the turns
over a set of IDs, the leave posted to the port. The modes of `Start` (`isSendIOPending`,
`isLogicMultithreaded`) are chosen at the start of a behaviour, and `use` says whether the
application sends or uses pipes; where it sends, the frames of the pipes, which have no users, are
left out. `SleptLongEnough` is what the five seconds of Stop (LanServer.cpp:79) are for: what was
posted is taken and a worker that can go on has gone on, so that only one that spins for an
`isSending_` nobody clears may be left.

A WSASend that pends while `isSendIOPending_` is off pends in the model too: when CancelIoEx comes it is aborted, or it
has ended before, well or not (`Aborting`, LanServer.cpp:709-718), and its completion takes what `OnSendComplete`
takes. That is three references for two, or, for a last message, two before its completion takes any. One that
succeeds at once while the flag is on leaves a reference. Nothing in the code excludes these sends; `MisfitSends`
says which of them a run has, and `SendsFitMode == MisfitSends = {}` is the restriction under which `LanAccounts`,
`LanSessionsEnd` and `LanNeverQuits` are checked (run `lan`) and proved. `lan_last_message` is what happens without.

`Destroyed` leaves the kernel's operations alone: what is out when a slot is released is still completed for it.
`Leave` ends the process where the code does, when a reference of a released session is given back (0x8000
becomes 0x7FFF or 0x7FFE, LanServer.h:427, 442); a count under zero without the delete flag goes unnoticed. A slot
that is accepted into while an operation of the session before is out is not followed (`NothingLate`); where sends fit
the mode there is none, which is part of `LanInv`.

### FreeStack, LockFreeQueue, ChunkPool, SizedPool

One action is one access of what other threads write. The node, or header, that a thread looks at
may be freed and in use again; what is read in memory that the heap has is left open. Stamps are
those of the code, and the number of exchanges is bounded instead. `LockFreeQueue` has the steps
of `EnqQueue` for `Enqueue`, and its `NoStaleLink`.

### RedBlackTree, HashChains, LinkedList, ByteRing, CountedQueue, SwapQueue, JobRing

The containers, operation by operation; `SwapQueue` and `JobRing`, which two threads share, with
the steps between locks and ends. The tree is written for a side and the other side where the
code has two mirror images. `JobRing` runs without the steps in which `MovePipe` clears a queue
under the worker that fills it (`NoClearUnderWorker`), and `ByteRing` without one call
(`LostEnqueue`); see Observations.

### Framing, NetPacket, Client

In `Framing` a byte is known by its message, its place in it, and whether it is encoded, plain or
garbage: decoding in place twice makes garbage. `who` is a session of NetRoot, one of LanRoot, or
a client. Positions, the two halves of the buffer and the size of a set are those of the code,
scaled down.

`NetPacket` is the other direction. Here bytes are bytes, and `Encode` and `Decode` do what the code
does, with `^^` and the truncation to a byte: the hazard is in the arithmetic and in the memory
that is used again. `posts` is the completion port, `sendQ` of a session what it has queued.
The sets of `AsyncSendPacket` and `DisconnectAfterLastMessage` are cut as there. `LanPacket` shares
all of it but the encoding (`lan`).

`Client` has socket handles as numbers; `state` is what the network knows of a handle. A client's
`Reconnect` keeps its five steps, since the threads that found the connection lost go through
them together.

## Runs

| run | instance | shows |
|---|---|---|
| `session_refs` | 1 slot, 3 generations, 2 workers, 2 callers | `TypeOK`, `RefsExact`, `AcquiredIsOwn`, `OneReceiver`, `NeverQuits`, `SlotsPartition`, `LeaveOnceAfterJoin` |
| `session_live` | 1 slot, 2 generations, 2 workers, 1 caller, fair | `CanceledLeaves`, `SlotsComeBack` |
| `send_modes` | 2 senders, 2 workers, 2 packets; sends that pend or fail with mode TRUE; sends that succeed or fail with mode FALSE, a queue of 1 and 2 sessions in the slot, and the same with last messages | `OneSender`, `NeverQuits`, `PacketsAccounted`, `NothingLeftOver` |
| `send_live` | mode TRUE, with `DisconnectAfterLastMessage`, fair | `RefsAccounted`, `SendsSettle` |
| `enq_fifo` | 2 producers, 3 elements each, 3 nodes, `FreshSpec`, fair | `ListSound`, refinement of `PacketQueue` (`FifoSpec`), `DequeueEnds` |
| `pipes` | 2 sessions, 2 pipes of different codes, one `MovePipe(ID)` each, fair | `UsersInPlace`, `RefsExact`, `NeverQuits`, refinement of `PipeMembership`, `MovesServed` |
| `pools` | 2 threads in every part; 3 chunks of 2 blocks, 3 nodes, 3 indices, 2 buckets | `PoolsIntact`, and that stack and queue are a stack and a queue (`LifoAndFifo`) |
| `control` | 2 slots, 2 workers, 2 connections; 3 pipes, 2 moves; 2 slots and 5 ticks; 2 counting threads; 2 logging threads, 3 logs, a queue of 2; fair | `StopInOrder`, `StopEnds`, `PipesKept`, `TimeoutsHit`, `MonitorCounts`, `LogsWritten` |
| `stop_995` | 2 slots, 2 workers, 2 connections | violation of `StopNeverQuits` |
| `lan` | 1 slot, 2 connections, 2 workers, 2 packets, 2 pipes, sets of two and of five IDs, both modes of sending, sends that fit the mode | `LanAccounts`, `LanSessionsEnd`, `LanNeverQuits` |
| `lan_last_message` | the same, and a last message whose send may pend without `useSendIOPending` | violation of `LanNeverQuits` |
| `parts` | 7 keys; 3 cells; 3 list nodes; rings of 2 to 4; 4 streams of up to 5 messages, 3 buffers; 1 packet for 2 sessions; 2 threads of a client, 2 losses; fair for the client | `TreeSound`, `ContainersKeepOrder`, `QueuesShared`, `FramesSound`, `PacketsArrive`, `ClientGoesOn` |

Definitions named `Mut...` are no part of the models: each is the definition after it with a
plausible mistake (a dropped test, a missing reset), and PROJECT.json says which property a run
finds violated with it.

### Bounds

`MaxStamp` stops the accept thread after so many sessions. Three generations in one slot give a
thread with the first ID time to see its slot freed, taken and freed again; two callers and two
workers are enough for a reference dropped to zero, revived and dropped again before either
thread has tried to release. Arrays of more than one slot are left to the proofs, which hold for
any. Threads of one kind are interchangeable, in the runs without liveness.

In `SendPath` two packets make a second send wait for the first, two senders and two workers
let `SendPost` be tried by a sender and by the worker of a completion at once, and a second
session in the slot meets what the first left behind. `MAX_SIZE` stands for
`eNET_PACKET_SEND_Q_MAX_SIZE`; a queue of one or two is full as soon as threads race for it. In
`EnqQueue` three nodes are the dummy and one for each producer: every node comes back while a
producer holds its address. `StampSize` is that of the code and is not used up.

In `Pipes` a client may be moved back and forth without end, since users move as often as they
like, and a second client is another one's bystander in every queue. `JOBQ_MAX_SIZE` is the number
of sessions: as in the code (20000 for 10501 sessions) there is room for one request of each.
`MaxIDMoves = 1` makes `MovePipe(ID)` what `OnClientJoin` uses it for, the entry.

In `MCPools` four exchanges of `topChunk_` bring a header back under a thread that has read it, and
`MaxInUse` blocks make lists grow to two chunks and shrink again. In `MCControl` two connections
on two slots are one that Invalidate has passed and one it has not; three pipes let one be
destroyed, one be chosen and one stay; five ticks are two intervals and one more. Three logs, and
room for two in a queue, are two that one call of the procedure must write in their order, and one that is lost. In `MCParts` seven keys reach
every case of `DeleteFixup` on both sides; the streams have messages of each length, and wrong
ones of every kind, and are cut at every byte; the items of a packet
fill it, and their bytes carry over. A set that names two IDs is cut for two workers, and `PartsHaveAll` tries up
to twelve IDs and five workers. In `MCLan` a set of five for two workers has a rest.

### Fairness

`WF` on the steps of a running thread: Windows schedules every ready thread.
`SF` per slot on `GetQueuedCompletion`: the completion port is a FIFO, so a queued
completion is taken although workers are busy again and again. There is no fairness on
clients, on the kernel finishing a receive, or on anybody calling `Disconnect`: a session
nobody disconnects may live for ever, and `CanceledLeaves` does not say otherwise. In
`SendPath` the same holds of the kernel finishing a send: a peer that does not read is free
not to. `DequeueEnds` needs the thread inside `Dequeue` to run, and nobody else. In
`Pipes` every thread inside `MovePipe` or a frame runs (`WF`), and a pipe passes on to its next
phase (`SF` on `NextPhase`), because the callbacks of a frame are finitely many, one for each user
and one for the pipe; nothing makes a client disconnect or the application move anybody.
`StopEnds` needs the threads of the server, and an accept that returns when its socket is
closed. `ClientGoesOn` needs the threads of the client, and a server that is up when it
is tried often enough (`SF` on `Connect`). `LogsSettle` needs every thread, and that who waits for a
mutex or a file gets it when it is often enough free (`SF`).

## Findings

* `stop_995`: `Invalidate` tests a session and disconnects it without a reference
  (NetSessionArray.cpp:53). The session can be released between the test and `CancelIO`, the slot
  accepted into again, and the receive that is aborted is that of the next session, whose
  `isIOCanceled_` is clear: NetServer.cpp:1326 takes this for impossible and ends the process.
* `lan_last_message`: `LanRoot::SendAndDisconnectPost` has no `break` after `DisconnectSession`
  (LanServer.cpp:1100; NetServer.cpp:1247 and LanServer.cpp:717 have one). Without `useSendIOPending`
  a last message that pends loses two references there. In the trace the completion of the receive takes the last
  one and releases the session while the send is out; the completion of the send, for a session that is
  released, decrements the word to 0x7FFF: `IOCount Under Zero` (LanServer.h:427) ends the process.

## Observations

What the models show under other constants, or what was met while they were written. None of
it is checked by a run; where constants are given, TLC finds it with them.

Sends.
* `SendPost` moves packets from `sendQ_` to `sentQ_` until it sees `sendQ_` empty
  (NetSession.cpp:148) while others enqueue; the number is tested after the loop
  (NetSession.cpp:161). `SendPath` with `MAX_SIZE = 1` and two senders violates `SentQFits`.
* Without `useSendIOPending`, a send that pends all the same gives up one of its references by
  disconnecting; if it completes before the cancel reaches it, `OnSendComplete` drops two more.
  `isSendIOPending = FALSE` with `SendResults = {"pending"}` violates `NeverUnderZero`. The same in
  LanServer (LanServer.cpp:709-718, 784-794): `MCLanLast.cfg` with `MisfitSends = {"send"}` violates
  `LanNeverQuits`. With `{"now"}` in `MCLan.cfg` a send that succeeds at once with
  `useSendIOPending` leaves a reference, and `LanAccounts` is violated.
* A packet queued between `SendPost` finding `sendQ_` empty and clearing the flag waits for the next
  send. A worker in `SendAndDisconnectPost` spins for ever if a send was under way: its completion
  finds the session canceled and leaves the flag. After `DisconnectAfterLastMessage` a peer that
  does not read keeps its session, since later disconnects return early.
* `LanServer` never calls `SetHeader`; the application has to. `LanClient` does.

Queues and pools.
* A link to a node of `LockFreeEnqQueue` that was in use again gives the new node the stamp of the
  old `tail_` plus one, which has been given before: `tail_` can be set to a freed node by a helper,
  and the producer that allocates this node links it to itself. Its element is counted and not
  reachable; `Dequeue` spins, and so does every producer. `Spec` of `EnqQueue` with four nodes
  violates `SizeCovered` in 57 states; with chunks of 500 nodes it takes accordingly long.
* `ClearJobQ` of a session that is moved puts both ends of the ring back while a worker may be between
  its read and its exchange of `rear_`: jobs are lost or come twice. `JobRing` without
  `NoClearUnderWorker`.
* `RingBuffer` loses one call: as many bytes as it has, into an empty ring at its beginning.
* `SizedMemoryPool` takes exact powers of two to the next bucket, and gives `nullptr` for 32768
  (SizedMemoryPool.cpp:13, 90). `freeChunk_` may keep whole chunks (ChunkLockFree.h:343).
* `LockFreeStack::nodePool_` is static and made anew by each constructor: a second stack replaces the
  pool of the first. `MemTLS::Destroy` with an empty `Top` passes on `nullptr`.

Pipes.
* `MovePipe(ID, code)` of a session that is in a pipe makes a new user in the new pipe and leaves the
  old one in the old; moved back, the session is inserted a second time and the process ends.
  `Pipes` with `MaxIDMoves = 3`. Its test of the code of `curPipe_` (NetServer.cpp:549) shows that it is
  meant to be called then.
* `isMoving_` is tested and set in two steps (NetServer.cpp:538, 559). Two threads that move one ID
  both pass, and `AfterPipeEnter` ends the process. Three pipes, two callers, `MaxIDMoves = 2`.
* Pipes delete themselves when `isRunning_` turns false (NetPipe.cpp:57); `Stop` calls `Stop` of each
  of them five seconds later (NetServer.cpp:111). `NewPipe` called from `OnStart` would start a pipe
  twice. A pipe that stops runs `Move` and `Leave` once more and not `Join`.
* `AutoCreate` counts the users of the pipes of every code (NetServer.cpp:635). `DeleteAllPipe`
  acquires `pipeLock_` twice (NetServer.cpp:757) and never returns.

Start, Stop, control.
* `Stop` does not wait for the observer and the timeout thread. A second `Start` pushes every index a
  second time (NetServer.cpp:157). A session accepted behind Invalidate stays open after Stop.
* `MakeTPS` counts `TPSIndex_` up before it writes the entry: the observer may read one that was
  never written (`oPc = "wild"` is reached in `MCControl.cfg`). `TPSArray_` is reserved for the waiting threads and two more, while pipes and
  threads of the application take entries too. `monitorInterval_ / 1000` is zero below a second, and
  the observer divides by it. A zero that falls into `+=` is undone; what is counted between the
  sum and the zero is lost; `AddRecvTraffic` counts one header too many at multiples of
  `eSEGMENT_SIZE`.
* `SystemLogger` is made by `malloc`, without a constructor: the ends and locks of its queues are
  what the memory held. `atexit` frees it while its thread may run. A full queue loses the log.
  No code in src/ logs with `LEVEL_APC`.

Packets and clients.
* A client lets `recv` fill its buffer to the last byte (NetClient.cpp:169, LanClient.cpp:87), and
  `MoveWritePos` refuses a full one: the process ends. A session leaves a byte (NetSession.cpp:103).
  `Framing` with `FillsBuffer = TRUE` violates `NeverOverrun`.
* A packet set holds 300 packets (512 in LanServer); a receive buffer can hold more small ones, which ends the
  process.
* `Encode` tests and sets `encodeFlag_` in two steps: two threads may encode one packet. `Clear` leaves the
  flag as it is, so that a packet that is written again goes out unencoded. Packets longer than 512
  bytes are sent and refused by the receiver.
* `initFlag_` of `LanPacket` is read from memory that was never written.
* A client keeps what was left over of the old connection across `Reconnect`; the old handle is never closed,
  which keeps the compare-and-exchange of handles sound. A sender's `Reconnect` after `Stop` ends
  the process, or revives a client nobody receives for. Packets that were cut before a wrong
  one are dropped with it.

## Not modelled

* Profiler, PDHMonitor, HardwareMonitor, CrashDump: they report, and no other state depends on them.
  (Seen: `ProfileReset` writes samples that `ProfileEnd` of another thread is adding to.)
* Parser, DBConnector, RPCBuffer: text, a database wrapper, and a buffer nobody includes. (Seen: `GetValue`
  ends at two separators in a row.)
* cpp_redis and tacopie are vendored, and no file of the library includes them.
* The application: callbacks are any calls of the library between two steps of their thread.
* The wrap of `stamp_` after 2^32 sessions, of pointer stamps after 2^16 exchanges, and a receive
  aborted by the local system without a cancel.

## Proofs

Sixteen modules are proved about, each for every number of slots or sessions, threads, packets,
pipes and nodes. In each, none of the safety properties is inductive alone: `IInv` (`ControlInv`, `PoolInv`,
`TimeoutInv`, `MonitorInv`, `StackInv`, `QueueInv`, `LanInv`, `ClientInv`, `SwapInv`, `JobInv`) is their conjunction and a support, which is
stated in the module of the model, was checked by TLC first, and is shown inductive. The others follow from it. A proof goes by actions, and within
an action by what it may disturb; what a step leaves alone is the matter of a few lemmas about
bystanders.

### SessionLifeProofs

Three assumptions: the threads are finitely many and so few that the references they
can hold stay below bit 15 of the word; workers, callers and the accept thread are
different threads; there is a slot.

`Support` says which thread may be where, that a position after a test remembers its result
(`unique?` is reached only by a thread whose reference keeps the session alive), that stamps are not
used twice, and that a live session has been joined or is about to be. The argument:

1. a step moves one thread (`OthersStay`) and changes `IOcount` by what that thread takes or
   drops, or sets or clears the flag (`Accounts`); with the counting lemma `RefsChange` this is
   `RefsExact`, and the bound on the threads keeps the count off the flag;
2. the compare-and-exchange succeeds only at zero, hence when nobody holds a reference of the
   session and no receive is out (`CasFrees`); so a session somebody holds stays alive and
   keeps its ID (`LiveStays`), which is `AcquiredIsOwn`;
3. whoever enters `OwnerPcs` took an index off the stack or won the compare-and-exchange
   (`ThreadPlaced`): `SlotsPartition`;
4. the rest (`DeadHasNoIO`, `OneReceiver`, `NeverQuits`, `LeaveOnceAfterJoin`, `Support`) follows
   action by action from these.

The 16-bit constants play no part beyond the lemma `WordSizes`.

### SendPathProofs

The theorems hold in both modes under `SendsFitMode`: a send never succeeds at once with
`useSendIOPending` (the send buffer is zero then), and never pends without it. This is what the
flag is set for, and no code enforces it; without it `NeverUnderZero` fails, see
Observations. The other assumptions are those of `SessionLife`, with room for the references of
signs and packets on the port.

The count has more holders here: threads, by position and by what they post for; a sign on
the port, which carries two; the send in the kernel, one or two by the mode; the receive. `Support`
says who may clear `isSending` (`OneSender` makes it one), that a position on which a session
is used is alive, that `canceled` was set before anything was aborted, and what a
packet in the hands of a thread is (`OneCallEach`, `PostSupport`). Then

1. every step changes the word by what the holders change (`References`);
2. a send, `sentQ` and the flag change only in the hands of the one sender, so a packet moves from
   the call to `sendQ` to `sentQ` and is freed at its end (`PacketsFreedOnce`);
3. the release finds no holder, so no send and no flag: what is in the queues is freed there
   (`SlotsHandedOnClean`).

### PipesProofs

The theorems hold under `OneEntry`: the application calls `MovePipe(ID)` once for a session, in
`OnClientJoin`, and from there on moves users. More calls break what is proved, see Observations.
Pipes move users without bound. The other assumptions: threads are finite sets and callers are no
pipes; there is a pipe, for `MovePipe` ends the process without one; and a queue has room for a
request of each session (20000 for 10501), which `OnePlace` shows to be enough.

`IInv` says of each position what the fields of session and user hold there (`CallerSupport`,
`PipeSupport`), of each queue and map what it means to be in it (`QueueSupport`), and that a move
under way is in somebody's hands (`SessionSupport`). Then

1. who works on a session works alone (`Alone`): a caller before the first `Join`, then the pipe
   whose map has the user. So a step of one thread is seen by the session's own fields only, and
   the others are bystanders;
2. `isMoving_` is set from `MovePipe` to `AfterPipeEnter`, so a session is asked into one pipe at a
   time and its reference is held by one of thread, queue, and receive (`MovesHoldReferences`);
3. the last reference goes either with no pipe or with the user in the map of `curPipe_`, which
   then has the session in its leave queue (`OnePlace`), and no lookup fails (`MovesNeverQuit`);
4. `ClientPlace` and `ClientFrom` map the maps and queues of all pipes to where one client is;
   `Join`, `MoveIn`, `MoveOut` and `Leave` are steps of `PipeMembership` and everything else
   stutters (`ImplementsMembership`).

### ControlProofs

Four modules that `MCControl` puts side by side, each with an invariant of its own.

**`ServerControl`.** The bounds of the model are numbers; nothing else is assumed. `ControlInv` has three parts.
`MainSupport` is the order of `Start` and `Stop`: which flags, handles and threads there are
at each of their steps. `SlotSupport` says that an index is on the stack once, in the leave queue
of the pipe, or in use, and that `IOcount_` of a session in use is what the accept thread
holds of it and its receive; a marked session has its receive posted only while somebody is about to abort
it: `Invalidate` between its two steps, or the accept thread that looks at `isIOCanceled_` again.
`PassedSupport` says that a session `Invalidate` found has left or is marked. Then

1. a step sees the slot it works on, and the others are bystanders (`Bystander`); references are
   given up in one lemma for accept thread and workers (`DropRefsKeepsSlots`);
2. `Stop` posts the quit packet after its sleep, when a marked session that is alive would need a
   reference: the accept thread has none and the receive would be aborted and waiting to be taken,
   which `SleptLongEnough` excludes (`PostQuitKeepsInv`). So what was found has left;
3. with the end of the workers nobody drops a reference any more, and the last frame of the pipe
   returns what it has: `StopIsOrdered`.

That `Stop` sleeps long enough (NetServer.cpp:87, five seconds) is the assumption of the model, not of
the proof: without it `ToldBeforeStopped` fails. `StopNeverQuits` is false, see Findings, and
`ControlInv` holds up to that end.

**`PipePool`.** Assumed are thresholds in the order of the code (a pipe is avoided before it is destroyed), and
the model lets a frame pass only while no move is older than the rounds between them. A pipe
that is chosen has been without users for fewer rounds than `AvoidAfter`; the move that chose it is
as old as the rounds that passed since; so the pipe is below the other threshold until the move
arrives (`ChosenStays`), and `ToDestroy` passes it over. That a code keeps a pipe and
`pipeCount_` is right is a count of finite sets.

**`Timeouts`.** Of the bounds nothing is assumed but that they are numbers, and that the interval is not zero (with
zero nobody is timed out). `TimeoutInv` says of the pass what it has read: a slot found quiet was silent since `lastTimeoutTime`, or has changed after
the pass read its clock; a slot passed over was heard since. `TimeoutsAreFair` is the action
property from both: who is timed out was quiet for an interval or is not the session that was
found, and who was silent since the pass before is noticed.

**`Monitor`.** Assumed is that the threads that count are finitely many. The hazard is in `TPSIndex`, which is
incremented before the entry it promises is written, and in `+=`, which a zero of the observer may fall
into. `MonitorInv` says that an index is taken by one thread, that a thread that has not written its entry yet
is not in the array, and that `Placed`, the threads that have an entry or an index for one, are as many as
`TPSIndex` says. What a thread reads for its `+=` is what the entry still holds when it writes, unless the observer's
zero fell between (`raced`); so a counter is exact since its last zero. The sum of the observer is at most what
the threads of the entries it has passed have counted (`SumOfAdded`): `MonitorIsExact`. Sums over a set that grows are compared by the units that are in them, as sets of pairs
(`UnitsGrow`, `AddedAreCounters`).

### EnqQueueProofs

Assumed are fewer elements than stamps, so that no stamp is given twice, finitely many consumers, and
`FreshSpec`: without `NoStaleLink` the theorems are false, see Observations. `QueueCore` is what the queue with one
consumer and the queue with several rest on. Its `ListLinked` says which pointer leads to the i-th node of the
list (the stamp of `head_` plus i), and that the stamps count the elements that were linked; so a stamp is known
by its place, `tail_` only ever moves on to a larger one (`TailAdvances`), and a producer that finds `tail_` as it
read it may rely on the link it knows of. That the next of the node it compares is the mark, in a list, means
that it is the last. `Uncounted` relates the list to `size_`: the elements that no thread has counted yet are
those a consumer has counted off and not taken.

The list is not defined by recursion: `From` is the sequence of nodes whose links lead to the mark.
There is no more than one (`OneList`, by the least place where two would differ), so that a step is
followed by naming the new list: the old one, the old one and the new node (`LinkExtends`), or
the old one without its first (`MoveShortens`). The refinement reads the data along it.

With one consumer, `head_` is where it read it. With several (`LockFreeQueue`), what a consumer knows is true
as long as `head_` is what it read (`ConsumerKnows`): the stamp of `head_` grows with every exchange, so
an equal pointer means that nothing left the list in between; the node behind it is the one it read, its data,
too, and `tail_` has moved off the first node. If `head_` has moved, what was read may be of a node that is
free or filled again, and the exchange fails (`ExchangeMoves`, `ExchangeHeadKeeps`). So a `Dequeue` that counted an element
off finds one (`QueueIsSound`), and what its exchange takes out is what it read (`QueueImplementsFifo`,
which is the refinement and `DeliversFirst`).

### FreeStackProofs

`LockFreeStack` as the stack of session indices, for finitely many threads and indices with no more indices
than nodes. The list is a sequence as above (`OneList`). The support of a thread (`ThreadSupport`) is about `top_`
as it read it: stamps only grow, so a `top_` that is still equal was never exchanged meanwhile, its node is
still the first of the list, and the next it read of it still leads to the second, although the
node may have been taken, freed and pushed by others in any other case. Then

1. a push puts the node before the list, a pop takes the first one off (`LinkExtends`, `UnlinkShortens`), and the
   list is otherwise as it was (`SameList`);
2. a node is free, in the list or of one thread (`OwnNodes`), and there are enough of them, because who needs a
   node brings an index (`NodesForPlaces`, a count);
3. an index is in the list or with one thread (`IndexOnce`), and `size_` is the length of the list but
   for who is on the way to it (`SizeSettles`): `StackIsSound`;
4. data read along the list is the stack of `IndexStack`: the exchange is a `Push` or `Pop`, everything else
   stutters (`ImplementsLifo`).

### LanServerProofs

The theorems hold for any number of slots, workers, packets, pipes, sessions and jobs, in all modes of
`Start`, under `SendsFitMode`, which is a premise of each: without `isSendIOPending_` no send pends, with it none
succeeds at once. Nothing in the code sees to that. Of other sends they say nothing: `LanNeverQuits` is false of a
last message that pends, which is the run `lan_last_message`, and of an ordinary send that does.
Of the constants it is assumed that slots and workers are finite, that there is a worker, that the
limits are numbers, and that the sets of a broadcast hold IDs.

Everything meets in one count here, so the invariant has four parts:

* `SessionInv`: `refs` of a slot is its receive, its send, two for each sign on the port, two for each worker
  that has the slot in hand, and one for a move; what is aborted was canceled; `sending` is set
  while a send is out or a worker resumes one, and there is one of these at most; a job is of the session.
* `PlaceInv`: a user is in the map of `curPipe_` or in the queue of the move that is under way, each queue
  has it once, and a dead session with a pipe is in the leave queue of that pipe.
* `StopInv`: what is there at each step of `Start` and `Stop`.
* `PacketInv`: the references of a packet are its places in the queues of the slots, the IDs a worker still
  has to send to, and its posts. These are sums over slots, workers and the port; `Total` adds them up,
  and the lemmas from `TotalOne` to `CountConcat` say what one changed place does to a sum.

The argument:

1. a handler takes one slot out and puts it back: what it does to the record (`Drop`, `Disconnected`,
   `Filled`, `SendOutcomes`, `SendPosted`) gives up or takes as many references as its holders change by
   (`Holds`, `SessionTaken`, `SessionGiven`), so who leaves with zero leaves a session nobody holds;
2. such a session is destroyed, or goes to the leave queue of the pipe with its user (`LeftNow`, `MustGo`); a
   frame of a pipe moves, enters and destroys only what its maps and queues say is there.
   One lemma for each action, named after it with `Keeps`, is the first induction, `Core`: it does not need
   the packets. `NeverQuits` follows;
3. relative to `Core`, packets are a second induction, one lemma for each action with `Packets`: what is
   added to a queue is a reference taken, what leaves is freed, and what `Destroyed` drops is counted with
   the slot (`Invariant`, `AccountsAddUp`);
4. a server that has stopped has an empty port, workers that ended and pipes whose last frame
   emptied their leave queue: no holder is left, so every slot is free and every sum is zero
   (`StoppedSlots`, `StoppedPackets`, `SessionsEndWell`). As in `ServerControl`, that the five seconds of
   `Stop` are enough is `SleptLongEnough`, an assumption of the model.

### PartsProofs

Parts of `MCParts` without recursive operators, each with constants of its own.

**`Client`.** Assumed is that the receive thread is no sender, and that the bounds are numbers. `ClientInv` says that a socket
a thread has made is known to no other thread until the exchange (`NewApart`), that what a thread has read of `sock_` was
a socket that stays known (`KnownStay`: the old socket is never closed, so its handle does not come back), and that only the receive
thread is there before `Start` is done (`StartsFirst`). So of the threads that compare `sock_` with the socket they found lost, the
first replaces it, and every other closes its own: `ClientKeepsSocket`.

**`SwapQueue`.** For any number of producers and items, and any size that is not zero. A
producer is under the shared lock of the pair from before it reads which queue is the current one, and `Swap` waits for
all of them: so none is in the queue that was swapped out. `SwapInv` relates what was sent to what was
received: along the received, the queue that was swapped out and the current one, in this order, the items of a producer
grow (`AllItems`), and every item sent is in there or was refused. `SwapQueueIsSound`.

**`CountedQueue`, `ByteRing`.** The steps of both change the ends of an array modulo its size, and the content is a
sequence read along it. Positions go round once at most (`Wraps`), so `%` is a case distinction, and an element
goes where no other is; the theorems `QueueIsFifo` and `BytesKeepOrder` are action properties, under the type
invariant and, for the queue, that `count_` is the distance of the ends. A ring of bytes copies in two pieces, each of which
may be empty (`ContentIs`). Assumed is a size that is not zero, and that there are elements.

**`JobRing`.** For any size that is not zero, under `FreshSpec`: without `NoClearUnderWorker` `NoJobLost` fails, see
Observations. `JobInv` says that the ring holds the jobs of the session behind those that are finished, numbered without a gap
(`JobsInOrder`), that the worker's copy of `front_` shows it a ring as full as it is, or fuller (`WorkerSupport`), and that who clears
the ring finds no worker in it (`OwnerSupport`). `isFull` is then right when the slot is written, the slot a thread
takes is not the one the other writes, and what was received is four numbered pieces one behind the other
(`NumberedConcat`): `JobsAreKept`.

### What is only model-checked

Liveness (fairness and `ENABLED` are out of the prover's reach): `CanceledLeaves`, `SlotsComeBack`,
`SendsSettle`, `DequeueEnds`, `MovesServed`, `StopEnds`, `LogsWritten`, `ClientGoesOn`. `Framing`,
`HashChains`, `LinkedList`, `NetPacket` and `RedBlackTree` have recursive operators and
stay with TLC. `MCParts` reaches them, so its properties are not themselves stated by theorems; of their conjuncts
those about the five modules of `PartsProofs` are, but for `SendEnds`. Of the properties of `MCPools`
the parts about `FreeStack` and `LockFreeQueue` are proved, in `FreeStackProofs` and `EnqQueueProofs`; `ChunkPool`,
`SizedPool` and the composition are only checked.

## Plan

What is left, in this order:

1. Proofs. `ChunkPool` for any number of threads and chunks, by the argument of `FreeStackProofs`.
2. `Framing` for a reader that is slower than the network by more than one set; a second `Start`.
3. Profiler: `ProfileReset` against `ProfileEnd`.
