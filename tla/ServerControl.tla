--------------------------- MODULE ServerControl ---------------------------
(***************************************************************************)
(* Start and Stop of a NetRoot: the order in which threads, completion     *)
(* port, session array and pipes come and go, while the accept thread      *)
(* accepts, workers take completions and a pipe runs its frames.           *)
(*                                                                         *)
(* Sessions are those of SessionLife at a coarser grain: a worker handles  *)
(* a completion in one step and whoever brings IOcount_ to zero releases   *)
(* in the same step. Invalidate, RecvPost and accept keep their steps.     *)
(***************************************************************************)
EXTENDS Integers, FiniteSets

CONSTANTS
  LastSlot,     \* slots 1..LastSlot: eINDEX_START to eNET_SESSION_MAX_COUNT - 1
  Workers,
  MaxSessions,  \* bound of the model: connections
  MaxStarts     \* bound of the model: calls of Start

ASSUME BoundsAssumption == LastSlot \in Nat /\ MaxSessions \in Nat /\ MaxStarts \in Nat

Slots == 1..LastSlot
Sessions == 1..MaxSessions

VARIABLES
  main,         \* the thread that calls Start and Stop
  at,           \* the slot Invalidate is at
  starts,
  listening, accepting, isRunning, observing,   \* listenSocket_ and the flags of the threads
  hcp, hasArray,
  port,         \* quit packets posted to hcp_
  free,         \* how often an index is on sessionIndexStack_
  sess,         \* the sessions of the array
  passed,       \* history: the sessions Invalidate found alive
  told,         \* history: what the application was told of a session
  acc, accSlot, accepted,
  worker,       \* of every worker thread
  observer, pipe, pipeThreads, leaveQ

threadVars  == <<acc, accSlot, accepted, worker, observer>>
pipeVars    == <<pipe, pipeThreads, leaveQ>>
flagVars    == <<listening, accepting, isRunning, observing>>
sessionVars == <<free, sess, told>>
portVars    == <<hcp, hasArray, port>>
ctlVars == <<main, at, starts, passed, flagVars, portVars, sessionVars, threadVars, pipeVars>>

Dead == [id |-> 0, refs |-> 0, dead |-> TRUE, canceled |-> FALSE, io |-> "none", piped |-> FALSE]

StartPcs == {"workers", "array", "pipes", "observer", "accept"}
StopPcs == {"unlisten", "invalidate", "flag", "cancel", "sleep", "wait", "norun", "close",
            "noobserver", "stoppipes"}

SessionRecord ==
  [id : 0..MaxSessions, refs : 0..3, dead : BOOLEAN, canceled : BOOLEAN,
   io : {"none", "posted", "fin", "data", "aborted"}, piped : BOOLEAN]

ControlTypeOK ==
  /\ main \in {"new", "running", "stopped", "failed", "quit"} \cup StartPcs \cup StopPcs
  /\ at \in 1 .. LastSlot + 1 /\ starts \in 0..MaxStarts
  /\ {listening, accepting, isRunning, observing, hasArray} \subseteq BOOLEAN
  /\ hcp \in {"none", "open", "closed"} /\ port \in 0..1
  /\ free \in [Slots -> 0..MaxStarts]
  /\ sess \in [Slots -> SessionRecord]
  /\ passed \subseteq Sessions
  /\ told \in [Sessions -> {"nothing", "joined", "left"}]
  /\ acc \in {"none", "loop", "accept", "alloc", "join", "recv", "recheck", "dec", "fail", "ended"}
  /\ accSlot \in 0..LastSlot /\ accepted \in 0..MaxSessions
  /\ worker \in [Workers -> {"none", "waiting", "ended"}]
  /\ observer \in {"none", "running", "ended"}
  /\ pipe \in {"none", "registered", "running", "ended"} /\ pipeThreads \in 0..2
  /\ leaveQ \subseteq Slots
-----------------------------------------------------------------------------
(* Start                                                                   *)

Goto(l) == main' = l

\* Start, PrepareWinSock, CreateIOCP, PrepareSocket, Bind, Listen; any of them
\* may fail, which ends the process
Start ==
  /\ main = "new" /\ starts < MaxStarts
  /\ starts' = starts + 1
  /\ isRunning' = TRUE
  /\ \/ Goto("workers") /\ hcp' = "open" /\ listening' = TRUE
     \/ Goto("failed") /\ UNCHANGED <<hcp, listening>>
  /\ UNCHANGED <<at, passed, accepting, observing, hasArray, port, sessionVars, threadVars, pipeVars>>

RunWorkerThread ==
  /\ main = "workers" /\ Goto("array")
  /\ worker' = [w \in Workers |-> "waiting"]
  /\ UNCHANGED <<at, starts, passed, flagVars, portVars, sessionVars, acc, accSlot, accepted, observer, pipeVars>>

\* the constructor of NetSessionArray, or Validate: every index is pushed
Validate ==
  /\ main = "array" /\ Goto("pipes")
  /\ hasArray' = TRUE
  /\ free' = [s \in Slots |-> free[s] + 1]
  /\ UNCHANGED <<at, starts, passed, flagVars, hcp, port, sess, told, threadVars, pipeVars>>

RunPipes ==
  /\ main = "pipes" /\ Goto("observer")
  /\ IF pipe = "none" THEN UNCHANGED pipeVars
     ELSE pipe' = "running" /\ pipeThreads' = pipeThreads + 1 /\ UNCHANGED leaveQ
  /\ UNCHANGED <<at, starts, passed, flagVars, portVars, sessionVars, threadVars>>

RunObserverThread ==
  /\ main = "observer" /\ Goto("accept")
  /\ observing' = TRUE /\ observer' = "running"
  /\ UNCHANGED <<at, starts, passed, listening, accepting, isRunning, portVars, sessionVars, acc, accSlot, accepted, worker, pipeVars>>

RunAcceptThread ==
  /\ main = "accept" /\ Goto("running")
  /\ accepting' = TRUE /\ acc' = "loop"
  /\ UNCHANGED <<at, starts, passed, listening, isRunning, observing, portVars, sessionVars, accSlot, accepted, worker, observer, pipeVars>>

\* PipeManager::NewPipe, called before Start or after it: a running server
\* starts the pipe at once, another one with its Start
MutNewPipe ==
  /\ main \in {"new", "running"} /\ pipe = "none"
  /\ pipe' = IF isRunning THEN "running" ELSE "registered"
  /\ pipeThreads' = 1
  /\ UNCHANGED <<main, at, starts, passed, flagVars, portVars, sessionVars, threadVars, leaveQ>>

NewPipe ==
  /\ main \in {"new", "running"} /\ pipe = "none"
  /\ pipe' = IF isRunning THEN "running" ELSE "registered"
  /\ pipeThreads' = IF isRunning THEN 1 ELSE 0
  /\ UNCHANGED <<main, at, starts, passed, flagVars, portVars, sessionVars, threadVars, leaveQ>>
-----------------------------------------------------------------------------
(* Stop                                                                    *)

CloseListenSocket ==
  /\ main = "running" /\ Goto("unlisten")
  /\ listening' = FALSE
  /\ UNCHANGED <<at, starts, passed, accepting, isRunning, observing, portVars, sessionVars, threadVars, pipeVars>>

StopAccepting ==
  /\ main = "unlisten" /\ Goto("invalidate")
  /\ accepting' = FALSE /\ at' = 1
  /\ UNCHANGED <<starts, passed, listening, isRunning, observing, portVars, sessionVars, threadVars, pipeVars>>

\* Invalidate, slot by slot: isDead, then Disconnect, with no reference
InvalidateTest ==
  /\ main = "invalidate" /\ at <= LastSlot
  /\ IF sess[at].dead THEN at' = at + 1 /\ UNCHANGED <<main, passed>>
     ELSE Goto("flag") /\ passed' = passed \cup {sess[at].id} /\ UNCHANGED at
  /\ UNCHANGED <<starts, flagVars, portVars, sessionVars, threadVars, pipeVars>>

InvalidateFlag ==
  /\ main = "flag" /\ Goto("cancel")
  /\ sess' = [sess EXCEPT ![at].canceled = TRUE]
  /\ UNCHANGED <<at, starts, passed, flagVars, portVars, free, told, threadVars, pipeVars>>

Aborted(io) == IF io = "posted" THEN "aborted" ELSE io

InvalidateCancel ==
  /\ main = "cancel" /\ Goto("invalidate")
  /\ sess' = [sess EXCEPT ![at].io = Aborted(@)]
  /\ at' = at + 1
  /\ UNCHANGED <<starts, passed, flagVars, portVars, free, told, threadVars, pipeVars>>

\* five seconds: what the port and the accept thread have at hand is done, as
\* far as the sessions go that were canceled
SleptLongEnough ==
  /\ \A s \in Slots : sess[s].canceled => sess[s].dead \/ sess[s].io \notin {"aborted", "fin", "data"}
  /\ acc \in {"none", "loop", "accept", "ended"}

PostQuit ==
  /\ main = "invalidate" /\ at > LastSlot /\ SleptLongEnough
  /\ Goto("wait")
  /\ port' = 1
  /\ UNCHANGED <<at, starts, passed, flagVars, hcp, hasArray, sessionVars, threadVars, pipeVars>>

\* WaitForMultipleObjects(waitingThreadNum_ + 1, &threadHandle_[1], ...): the
\* accept thread and every worker
MutWaitForWorkersOnly ==
  /\ main = "wait" /\ Goto("norun")
  /\ \A w \in Workers : worker[w] = "ended"
  /\ UNCHANGED <<at, starts, passed, flagVars, portVars, sessionVars, threadVars, pipeVars>>

WaitForThreads ==
  /\ main = "wait" /\ Goto("norun")
  /\ acc = "ended" /\ \A w \in Workers : worker[w] = "ended"
  /\ UNCHANGED <<at, starts, passed, flagVars, portVars, sessionVars, threadVars, pipeVars>>

StopRunning ==
  /\ main = "norun" /\ Goto("close")
  /\ isRunning' = FALSE
  /\ UNCHANGED <<at, starts, passed, listening, accepting, observing, portVars, sessionVars, threadVars, pipeVars>>

CloseHandles ==
  /\ main = "close" /\ Goto("noobserver")
  /\ hcp' = "closed" /\ port' = 0
  /\ UNCHANGED <<at, starts, passed, flagVars, hasArray, sessionVars, threadVars, pipeVars>>

StopObserver ==
  /\ main = "noobserver" /\ Goto("stoppipes")
  /\ observing' = FALSE
  /\ UNCHANGED <<at, starts, passed, listening, accepting, isRunning, portVars, sessionVars, threadVars, pipeVars>>

\* pipeMap_.Clear; the stop flag of the pipes tells them what isRunning_ has
StopPipes ==
  /\ main = "stoppipes" /\ Goto("stopped")
  /\ UNCHANGED <<at, starts, passed, flagVars, portVars, sessionVars, threadVars, pipeVars>>

MainStep ==
  \/ RunWorkerThread \/ Validate \/ RunPipes \/ RunObserverThread \/ RunAcceptThread
  \/ StopAccepting \/ InvalidateTest \/ InvalidateFlag \/ InvalidateCancel \/ PostQuit
  \/ WaitForThreads \/ StopRunning \/ CloseHandles \/ StopObserver \/ StopPipes
-----------------------------------------------------------------------------
(* Sessions                                                                *)

\* DecrementIOCount and SubIOCount; at zero ReleaseSession: OnClientLeave, and
\* the session is left to its pipe or destroyed. r is the session as the caller
\* leaves it.
DropRefs(s, r, n) ==
  IF r.refs # n
  THEN sess' = [sess EXCEPT ![s] = [r EXCEPT !.refs = @ - n]] /\ UNCHANGED <<free, told, leaveQ>>
  ELSE /\ sess' = [sess EXCEPT ![s] = [r EXCEPT !.refs = 0, !.dead = TRUE]]
       /\ told' = [told EXCEPT ![r.id] = "left"]
       /\ IF r.piped THEN leaveQ' = leaveQ \cup {s} /\ UNCHANGED free
          ELSE free' = [free EXCEPT ![s] = @ + 1] /\ UNCHANGED leaveQ

\* the kernel: data, or the end of the connection, for a posted receive
Receive(s) ==
  /\ sess[s].io = "posted"
  /\ \E io \in {"data", "fin"} : sess' = [sess EXCEPT ![s].io = io]
  /\ UNCHANGED <<main, at, starts, passed, flagVars, portVars, free, told, threadVars, pipeVars>>

KeepForAccept == UNCHANGED <<main, at, starts, passed, flagVars, portVars, worker, observer, pipe, pipeThreads>>

\* MyAcceptProc
AcceptLoop ==
  /\ acc = "loop"
  /\ acc' = IF accepting THEN "accept" ELSE "ended"
  /\ KeepForAccept /\ UNCHANGED <<sessionVars, accSlot, accepted, leaveQ>>

Accept ==
  /\ acc = "accept"
  /\ \/ ~listening /\ acc' = "loop" /\ UNCHANGED accepted     \* INVALID_SOCKET
     \/ /\ listening /\ accepted < MaxSessions
        /\ acc' = "alloc" /\ accepted' = accepted + 1
     \/ /\ listening /\ accepted < MaxSessions                 \* OnConnectionRequest says no
        /\ acc' = "loop" /\ accepted' = accepted + 1
  /\ KeepForAccept /\ UNCHANGED <<sessionVars, accSlot, leaveQ>>

\* AllocSession, with an index if there is one
AllocSession ==
  /\ acc = "alloc"
  /\ IF \A s \in Slots : free[s] = 0
     THEN acc' = "loop" /\ UNCHANGED <<accSlot, sess, free>>
     ELSE \E s \in Slots :
            /\ free[s] > 0 /\ free' = [free EXCEPT ![s] = @ - 1]
            /\ accSlot' = s /\ acc' = "join"
            /\ sess' = [sess EXCEPT ![s] = [Dead EXCEPT !.id = accepted, !.refs = 1, !.dead = FALSE]]
  /\ KeepForAccept /\ UNCHANGED <<told, accepted, leaveQ>>

\* OnClientJoin, in which the application may let the session enter a pipe
ClientJoin ==
  /\ acc = "join" /\ acc' = "recv"
  /\ told' = [told EXCEPT ![sess[accSlot].id] = "joined"]
  /\ \E into \in BOOLEAN :
       /\ into => pipe = "running" /\ isRunning
       /\ sess' = [sess EXCEPT ![accSlot].piped = into]
  /\ KeepForAccept /\ UNCHANGED <<free, accSlot, accepted, leaveQ>>

\* RecvPost: a reference for the receive, WSARecv, and the flag once more
MutPostRecv ==
  /\ acc = "recv"
  /\ \/ acc' = "recheck" /\ sess' = [sess EXCEPT ![accSlot].refs = @ + 1, ![accSlot].io = "posted"]
     \/ acc' = "fail" /\ UNCHANGED sess
  /\ KeepForAccept /\ UNCHANGED <<free, told, accSlot, accepted, leaveQ>>

PostRecv ==
  /\ acc = "recv"
  /\ \/ acc' = "recheck" /\ sess' = [sess EXCEPT ![accSlot].refs = @ + 1, ![accSlot].io = "posted"]
     \/ acc' = "fail" /\ sess' = [sess EXCEPT ![accSlot].refs = @ + 1]
  /\ KeepForAccept /\ UNCHANGED <<free, told, accSlot, accepted, leaveQ>>

MutNoRecheck ==
  /\ acc = "recheck" /\ acc' = "dec"
  /\ KeepForAccept /\ UNCHANGED <<sess, free, told, accSlot, accepted, leaveQ>>

RecheckCanceled ==
  /\ acc = "recheck" /\ acc' = "dec"
  /\ sess' = [sess EXCEPT ![accSlot].io = IF sess[accSlot].canceled THEN Aborted(@) ELSE @]
  /\ KeepForAccept /\ UNCHANGED <<free, told, accSlot, accepted, leaveQ>>

AcceptDropsRef ==
  /\ acc \in {"dec", "fail"} /\ acc' = "loop" /\ accSlot' = 0
  /\ DropRefs(accSlot, sess[accSlot], IF acc = "dec" THEN 1 ELSE 2)
  /\ KeepForAccept /\ UNCHANGED accepted

AcceptStep ==
  \/ AcceptLoop \/ Accept \/ AllocSession \/ ClientJoin
  \/ PostRecv \/ RecheckCanceled \/ AcceptDropsRef
-----------------------------------------------------------------------------
(* Workers, observer, pipe                                                 *)

KeepForWorker ==
  UNCHANGED <<at, starts, passed, flagVars, hcp, hasArray, acc, accSlot, accepted, observer, pipe, pipeThreads>>

\* the quit packet goes back for the next worker
MutTakeQuit(w) ==
  /\ worker[w] = "waiting" /\ port > 0
  /\ worker' = [worker EXCEPT ![w] = "ended"]
  /\ port' = port - 1
  /\ KeepForWorker /\ UNCHANGED <<main, sessionVars, leaveQ>>

TakeQuit(w) ==
  /\ worker[w] = "waiting" /\ port > 0
  /\ worker' = [worker EXCEPT ![w] = "ended"]
  /\ KeepForWorker /\ UNCHANGED <<main, port, sessionVars, leaveQ>>

\* fin: DisconnectSession. aborted: the flag says whether it was CancelIO.
\* data: OnRecvComplete, which posts the next receive.
Disconnected(s) == [sess[s] EXCEPT !.io = "none", !.canceled = TRUE]

TakeCompletion(w, s) ==
  /\ worker[w] = "waiting"
  /\ \/ sess[s].io = "fin" /\ DropRefs(s, Disconnected(s), 1) /\ UNCHANGED main
     \/ /\ sess[s].io = "aborted" /\ ~sess[s].canceled
        /\ Goto("quit") /\ UNCHANGED <<sess, free, told, leaveQ>>
     \/ /\ sess[s].io \in {"aborted", "data"} /\ sess[s].canceled
        /\ DropRefs(s, Disconnected(s), 1) /\ UNCHANGED main
     \/ /\ sess[s].io = "data" /\ ~sess[s].canceled
        /\ sess' = [sess EXCEPT ![s].io = "posted"] /\ UNCHANGED <<main, free, told, leaveQ>>
  /\ KeepForWorker /\ UNCHANGED <<port, worker>>

WorkerStep(w) == TakeQuit(w) \/ \E s \in Slots : TakeCompletion(w, s)

\* the observer and the timeout thread
ObserverEnds ==
  /\ observer = "running" /\ ~observing
  /\ observer' = "ended"
  /\ UNCHANGED <<main, at, starts, passed, flagVars, portVars, sessionVars, acc, accSlot, accepted, worker, pipeVars>>

\* Leave and DeletePipeUser: the indices of released sessions come back
Leave == free' = [s \in Slots |-> free[s] + (IF s \in leaveQ THEN 1 ELSE 0)] /\ leaveQ' = {}

PipeFrame ==
  /\ pipe = "running" /\ isRunning /\ leaveQ # {}
  /\ Leave
  /\ UNCHANGED <<main, at, starts, passed, flagVars, portVars, sess, told, threadVars, pipe, pipeThreads>>

MutPipeEnds ==
  /\ pipe = "running" /\ ~isRunning
  /\ pipe' = "ended" /\ pipeThreads' = pipeThreads - 1
  /\ UNCHANGED <<main, at, starts, passed, flagVars, portVars, sessionVars, threadVars, leaveQ>>

\* the loop ends; Move and Leave once more, and the pipe deletes itself
PipeEnds ==
  /\ pipe = "running" /\ ~isRunning
  /\ Leave
  /\ pipe' = "ended" /\ pipeThreads' = pipeThreads - 1
  /\ UNCHANGED <<main, at, starts, passed, flagVars, portVars, sess, told, threadVars>>
-----------------------------------------------------------------------------
ControlInit ==
  /\ main = "new" /\ at = 1 /\ starts = 0 /\ passed = {}
  /\ listening = FALSE /\ accepting = FALSE /\ isRunning = FALSE /\ observing = FALSE
  /\ hcp = "none" /\ hasArray = FALSE /\ port = 0
  /\ free = [s \in Slots |-> 0] /\ sess = [s \in Slots |-> Dead]
  /\ told = [s \in Sessions |-> "nothing"]
  /\ acc = "none" /\ accSlot = 0 /\ accepted = 0
  /\ worker = [w \in Workers |-> "none"] /\ observer = "none"
  /\ pipe = "none" /\ pipeThreads = 0 /\ leaveQ = {}

ControlNext ==
  /\ main # "quit"
  /\ \/ Start \/ NewPipe \/ CloseListenSocket \/ MainStep
     \/ AcceptStep \/ \E w \in Workers : WorkerStep(w)
     \/ \E s \in Slots : Receive(s)
     \/ ObserverEnds \/ PipeFrame \/ PipeEnds
ControlSpec == ControlInit /\ [][ControlNext]_ctlVars

\* A thread that can go on does, and the port is first-in first-out: no
\* packet in it is overtaken for ever. Clients owe nothing; accept returns once
\* the listening socket is closed.
AcceptReturns == AcceptStep /\ (acc = "accept" => ~listening)
ControlFairness ==
  /\ WF_ctlVars(MainStep)
  /\ WF_ctlVars(AcceptReturns)
  /\ \A w \in Workers : WF_ctlVars(TakeQuit(w))
  /\ \A s \in Slots : WF_ctlVars(\E w \in Workers : TakeCompletion(w, s))
  /\ WF_ctlVars(PipeEnds)
-----------------------------------------------------------------------------
(* No completion is aborted that nobody canceled: MyWorkerProc ends the    *)
(* process then ("Recv Overlapped-IO Not Canceled - 995").                 *)
StopNeverQuits == main # "quit"

(* A thread runs while what it uses is there: the observer and whoever     *)
(* accepts with the session array, the completion port until workers and   *)
(* accept thread have ended (ServerInitiate, Stop).                        *)
ThreadsHaveTheirData ==
  /\ observer = "running" \/ acc # "none" => hasArray
  /\ acc \notin {"none", "ended"} => hcp = "open"
  /\ hcp = "closed" => \A w \in Workers : worker[w] = "ended"

(* A pipe has one thread, whether NewPipe or RunPipes starts it.           *)
PipeRunsOnce == pipeThreads = (IF pipe = "running" THEN 1 ELSE 0)

(* When Stop goes on from the threads, the application was told of the     *)
(* leave of every session that Invalidate found alive.                     *)
ToldBeforeStopped ==
  main \in {"norun", "close", "noobserver", "stoppipes", "stopped"} =>
    \A id \in passed : told[id] = "left"

(* After Stop and the last frame of the pipe every index is back, unless   *)
(* its session was accepted behind Invalidate's back.                      *)
IndicesBack ==
  main = "stopped" /\ pipe # "running" =>
    \A s \in Slots : free[s] = (IF sess[s].dead THEN 1 ELSE 0) /\ (sess[s].dead \/ sess[s].id \notin passed)

\* Start and Stop: threads find what they use, a pipe has one thread, and when
\* Stop goes on, all sessions it found have left and their indices are back
\* (NetServer.cpp 49-183, 265-363, NetSessionArray.cpp 40-56).
StopInOrder ==
  ControlTypeOK /\ ThreadsHaveTheirData /\ PipeRunsOnce /\ ToldBeforeStopped /\ IndicesBack

\* What they rest on. First the order of Start and Stop:
EarlyPcs == {"new", "failed", "workers", "array"}
EndedPcs == {"norun", "close", "noobserver", "stoppipes", "stopped"}
RunningPcs == StartPcs \cup (StopPcs \ {"close", "noobserver", "stoppipes"}) \cup {"running"}

MainSupport ==
  /\ main = "new" => ~isRunning
  /\ main # "new" => starts > 0
  /\ main \in RunningPcs => isRunning
  /\ main \in RunningPcs \cup {"close"} => hcp = "open"
  /\ main \in EarlyPcs => ~hasArray
  /\ main \notin EarlyPcs \cup {"quit"} \/ pipe \in {"running", "ended"} => hasArray
  /\ main \in EarlyPcs \cup {"pipes"} => pipe \in {"none", "registered"}
  /\ main \in {"new", "failed"} \cup StartPcs => acc = "none"
  /\ main \in {"flag", "cancel"} => at \in Slots
  /\ main \in EndedPcs => acc = "ended" /\ \A w \in Workers : worker[w] = "ended"
  /\ ~isRunning => acc \in {"none", "ended"} /\ \A w \in Workers : worker[w] # "waiting"
  /\ pipe = "ended" => ~isRunning

\* then what a slot is, and what its references are;
Live(s) == ~sess[s].dead
HoldingPcs == {"join", "recv", "recheck", "dec", "fail"}
AcceptHolds(s) == accSlot = s /\ acc \in HoldingPcs
RefsOfAccept(s) == IF AcceptHolds(s) THEN IF acc = "fail" THEN 2 ELSE 1 ELSE 0
RefsOfReceive(s) == IF sess[s].io # "none" THEN 1 ELSE 0

LiveSupport(s) ==
  /\ hasArray /\ sess[s].refs > 0
  /\ sess[s].refs = RefsOfAccept(s) + RefsOfReceive(s)
  /\ sess[s].id \in 1..accepted /\ (acc = "alloc" => sess[s].id # accepted)
  /\ told[sess[s].id] = (IF acc = "join" /\ accSlot = s THEN "nothing" ELSE "joined")
  /\ accSlot = s /\ acc \in {"join", "recv"} => sess[s].io = "none"
  /\ sess[s].piped => pipe \in {"running", "ended"}
  /\ sess[s].canceled /\ sess[s].io = "posted" =>
       \/ main = "cancel" /\ at = s
       \/ acc = "recheck" /\ accSlot = s
       \/ main = "quit"

SlotSupport(s) ==
  /\ free[s] = (IF hasArray /\ sess[s].dead /\ s \notin leaveQ THEN 1 ELSE 0)
  /\ s \in leaveQ => sess[s].dead /\ pipe = "running"
  /\ sess[s].dead => sess[s].refs = 0 /\ sess[s].io = "none" /\ ~AcceptHolds(s)
  /\ Live(s) => LiveSupport(s)

\* and that a session Invalidate found is marked, or has left.
PassedSupport ==
  \A i \in passed : \/ told[i] = "left"
                    \/ /\ main \notin {"wait"} \cup EndedPcs
                       /\ \E s \in Slots : /\ Live(s) /\ sess[s].id = i
                                            /\ (sess[s].canceled \/ (main = "flag" /\ at = s) \/ main = "quit")

OneSlotEach == \A s, r \in Slots : Live(s) /\ Live(r) /\ sess[s].id = sess[r].id => s = r

SlotsSupport ==
  /\ OneSlotEach /\ \A s \in Slots : SlotSupport(s)
  /\ acc \in HoldingPcs => accSlot \in Slots
  /\ acc = "alloc" => accepted > 0
  /\ \A i \in Sessions : i > accepted \/ (acc = "alloc" /\ i = accepted) => told[i] = "nothing"

ControlInv ==
  /\ ControlTypeOK /\ ThreadsHaveTheirData /\ PipeRunsOnce
  /\ MainSupport /\ PassedSupport /\ SlotsSupport

(* Stop ends: one quit packet is enough for every worker, and the accept   *)
(* thread does not stay in accept.                                         *)
StopEnds == main = "unlisten" ~> main \in {"stopped", "quit"}
=============================================================================
