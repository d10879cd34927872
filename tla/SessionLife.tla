---------------------------- MODULE SessionLife ----------------------------
(***************************************************************************)
(* The life of the sessions of a NetRoot server: the slots of the          *)
(* NetSessionArray, the 16-bit word IOcount_ that is reference count and   *)
(* delete flag at once, the accept thread that takes a slot, the worker    *)
(* threads that finish the overlapped receives, and the threads that call  *)
(* NetRoot::Disconnect with a session ID they kept, however old.           *)
(*                                                                         *)
(* One action is one access to shared memory, or one call of the kernel.   *)
(* A thread's private position is pc, the session pointer it works with is *)
(* sess and the unique_ part of the session ID it works for is tgt.        *)
(* Sends are left to SendPath; curPipe_ is nullptr throughout (sessions    *)
(* that entered no pipe).                                                  *)
(***************************************************************************)
EXTENDS Integers, FiniteSets

CONSTANTS
  Slots,      \* the indices of sessionArray_
  Workers,    \* the threads in MyWorkerProc
  Callers,    \* the threads that call Disconnect(ID)
  Acceptor,   \* the thread in MyAcceptProc
  MaxStamp    \* bound of the model: stamp_ stops here, and accepts with it

Threads == Workers \cup Callers \cup {Acceptor}

DELETE_FLAG_BIT == 32768
WordSize == 65536

\* A thread holds at most two references and a receive holds one: the count
\* never reaches the bit that is the delete flag.
ASSUME ThreadsAssumption ==
  /\ IsFiniteSet(Threads)
  /\ 2 * Cardinality(Threads) + 1 < DELETE_FLAG_BIT
  /\ Workers \cap Callers = {}
  /\ Acceptor \notin Workers \cup Callers

ASSUME SlotsAssumption == Slots # {}
ASSUME StampAssumption == MaxStamp \in Nat \ {0}

VARIABLES
  IOcount,    \* IOcount_ of every session, with the delete flag in bit 15
  unique,     \* ID_.element_.unique_ of every session (the index is the slot)
  canceled,   \* isIOCanceled_
  sockOpen,   \* sock_ # INVALID_SOCKET
  recvIO,     \* the overlapped receive of every session, in the kernel's hands
  freeIdx,    \* the indices on sessionIndexStack_
  stamp,      \* stamp_
  pc, sess, tgt,
  issued,     \* history: the session IDs the program has been shown
  joined,     \* history: the IDs OnClientJoin has returned for
  left        \* history: the IDs OnClientLeave was called with

sessionVars == <<IOcount, unique, canceled, sockOpen, recvIO>>
arrayVars   == <<freeIdx, stamp>>
localVars   == <<sess, tgt>>
historyVars == <<issued, joined, left>>
vars == <<sessionVars, arrayVars, pc, localVars, historyVars>>

IDs == [index : Slots, unique : 1..MaxStamp]

\* "posted" is in flight; the others are queued on the completion port
Completions == {"data", "fin", "reset", "aborted"}

AcceptPcs  == {"pop", "init", "fields", "publish", "join"}
FindPcs    == {"dead?", "unique?", "canceled?"}
RecvPcs    == {"inc", "post", "recheck", "recancel", "fail", "failcancel", "sub2"}
WorkerPcs  == {"recvd", "abort", "quit"}
ReleasePcs == {"cas", "leave", "destroy", "push"}
Pcs == {"idle", "set", "cancel", "dec"}
         \cup AcceptPcs \cup FindPcs \cup RecvPcs \cup WorkerPcs \cup ReleasePcs

TypeOK ==
  /\ IOcount \in [Slots -> 0 .. WordSize - 1]
  /\ unique \in [Slots -> 0..MaxStamp]
  /\ canceled \in [Slots -> BOOLEAN]
  /\ sockOpen \in [Slots -> BOOLEAN]
  /\ recvIO \in [Slots -> {"none", "posted"} \cup Completions]
  /\ freeIdx \subseteq Slots
  /\ stamp \in 1 .. MaxStamp + 1
  /\ pc \in [Threads -> Pcs]
  /\ sess \in [Threads -> Slots]
  /\ tgt \in [Threads -> 0..MaxStamp]
  /\ issued \subseteq IDs
  /\ joined \subseteq 1..MaxStamp
  /\ left \subseteq 1..MaxStamp

-----------------------------------------------------------------------------
(* The interlocked operations on IOcount_.                                 *)

\* a 16-bit register; SubIOCount adds 65534 for -2
Word(n) == n % WordSize

isDead(s) == IOcount[s] >= DELETE_FLAG_BIT

AddIOCount(s, n) == IOcount' = [IOcount EXCEPT ![s] = Word(@ + n)]

Goto(t, l) == pc' = [pc EXCEPT ![t] = l]
At(t, l) == pc[t] = l

\* DecrementIOCount and SubIOCount of NetRoot: the thread that brings the count
\* to zero goes on to ReleaseSession
DropRefs(t, n) ==
  /\ IOcount' = [IOcount EXCEPT ![sess[t]] = Word(@ - n)]
  /\ Goto(t, IF IOcount[sess[t]] = n THEN "cas" ELSE "idle")

\* CancelIoEx: a receive in flight is completed with ERROR_OPERATION_ABORTED
CancelIO(s) ==
  recvIO' = [recvIO EXCEPT ![s] = IF @ = "posted" THEN "aborted" ELSE @]

-----------------------------------------------------------------------------
(* MyAcceptProc and NetSessionArray::AllocSession                          *)

\* accept() returned a socket and OnConnectionRequest accepted it
Accept(t) ==
  /\ t = Acceptor /\ At(t, "idle")
  /\ Goto(t, "pop")
  /\ UNCHANGED <<sessionVars, arrayVars, localVars, historyVars>>

\* no free index: closesocket, and accept again
SessionMax(t) ==
  /\ At(t, "pop") /\ freeIdx = {}
  /\ Goto(t, "idle")
  /\ UNCHANGED <<sessionVars, arrayVars, localVars, historyVars>>

MutStampTwice(t) ==
  /\ At(t, "pop")
  /\ stamp <= MaxStamp
  /\ \E s \in freeIdx :
       /\ freeIdx' = freeIdx \ {s}
       /\ sess' = [sess EXCEPT ![t] = s]
  /\ stamp' = stamp + 2
  /\ tgt' = [tgt EXCEPT ![t] = stamp]
  /\ Goto(t, "init")
  /\ UNCHANGED <<sessionVars, historyVars>>

AllocSession(t) ==
  /\ At(t, "pop")
  /\ stamp <= MaxStamp
  /\ \E s \in freeIdx :
       /\ freeIdx' = freeIdx \ {s}
       /\ sess' = [sess EXCEPT ![t] = s]
  /\ stamp' = stamp + 1
  /\ tgt' = [tgt EXCEPT ![t] = stamp]
  /\ Goto(t, "init")
  /\ UNCHANGED <<sessionVars, historyVars>>

\* Initialize: the first reference is taken while the delete flag still is set
InitializeRef(t) ==
  /\ At(t, "init")
  /\ AddIOCount(sess[t], 1)
  /\ Goto(t, "fields")
  /\ UNCHANGED <<unique, canceled, sockOpen, recvIO, arrayVars, localVars, historyVars>>

\* Initialize: ID_ ... isIOCanceled_, unobserved while the flag is set
InitializeFields(t) ==
  /\ At(t, "fields")
  /\ unique' = [unique EXCEPT ![sess[t]] = tgt[t]]
  /\ sockOpen' = [sockOpen EXCEPT ![sess[t]] = TRUE]
  /\ canceled' = [canceled EXCEPT ![sess[t]] = FALSE]
  /\ issued' = issued \cup {[index |-> sess[t], unique |-> tgt[t]]}
  /\ Goto(t, "publish")
  /\ UNCHANGED <<IOcount, recvIO, arrayVars, localVars, joined, left>>

MutPublishResets(t) ==
  /\ At(t, "publish")
  /\ IOcount' = [IOcount EXCEPT ![sess[t]] = 1]
  /\ Goto(t, "join")
  /\ UNCHANGED <<unique, canceled, sockOpen, recvIO, arrayVars, localVars, historyVars>>

\* Initialize: InterlockedAnd16 clears the flag and keeps the references that
\* threads with old IDs hold at the moment
InitializePublish(t) ==
  /\ At(t, "publish")
  /\ IOcount' = [IOcount EXCEPT ![sess[t]] = @ % DELETE_FLAG_BIT]
  /\ Goto(t, "join")
  /\ UNCHANGED <<unique, canceled, sockOpen, recvIO, arrayVars, localVars, historyVars>>

OnClientJoin(t) ==
  /\ At(t, "join")
  /\ joined' = joined \cup {tgt[t]}
  /\ Goto(t, "inc")
  /\ UNCHANGED <<sessionVars, arrayVars, localVars, issued, left>>

-----------------------------------------------------------------------------
(* NetSession::RecvPost under NetRoot::RecvPost. The caller has a          *)
(* reference of its own; the receive gets another before it is posted.     *)

MutRecvNoRef(t) ==
  /\ At(t, "inc")
  /\ Goto(t, "post")
  /\ UNCHANGED <<sessionVars, arrayVars, localVars, historyVars>>

RecvPost(t) ==
  /\ At(t, "inc")
  /\ AddIOCount(sess[t], 1)
  /\ Goto(t, "post")
  /\ UNCHANGED <<unique, canceled, sockOpen, recvIO, arrayVars, localVars, historyVars>>

\* WSARecv completes at once (SUCCESS), is pending, or fails
WSARecv(t) ==
  /\ At(t, "post")
  /\ \/ \E r \in {"data", "fin"} :
          recvIO' = [recvIO EXCEPT ![sess[t]] = r] /\ Goto(t, "dec")
     \/ recvIO' = [recvIO EXCEPT ![sess[t]] = "posted"] /\ Goto(t, "recheck")
     \/ Goto(t, "fail") /\ UNCHANGED recvIO
  /\ UNCHANGED <<IOcount, unique, canceled, sockOpen, arrayVars, localVars, historyVars>>

MutNoRecheck(t) ==
  /\ At(t, "recheck")
  /\ Goto(t, "dec")
  /\ UNCHANGED <<sessionVars, arrayVars, localVars, historyVars>>

\* SUCCESS_IO_PENDING, or FAILURE_IO_CANCEL_FLAG_ON when a Disconnect came in
\* before the receive was in the kernel's hands
RecheckCanceled(t) ==
  /\ At(t, "recheck")
  /\ Goto(t, IF canceled[sess[t]] THEN "recancel" ELSE "dec")
  /\ UNCHANGED <<sessionVars, arrayVars, localVars, historyVars>>

RecvCancelIO(t) ==
  /\ At(t, "recancel")
  /\ CancelIO(sess[t])
  /\ Goto(t, "dec")
  /\ UNCHANGED <<IOcount, unique, canceled, sockOpen, arrayVars, localVars, historyVars>>

\* FAILURE_IO_REQUEST: ErrorCheck disconnects, then both references are dropped
RecvFailed(t) ==
  /\ At(t, "fail")
  /\ canceled' = [canceled EXCEPT ![sess[t]] = TRUE]
  /\ Goto(t, "failcancel")
  /\ UNCHANGED <<IOcount, unique, sockOpen, recvIO, arrayVars, localVars, historyVars>>

RecvFailedCancelIO(t) ==
  /\ At(t, "failcancel")
  /\ CancelIO(sess[t])
  /\ Goto(t, "sub2")
  /\ UNCHANGED <<IOcount, unique, canceled, sockOpen, arrayVars, localVars, historyVars>>

SubIOCount(t) ==
  /\ At(t, "sub2")
  /\ DropRefs(t, 2)
  /\ UNCHANGED <<unique, canceled, sockOpen, recvIO, arrayVars, localVars, historyVars>>

-----------------------------------------------------------------------------
(* MyWorkerProc. The reference of the receive passes to the worker.        *)

\* the kernel ends a receive: bytes, a FIN, or a reset / timeout of the network
KernelCompletes(s) ==
  /\ recvIO[s] = "posted"
  /\ \E r \in {"data", "fin", "reset"} : recvIO' = [recvIO EXCEPT ![s] = r]
  /\ UNCHANGED <<IOcount, unique, canceled, sockOpen, arrayVars, pc, localVars, historyVars>>

AfterDequeue == [data |-> "recvd", fin |-> "set", reset |-> "set", aborted |-> "abort"]

GetQueuedCompletion(t, s) ==
  /\ t \in Workers /\ At(t, "idle")
  /\ recvIO[s] \in Completions
  /\ Goto(t, AfterDequeue[recvIO[s]])
  /\ recvIO' = [recvIO EXCEPT ![s] = "none"]
  /\ sess' = [sess EXCEPT ![t] = s]
  /\ tgt' = [tgt EXCEPT ![t] = unique[s]]
  /\ UNCHANGED <<IOcount, unique, canceled, sockOpen, arrayVars, historyVars>>

\* OnRecvComplete: the next receive, or a disconnect for a malformed packet
OnRecvComplete(t) ==
  /\ At(t, "recvd")
  /\ IF canceled[sess[t]] THEN Goto(t, "dec")
     ELSE Goto(t, "inc") \/ Goto(t, "set")
  /\ UNCHANGED <<sessionVars, arrayVars, localVars, historyVars>>

\* ERROR_OPERATION_ABORTED: ErrorQuit unless the session is canceled
OperationAborted(t) ==
  /\ At(t, "abort")
  /\ Goto(t, IF canceled[sess[t]] THEN "dec" ELSE "quit")
  /\ UNCHANGED <<sessionVars, arrayVars, localVars, historyVars>>

-----------------------------------------------------------------------------
(* NetRoot::Disconnect(ID), with FindSession and AcquireSession            *)

FindSession(t, id) ==
  /\ t \in Callers /\ At(t, "idle")
  /\ sess' = [sess EXCEPT ![t] = id.index]
  /\ tgt' = [tgt EXCEPT ![t] = id.unique]
  /\ AddIOCount(id.index, 1)
  /\ Goto(t, "dead?")
  /\ UNCHANGED <<unique, canceled, sockOpen, recvIO, arrayVars, historyVars>>

MutAcquireIgnoresFlag(t) ==
  /\ At(t, "dead?")
  /\ Goto(t, "unique?")
  /\ UNCHANGED <<sessionVars, arrayVars, localVars, historyVars>>

AcquireDead(t) ==
  /\ At(t, "dead?")
  /\ Goto(t, IF isDead(sess[t]) THEN "dec" ELSE "unique?")
  /\ UNCHANGED <<sessionVars, arrayVars, localVars, historyVars>>

MutAcquireIgnoresID(t) ==
  /\ At(t, "unique?")
  /\ Goto(t, "canceled?")
  /\ UNCHANGED <<sessionVars, arrayVars, localVars, historyVars>>

AcquireUnique(t) ==
  /\ At(t, "unique?")
  /\ Goto(t, IF unique[sess[t]] = tgt[t] THEN "canceled?" ELSE "dec")
  /\ UNCHANGED <<sessionVars, arrayVars, localVars, historyVars>>

AlreadyCanceled(t) ==
  /\ At(t, "canceled?")
  /\ Goto(t, IF canceled[sess[t]] THEN "dec" ELSE "set")
  /\ UNCHANGED <<sessionVars, arrayVars, localVars, historyVars>>

MutDisconnectWithoutFlag(t) ==
  /\ At(t, "set")
  /\ CancelIO(sess[t])
  /\ Goto(t, "cancel")
  /\ UNCHANGED <<IOcount, unique, canceled, sockOpen, arrayVars, localVars, historyVars>>

\* NetSession::Disconnect, also of the worker (DisconnectSession)
DisconnectFlag(t) ==
  /\ At(t, "set")
  /\ canceled' = [canceled EXCEPT ![sess[t]] = TRUE]
  /\ Goto(t, "cancel")
  /\ UNCHANGED <<IOcount, unique, sockOpen, recvIO, arrayVars, localVars, historyVars>>

DisconnectCancelIO(t) ==
  /\ At(t, "cancel")
  /\ CancelIO(sess[t])
  /\ Goto(t, "dec")
  /\ UNCHANGED <<IOcount, unique, canceled, sockOpen, arrayVars, localVars, historyVars>>

DecrementIOCount(t) ==
  /\ At(t, "dec")
  /\ DropRefs(t, 1)
  /\ UNCHANGED <<unique, canceled, sockOpen, recvIO, arrayVars, localVars, historyVars>>

-----------------------------------------------------------------------------
(* NetRoot::ReleaseSession and DeleteSession                               *)

MutReleaseUnchecked(t) ==
  /\ At(t, "cas")
  /\ IOcount' = [IOcount EXCEPT ![sess[t]] = DELETE_FLAG_BIT]
  /\ Goto(t, "leave")
  /\ UNCHANGED <<unique, canceled, sockOpen, recvIO, arrayVars, localVars, historyVars>>

\* the compare-and-exchange 0 -> DELETE_FLAG_BIT elects the one that releases
SetDeleteFlag(t) ==
  /\ At(t, "cas")
  /\ IF IOcount[sess[t]] = 0
       THEN IOcount' = [IOcount EXCEPT ![sess[t]] = DELETE_FLAG_BIT] /\ Goto(t, "leave")
       ELSE Goto(t, "idle") /\ UNCHANGED IOcount
  /\ UNCHANGED <<unique, canceled, sockOpen, recvIO, arrayVars, localVars, historyVars>>

\* the ID is the session's now, whatever ID the thread came with
OnClientLeave(t) ==
  /\ At(t, "leave")
  /\ left' = left \cup {unique[sess[t]]}
  /\ Goto(t, "destroy")
  /\ UNCHANGED <<sessionVars, arrayVars, localVars, issued, joined>>

\* Destroy: the buffers are freed and the socket is closed; ErrorQuit if it was
\* closed already
Destroy(t) ==
  /\ At(t, "destroy")
  /\ sockOpen' = [sockOpen EXCEPT ![sess[t]] = FALSE]
  /\ Goto(t, IF sockOpen[sess[t]] THEN "push" ELSE "quit")
  /\ UNCHANGED <<IOcount, unique, canceled, recvIO, arrayVars, localVars, historyVars>>

MutPushForgets(t) ==
  /\ At(t, "push")
  /\ Goto(t, "idle")
  /\ UNCHANGED <<sessionVars, arrayVars, localVars, historyVars>>

PushSessionIndex(t) ==
  /\ At(t, "push")
  /\ freeIdx' = freeIdx \cup {sess[t]}
  /\ Goto(t, "idle")
  /\ UNCHANGED <<sessionVars, stamp, localVars, historyVars>>

-----------------------------------------------------------------------------
Init ==
  /\ IOcount = [s \in Slots |-> DELETE_FLAG_BIT]
  /\ unique = [s \in Slots |-> 0]
  /\ canceled = [s \in Slots |-> FALSE]
  /\ sockOpen = [s \in Slots |-> FALSE]
  /\ recvIO = [s \in Slots |-> "none"]
  /\ freeIdx = Slots
  /\ stamp = 1
  /\ pc = [t \in Threads |-> "idle"]
  /\ sess \in [Threads -> {CHOOSE s \in Slots : TRUE}]
  /\ tgt = [t \in Threads |-> 0]
  /\ issued = {}
  /\ joined = {}
  /\ left = {}

AllocStep(t) ==
  \/ SessionMax(t) \/ AllocSession(t)
  \/ InitializeRef(t) \/ InitializeFields(t) \/ InitializePublish(t)
  \/ OnClientJoin(t)

RecvStep(t) ==
  \/ RecvPost(t) \/ WSARecv(t)
  \/ RecheckCanceled(t) \/ RecvCancelIO(t)
  \/ RecvFailed(t) \/ RecvFailedCancelIO(t) \/ SubIOCount(t)

CompletionStep(t) == OnRecvComplete(t) \/ OperationAborted(t)

DisconnectStep(t) ==
  \/ AcquireDead(t) \/ AcquireUnique(t) \/ AlreadyCanceled(t)
  \/ DisconnectFlag(t) \/ DisconnectCancelIO(t) \/ DecrementIOCount(t)

ReleaseStep(t) ==
  SetDeleteFlag(t) \/ OnClientLeave(t) \/ Destroy(t) \/ PushSessionIndex(t)

\* what a thread does once it has begun
Continue(t) ==
  \/ AllocStep(t) \/ RecvStep(t) \/ CompletionStep(t)
  \/ DisconnectStep(t) \/ ReleaseStep(t)

Next ==
  \/ \E t \in Threads :
       \/ Accept(t)
       \/ \E id \in issued : FindSession(t, id)
       \/ \E s \in Slots : GetQueuedCompletion(t, s)
       \/ Continue(t)
  \/ \E s \in Slots : KernelCompletes(s)

\* A running thread is scheduled, and the completion port, a FIFO, hands every
\* queued completion to a worker. Nothing obliges a client, the kernel or a
\* caller to begin anything.
Fairness ==
  /\ \A t \in Threads : WF_vars(Continue(t))
  /\ \A s \in Slots : SF_vars(\E t \in Workers : GetQueuedCompletion(t, s))

Spec == Init /\ [][Next]_vars
FairSpec == Spec /\ Fairness
-----------------------------------------------------------------------------
(* What must hold.                                                         *)

\* positions at which a thread holds one, or two, references of its session
HoldTwo == {"post", "fail", "failcancel", "sub2"}
HoldOne == {"fields", "publish", "join", "inc", "recheck", "recancel",
            "recvd", "abort", "set", "cancel", "dec"} \cup FindPcs

\* positions at which a thread works on a session it believes to be its own
Acquired == HoldTwo \cup {"join", "inc", "recheck", "recancel", "recvd", "abort",
                          "canceled?", "set", "cancel"}

\* positions at which a thread owns a slot that is neither free nor alive
OwnerPcs == {"init", "fields", "publish", "leave", "destroy", "push"}

\* positions at which a thread uses recvPacket_ and recvOverlapped_, or is
\* about to post them
RecvUser == {"fields", "publish", "join", "inc", "post", "recvd"}

On(s, P) == {t \in Threads : sess[t] = s /\ pc[t] \in P}

RefsHeld(s) ==
  Cardinality(On(s, HoldOne \cup HoldTwo)) + Cardinality(On(s, HoldTwo))
    + (IF recvIO[s] = "none" THEN 0 ELSE 1)

\* Every reference of every session is accounted for: IOcount_ is the references
\* its threads and its receive hold, plus the delete flag. Every early return
\* and error path of RecvPost, OnRecvComplete, MyWorkerProc and FindSession drops
\* what it took, so "IOCount Under Zero" is never displayed.
RefsExact ==
  \A s \in Slots :
    IOcount[s] = RefsHeld(s) + (IF isDead(s) THEN DELETE_FLAG_BIT ELSE 0)

\* A thread past AcquireSession, a worker with a completion and the accept thread
\* that fills the session work on a session that is alive and still is the one
\* of their ID: nobody disconnects or posts a receive on the next user of a slot.
AcquiredIsOwn ==
  \A t \in Threads :
    pc[t] \in Acquired => ~isDead(sess[t]) /\ unique[sess[t]] = tgt[t]

\* A slot is free on the stack, or alive, or in the hands of exactly one thread
\* that sets it up or tears it down: no index is lost, pushed twice, or pushed
\* while its session lives.
SlotsPartition ==
  \A s \in Slots :
    /\ s \in freeIdx => On(s, OwnerPcs) = {}
    /\ \A t, r \in On(s, OwnerPcs) : t = r
    /\ isDead(s) <=> (s \in freeIdx \/ On(s, OwnerPcs) # {})

\* A session is released only when the kernel is done with its overlapped
\* structure, and its socket is open exactly while it lives or is being set up
\* or destroyed: no completion is queued for a session that is gone.
DeadHasNoIO ==
  \A s \in Slots :
    /\ isDead(s) => recvIO[s] = "none"
    /\ ~isDead(s) => sockOpen[s]

\* recvPacket_ and recvOverlapped_ have one user at a time: the thread that
\* posts or parses, or the kernel, never two.
OneReceiver ==
  \A s \in Slots :
    /\ \A t, r \in On(s, RecvUser) : t = r
    /\ recvIO[s] # "none" => On(s, RecvUser) = {}

\* ErrorQuit is never reached: a receive is aborted only in a session whose
\* isIOCanceled_ is set by then ("Recv Overlapped-IO Not Canceled"), and no
\* socket is closed twice ("Socket Closed Twice").
NeverQuits ==
  /\ \A s \in Slots : recvIO[s] = "aborted" => canceled[s]
  /\ \A t \in Threads : pc[t] # "quit"

\* OnClientLeave is called at most once for a session and never before its
\* OnClientJoin has returned, whichever threads race for the release.
LeaveOnceAfterJoin ==
  /\ \A t \in Threads : pc[t] = "leave" => unique[sess[t]] \in joined \ left
  /\ left \subseteq joined

\* What the safety properties rest on: who may be where, that a stamp names one
\* session, what the positions before a step already know.
ThreadSupport(t) ==
  /\ pc[t] \in AcceptPcs => t = Acceptor
  /\ pc[t] = "unique?" => ~isDead(sess[t])
  /\ pc[t] \in {"cancel", "recancel", "failcancel", "abort"} => canceled[sess[t]]
  /\ pc[t] \in {"publish", "leave", "destroy"} => sockOpen[sess[t]]
  /\ pc[t] \in {"init", "fields"} => \A s \in Slots : unique[s] # tgt[t]
  /\ pc[t] = "publish" => unique[sess[t]] = tgt[t]
  /\ pc[t] \in {"init", "fields", "publish"} => tgt[t] \in (1 .. stamp - 1) \ joined

SlotSupport(s) ==
  /\ unique[s] < stamp
  /\ \A r \in Slots : unique[s] = unique[r] => s = r \/ unique[s] = 0
  /\ ~isDead(s) =>
       /\ unique[s] \notin left \cup {0}
       /\ unique[s] \in joined \/ On(s, {"join"}) # {}

Support ==
  /\ \A t \in Threads : ThreadSupport(t)
  /\ \A s \in Slots : SlotSupport(s)
  /\ joined \subseteq 1 .. stamp - 1

IInv ==
  /\ TypeOK
  /\ RefsExact
  /\ AcquiredIsOwn
  /\ SlotsPartition
  /\ DeadHasNoIO
  /\ OneReceiver
  /\ NeverQuits
  /\ LeaveOnceAfterJoin
  /\ Support

\* A disconnected session does leave, also when the Disconnect fell between a
\* RecvPost's test of the flag and its WSARecv.
CanceledLeaves ==
  \A s \in Slots, u \in 1..MaxStamp :
    (~isDead(s) /\ canceled[s] /\ unique[s] = u) ~> (u \in left)

\* Every index that was taken comes back or its session stays alive: a torn down
\* slot is accepted into again.
SlotsComeBack ==
  \A s \in Slots : isDead(s) ~> (s \in freeIdx \/ ~isDead(s))
=============================================================================
