------------------------------ MODULE SendPath ------------------------------
(***************************************************************************)
(* The send side of one slot of the NetSessionArray: packets are queued by *)
(* any thread on sendQ_, the thread that wins isSending_ moves them to     *)
(* sentQ_ and gives them to one WSASend, and the worker that takes its     *)
(* completion frees them and sends what came in meanwhile.                 *)
(*                                                                         *)
(* A send holds two references of the session; isSendIOPending_ says when  *)
(* the second is dropped: at once, because sends pend (no send buffer), or *)
(* by the completion, because sends succeed at once (a large buffer).      *)
(*                                                                         *)
(* A packet stands for one reference of a NetPacket, as AddRef takes it    *)
(* and Free drops it. Accepting and receiving are those of SessionLife,    *)
(* with the steps that no send can see put together.                       *)
(***************************************************************************)
EXTENDS Integers, FiniteSets, Sequences

CONSTANTS
  Senders,         \* the threads of the application
  Workers,         \* the threads in MyWorkerProc
  Acceptor,        \* the thread in MyAcceptProc
  Packets,         \* bound of the model: each is sent once
  NoPacket,
  MaxStamp,        \* bound of the model: that many sessions use the slot
  Ops,             \* what the application calls
  isSendIOPending, \* the parameter useSendIOPending of Start
  SendResults,     \* what WSASend answers: success, pending, error
  MAX_SIZE,        \* eNET_PACKET_SEND_Q_MAX_SIZE
  DELETE_FLAG_BIT  \* 0x8000, bit 15 of IOcount_

Threads == Senders \cup Workers \cup {Acceptor}

\* the calls of the application: the first three find the session themselves,
\* the others post a packet that a worker finds the session for
CallOps == {"SendPacket", "AsyncSendPacket", "Disconnect"}
PostOps == {"SENDPACKET", "SEND_DISCONNECT"}

\* A thread holds at most two references, as does a posted sign or a send, and a
\* receive holds one: the count stays below the delete flag.
ASSUME ThreadsAssumption ==
  /\ IsFiniteSet(Threads) /\ IsFiniteSet(Packets)
  /\ DELETE_FLAG_BIT \in Nat
  /\ 2 * Cardinality(Threads) + 2 * Cardinality(Packets) + 3 < DELETE_FLAG_BIT
  /\ NoPacket \notin Packets
  /\ Senders \cap Workers = {} /\ Acceptor \notin Senders \cup Workers
ASSUME BoundsAssumption == MaxStamp \in Nat \ {0} /\ MAX_SIZE \in Nat \ {0}
ASSUME ModeAssumption ==
  /\ isSendIOPending \in BOOLEAN
  /\ SendResults \subseteq {"success", "pending", "error"}
  /\ Ops \subseteq CallOps \cup PostOps

VARIABLES
  IOcount, unique, canceled,
  isSending, sendQ, sentQ,
  recvIO, sendIO,  \* the overlapped receive and send, in the kernel's hands
  posts,           \* what is posted to the completion port
  isFree,          \* the index is on sessionIndexStack_
  pc, job,         \* where a thread is, and the call it works on
  idOf, freed,     \* history: the session a packet was taken for; Free's of it
  sentOn           \* history: the session a packet was given to WSASend on

sessionVars == <<IOcount, unique, canceled>>
sendVars    == <<isSending, sendQ, sentQ>>
ioVars      == <<recvIO, sendIO, posts>>
historyVars == <<idOf, freed, sentOn>>
vars == <<sessionVars, sendVars, ioVars, isFree, pc, job, historyVars>>

Jobs == [op : CallOps \cup PostOps \cup {"SENDSIGN", "IO"},
         packet : Packets \cup {NoPacket}, unique : 0..MaxStamp]
NoJob == [op |-> "IO", packet |-> NoPacket, unique |-> 0]

FindPcs == {"dead?", "unique?"}
PostPcs == {"flag", "free", "fill", "wsasend"}
Pcs == {"idle", "publish", "canceled?", "enqueue", "link", "sign?", "clear",
        "recheck", "recancel", "fail", "failcancel", "sub2", "last", "lastcancel", "spin",
        "inc", "sent?", "sentclear", "abort", "set", "cancel", "dec",
        "cas", "destroy", "push", "quit", "crash"} \cup FindPcs \cup PostPcs

TypeOK ==
  /\ IOcount \in 0 .. 2 * DELETE_FLAG_BIT - 1
  /\ unique \in 0..MaxStamp
  /\ canceled \in BOOLEAN /\ isSending \in BOOLEAN /\ isFree \in BOOLEAN
  /\ sendQ \in Seq(Packets) /\ sentQ \in Seq(Packets)
  /\ recvIO \in {"none", "posted", "fin", "aborted"}
  /\ sendIO \in {"none", "posted", "done", "reset", "aborted"}
  /\ posts \subseteq Jobs
  /\ pc \in [Threads -> Pcs]
  /\ job \in [Threads -> Jobs]
  /\ idOf \in [Packets -> 0..MaxStamp]
  /\ freed \in [Packets -> 0..1]
  /\ sentOn \in [Packets -> 0..MaxStamp]

-----------------------------------------------------------------------------
isDead == IOcount >= DELETE_FLAG_BIT

\* the 16-bit word
AddIOCount(n) == IOcount' = (IOcount + n) % (2 * DELETE_FLAG_BIT)

Goto(t, l) == pc' = [pc EXCEPT ![t] = l]
At(t, l) == pc[t] = l
Begin(t, j) == job' = [job EXCEPT ![t] = j]

\* DecrementIOCount and SubIOCount: who reaches zero releases
DropRefs(t, n) ==
  /\ AddIOCount(2 * DELETE_FLAG_BIT - n)
  /\ Goto(t, IF IOcount = n THEN "cas" ELSE "idle")
  /\ Begin(t, NoJob)

\* CancelIoEx: what is in flight ends with ERROR_OPERATION_ABORTED
Aborted(io) == IF io = "posted" THEN "aborted" ELSE io
CancelIO == recvIO' = Aborted(recvIO) /\ sendIO' = Aborted(sendIO)

Elements(q) == {q[i] : i \in DOMAIN q}
Free(ps) == freed' = [p \in Packets |-> freed[p] + (IF p \in ps THEN 1 ELSE 0)]

\* isSending_ and the packets, as far as a step leaves them alone
KeepSend == UNCHANGED <<sendVars, historyVars>>
-----------------------------------------------------------------------------
(* MyAcceptProc and NetSession::Initialize, up to the first receive        *)

InitializeRef(t) ==
  /\ t = Acceptor /\ At(t, "idle")
  /\ isFree /\ unique < MaxStamp
  /\ isFree' = FALSE
  /\ AddIOCount(1)
  /\ Goto(t, "publish")
  /\ KeepSend /\ UNCHANGED <<unique, canceled, ioVars, job>>

InitializePublish(t) ==
  /\ At(t, "publish")
  /\ IOcount' = IOcount % DELETE_FLAG_BIT
  /\ unique' = unique + 1
  /\ canceled' = FALSE
  /\ recvIO' = "posted"
  /\ Goto(t, "idle")
  /\ KeepSend /\ UNCHANGED <<sendIO, posts, isFree, job>>

-----------------------------------------------------------------------------
(* The calls of the application, with any ID it has ever been given        *)

Unused(p) == idOf[p] = 0 /\ \A t \in Threads : job[t].packet # p

\* SendPacket and AsyncSendPacket begin with FindSessionForSendPacket, Disconnect
\* with FindSession
Refs(op) == IF op = "Disconnect" THEN 1 ELSE 2

Call(t, op, p, u) ==
  /\ t \in Senders /\ At(t, "idle")
  /\ op \in Ops \cap CallOps
  /\ p = NoPacket <=> op = "Disconnect"
  /\ p # NoPacket => Unused(p)
  /\ AddIOCount(Refs(op))
  /\ Begin(t, [op |-> op, packet |-> p, unique |-> u])
  /\ Goto(t, "dead?")
  /\ KeepSend /\ UNCHANGED <<unique, canceled, ioVars, isFree>>

\* AsyncSendPacket and DisconnectAfterLastMessage for a set of IDs, and the
\* latter for one: AddRef, Encode and PostQueuedCompletionStatus
PostPacket(t, op, p, u) ==
  /\ t \in Senders /\ At(t, "idle")
  /\ op \in Ops \cap PostOps
  /\ p # NoPacket /\ Unused(p)
  /\ idOf' = [idOf EXCEPT ![p] = u]
  /\ posts' = posts \cup {[op |-> op, packet |-> p, unique |-> u]}
  /\ UNCHANGED <<sessionVars, sendVars, recvIO, sendIO, isFree, pc, job, freed, sentOn>>

\* AcquireSession fails: the references are dropped, and a posted packet is freed
Refuse(t) ==
  /\ Goto(t, IF job[t].op = "Disconnect" THEN "dec" ELSE "sub2")
  /\ Free(IF job[t].op \in PostOps THEN {job[t].packet} ELSE {})
  /\ Begin(t, NoJob)
  /\ UNCHANGED idOf

AcquireDead(t) ==
  /\ At(t, "dead?")
  /\ IF isDead THEN Refuse(t)
     ELSE Goto(t, "unique?") /\ UNCHANGED <<job, idOf, freed>>
  /\ UNCHANGED <<sessionVars, sendVars, ioVars, isFree, sentOn>>

\* acquired; SendPacket and AsyncSendPacket take their reference of the packet
Acquired(t) ==
  IF job[t].op = "Disconnect"
  THEN Goto(t, "canceled?") /\ UNCHANGED <<job, idOf, freed>>
  ELSE /\ Goto(t, "enqueue")
       /\ idOf' = [idOf EXCEPT ![job[t].packet] = job[t].unique]
       /\ UNCHANGED <<job, freed>>

MutAcquireIgnoresID(t) ==
  /\ At(t, "unique?")
  /\ Acquired(t)
  /\ UNCHANGED <<sessionVars, sendVars, ioVars, isFree, sentOn>>

AcquireUnique(t) ==
  /\ At(t, "unique?")
  /\ IF unique = job[t].unique THEN Acquired(t) ELSE Refuse(t)
  /\ UNCHANGED <<sessionVars, sendVars, ioVars, isFree, sentOn>>

AlreadyCanceled(t) ==
  /\ At(t, "canceled?")
  /\ Goto(t, IF canceled THEN "dec" ELSE "set")
  /\ KeepSend /\ UNCHANGED <<sessionVars, ioVars, isFree, job>>

-----------------------------------------------------------------------------
(* EnqueueSendQ, and what each caller does after it                        *)

MutRefusedKeepsPacket(t) ==
  /\ At(t, "enqueue")
  /\ IF canceled \/ Len(sendQ) >= MAX_SIZE
       THEN Goto(t, "fail") /\ Begin(t, NoJob)
       ELSE Goto(t, "link") /\ UNCHANGED job
  /\ UNCHANGED <<sessionVars, sendVars, ioVars, isFree, historyVars>>

\* canceled or full: DisconnectSessionForSendPacket, and the packet is freed
EnqueueSendQ(t) ==
  /\ At(t, "enqueue")
  /\ IF canceled \/ Len(sendQ) >= MAX_SIZE
       THEN Goto(t, "fail") /\ Free({job[t].packet}) /\ Begin(t, NoJob)
       ELSE Goto(t, "link") /\ UNCHANGED <<job, freed>>
  /\ UNCHANGED <<sessionVars, sendVars, ioVars, isFree, idOf, sentOn>>

AfterEnqueue(op) ==
  CASE op = "AsyncSendPacket" -> "sign?"
    [] op = "SEND_DISCONNECT" -> "last"
    [] OTHER -> "flag"

Enqueue(t) ==
  /\ At(t, "link")
  /\ sendQ' = Append(sendQ, job[t].packet)
  /\ Goto(t, AfterEnqueue(job[t].op))
  /\ Begin(t, IF job[t].op \in {"AsyncSendPacket", "SEND_DISCONNECT"} THEN job[t] ELSE NoJob)
  /\ UNCHANGED <<sessionVars, isSending, sentQ, ioVars, isFree, historyVars>>

\* AsyncSendPacket: the sign takes the ID and the two references to a worker (the
\* packet only tells the signs apart)
PostSign(t) ==
  /\ At(t, "sign?")
  /\ IF isSending THEN Goto(t, "sub2") /\ UNCHANGED posts
     ELSE Goto(t, "idle") /\ posts' = posts \cup {[job[t] EXCEPT !.op = "SENDSIGN"]}
  /\ Begin(t, NoJob)
  /\ KeepSend /\ UNCHANGED <<sessionVars, recvIO, sendIO, isFree>>

-----------------------------------------------------------------------------
(* NetSession::SendPost and SendAndDisconnectPost. The caller has two      *)
(* references; the job is SEND_DISCONNECT in the second.                   *)

isLast(t) == job[t].op = "SEND_DISCONNECT"

\* SendAndDisconnectPost begins with Disconnect
LastFlag(t) ==
  /\ At(t, "last")
  /\ canceled' = TRUE
  /\ Goto(t, "lastcancel")
  /\ KeepSend /\ UNCHANGED <<IOcount, unique, ioVars, isFree, job>>

LastCancelIO(t) ==
  /\ At(t, "lastcancel")
  /\ CancelIO
  /\ Goto(t, "spin")
  /\ KeepSend /\ UNCHANGED <<sessionVars, posts, isFree, job>>

\* ... and spins until the flag is its own
SpinForSendFlag(t) ==
  /\ At(t, "spin") /\ ~isSending
  /\ isSending' = TRUE
  /\ Goto(t, "free")
  /\ UNCHANGED <<sessionVars, sendQ, sentQ, ioVars, isFree, job, historyVars>>

MutFlagNotTested(t) ==
  /\ At(t, "flag")
  /\ isSending' = TRUE
  /\ Goto(t, "free")
  /\ UNCHANGED <<sessionVars, sendQ, sentQ, ioVars, isFree, job, historyVars>>

\* SendPost gives up instead: SEND_FAILURE_NOT_OKAY_TO_SEND
TrySendFlag(t) ==
  /\ At(t, "flag")
  /\ isSending' = TRUE
  /\ Goto(t, IF isSending THEN "sub2" ELSE "free")
  /\ UNCHANGED <<sessionVars, sendQ, sentQ, ioVars, isFree, job, historyVars>>

MutFreeKeepsCount(t) ==
  /\ At(t, "free")
  /\ Free(Elements(sentQ))
  /\ Goto(t, "fill")
  /\ UNCHANGED <<sessionVars, sendVars, ioVars, isFree, job, idOf, sentOn>>

\* the packets of the send that was completed last
FreeSentPacket(t) ==
  /\ At(t, "free")
  /\ Free(Elements(sentQ))
  /\ sentQ' = <<>>
  /\ Goto(t, "fill")
  /\ UNCHANGED <<sessionVars, isSending, sendQ, ioVars, isFree, job, idOf, sentOn>>

\* one round of the loop; once sendQ_ is seen empty, SendPost tests the number
\* of packets, which sentQ_ has had to hold by then
DequeueSendQ(t) ==
  /\ At(t, "fill") /\ sendQ # <<>>
  /\ sentQ' = Append(sentQ, Head(sendQ))
  /\ sendQ' = Tail(sendQ)
  /\ UNCHANGED <<sessionVars, isSending, ioVars, isFree, pc, job, historyVars>>

SendQEmpty(t) ==
  /\ At(t, "fill") /\ sendQ = <<>>
  /\ Goto(t, IF Len(sentQ) > MAX_SIZE /\ ~isLast(t) THEN "crash"
             ELSE IF sentQ = <<>> THEN "clear" ELSE "wsasend")
  /\ KeepSend /\ UNCHANGED <<sessionVars, ioVars, isFree, job>>

MutEmptyKeepsFlag(t) ==
  /\ At(t, "clear")
  /\ Goto(t, "sub2")
  /\ KeepSend /\ UNCHANGED <<sessionVars, ioVars, isFree, job>>

\* SEND_FAILURE_SENDQ_EMPTY
SetSendFlagFalse(t) ==
  /\ At(t, "clear")
  /\ isSending' = FALSE
  /\ Goto(t, "sub2")
  /\ UNCHANGED <<sessionVars, sendQ, sentQ, ioVars, isFree, job, historyVars>>

\* A pending send of SendPost is looked at again, since a Disconnect may just have
\* found nothing to cancel; then the mode decides what SUCCESS_IO_PENDING means
AfterPending == IF isSendIOPending THEN "dec" ELSE "set"

WSASend(t) ==
  /\ At(t, "wsasend")
  /\ \/ /\ "success" \in SendResults
        /\ sendIO' = "done" /\ Goto(t, "idle") /\ Begin(t, NoJob)
     \/ /\ "pending" \in SendResults
        /\ sendIO' = "posted"
        /\ Goto(t, IF isLast(t) THEN AfterPending ELSE "recheck")
        /\ UNCHANGED job
     \/ /\ "error" \in SendResults
        /\ Goto(t, "fail") /\ UNCHANGED <<sendIO, job>>
  /\ sentOn' = IF sendIO' = sendIO THEN sentOn
               ELSE [p \in Packets |-> IF p \in Elements(sentQ) THEN unique ELSE sentOn[p]]
  /\ UNCHANGED <<sessionVars, sendVars, recvIO, posts, isFree, idOf, freed>>

MutNoRecheck(t) ==
  /\ At(t, "recheck")
  /\ Goto(t, AfterPending)
  /\ KeepSend /\ UNCHANGED <<sessionVars, ioVars, isFree, job>>

RecheckCanceled(t) ==
  /\ At(t, "recheck")
  /\ Goto(t, IF canceled THEN "recancel" ELSE AfterPending)
  /\ KeepSend /\ UNCHANGED <<sessionVars, ioVars, isFree, job>>

SendCancelIO(t) ==
  /\ At(t, "recancel")
  /\ CancelIO
  /\ Goto(t, "dec")
  /\ KeepSend /\ UNCHANGED <<sessionVars, posts, isFree, job>>

\* ErrorCheck of a failed WSASend, and DisconnectSessionForSendPacket
SendFailed(t) ==
  /\ At(t, "fail")
  /\ canceled' = TRUE
  /\ Goto(t, "failcancel")
  /\ KeepSend /\ UNCHANGED <<IOcount, unique, ioVars, isFree, job>>

SendFailedCancelIO(t) ==
  /\ At(t, "failcancel")
  /\ CancelIO
  /\ Goto(t, "sub2")
  /\ KeepSend /\ UNCHANGED <<sessionVars, posts, isFree, job>>

SubIOCount(t) ==
  /\ At(t, "sub2")
  /\ DropRefs(t, 2)
  /\ KeepSend /\ UNCHANGED <<unique, canceled, ioVars, isFree>>

-----------------------------------------------------------------------------
(* MyWorkerProc                                                            *)

\* the peer closes, or the network fails
KernelEndsRecv ==
  /\ recvIO = "posted" /\ recvIO' = "fin"
  /\ KeepSend /\ UNCHANGED <<sessionVars, sendIO, posts, isFree, pc, job>>

\* the send is through, or the peer resets the connection
KernelEndsSend ==
  /\ sendIO = "posted" /\ sendIO' \in {"done", "reset"}
  /\ KeepSend /\ UNCHANGED <<sessionVars, recvIO, posts, isFree, pc, job>>

RecvCompletion(t) ==
  /\ t \in Workers /\ At(t, "idle")
  /\ recvIO \in {"fin", "aborted"}
  /\ recvIO' = "none"
  /\ Goto(t, IF recvIO = "fin" THEN "set" ELSE "abort")
  /\ KeepSend /\ UNCHANGED <<sessionVars, sendIO, posts, isFree, job>>

MutCompletionNoRef(t) ==
  /\ t \in Workers /\ At(t, "idle")
  /\ sendIO \in {"done", "reset", "aborted"}
  /\ sendIO' = "none"
  /\ Goto(t, CASE sendIO = "reset" -> "set" [] sendIO = "aborted" -> "abort" [] OTHER -> "sent?")
  /\ KeepSend /\ UNCHANGED <<sessionVars, recvIO, posts, isFree, job>>

\* OnSendComplete begins with a second reference if the send kept only one
SendCompletion(t) ==
  /\ t \in Workers /\ At(t, "idle")
  /\ sendIO \in {"done", "reset", "aborted"}
  /\ sendIO' = "none"
  /\ Goto(t, CASE sendIO = "reset" -> "set"
               [] sendIO = "aborted" -> "abort"
               [] OTHER -> IF isSendIOPending THEN "inc" ELSE "sent?")
  /\ KeepSend /\ UNCHANGED <<sessionVars, recvIO, posts, isFree, job>>

OnSendComplete(t) ==
  /\ At(t, "inc")
  /\ AddIOCount(1)
  /\ Goto(t, "sent?")
  /\ KeepSend /\ UNCHANGED <<unique, canceled, ioVars, isFree, job>>

\* a canceled session sends no more; otherwise OnSend is called
SentCanceled(t) ==
  /\ At(t, "sent?")
  /\ Goto(t, IF canceled THEN "sub2" ELSE "sentclear")
  /\ KeepSend /\ UNCHANGED <<sessionVars, ioVars, isFree, job>>

\* SetSendFlagFalse and SendPost
SentFlagFalse(t) ==
  /\ At(t, "sentclear")
  /\ isSending' = FALSE
  /\ Goto(t, "flag")
  /\ UNCHANGED <<sessionVars, sendQ, sentQ, ioVars, isFree, job, historyVars>>

\* ERROR_OPERATION_ABORTED: ErrorQuit unless the session is canceled
OperationAborted(t) ==
  /\ At(t, "abort")
  /\ Goto(t, IF canceled THEN "dec" ELSE "quit")
  /\ KeepSend /\ UNCHANGED <<sessionVars, ioVars, isFree, job>>

\* PostOtherProcedures
TakePost(t, j) ==
  /\ t \in Workers /\ At(t, "idle")
  /\ j \in posts /\ posts' = posts \ {j}
  /\ IF j.op = "SENDSIGN"
       THEN Goto(t, "flag") /\ UNCHANGED <<IOcount, job>>
       ELSE Goto(t, "dead?") /\ AddIOCount(2) /\ Begin(t, j)
  /\ KeepSend /\ UNCHANGED <<unique, canceled, recvIO, sendIO, isFree>>

-----------------------------------------------------------------------------
(* DisconnectSession, ReleaseSession and NetSession::Destroy               *)

MutCancelFirst(t) ==
  /\ At(t, "set")
  /\ CancelIO
  /\ Goto(t, "cancel")
  /\ KeepSend /\ UNCHANGED <<sessionVars, posts, isFree, job>>

DisconnectFlag(t) ==
  /\ At(t, "set")
  /\ canceled' = TRUE
  /\ Goto(t, "cancel")
  /\ KeepSend /\ UNCHANGED <<IOcount, unique, ioVars, isFree, job>>

DisconnectCancelIO(t) ==
  /\ At(t, "cancel")
  /\ CancelIO
  /\ Goto(t, "dec")
  /\ KeepSend /\ UNCHANGED <<sessionVars, posts, isFree, job>>

DecrementIOCount(t) ==
  /\ At(t, "dec")
  /\ DropRefs(t, 1)
  /\ KeepSend /\ UNCHANGED <<unique, canceled, ioVars, isFree>>

MutReleaseUnchecked(t) ==
  /\ At(t, "cas")
  /\ IOcount' = DELETE_FLAG_BIT
  /\ Goto(t, "destroy")
  /\ KeepSend /\ UNCHANGED <<unique, canceled, ioVars, isFree, job>>

SetDeleteFlag(t) ==
  /\ At(t, "cas")
  /\ IF IOcount = 0
       THEN IOcount' = DELETE_FLAG_BIT /\ Goto(t, "destroy")
       ELSE Goto(t, "idle") /\ UNCHANGED IOcount
  /\ KeepSend /\ UNCHANGED <<unique, canceled, ioVars, isFree, job>>

MutDestroyKeepsFlag(t) ==
  /\ At(t, "destroy")
  /\ Free(Elements(sentQ) \cup Elements(sendQ))
  /\ sentQ' = <<>> /\ sendQ' = <<>>
  /\ Goto(t, "push")
  /\ UNCHANGED <<sessionVars, isSending, ioVars, isFree, job, idOf, sentOn>>

\* FreeSentPacket, SetSendFlagFalse, and what is left in sendQ_ is freed
Destroy(t) ==
  /\ At(t, "destroy")
  /\ Free(Elements(sentQ) \cup Elements(sendQ))
  /\ sentQ' = <<>> /\ sendQ' = <<>>
  /\ isSending' = FALSE
  /\ Goto(t, "push")
  /\ UNCHANGED <<sessionVars, ioVars, isFree, job, idOf, sentOn>>

PushSessionIndex(t) ==
  /\ At(t, "push")
  /\ isFree' = TRUE
  /\ Goto(t, "idle")
  /\ KeepSend /\ UNCHANGED <<sessionVars, ioVars, job>>

-----------------------------------------------------------------------------
Init ==
  /\ IOcount = DELETE_FLAG_BIT /\ unique = 0 /\ canceled = FALSE
  /\ isSending = FALSE /\ sendQ = <<>> /\ sentQ = <<>>
  /\ recvIO = "none" /\ sendIO = "none" /\ posts = {}
  /\ isFree = TRUE
  /\ pc = [t \in Threads |-> "idle"]
  /\ job = [t \in Threads |-> NoJob]
  /\ idOf = [p \in Packets |-> 0]
  /\ freed = [p \in Packets |-> 0]
  /\ sentOn = [p \in Packets |-> 0]

FindStep(t) ==
  AcquireDead(t) \/ AcquireUnique(t) \/ AlreadyCanceled(t)
EnqueueStep(t) == EnqueueSendQ(t) \/ Enqueue(t) \/ PostSign(t)
PostStep(t) ==
  \/ LastFlag(t) \/ LastCancelIO(t) \/ SpinForSendFlag(t)
  \/ TrySendFlag(t) \/ FreeSentPacket(t) \/ DequeueSendQ(t) \/ SendQEmpty(t)
  \/ SetSendFlagFalse(t) \/ WSASend(t)
  \/ RecheckCanceled(t) \/ SendCancelIO(t)
  \/ SendFailed(t) \/ SendFailedCancelIO(t) \/ SubIOCount(t)
CompletionStep(t) ==
  OnSendComplete(t) \/ SentCanceled(t) \/ SentFlagFalse(t) \/ OperationAborted(t)
ReleaseStep(t) ==
  \/ DisconnectFlag(t) \/ DisconnectCancelIO(t) \/ DecrementIOCount(t)
  \/ SetDeleteFlag(t) \/ Destroy(t) \/ PushSessionIndex(t)

\* what a thread does once it has begun
Continue(t) ==
  \/ InitializePublish(t) \/ FindStep(t) \/ EnqueueStep(t) \/ PostStep(t)
  \/ CompletionStep(t) \/ ReleaseStep(t)

GetQueuedCompletion(t) ==
  RecvCompletion(t) \/ SendCompletion(t) \/ (\E j \in posts : TakePost(t, j))

Next ==
  \/ \E t \in Threads :
       \/ InitializeRef(t)
       \/ \E op \in Ops, p \in Packets \cup {NoPacket}, u \in 1..unique :
            Call(t, op, p, u) \/ PostPacket(t, op, p, u)
       \/ GetQueuedCompletion(t)
       \/ Continue(t)
  \/ KernelEndsRecv \/ KernelEndsSend

\* Running threads are scheduled and the completion port is a FIFO. Nothing obliges
\* a peer to read: a send may pend for ever.
Fairness ==
  /\ \A t \in Threads : WF_vars(Continue(t))
  /\ SF_vars(\E t \in Workers : RecvCompletion(t))
  /\ SF_vars(\E t \in Workers : SendCompletion(t))
  /\ SF_vars(\E t \in Workers, j \in posts : TakePost(t, j))

Spec == Init /\ [][Next]_vars
FairSpec == Spec /\ Fairness
-----------------------------------------------------------------------------
(* What must hold.                                                         *)

HoldOne == {"publish", "canceled?", "recheck", "recancel", "inc", "abort", "set", "cancel", "dec"}
HoldTwo == {"enqueue", "link", "sign?", "clear", "fail", "failcancel", "sub2", "last",
            "lastcancel", "spin", "sent?", "sentclear", "crash"} \cup PostPcs

Held(t) ==
  IF pc[t] \in FindPcs THEN Refs(job[t].op)
  ELSE IF pc[t] \in HoldTwo THEN 2 ELSE IF pc[t] \in HoldOne THEN 1 ELSE 0

Signs == {j \in posts : j.op = "SENDSIGN"}

HeldBySend ==
  CASE sendIO = "none" -> 0
    [] sendIO = "done" /\ ~isSendIOPending -> 2
    [] OTHER -> 1

RefsHeld ==
  Cardinality({t \in Threads : Held(t) >= 1}) + Cardinality({t \in Threads : Held(t) = 2})
    + 2 * Cardinality(Signs) + HeldBySend + (IF recvIO = "none" THEN 0 ELSE 1)

\* Every reference is accounted for on every path of the send: what a posted sign
\* carries, the one or two a send in the kernel keeps, the one OnSendComplete adds,
\* and those each error path gives back.
RefsExact == IOcount = RefsHeld + (IF isDead THEN DELETE_FLAG_BIT ELSE 0)

\* "IOCount Under Zero" is never displayed: nobody drops a reference of a session
\* that was released without knowing of it.
NeverUnderZero ==
  \A t \in Threads : pc[t] \in {"dec", "sub2"} => IOcount # DELETE_FLAG_BIT

\* the positions that use sentQ_ and sendOverlapped_, on behalf of isSending_
SendUsers == {t \in Threads : pc[t] \in {"free", "fill", "wsasend", "clear", "inc", "sent?", "sentclear"}}

\* sentQ_ and sendOverlapped_ have one user at a time, a thread or the kernel, and
\* isSending_ is set as long as there is one: the buffers that WSASend was given
\* are neither freed nor overwritten before its completion is taken.
OneSender ==
  /\ \A t, r \in SendUsers : t = r
  /\ sendIO # "none" => SendUsers = {}
  /\ (sendIO # "none" \/ SendUsers # {}) => isSending

Count(q, p) == Cardinality({i \in DOMAIN q : q[i] = p})
Carriers(p) ==
  {t \in Threads : /\ job[t].packet = p
                   /\ \/ pc[t] \in {"enqueue", "link"}
                      \/ pc[t] \in FindPcs /\ job[t].op \in PostOps}
PostsOf(p) == {j \in posts : j.packet = p /\ j.op # "SENDSIGN"}

\* A packet the server took a reference of is in one place, and freed once when it
\* leaves the last: nothing leaks and nothing is freed twice, whether it was sent,
\* refused, canceled or left over when the session was released.
PacketsAccounted ==
  \A p \in Packets :
    Count(sendQ, p) + Count(sentQ, p) + Cardinality(Carriers(p)) + Cardinality(PostsOf(p))
      + freed[p] = IF idOf[p] = 0 THEN 0 ELSE 1

\* What was sent to one client never goes out on the connection of the next that
\* uses the slot.
SentToItsOwn == \A p \in Packets : sentOn[p] \in {0, idOf[p]}

\* A session is left, and the next one starts, with no packet and no send of it.
ReleasedClean ==
  /\ isDead => sendIO = "none" /\ recvIO = "none"
  /\ isFree \/ (\E t \in Threads : pc[t] \in {"push", "publish"}) =>
       sendQ = <<>> /\ sentQ = <<>> /\ ~isSending

\* A packet goes to the session it was meant for, and the next session of the slot
\* finds nothing of the one before (NetSession.cpp 60-93).
NothingLeftOver == SentToItsOwn /\ ReleasedClean

\* IOcount_ is what threads, signs, sends and the receive hold, in either mode of
\* sending, and no thread brings it under zero (NetServer.cpp 366-942).
RefsAccounted == TypeOK /\ RefsExact /\ NeverUnderZero

\* ErrorQuit is never reached: an operation is aborted only in a session whose
\* isIOCanceled_ is set ("Send Overlapped-IO Not Canceled - 995").
NeverQuits == \A t \in Threads : pc[t] # "quit"

\* What the safety properties rest on. The first is about the way a server is started:
\* sends pend, or they succeed at once, as useSendIOPending says they do.
SendsFitMode ==
  IF isSendIOPending THEN "success" \notin SendResults ELSE "pending" \notin SendResults

\* the positions at which a thread knows that its session is not released
AlivePcs ==
  {"unique?", "canceled?", "recheck", "recancel", "inc", "abort", "set", "cancel"}
    \cup (HoldTwo \ {"sub2"})
\* the positions of who owns a slot that nobody else may use
OwnerPcs == {"publish", "destroy", "push"}
Owners == {t \in Threads : pc[t] \in OwnerPcs}

\* A slot is on the stack, has one owner, or is alive, and who has acquired its
\* session or holds a sign for it keeps it alive.
SlotPlaced ==
  /\ isDead <=> (isFree \/ Owners # {})
  /\ isFree => Owners = {}
  /\ \A t, r \in Owners : t = r
  /\ (\E t \in Threads : pc[t] \in AlivePcs) \/ Signs # {} => ~isDead

\* CancelIoEx follows isIOCanceled_, and aborts nothing before it.
CanceledBefore ==
  /\ recvIO = "aborted" \/ sendIO = "aborted" => canceled
  /\ \A t \in Threads :
       pc[t] \in {"lastcancel", "recancel", "failcancel", "cancel", "abort"} => canceled

\* The two modes: what is in flight, and where a thread may be on its behalf.
ModeKept ==
  IF isSendIOPending THEN TRUE
  ELSE /\ sendIO \in {"none", "done"}
       /\ \A t \in Threads : pc[t] \notin {"recheck", "recancel", "inc"}

\* A packet is in the hands of one call, posted or running.
OneCallEach ==
  /\ \A t, r \in Threads : job[t].packet = job[r].packet => t = r \/ job[t].packet = NoPacket
  /\ \A t \in Threads, j \in posts : job[t].packet # j.packet
  /\ \A j, k \in posts : j.packet = k.packet => j = k

\* What a thread knows of its call, its packet and its session.
CallSupport(t) ==
  /\ pc[t] = "publish" => unique < MaxStamp
  /\ pc[t] \in {"idle", "cas"} \cup OwnerPcs => job[t] = NoJob
  /\ pc[t] \in FindPcs =>
       /\ job[t].op \in CallOps \cup PostOps
       /\ job[t].unique # 0
       /\ job[t].op = "Disconnect" <=> job[t].packet = NoPacket
       /\ job[t].op \in PostOps => idOf[job[t].packet] = job[t].unique
       /\ job[t].op \in {"SendPacket", "AsyncSendPacket"} => idOf[job[t].packet] = 0
  /\ pc[t] \in {"enqueue", "link"} =>
       /\ job[t].packet \in Packets
       /\ idOf[job[t].packet] = job[t].unique
       /\ job[t].unique = unique
       /\ job[t].unique # 0
  /\ pc[t] = "sign?" => job[t].packet \in Packets /\ idOf[job[t].packet] # 0

PostSupport(j) ==
  /\ j.op \in PostOps \cup {"SENDSIGN"}
  /\ j.packet \in Packets
  /\ idOf[j.packet] # 0
  /\ j.op \in PostOps => idOf[j.packet] = j.unique

\* Packets in the two queues are meant for the session that has the slot.
QueuedForThis == \A p \in Elements(sendQ) \cup Elements(sentQ) : idOf[p] = unique

Support ==
  /\ SlotPlaced /\ CanceledBefore /\ ModeKept /\ OneCallEach
  /\ \A t \in Threads : CallSupport(t)
  /\ \A j \in posts : PostSupport(j)
  /\ QueuedForThis

IInv ==
  /\ TypeOK /\ RefsExact /\ OneSender /\ NeverQuits
  /\ PacketsAccounted /\ SentToItsOwn /\ ReleasedClean
  /\ Support

\* SendPost never has to hold more packets than sentQ_ has room for; it ends the
\* process if it had to.
SentQFits == Len(sentQ) <= MAX_SIZE

\* isSending_ comes back: in a session that is not canceled the flag does not stay
\* set with nobody to clear it, unless it is the kernel that holds the send.
FlagComesBack ==
  (isSending /\ ~canceled) ~> (~isSending \/ canceled \/ sendIO = "posted")

\* A disconnected session is released, whatever its peer does, also when the
\* Disconnect fell between the test of isIOCanceled_ and WSASend. Two things can
\* keep it, and both need DisconnectAfterLastMessage: a worker that spins for a flag
\* which a canceled session does not give back, or a peer that does not take the
\* last message, which no Disconnect cancels any more.
LastMessage == <>(\E t \in Threads : pc[t] = "last")
CanceledLeaves ==
  \/ []<>(~canceled \/ isDead)
  \/ LastMessage /\ (<>[](\E t \in Threads : pc[t] = "spin") \/ <>[](sendIO = "posted"))

(* Sends settle: the flag comes back, and a canceled session is released,  *)
(* in every order of producers, workers and kernel (NetSession.cpp         *)
(* 136-256, NetServer.cpp 834-942).                                        *)
SendsSettle == FlagComesBack /\ CanceledLeaves
=============================================================================
