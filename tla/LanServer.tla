------------------------------ MODULE LanServer ------------------------------
(***************************************************************************)
(* LanRoot, the server without encryption, and its LanPipes, as a whole:   *)
(* accept, receive, the sends and broadcasts of the application, last      *)
(* messages, pipes, Start and Stop. A step is a handler or one turn of a   *)
(* handler's loop; what threads do between the instructions of a handler   *)
(* is the subject of SessionLife, SendPath and Pipes.                      *)
(*                                                                         *)
(* Whoever brings IOcount_ to zero releases the session in the same step.  *)
(* The properties are those of a server whose sends fit its mode           *)
(* (SendsFitMode); what comes of one that does not is in MCLanLast.cfg.    *)
(***************************************************************************)
EXTENDS Integers, FiniteSets, Sequences

CONSTANTS
  Slots, Workers, Packets, Pipes, NoPipe,
  CodeOf,            \* the code a pipe is registered with
  Broadcasts,        \* the LanSessionIDSets the application sends to
  MAX_SIZE,          \* eLAN_PACKET_SEND_Q_MAX_SIZE
  MisfitSends,       \* how WSASend may end against isSendIOPending_: it pends although the
                     \* flag is off, "send" in SendPost and "last" in SendAndDisconnectPost, or
                     \* it succeeds "now" although the flag is on
  MaxSessions,       \* bound of the model: connections
  MaxJobs            \* bound of the model: jobs in a session's queue

ASSUME LanAssumption ==
  /\ IsFiniteSet(Slots) /\ 0 \notin Slots /\ IsFiniteSet(Workers) /\ Workers # {}
  /\ NoPipe \notin Pipes
  /\ MAX_SIZE \in Nat /\ MaxSessions \in Nat /\ MaxJobs \in Nat
  /\ Broadcasts \subseteq Seq(1..MaxSessions)
  /\ MisfitSends \subseteq {"send", "last", "now"}

\* With isSendIOPending_ the socket has no send buffer, and a WSASend pends. Without
\* it a send that pends is one the server answers with DisconnectSession.
SendsFitMode == MisfitSends = {}

IDs == 1..MaxSessions
Codes == {CodeOf[p] : p \in Pipes}

VARIABLES
  isSendIOPending, isLogicMultithreaded,   \* parameters of Start
  use,          \* what the application of this behaviour does: "send" or "pipe"
  main, isRunning, quit,
  free, sess,   \* sessionIndexStack_ and the slots
  slotOf,       \* the index in an ID, once it is given
  port,         \* what is posted to hcp_, completions apart
  worker,
  refCnt, unused,      \* of packets; the packets not allocated yet
  calls, leavePosts,   \* of an ID: calls of OnClientLeave, and those under way by the port
  userMap, joinQ, moveInQ, moveOutQ, leaveQ, phase   \* of a pipe

params   == <<isSendIOPending, isLogicMultithreaded, use>>
mainVars == <<main, isRunning>>
idVars   == <<free, slotOf>>
pktVars  == <<refCnt, unused>>
leftVars == <<calls, leavePosts>>
pipeQs   == <<userMap, joinQ, moveInQ, moveOutQ>>
pipeVars == <<pipeQs, leaveQ, phase>>
lanVars  == <<params, mainVars, quit, idVars, sess, port, worker, pktVars, leftVars, pipeVars>>

Waiting == [pc |-> "waiting", key |-> "none", ids |-> <<>>, packet |-> "none", slot |-> 0]

Phases == {"none", "join", "in", "out", "leave", "message", "last in", "last out", "last leave", "ended"}

Sessions ==
  [id : 0..MaxSessions, refs : Nat, dead : BOOLEAN, canceled : BOOLEAN,
   recv : {"none", "posted", "data", "closed", "aborted"},
   send : {"none", "posted", "done", "reset", "aborted"}, sending : BOOLEAN,
   sendQ : Seq(Packets), sentQ : Seq(Packets), jobQ : Seq(IDs),
   cur : Pipes \cup {NoPipe}, dest : Pipes \cup {NoPipe}, moving : BOOLEAN]

Posts == [key : {"sign", "send", "last"}, ids : Seq(IDs), packet : Packets]

WorkerStates ==
  [pc : {"none", "waiting", "set", "spin", "resume", "ended"}, key : {"none", "send", "last"},
   ids : Seq(IDs), packet : Packets \cup {"none"}, slot : Slots \cup {0}]

\* The fields hold what the code can put there, and a leave is told once.
LanTypeOK ==
  /\ isSendIOPending \in BOOLEAN /\ isLogicMultithreaded \in BOOLEAN /\ use \in {"send", "pipe"}
  /\ main \in {"new", "initiate", "threads", "running", "failed", "sleeping", "waiting", "stopped"}
  /\ isRunning \in BOOLEAN
  /\ free \subseteq Slots /\ slotOf \in [IDs -> Slots \cup {0}]
  /\ sess \in [Slots -> Sessions]
  /\ \A s \in Slots : Len(sess[s].sendQ) <= MAX_SIZE /\ Len(sess[s].jobQ) <= MaxJobs
  /\ port \in Seq(Posts) /\ worker \in [Workers -> WorkerStates]
  /\ refCnt \in [Packets -> Nat] /\ unused \subseteq Packets
  /\ calls \in [IDs -> 0..1] /\ leavePosts \subseteq IDs
  /\ userMap \in [Pipes -> SUBSET IDs] /\ phase \in [Pipes -> Phases]
  /\ {joinQ, moveInQ, moveOutQ, leaveQ} \subseteq [Pipes -> Seq(IDs)]
-----------------------------------------------------------------------------
(* The session                                                             *)

\* LanSession::LanSession
Dead == [id |-> 0, refs |-> 0, dead |-> TRUE, canceled |-> FALSE, recv |-> "none", send |-> "none",
         sending |-> FALSE, sendQ |-> <<>>, sentQ |-> <<>>, jobQ |-> <<>>,
         cur |-> NoPipe, dest |-> NoPipe, moving |-> FALSE]

Drop(r, n) == [r EXCEPT !.refs = @ - n]

\* Disconnect: the flag, and CancelIO of what the kernel still has
Disconnected(r) ==
  [r EXCEPT !.canceled = TRUE,
            !.recv = IF @ = "posted" THEN "aborted" ELSE @,
            !.send = IF @ = "posted" THEN "aborted" ELSE @]

\* DisconnectSession
DisconnectedSession(r) == Drop(Disconnected(r), 1)

\* AcquireSession, by way of FindSession
Found(i) == slotOf[i] # 0 /\ ~sess[slotOf[i]].dead /\ sess[slotOf[i]].id = i

\* RecvPost with the reference of its caller, which the receive keeps
RecvPosted(r) ==
  { [r EXCEPT !.recv = IF r.canceled THEN "aborted" ELSE "posted"],
    DisconnectedSession([r EXCEPT !.recv = "none"]) }

\* what WSASend was given, and how it ends: at once, later, or not at all
Filled(r) == [r EXCEPT !.sending = TRUE, !.sentQ = r.sendQ, !.sendQ = <<>>]
Refused(r) == Drop(Disconnected(r), 2)
Ended(r) == [r EXCEPT !.send = "done"]
MayEndNow == ~isSendIOPending \/ "now" \in MisfitSends

\* A WSASend that pends, and CancelIoEx comes: the send is aborted, or it has ended
\* in between, well or not
Aborting(f) == {Disconnected([f EXCEPT !.send = e]) : e \in {"posted", "done", "reset"}}

\* SendPost with two references. If a send pends against isSendIOPending_, its poster
\* gives one back with DisconnectSession, and its completion two if it ended well
SendPosted(r) ==
  IF r.sending THEN {Drop(r, 2)}
  ELSE IF r.sendQ = <<>> THEN {Drop([r EXCEPT !.sentQ = <<>>], 2)}
  ELSE LET f == Filled(r) IN
       {Refused(f)}
       \cup (IF MayEndNow THEN {Ended(f)} ELSE {})
       \cup (IF isSendIOPending /\ ~r.canceled THEN {Drop([f EXCEPT !.send = "posted"], 1)}
             ELSE IF isSendIOPending \/ "send" \in MisfitSends THEN {Drop(x, 1) : x \in Aborting(f)}
             ELSE {})

\* the rest of SendAndDisconnectPost, after its wait. With isSendIOPending_ nothing
\* cancels this send; without it, a send that pends costs DisconnectSession and,
\* for want of a break, DecrementIOCount
LastPosted(r) ==
  IF r.sendQ = <<>> THEN {Drop([r EXCEPT !.sentQ = <<>>], 2)}
  ELSE LET f == Filled(r) IN
       {Refused(f)}
       \cup (IF MayEndNow THEN {Ended(f)} ELSE {})
       \cup (IF isSendIOPending THEN {Drop([f EXCEPT !.send = "posted"], 1)}
             ELSE IF "last" \in MisfitSends THEN {Drop(x, 2) : x \in Aborting(f)}
             ELSE {})

\* how often a packet is in a queue; Free drops a reference each
Places(q, p) == {k \in DOMAIN q : q[k] = p}
Freed(cnt, q) == [p \in Packets |-> cnt[p] - Cardinality(Places(q, p))]

\* Destroy: the packets it frees are those of sendQ_ and sentQ_. What the kernel still
\* has is completed for the slot
Destroyed(r) == [Dead EXCEPT !.id = r.id, !.canceled = r.canceled, !.recv = r.recv, !.send = r.send]

\* A handler leaves slot s with record r: DecrementIOCount, SubIOCount and, on
\* zero, ReleaseSession. The process ends at 0x7FFF and 0x7FFE, which are -1 and -2 with
\* the delete flag: somebody gave back a reference of a session that is released. Under
\* zero without the flag, 0xFFFF, nobody notices
Leave(s, r, cnt) ==
  IF r.dead /\ r.refs < 0
  THEN /\ quit' = "IOCount Under Zero"
       /\ UNCHANGED <<sess, free, refCnt, leftVars, leaveQ>>
  ELSE IF r.refs # 0 \/ r.dead
  THEN /\ sess' = [sess EXCEPT ![s] = r]
       /\ refCnt' = cnt
       /\ UNCHANGED <<quit, free, leftVars, leaveQ>>
  ELSE /\ UNCHANGED quit
       /\ IF isLogicMultithreaded
          THEN leavePosts' = leavePosts \cup {r.id} /\ UNCHANGED calls
          ELSE calls' = [calls EXCEPT ![r.id] = @ + 1] /\ UNCHANGED leavePosts
       /\ IF r.cur # NoPipe
          THEN /\ leaveQ' = [leaveQ EXCEPT ![r.cur] = Append(@, r.id)]
               /\ sess' = [sess EXCEPT ![s] = [r EXCEPT !.dead = TRUE]]
               /\ refCnt' = cnt /\ UNCHANGED free
          ELSE /\ sess' = [sess EXCEPT ![s] = Destroyed(r)]
               /\ refCnt' = Freed(cnt, r.sendQ \o r.sentQ)
               /\ free' = free \cup {s} /\ UNCHANGED leaveQ

\* the packets of the last send are freed when the next one begins
LeaveAfterSend(s, old, r) == Leave(s, r, IF old.sending THEN refCnt ELSE Freed(refCnt, old.sentQ))
-----------------------------------------------------------------------------
(* Start and Stop                                                          *)

rest == <<params, slotOf, unused, pipeQs>>   \* what Leave and its callers leave alone

Start ==
  /\ main = "new" /\ main' = "initiate" /\ isRunning' = TRUE
  /\ UNCHANGED <<params, quit, idVars, sess, port, worker, pktVars, leftVars, pipeVars>>

\* PrepareWinsock, CreateIOCP, PrepareSocket, Bind and Listen
ServerInitiate ==
  /\ main = "initiate" /\ main' \in {"threads", "failed"}
  /\ UNCHANGED <<params, isRunning, quit, idVars, sess, port, worker, pktVars, leftVars, pipeVars>>

\* RunWorkerThread, Validate, RunPipes, RunObserverThread, RunAcceptThread
RunThreads ==
  /\ main = "threads" /\ main' = "running"
  /\ worker' = [w \in Workers |-> Waiting]
  /\ free' = Slots
  /\ phase' = [p \in Pipes |-> "join"]
  /\ UNCHANGED <<params, isRunning, quit, slotOf, sess, port, pktVars, leftVars, pipeQs, leaveQ>>

\* Stop: no more accepts, and Invalidate
Stop ==
  /\ main = "running" /\ main' = "sleeping"
  /\ sess' = [s \in Slots |-> IF sess[s].dead THEN sess[s] ELSE Disconnected(sess[s])]
  /\ UNCHANGED <<params, isRunning, quit, idVars, port, worker, pktVars, leftVars, pipeVars>>

\* what the five seconds of Stop are for
SleptLongEnough ==
  /\ port = <<>> /\ leavePosts = {}
  /\ \A s \in Slots : sess[s].recv = "none" /\ sess[s].send = "none"
  /\ \A w \in Workers : worker[w].pc = "waiting" \/ (worker[w].pc = "spin" /\ sess[worker[w].slot].sending)
  /\ \A p \in Pipes : joinQ[p] = <<>> /\ moveInQ[p] = <<>> /\ moveOutQ[p] = <<>>

PostQuit ==
  /\ main = "sleeping" /\ main' = "waiting" /\ SleptLongEnough
  /\ UNCHANGED <<params, isRunning, quit, idVars, sess, port, worker, pktVars, leftVars, pipeVars>>

\* a worker takes the quit packet, and posts it again
WorkerEnds(w) ==
  /\ main = "waiting" /\ worker[w].pc = "waiting"
  /\ worker' = [worker EXCEPT ![w].pc = "ended"]
  /\ UNCHANGED <<params, mainVars, quit, idVars, sess, port, pktVars, leftVars, pipeVars>>

\* WaitForMultipleObjects, five seconds, isRunning_ = false
StopRunning ==
  /\ main = "waiting" /\ isRunning /\ \A w \in Workers : worker[w].pc = "ended"
  /\ isRunning' = FALSE
  /\ UNCHANGED <<params, main, quit, idVars, sess, port, worker, pktVars, leftVars, pipeVars>>

\* five seconds more; the pipes have ended by then
StopDone ==
  /\ main = "waiting" /\ ~isRunning /\ \A p \in Pipes : use = "pipe" => phase[p] = "ended"
  /\ main' = "stopped"
  /\ UNCHANGED <<params, isRunning, quit, idVars, sess, port, worker, pktVars, leftVars, pipeVars>>
-----------------------------------------------------------------------------
(* Accept and the completions of the kernel                                *)

\* MovePipe(ID) finds the session, tests, and asks the new pipe
MovedTo(r, p) == [r EXCEPT !.refs = @ + 1, !.moving = TRUE, !.jobQ = <<>>, !.dest = p]

\* FindPipe_LoadBalanced
FindPipe(c) ==
  {p \in Pipes : CodeOf[p] = c /\ \A q \in Pipes : CodeOf[q] = c => Cardinality(userMap[p]) <= Cardinality(userMap[q])}

\* A slot that is given again while the kernel has an operation of the session before is
\* not followed. Where sends fit the mode there is none: SessionSupport
NothingLate(s) == sess[s].recv = "none" /\ sess[s].send = "none"

\* MyAcceptProc: AllocSession, Initialize, OnClientJoin, RecvPost. An
\* application that has pipes sends the session to one from OnClientJoin
Accept(s, i) ==
  /\ main = "running" /\ s \in free /\ NothingLate(s) /\ slotOf[i] = 0 /\ \A j \in 1 .. i - 1 : slotOf[j] # 0
  /\ slotOf' = [slotOf EXCEPT ![i] = s]
  /\ LET r == [sess[s] EXCEPT !.id = i, !.refs = 1, !.dead = FALSE, !.canceled = FALSE] IN
     IF use = "pipe"
     THEN \E c \in Codes : \E p \in FindPipe(c) : \E r2 \in RecvPosted(MovedTo(r, p)) :
            /\ sess' = [sess EXCEPT ![s] = r2]
            /\ joinQ' = [joinQ EXCEPT ![p] = Append(@, i)]
            /\ free' = free \ {s}
            /\ UNCHANGED <<quit, refCnt, leftVars, leaveQ>>
     ELSE \E r2 \in RecvPosted(r) :
            /\ UNCHANGED joinQ
            /\ IF r2.refs > 0
               THEN /\ sess' = [sess EXCEPT ![s] = r2] /\ free' = free \ {s}
                    /\ UNCHANGED <<quit, refCnt, leftVars, leaveQ>>
               ELSE Leave(s, r2, refCnt)
  /\ UNCHANGED <<params, mainVars, unused, userMap, moveInQ, moveOutQ, phase, port, worker>>

\* the peer, or the network: data, an orderly close, a reset, a timeout
RecvEnds(s) ==
  /\ sess[s].recv = "posted"
  /\ \E e \in {"data", "closed"} : sess' = [sess EXCEPT ![s].recv = e]
  /\ UNCHANGED <<params, mainVars, quit, idVars, port, worker, pktVars, leftVars, pipeVars>>

SendEnds(s) ==
  /\ sess[s].send = "posted"
  /\ \E e \in {"done", "reset"} : sess' = [sess EXCEPT ![s].send = e]
  /\ UNCHANGED <<params, mainVars, quit, idVars, port, worker, pktVars, leftVars, pipeVars>>
-----------------------------------------------------------------------------
(* Workers: completions                                                    *)

\* ERROR_OPERATION_ABORTED, of a receive or a send
Aborted(s, r) ==
  IF r.canceled THEN Leave(s, Drop(r, 1), refCnt)
  ELSE quit' = "Overlapped-IO Not Canceled - 995" /\ UNCHANGED <<sess, free, refCnt, leftVars, leaveQ>>

\* OnRecvComplete; the application gives the packets to the user's job queue, or
\* the packet is in error
Received(s, r) ==
  \/ /\ r.canceled
     /\ Leave(s, Drop(r, 1), refCnt)
  \/ /\ ~r.canceled
     /\ \E n \in RecvPosted(IF r.cur # NoPipe /\ Len(r.jobQ) < MaxJobs
                            THEN [r EXCEPT !.jobQ = Append(@, r.id)] ELSE r) : Leave(s, n, refCnt)
  \/ /\ ~r.canceled
     /\ Leave(s, DisconnectedSession(r), refCnt)

TakeRecv(w, s) ==
  /\ worker[w].pc = "waiting"
  /\ LET r == [sess[s] EXCEPT !.recv = "none"] IN
     \/ sess[s].recv = "data" /\ Received(s, r)
     \/ sess[s].recv = "closed" /\ Leave(s, DisconnectedSession(r), refCnt)
     \/ sess[s].recv = "aborted" /\ Aborted(s, r)
  /\ UNCHANGED <<rest, mainVars, phase, port, worker>>

\* OnSendComplete takes the second reference, and tests isIOCanceled_
TakeSend(w, s) ==
  /\ worker[w].pc = "waiting"
  /\ LET r == [sess[s] EXCEPT !.send = "none"]
         two == IF isSendIOPending THEN [r EXCEPT !.refs = @ + 1] ELSE r
     IN
     \/ /\ sess[s].send = "done" /\ r.canceled
        /\ Leave(s, Drop(two, 2), refCnt) /\ UNCHANGED worker
     \/ /\ sess[s].send = "done" /\ ~r.canceled
        /\ sess' = [sess EXCEPT ![s] = two]
        /\ worker' = [worker EXCEPT ![w] = [Waiting EXCEPT !.pc = "resume", !.slot = s]]
        /\ UNCHANGED <<quit, free, refCnt, leftVars, leaveQ>>
     \/ /\ sess[s].send = "reset"
        /\ Leave(s, DisconnectedSession(r), refCnt) /\ UNCHANGED worker
     \/ /\ sess[s].send = "aborted"
        /\ Aborted(s, r) /\ UNCHANGED worker
  /\ UNCHANGED <<rest, mainVars, phase, port>>

\* the rest of OnSendComplete
OnSendComplete(w) ==
  /\ worker[w].pc = "resume"
  /\ LET s == worker[w].slot
         r == [sess[s] EXCEPT !.sending = FALSE]
     IN \E n \in SendPosted(r) : LeaveAfterSend(s, r, n)
  /\ worker' = [worker EXCEPT ![w] = Waiting]
  /\ UNCHANGED <<rest, mainVars, phase, port>>
-----------------------------------------------------------------------------
(* Workers: PostOtherProcedures                                            *)

\* eLAN_SENDSIGN_KEY works with the two references the sender left
TakeSign(w) ==
  /\ worker[w].pc = "waiting" /\ port # <<>> /\ Head(port).key = "sign"
  /\ LET s == slotOf[Head(port).ids[1]] IN
     \E n \in SendPosted(sess[s]) : LeaveAfterSend(s, sess[s], n)
  /\ port' = Tail(port)
  /\ UNCHANGED <<rest, mainVars, phase, worker>>

\* a set of IDs and a packet; a last message to one session is a set of one
TakeSet(w) ==
  /\ worker[w].pc = "waiting" /\ port # <<>> /\ Head(port).key # "sign"
  /\ port' = Tail(port)
  /\ worker' = [worker EXCEPT ![w] = [Waiting EXCEPT !.pc = "set", !.key = Head(port).key,
                                        !.ids = Head(port).ids, !.packet = Head(port).packet]]
  /\ UNCHANGED <<params, mainVars, quit, idVars, sess, pktVars, leftVars, pipeVars>>

MutSetWithoutID(w) ==
  /\ worker[w].pc = "set" /\ worker[w].ids # <<>> /\ ~Found(Head(worker[w].ids))
  /\ worker' = [worker EXCEPT ![w].ids = Tail(@)]
  /\ UNCHANGED <<params, mainVars, quit, idVars, sess, port, pktVars, leftVars, pipeVars>>

\* FindSessionForSendPacket finds nobody: the packet is freed
SetWithoutID(w) ==
  /\ worker[w].pc = "set" /\ worker[w].ids # <<>> /\ ~Found(Head(worker[w].ids))
  /\ refCnt' = [refCnt EXCEPT ![worker[w].packet] = @ - 1]
  /\ worker' = [worker EXCEPT ![w].ids = Tail(@)]
  /\ UNCHANGED <<params, mainVars, quit, idVars, sess, port, unused, leftVars, pipeVars>>

\* EnqueueSendQ, and SendPost or the Disconnect of SendAndDisconnectPost
SetOneID(w) ==
  /\ worker[w].pc = "set" /\ worker[w].ids # <<>> /\ Found(Head(worker[w].ids))
  /\ LET s == slotOf[Head(worker[w].ids)]
         r == [sess[s] EXCEPT !.refs = @ + 2]
         q == [r EXCEPT !.sendQ = Append(@, worker[w].packet)]
     IN \/ /\ r.canceled \/ Len(r.sendQ) >= MAX_SIZE
           /\ Leave(s, Refused(r), [refCnt EXCEPT ![worker[w].packet] = @ - 1])
           /\ worker' = [worker EXCEPT ![w].ids = Tail(@)]
        \/ /\ ~r.canceled /\ Len(r.sendQ) < MAX_SIZE /\ worker[w].key = "send"
           /\ \E n \in SendPosted(q) : LeaveAfterSend(s, q, n)
           /\ worker' = [worker EXCEPT ![w].ids = Tail(@)]
        \/ /\ ~r.canceled /\ Len(r.sendQ) < MAX_SIZE /\ worker[w].key = "last"
           /\ Leave(s, Disconnected(q), refCnt)
           /\ worker' = [worker EXCEPT ![w].ids = Tail(@), ![w].pc = "spin", ![w].slot = s]
  /\ UNCHANGED <<rest, mainVars, phase, port>>

\* SendAndDisconnectPost has isSending_, and sends
SendAndDisconnectPost(w) ==
  /\ worker[w].pc = "spin" /\ ~sess[worker[w].slot].sending
  /\ LET s == worker[w].slot IN \E n \in LastPosted(sess[s]) : LeaveAfterSend(s, sess[s], n)
  /\ worker' = [worker EXCEPT ![w].pc = "set", ![w].slot = 0]
  /\ UNCHANGED <<rest, mainVars, phase, port>>

EndSet(w) ==
  /\ worker[w].pc = "set" /\ worker[w].ids = <<>>
  /\ worker' = [worker EXCEPT ![w] = Waiting]
  /\ UNCHANGED <<params, mainVars, quit, idVars, sess, port, pktVars, leftVars, pipeVars>>

\* eLAN_CLIENT_LEAVE_KEY
TakeLeave(w, i) ==
  /\ worker[w].pc = "waiting" /\ i \in leavePosts
  /\ leavePosts' = leavePosts \ {i}
  /\ calls' = [calls EXCEPT ![i] = @ + 1]
  /\ UNCHANGED <<params, mainVars, quit, idVars, sess, port, worker, pktVars, pipeVars>>
-----------------------------------------------------------------------------
(* What the application calls, from any thread                             *)

Calls == main \in {"running", "sleeping"}

\* SendPacket: true if the packet was queued
SendPacket(i, p) ==
  /\ use = "send" /\ Calls /\ p \in unused /\ Found(i)
  /\ unused' = unused \ {p}
  /\ LET s == slotOf[i]
         r == [sess[s] EXCEPT !.refs = @ + 2]
         q == [r EXCEPT !.sendQ = Append(@, p)]
     IN IF r.canceled \/ Len(r.sendQ) >= MAX_SIZE
        THEN Leave(s, Refused(r), refCnt)
        ELSE \E n \in SendPosted(q) :
               Leave(s, n, LET cnt == [refCnt EXCEPT ![p] = @ + 1] IN
                           IF q.sending THEN cnt ELSE Freed(cnt, q.sentQ))
  /\ UNCHANGED <<params, mainVars, slotOf, pipeQs, phase, port, worker>>

MutAsyncSendPacket(i, p) ==
  /\ use = "send" /\ Calls /\ p \in unused /\ Found(i)
  /\ unused' = unused \ {p}
  /\ LET s == slotOf[i]
         r == [sess[s] EXCEPT !.refs = @ + 2]
         q == [r EXCEPT !.sendQ = Append(@, p)]
     IN IF r.canceled \/ Len(r.sendQ) >= MAX_SIZE
        THEN Leave(s, Refused(r), refCnt) /\ UNCHANGED port
        ELSE /\ Leave(s, Drop(q, 2), [refCnt EXCEPT ![p] = @ + 1])
             /\ port' = IF q.sending THEN port ELSE Append(port, [key |-> "sign", ids |-> <<i>>, packet |-> p])
  /\ UNCHANGED <<params, mainVars, slotOf, pipeQs, phase, worker>>

\* AsyncSendPacket: the sign keeps both references until a worker has it
AsyncSendPacket(i, p) ==
  /\ use = "send" /\ Calls /\ p \in unused /\ Found(i)
  /\ unused' = unused \ {p}
  /\ LET s == slotOf[i]
         r == [sess[s] EXCEPT !.refs = @ + 2]
         q == [r EXCEPT !.sendQ = Append(@, p)]
     IN IF r.canceled \/ Len(r.sendQ) >= MAX_SIZE
        THEN Leave(s, Refused(r), refCnt) /\ UNCHANGED port
        ELSE /\ Leave(s, IF q.sending THEN Drop(q, 2) ELSE q, [refCnt EXCEPT ![p] = @ + 1])
             /\ port' = IF q.sending THEN port ELSE Append(port, [key |-> "sign", ids |-> <<i>>, packet |-> p])
  /\ UNCHANGED <<params, mainVars, slotOf, pipeQs, phase, worker>>

\* a set is cut into blocks of its size by the number of workers; what is left
\* over is a block of its own
BlockSize(n) == IF n \div Cardinality(Workers) = 0 THEN 1 ELSE n \div Cardinality(Workers)

Blocks(ids) ==
  LET n == Len(ids)
      b == BlockSize(n)
      last == (n + b - 1) \div b
  IN [k \in 1..last |-> SubSeq(ids, (k - 1) * b + 1, IF k * b < n THEN k * b ELSE n)]

\* AsyncSendPacket and DisconnectAfterLastMessage of a set: one reference of the
\* packet for every ID. DisconnectAfterLastMessage of one ID is a set of one
SendToSet(ids, key, p) ==
  /\ use = "send" /\ Calls /\ p \in unused /\ \A k \in DOMAIN ids : slotOf[ids[k]] # 0
  /\ unused' = unused \ {p}
  /\ refCnt' = [refCnt EXCEPT ![p] = Len(ids)]
  /\ port' = port \o [k \in DOMAIN Blocks(ids) |-> [key |-> key, ids |-> Blocks(ids)[k], packet |-> p]]
  /\ UNCHANGED <<params, mainVars, quit, idVars, sess, worker, leftVars, pipeVars>>

\* Disconnect(ID), also from OnTimeout
Disconnect(i) ==
  /\ Calls /\ Found(i)
  /\ LET s == slotOf[i]
         r == [sess[s] EXCEPT !.refs = @ + 1]
     IN Leave(s, IF r.canceled THEN Drop(r, 1) ELSE DisconnectedSession(r), refCnt)
  /\ UNCHANGED <<rest, mainVars, phase, port, worker>>
-----------------------------------------------------------------------------
(* Pipes: a frame is Join, Move, Leave, and then the users' jobs           *)

pipeRest == <<params, mainVars, slotOf, unused, port, worker>>

\* a pipe that is told to end moves and leaves once more, and does not join
After(ph) ==
  CASE ph = "join" -> "in" [] ph = "in" -> "out" [] ph = "out" -> "leave" [] ph = "leave" -> "message"
    [] ph = "message" -> IF isRunning THEN "join" ELSE "last in"
    [] ph = "last in" -> "last out" [] ph = "last out" -> "last leave" [] ph = "last leave" -> "ended"

NextPhase(p) == phase' = [phase EXCEPT ![p] = After(@)]

MutEntered(r) == [r EXCEPT !.cur = r.dest, !.dest = NoPipe, !.moving = FALSE]

\* AfterPipeEnter gives the reference of the move back
Entered(r) == Drop([r EXCEPT !.cur = r.dest, !.dest = NoPipe, !.moving = FALSE], 1)

AfterPipeEnter(p, i) ==
  LET s == slotOf[i] IN
  IF sess[s].dest # p
  THEN quit' = "DestPipe, ThisPipe Not Equal" /\ UNCHANGED <<sess, free, refCnt, leftVars, leaveQ>>
  ELSE Leave(s, Entered(sess[s]), refCnt)

Join(p) ==
  /\ phase[p] = "join"
  /\ IF joinQ[p] = <<>>
     THEN NextPhase(p)
          /\ UNCHANGED <<quit, sess, free, refCnt, leftVars, leaveQ, pipeQs>>
     ELSE LET i == Head(joinQ[p]) IN
          /\ joinQ' = [joinQ EXCEPT ![p] = Tail(@)]
          /\ userMap' = [userMap EXCEPT ![p] = @ \cup {i}]
          /\ AfterPipeEnter(p, i)
          /\ UNCHANGED <<phase, moveInQ, moveOutQ>>
  /\ UNCHANGED pipeRest

MoveIn(p) ==
  /\ phase[p] \in {"in", "last in"}
  /\ IF moveInQ[p] = <<>>
     THEN NextPhase(p) /\ UNCHANGED <<quit, sess, free, refCnt, leftVars, leaveQ, pipeQs>>
     ELSE LET i == Head(moveInQ[p]) IN
          /\ moveInQ' = [moveInQ EXCEPT ![p] = Tail(@)]
          /\ userMap' = [userMap EXCEPT ![p] = @ \cup {i}]
          /\ AfterPipeEnter(p, i)
          /\ UNCHANGED <<phase, joinQ, moveOutQ>>
  /\ UNCHANGED pipeRest

\* AfterPipeMoveOut hands the user to the pipe it goes to
MoveOut(p) ==
  /\ phase[p] \in {"out", "last out"}
  /\ IF moveOutQ[p] = <<>>
     THEN NextPhase(p) /\ UNCHANGED pipeQs
     ELSE LET i == Head(moveOutQ[p])
              d == sess[slotOf[i]].dest
          IN /\ moveOutQ' = [moveOutQ EXCEPT ![p] = Tail(@)]
             /\ userMap' = [userMap EXCEPT ![p] = @ \ {i}]
             /\ moveInQ' = [moveInQ EXCEPT ![d] = Append(@, i)]
             /\ UNCHANGED <<phase, joinQ>>
  /\ UNCHANGED <<pipeRest, quit, sess, free, refCnt, leftVars, leaveQ>>

\* the user leaves, and DeletePipeUser destroys its session
LeavePipe(p) ==
  /\ phase[p] \in {"leave", "last leave"}
  /\ IF leaveQ[p] = <<>>
     THEN NextPhase(p)
          /\ UNCHANGED <<quit, sess, free, refCnt, leaveQ, userMap>>
     ELSE LET i == Head(leaveQ[p])
              s == slotOf[i]
          IN /\ UNCHANGED phase
             /\ leaveQ' = [leaveQ EXCEPT ![p] = Tail(@)]
             /\ userMap' = [userMap EXCEPT ![p] = @ \ {i}]
             /\ IF i \in userMap[p]
                THEN /\ sess' = [sess EXCEPT ![s] = Destroyed(sess[s])]
                     /\ refCnt' = Freed(refCnt, sess[s].sendQ \o sess[s].sentQ)
                     /\ free' = free \cup {s} /\ UNCHANGED quit
                ELSE quit' = "Leave - Find Failed" /\ UNCHANGED <<sess, refCnt, free>>
  /\ UNCHANGED <<pipeRest, leftVars, joinQ, moveInQ, moveOutQ>>

\* DequeueJob: the job is another's, or it is taken, and OnMessage refuses it
DequeueJob(p, i) ==
  /\ phase[p] = "message" /\ i \in userMap[p] /\ sess[slotOf[i]].jobQ # <<>>
  /\ LET s == slotOf[i]
         r == [sess[s] EXCEPT !.jobQ = Tail(@)]
     IN IF Head(sess[s].jobQ) # i
        THEN quit' = "packet ID, user ID Not Equal" /\ UNCHANGED <<sess, free, refCnt, leftVars, leaveQ>>
        ELSE \/ Leave(s, r, refCnt)
             \/ Found(i) /\ ~r.canceled /\ Leave(s, Disconnected(r), refCnt)
  /\ UNCHANGED <<pipeRest, pipeQs, phase>>

\* MovePipe of a user, from a callback of its pipe; refused for a session that is
\* released, on the move, or there already
MovePipe(p, i, c) ==
  /\ phase[p] = "message" /\ i \in userMap[p]
  /\ Found(i) /\ ~sess[slotOf[i]].moving /\ CodeOf[p] # c
  /\ \E d \in FindPipe(c) : sess' = [sess EXCEPT ![slotOf[i]] = MovedTo(@, d)]
  /\ moveOutQ' = [moveOutQ EXCEPT ![p] = Append(@, i)]
  /\ UNCHANGED <<pipeRest, quit, free, refCnt, leftVars, leaveQ, userMap, joinQ, moveInQ, phase>>

EndFrame(p) ==
  /\ phase[p] = "message"
  /\ NextPhase(p)
  /\ UNCHANGED <<pipeRest, quit, sess, free, refCnt, leftVars, leaveQ, pipeQs>>
-----------------------------------------------------------------------------
LanInit ==
  /\ isSendIOPending \in BOOLEAN /\ isLogicMultithreaded \in BOOLEAN /\ use \in {"send", "pipe"}
  /\ main = "new" /\ isRunning = FALSE /\ quit = "none"
  /\ free = {} /\ sess = [s \in Slots |-> Dead] /\ slotOf = [i \in IDs |-> 0]
  /\ port = <<>> /\ worker = [w \in Workers |-> [Waiting EXCEPT !.pc = "none"]]
  /\ refCnt = [p \in Packets |-> 0] /\ unused = Packets
  /\ calls = [i \in IDs |-> 0] /\ leavePosts = {}
  /\ userMap = [p \in Pipes |-> {}]
  /\ joinQ = [p \in Pipes |-> <<>>] /\ moveInQ = [p \in Pipes |-> <<>>] /\ moveOutQ = [p \in Pipes |-> <<>>]
  /\ leaveQ = [p \in Pipes |-> <<>>] /\ phase = [p \in Pipes |-> "none"]

Control == Start \/ ServerInitiate \/ RunThreads \/ Stop \/ PostQuit \/ StopRunning \/ StopDone

WorkerStep(w) ==
  \/ \E s \in Slots : TakeRecv(w, s) \/ TakeSend(w, s)
  \/ OnSendComplete(w) \/ TakeSign(w) \/ TakeSet(w) \/ SetWithoutID(w) \/ SetOneID(w)
  \/ SendAndDisconnectPost(w) \/ EndSet(w) \/ WorkerEnds(w)
  \/ \E i \in IDs : TakeLeave(w, i)

Application ==
  \/ \E i \in IDs : Disconnect(i) \/ \E p \in Packets : SendPacket(i, p) \/ AsyncSendPacket(i, p)
  \/ \E ids \in Broadcasts, key \in {"send", "last"}, p \in Packets : SendToSet(ids, key, p)

PipeStep(p) ==
  \/ Join(p) \/ MoveIn(p) \/ MoveOut(p) \/ LeavePipe(p) \/ EndFrame(p)
  \/ \E i \in IDs : DequeueJob(p, i) \/ \E c \in Codes : MovePipe(p, i, c)

LanNext ==
  /\ quit = "none"
  /\ \/ Control
     \/ \E s \in Slots : RecvEnds(s) \/ SendEnds(s) \/ \E i \in IDs : Accept(s, i)
     \/ \E w \in Workers : WorkerStep(w)
     \/ Application
     \/ use = "pipe" /\ \E p \in Pipes : PipeStep(p)

LanSpec == LanInit /\ [][LanNext]_lanVars
-----------------------------------------------------------------------------
InHand(s) == {w \in Workers : worker[w].slot = s}
Signs(s) == {k \in DOMAIN port : port[k].key = "sign" /\ slotOf[port[k].ids[1]] = s}
SendHolds(r) == IF r.send = "none" THEN 0 ELSE IF r.send = "done" /\ ~isSendIOPending THEN 2 ELSE 1

(* IOcount_ counts the receive, the send, the signs on the port, the       *)
(* threads at work and the move of a session, if sends fit the mode        *)
(* (SendsFitMode). A send that pends without isSendIOPending_ and ends     *)
(* before CancelIoEx takes three for two (LanServer.cpp 338-1115).         *)
LanRefsExact ==
  \A s \in Slots : LET r == sess[s] IN
    r.refs = (IF r.recv = "none" THEN 0 ELSE 1) + SendHolds(r)
             + 2 * Cardinality(Signs(s)) + 2 * Cardinality(InHand(s)) + (IF r.moving THEN 1 ELSE 0)

\* how many members the sets f[x] have together
Total(f) == Cardinality(UNION {{x} \X f[x] : x \in DOMAIN f})

\* what worker w has yet to send, and the k-th post has to be sent
LeftOf(w, p) == IF worker[w].packet = p /\ worker[w].pc \in {"set", "spin"} THEN DOMAIN worker[w].ids ELSE {}
LeftIn(k, p) == IF port[k].packet = p /\ port[k].key # "sign" THEN DOMAIN port[k].ids ELSE {}

(* A packet has a reference for every queue it is in and every ID it is    *)
(* still to be sent to: none is freed under a send, and none is lost when  *)
(* a session of a broadcast is gone (LanServer.cpp 338-510, 953-1115).     *)
LanPacketsAccounted ==
  \A p \in Packets :
    refCnt[p] = Total([s \in Slots |-> Places(sess[s].sendQ \o sess[s].sentQ, p)])
                + Total([w \in Workers |-> LeftOf(w, p)])
                + Total([k \in DOMAIN port |-> LeftIn(k, p)])

\* A session that joined is alive, or OnClientLeave was called for it or is on
\* the port: just one of them (LanServer.cpp 1328-1348).
LeftOnce ==
  \A i \in IDs : slotOf[i] # 0 =>
    calls[i] + (IF i \in leavePosts THEN 1 ELSE 0) + (IF Found(i) THEN 1 ELSE 0) = 1

\* A user is in one pipe or on the way to one; its session keeps the slot until
\* the user has left (LanPipe.cpp 127-205, LanServer.cpp 505-620).
UsersKeepTheirSlot ==
  \A i \in IDs :
    LET at == {p \in Pipes : i \in userMap[p]}
        coming == {p \in Pipes : \E k \in DOMAIN moveInQ[p] : moveInQ[p][k] = i}
    IN /\ Cardinality(at) + Cardinality(coming) <= 1
       /\ at \cup coming # {} => sess[slotOf[i]].id = i /\ sess[slotOf[i]].cur # NoPipe
       /\ \A p \in Pipes : (\E k \in DOMAIN leaveQ[p] : leaveQ[p][k] = i) => at = {p}

\* A stopped server told everybody, holds no packet, and has its indices back
\* (LanServer.cpp 72-104).
StoppedClean ==
  main = "stopped" =>
    /\ free = Slots /\ \A i \in IDs : slotOf[i] # 0 => calls[i] = 1
    /\ \A p \in Packets : refCnt[p] = 0
    /\ \A p \in Pipes : userMap[p] = {}

(* References and packets add up at every step, if sends fit the mode      *)
(* (SendsFitMode): nothing is released or freed under its user, nothing is *)
(* kept (LanServer.cpp 338-510, 953-1115).                                 *)
LanAccounts == LanTypeOK /\ LanRefsExact /\ LanPacketsAccounted

(* A session that joined leaves once, by way of the pipe that has its user *)
(* and with it only, and all of them have left when Stop returns           *)
(* (LanServer.cpp 72-104, 505-620, 1328-1348, LanPipe.cpp 127-205).        *)
LanSessionsEnd == LeftOnce /\ UsersKeepTheirSlot /\ StoppedClean

(* No check of the server ends the process, if sends fit the mode          *)
(* (SendsFitMode): nobody gives back a reference of a released session, an *)
(* aborted operation was canceled, a job and a user are where they belong  *)
(* (LanServer.h 424-445, LanServer.cpp 1117-1255, LanPipe.cpp).            *)
LanNeverQuits == quit = "none"

\* What they rest on. Of a session, its record, its holders, and who tells of it:
Resuming(s) == {w \in InHand(s) : worker[w].pc = "resume"}
Hands(s) == 2 * Cardinality(Signs(s)) + 2 * Cardinality(InHand(s))

GoodRecord(r) ==
  /\ r \in Sessions /\ Len(r.sendQ) <= MAX_SIZE /\ Len(r.jobQ) <= MaxJobs
  /\ "aborted" \in {r.recv, r.send} => r.canceled
  /\ r.send \in {"posted", "reset"} => isSendIOPending
  /\ r.send # "none" => r.sending
  /\ \A k \in DOMAIN r.jobQ : r.jobQ[k] = r.id

SessionSupport(s) ==
  LET r == sess[s] IN
  /\ GoodRecord(r)
  /\ r.dead <=> r.refs = 0
  /\ ~r.dead => r.id # 0 /\ slotOf[r.id] = s /\ s \notin free
  /\ s \in free => r = Destroyed(r) /\ NothingLate(s)
  /\ r.send # "none" => Resuming(s) = {}
  /\ Resuming(s) # {} => r.sending
  /\ \A w, v \in Resuming(s) : w = v

WorkerSupport(w) ==
  LET t == worker[w] IN
  /\ t.slot = 0 <=> t.pc \notin {"spin", "resume"}
  /\ t.pc \in {"set", "spin"} => t.packet \in Packets /\ t.key # "none"

SignSupport ==
  \A k \in DOMAIN port : port[k].key = "sign" => Len(port[k].ids) = 1 /\ slotOf[port[k].ids[1]] # 0

LeftSupport == \A i \in IDs : slotOf[i] = 0 => calls[i] = 0 /\ i \notin leavePosts

SessionTypes ==
  /\ isSendIOPending \in BOOLEAN /\ isLogicMultithreaded \in BOOLEAN
  /\ free \subseteq Slots /\ slotOf \in [IDs -> Slots \cup {0}]
  /\ sess \in [Slots -> Sessions]
  /\ port \in Seq(Posts) /\ worker \in [Workers -> WorkerStates]
  /\ calls \in [IDs -> 0..1] /\ leavePosts \subseteq IDs

SessionInv ==
  /\ SessionTypes /\ LanRefsExact /\ LeftOnce /\ LeftSupport /\ LanNeverQuits
  /\ \A s \in Slots : SessionSupport(s)
  /\ \A w \in Workers : WorkerSupport(w)
  /\ SignSupport

\* of the pipes, where a user is
In(q, i) == \E k \in DOMAIN q : q[k] = i
Once(q) == \A j, k \in DOMAIN q : q[j] = q[k] => j = k
Has(i) == slotOf[i] # 0 /\ sess[slotOf[i]].id = i

UserSupport(i, p) ==
  LET r == sess[slotOf[i]] IN
  /\ In(joinQ[p], i) => Has(i) /\ r.moving /\ r.cur = NoPipe /\ r.dest = p
  /\ In(moveInQ[p], i) => Has(i) /\ r.moving /\ r.cur # NoPipe /\ r.dest = p /\ i \notin userMap[r.cur]
  /\ In(moveOutQ[p], i) => Has(i) /\ r.moving /\ r.dest # NoPipe /\ i \in userMap[p]
  /\ In(leaveQ[p], i) => Has(i) /\ r.dead /\ i \in userMap[p]
  /\ i \in userMap[p] => Has(i) /\ r.cur = p

PlaceSupport(s) ==
  LET r == sess[s] IN
  /\ r.moving => \/ r.cur = NoPipe /\ r.dest # NoPipe /\ In(joinQ[r.dest], r.id)
                 \/ r.cur # NoPipe /\ r.dest # NoPipe /\ In(moveInQ[r.dest], r.id)
                 \/ r.cur # NoPipe /\ In(moveOutQ[r.cur], r.id)
  /\ r.cur # NoPipe => r.id \in userMap[r.cur] \/ r.moving
  /\ r.dead /\ r.cur # NoPipe => In(leaveQ[r.cur], r.id) /\ slotOf[r.id] = s
  /\ ~r.dead /\ r.cur = NoPipe => r.moving \/ use = "send"

QueuesOnce == \A p \in Pipes : Once(joinQ[p]) /\ Once(moveInQ[p]) /\ Once(moveOutQ[p]) /\ Once(leaveQ[p])

PlaceTypes ==
  /\ use \in {"send", "pipe"}
  /\ userMap \in [Pipes -> SUBSET IDs] /\ joinQ \in [Pipes -> Seq(IDs)] /\ moveInQ \in [Pipes -> Seq(IDs)]
  /\ moveOutQ \in [Pipes -> Seq(IDs)] /\ leaveQ \in [Pipes -> Seq(IDs)]

PlaceInv ==
  /\ PlaceTypes /\ QueuesOnce
  /\ \A s \in Slots : PlaceSupport(s)
  /\ \A i \in IDs, p \in Pipes : UserSupport(i, p)

\* of Start and Stop
Begun == main \in {"running", "sleeping", "waiting", "stopped"}

StartSupport ==
  /\ ~Begun => /\ sess = [s \in Slots |-> Dead] /\ slotOf = [i \in IDs |-> 0] /\ port = <<>>
               /\ \A w \in Workers : worker[w] = [Waiting EXCEPT !.pc = "none"]
               /\ \A p \in Pipes : userMap[p] = {} /\ phase[p] = "none"
  /\ main \in {"initiate", "threads", "running", "sleeping"} => isRunning
  /\ isRunning => \A p \in Pipes : phase[p] \in {"none", "join", "in", "out", "leave", "message"}
  /\ Begun => \A s \in Slots : sess[s].dead => s \in free \/ sess[s].cur # NoPipe
  /\ use = "send" => \A p \in Pipes : joinQ[p] = <<>> /\ moveInQ[p] = <<>> /\ moveOutQ[p] = <<>>
                                       /\ leaveQ[p] = <<>> /\ userMap[p] = {}
  /\ use = "pipe" => /\ port = <<>> /\ \A w \in Workers : worker[w].pc \notin {"set", "spin"}
                     /\ \A s \in Slots : sess[s].sendQ = <<>> /\ sess[s].send = "none"

StopSupport ==
  /\ main \in {"waiting", "stopped"} =>
       /\ port = <<>> /\ leavePosts = {}
       /\ \A s \in Slots : sess[s].recv = "none" /\ sess[s].send = "none"
       /\ \A w \in Workers : worker[w].pc \in {"waiting", "spin", "ended"}
                            /\ (worker[w].pc = "spin" => sess[worker[w].slot].sending)
       /\ \A p \in Pipes : joinQ[p] = <<>> /\ moveInQ[p] = <<>> /\ moveOutQ[p] = <<>>
  /\ main \in {"waiting", "stopped"} /\ ~isRunning => \A w \in Workers : worker[w].pc = "ended"
  /\ main = "stopped" => ~isRunning /\ (use = "pipe" => \A p \in Pipes : phase[p] = "ended")
  /\ \A p \in Pipes : phase[p] = "ended" => ~isRunning /\ leaveQ[p] = <<>>

StopTypes ==
  /\ main \in {"new", "initiate", "threads", "running", "failed", "sleeping", "waiting", "stopped"}
  /\ isRunning \in BOOLEAN /\ phase \in [Pipes -> Phases]

StopInv == StopTypes /\ StartSupport /\ StopSupport

\* and of packets.
PacketInv ==
  /\ refCnt \in [Packets -> Nat] /\ unused \subseteq Packets
  /\ LanPacketsAccounted
  /\ \A p \in unused : refCnt[p] = 0

LanInv == SessionInv /\ PlaceInv /\ StopInv /\ PacketInv
=============================================================================
