------------------------------- MODULE Pipes -------------------------------
(***************************************************************************)
(* Pipes, their users, and the sessions that enter, move between and leave *)
(* them. A pipe is a thread that runs frames: Join, Move, Leave, and then  *)
(* the callbacks of its users. Others reach it by four queues only.        *)
(*                                                                         *)
(* Sessions are those of SessionLife at a coarser grain: who brings        *)
(* IOcount_ to zero releases the session in the same step. A move holds a  *)
(* reference from MovePipe to AfterPipeEnter.                              *)
(***************************************************************************)
EXTENDS Integers, FiniteSets, Sequences

CONSTANTS
  Sessions,       \* the IDs: each is one connection
  Pipes,
  CodeOf,         \* the code a pipe is registered with
  None,           \* nullptr
  Callers,        \* the threads that call MovePipe(ID): accept and worker threads
  MaxIDMoves,     \* how often the application calls MovePipe(ID) for one session
  JOBQ_MAX_SIZE

\* a NetUser: the k-th that OnUserJoin makes for a session
Users == Sessions \X (1..MaxIDMoves)
Codes == {CodeOf[p] : p \in Pipes}
SessionOf(u) == u[1]

ASSUME PipesAssumption ==
  DOMAIN CodeOf = Pipes /\ None \notin Pipes \cup Sessions \cup Users
ASSUME SomePipe == Pipes # {}
ASSUME ThreadsAssumption ==
  IsFiniteSet(Callers) /\ IsFiniteSet(Pipes) /\ Callers \cap Pipes = {}
\* eNET_SESSION_MAX_COUNT is 10501, JOBQ_MAX_SIZE 20000
ASSUME RoomAssumption ==
  IsFiniteSet(Sessions) /\ JOBQ_MAX_SIZE \in Nat /\ Cardinality(Sessions) <= JOBQ_MAX_SIZE
ASSUME MovesAssumption == MaxIDMoves \in Nat \ {0}

VARIABLES
  status,            \* off, on, released (the delete flag is set), gone (Destroy)
  refs, receiving,   \* IOcount_; the receive holds one of it
  cur, dest, moving, \* of a session: curPipe_, destPipe_, isMoving_
  made,              \* how many users were made for a session
  uPipe, uMoving,    \* of a user: curPipe_, isMoving_
  userMap, joinQ, leaveQ, moveInQ, moveOutQ,   \* of a pipe
  pc, who, code,     \* of every thread: where it is, the session and the code of its move
  user, to,          \* and the user and pipe of its move
  asked              \* bound of the model: calls of MovePipe(ID)

sessionVars == <<status, refs, receiving>>
moveVars    == <<cur, dest, moving>>
userVars    == <<made, uPipe, uMoving>>
pipeVars    == <<userMap, joinQ, leaveQ, moveInQ, moveOutQ>>
threadVars  == <<pc, who, code, user, to>>
vars == <<sessionVars, moveVars, userVars, pipeVars, threadVars, asked>>

Threads == Callers \cup Pipes
PipePcs == {"join", "in", "out", "leave", "message", "enter", "endmove", "drop", "enduser"}
MovePcs == {"moving?", "start", "findpipe", "request", "refuse"}
Pcs == {"idle", "quit"} \cup PipePcs \cup MovePcs

Fields ==
  /\ status \in [Sessions -> {"off", "on", "released", "gone"}]
  /\ refs \in [Sessions -> Nat]
  /\ receiving \in [Sessions -> BOOLEAN]
  /\ cur \in [Sessions -> Pipes \cup {None}] /\ dest \in [Sessions -> Pipes \cup {None}]
  /\ moving \in [Sessions -> BOOLEAN]
  /\ made \in [Sessions -> 0..MaxIDMoves]
  /\ uPipe \in [Users -> Pipes \cup {None}] /\ uMoving \in [Users -> BOOLEAN]
  /\ userMap \in [Pipes -> SUBSET Users]
  /\ joinQ \in [Pipes -> Seq(Sessions)] /\ leaveQ \in [Pipes -> Seq(Sessions)]
  /\ moveInQ \in [Pipes -> Seq(Users)] /\ moveOutQ \in [Pipes -> Seq(Users)]
  /\ pc \in [Threads -> Pcs]
  /\ who \in [Threads -> Sessions \cup {None}]
  /\ code \in [Threads -> Codes \cup {None}]
  /\ user \in [Threads -> Users \cup {None}]
  /\ to \in [Threads -> Pipes \cup {None}]
  /\ asked \in [Sessions -> 0..MaxIDMoves]

(* The fields hold what the code can put there; a reference is the         *)
(* receive's or a thread's, or it was one's.                               *)
TypeOK == Fields /\ \A s \in Sessions : refs[s] <= 1 + Cardinality(Threads)
-----------------------------------------------------------------------------
Goto(t, l) == pc' = [pc EXCEPT ![t] = l]
At(t, l) == pc[t] = l

\* LockFreeEnqJobQ::Enqueue; nobody looks at its result
Put(q, p, x) == [q EXCEPT ![p] = IF Len(@) < JOBQ_MAX_SIZE THEN Append(@, x) ELSE @]
Rest(q, p) == [q EXCEPT ![p] = Tail(@)]

InMap(p, s) == \E u \in userMap[p] : SessionOf(u) = s

MutDropRef(s) ==
  /\ refs' = [refs EXCEPT ![s] = @ - 1]
  /\ status' = IF refs[s] = 1 THEN [status EXCEPT ![s] = "gone"] ELSE status
  /\ UNCHANGED leaveQ

\* DecrementIOCount and ReleaseSession: the session is left to its pipe, or
\* destroyed at once if it has none
DropRef(s) ==
  /\ refs' = [refs EXCEPT ![s] = @ - 1]
  /\ IF refs[s] # 1 THEN UNCHANGED <<status, leaveQ>>
     ELSE IF cur[s] # None
     THEN /\ status' = [status EXCEPT ![s] = "released"]
          /\ leaveQ' = Put(leaveQ, cur[s], s)
     ELSE status' = [status EXCEPT ![s] = "gone"] /\ UNCHANGED leaveQ

\* back to where the thread was called
Return(t) ==
  /\ Goto(t, IF t \in Pipes THEN "message" ELSE "idle")
  /\ who' = [who EXCEPT ![t] = None]
  /\ code' = [code EXCEPT ![t] = None]
  /\ user' = [user EXCEPT ![t] = None]
  /\ to' = [to EXCEPT ![t] = None]
-----------------------------------------------------------------------------
(* Sessions                                                                *)

AllocSession(s) ==
  /\ status[s] = "off"
  /\ status' = [status EXCEPT ![s] = "on"]
  /\ refs' = [refs EXCEPT ![s] = 1]
  /\ receiving' = [receiving EXCEPT ![s] = TRUE]
  /\ UNCHANGED <<moveVars, userVars, pipeVars, threadVars, asked>>

\* the receive ends: the peer is gone, or somebody called Disconnect
DisconnectSession(s) ==
  /\ receiving[s]
  /\ receiving' = [receiving EXCEPT ![s] = FALSE]
  /\ DropRef(s)
  /\ UNCHANGED <<moveVars, userVars, userMap, joinQ, moveInQ, moveOutQ, threadVars, asked>>

-----------------------------------------------------------------------------
(* MovePipe, of a session by its ID and of a user in its pipe              *)

\* FindSession takes a reference, unless the session is released
FindForMove(t, s, u, c) ==
  /\ status[s] = "on"
  /\ refs' = [refs EXCEPT ![s] = @ + 1]
  /\ Goto(t, "moving?")
  /\ who' = [who EXCEPT ![t] = s]
  /\ code' = [code EXCEPT ![t] = c]
  /\ user' = [user EXCEPT ![t] = u]
  /\ UNCHANGED <<status, receiving, moveVars, userVars, pipeVars, to>>

MovePipe(t, s, c) ==
  /\ t \in Callers /\ At(t, "idle")
  /\ asked[s] < MaxIDMoves
  /\ asked' = [asked EXCEPT ![s] = @ + 1]
  /\ FindForMove(t, s, None, c)

\* from OnMessage, OnUpdate or OnUserUpdate
MoveUser(t, u, c) ==
  /\ t \in Pipes /\ At(t, "message")
  /\ u \in userMap[t]
  /\ FindForMove(t, SessionOf(u), u, c)
  /\ UNCHANGED asked

\* "Already Moving" and "Same PipeCode"
AlreadyMoving(t) ==
  IF user[t] = None THEN moving[who[t]] ELSE uMoving[user[t]]
SamePipeCode(t) ==
  IF user[t] = None THEN cur[who[t]] # None /\ CodeOf[cur[who[t]]] = code[t]
  ELSE CodeOf[uPipe[user[t]]] = code[t]

MutSameCodeAllowed(t) ==
  /\ At(t, "moving?")
  /\ Goto(t, IF AlreadyMoving(t) THEN "refuse" ELSE "start")
  /\ UNCHANGED <<sessionVars, moveVars, userVars, pipeVars, who, code, user, to, asked>>

MutMovingAllowed(t) ==
  /\ At(t, "moving?")
  /\ Goto(t, IF SamePipeCode(t) THEN "refuse" ELSE "start")
  /\ UNCHANGED <<sessionVars, moveVars, userVars, pipeVars, who, code, user, to, asked>>

isMovingPipe(t) ==
  /\ At(t, "moving?")
  /\ Goto(t, IF AlreadyMoving(t) \/ SamePipeCode(t) THEN "refuse" ELSE "start")
  /\ UNCHANGED <<sessionVars, moveVars, userVars, pipeVars, who, code, user, to, asked>>

MutRefuseKeepsRef(t) ==
  /\ At(t, "refuse")
  /\ Return(t)
  /\ UNCHANGED <<sessionVars, moveVars, userVars, pipeVars, asked>>

Refuse(t) ==
  /\ At(t, "refuse")
  /\ DropRef(who[t])
  /\ Return(t)
  /\ UNCHANGED <<receiving, moveVars, userVars, userMap, joinQ, moveInQ, moveOutQ, asked>>

PipeMoveStart(t) ==
  /\ At(t, "start")
  /\ moving' = [moving EXCEPT ![who[t]] = TRUE]
  /\ uMoving' = IF user[t] = None THEN uMoving ELSE [uMoving EXCEPT ![user[t]] = TRUE]
  /\ Goto(t, "findpipe")
  /\ UNCHANGED <<sessionVars, cur, dest, made, uPipe, pipeVars, who, code, user, to, asked>>

\* which pipe of the code has the fewest users is not decided here
FindPipe(t) ==
  /\ At(t, "findpipe")
  /\ \E p \in Pipes :
       /\ CodeOf[p] = code[t]
       /\ to' = [to EXCEPT ![t] = p]
       /\ dest' = [dest EXCEPT ![who[t]] = p]
  /\ Goto(t, "request")
  /\ UNCHANGED <<sessionVars, cur, moving, userVars, pipeVars, who, code, user, asked>>

RequestEnter(t) ==
  /\ At(t, "request") /\ user[t] = None
  /\ joinQ' = Put(joinQ, to[t], who[t])
  /\ Return(t)
  /\ UNCHANGED <<sessionVars, moveVars, userVars, userMap, leaveQ, moveInQ, moveOutQ, asked>>

RequestMoveOut(t) ==
  /\ At(t, "request") /\ user[t] # None
  /\ cur[who[t]] # None
  /\ moveOutQ' = Put(moveOutQ, cur[who[t]], user[t])
  /\ Return(t)
  /\ UNCHANGED <<sessionVars, moveVars, userVars, userMap, joinQ, leaveQ, moveInQ, asked>>
-----------------------------------------------------------------------------
(* A frame of pipe p                                                       *)

\* the queue of the phase is empty: the next phase
JoinEmpty(p) == At(p, "join") /\ joinQ[p] = <<>> /\ Goto(p, "in")
MoveInEmpty(p) == At(p, "in") /\ moveInQ[p] = <<>> /\ Goto(p, "out")
MoveOutEmpty(p) == At(p, "out") /\ moveOutQ[p] = <<>> /\ Goto(p, "leave")
LeaveEmpty(p) == At(p, "leave") /\ leaveQ[p] = <<>> /\ Goto(p, "message")
EndFrame(p) == At(p, "message") /\ Goto(p, "join")

NextPhase(p) ==
  /\ JoinEmpty(p) \/ MoveInEmpty(p) \/ MoveOutEmpty(p) \/ LeaveEmpty(p) \/ EndFrame(p)
  /\ UNCHANGED <<sessionVars, moveVars, userVars, pipeVars, who, code, user, to, asked>>

\* userMap_.Insert, which fails if the key is there, and what follows it
Insert(p, u) ==
  /\ userMap' = IF InMap(p, SessionOf(u)) THEN userMap ELSE [userMap EXCEPT ![p] = @ \cup {u}]
  /\ Goto(p, IF InMap(p, SessionOf(u)) THEN "quit" ELSE "enter")
  /\ who' = [who EXCEPT ![p] = SessionOf(u)]

\* OnUserJoin makes the user, of this pipe
Join(p) ==
  /\ At(p, "join") /\ joinQ[p] # <<>>
  /\ LET s == Head(joinQ[p])  u == <<s, made[s] + 1>> IN
       /\ made' = [made EXCEPT ![s] = @ + 1]
       /\ uPipe' = [uPipe EXCEPT ![u] = p]
       /\ Insert(p, u)
  /\ joinQ' = Rest(joinQ, p)
  /\ UNCHANGED <<sessionVars, moveVars, uMoving, leaveQ, moveInQ, moveOutQ,
                 code, user, to, asked>>

MoveIn(p) ==
  /\ At(p, "in") /\ moveInQ[p] # <<>>
  /\ LET u == Head(moveInQ[p]) IN
       /\ uPipe' = [uPipe EXCEPT ![u] = p]
       /\ user' = [user EXCEPT ![p] = u]
       /\ Insert(p, u)
  /\ moveInQ' = Rest(moveInQ, p)
  /\ UNCHANGED <<sessionVars, moveVars, made, uMoving, joinQ, leaveQ, moveOutQ,
                 code, to, asked>>

\* AfterPipeEnter: "DestPipe, ThisPipe Not Equal" ends the process
AfterPipeEnter(p) ==
  /\ At(p, "enter")
  /\ IF dest[who[p]] # p THEN Goto(p, "quit") /\ UNCHANGED <<cur, dest>>
     ELSE /\ cur' = [cur EXCEPT ![who[p]] = p]
          /\ dest' = [dest EXCEPT ![who[p]] = None]
          /\ Goto(p, "endmove")
  /\ UNCHANGED <<sessionVars, moving, userVars, pipeVars, who, code, user, to, asked>>

MutMoveNeverEnds(p) ==
  /\ At(p, "endmove")
  /\ Goto(p, "drop")
  /\ UNCHANGED <<sessionVars, moveVars, userVars, pipeVars, who, code, user, to, asked>>

PipeMoveEnd(p) ==
  /\ At(p, "endmove")
  /\ moving' = [moving EXCEPT ![who[p]] = FALSE]
  /\ Goto(p, "drop")
  /\ UNCHANGED <<sessionVars, cur, dest, userVars, pipeVars, who, code, user, to, asked>>

DecrementIOCount(p) ==
  /\ At(p, "drop")
  /\ DropRef(who[p])
  /\ Goto(p, IF user[p] = None THEN "join" ELSE "enduser")
  /\ who' = [who EXCEPT ![p] = None]
  /\ UNCHANGED <<receiving, moveVars, userVars, userMap, joinQ, moveInQ, moveOutQ,
                 code, user, to, asked>>

UserMoveEnd(p) ==
  /\ At(p, "enduser")
  /\ uMoving' = [uMoving EXCEPT ![user[p]] = FALSE]
  /\ user' = [user EXCEPT ![p] = None]
  /\ Goto(p, "in")
  /\ UNCHANGED <<sessionVars, moveVars, made, uPipe, pipeVars, who, code, to, asked>>

MutMoveOutKeepsUser(p) ==
  /\ At(p, "out") /\ moveOutQ[p] # <<>>
  /\ LET u == Head(moveOutQ[p]) IN
       moveInQ' = Put(moveInQ, dest[SessionOf(u)], u)
  /\ moveOutQ' = Rest(moveOutQ, p)
  /\ UNCHANGED <<sessionVars, moveVars, userVars, userMap, joinQ, leaveQ, threadVars, asked>>

\* ... and AfterPipeMoveOut
MoveOut(p) ==
  /\ At(p, "out") /\ moveOutQ[p] # <<>>
  /\ LET u == Head(moveOutQ[p])  s == SessionOf(u) IN
       IF InMap(p, s) /\ dest[s] # None
       THEN /\ userMap' = [userMap EXCEPT ![p] = {v \in @ : SessionOf(v) # s}]
            /\ moveInQ' = Put(moveInQ, dest[s], u)
            /\ UNCHANGED pc
       ELSE Goto(p, "quit") /\ UNCHANGED <<userMap, moveInQ>>
  /\ moveOutQ' = Rest(moveOutQ, p)
  /\ UNCHANGED <<sessionVars, moveVars, userVars, joinQ, leaveQ, who, code, user, to, asked>>

MutLeaveKeepsSession(p) ==
  /\ At(p, "leave") /\ leaveQ[p] # <<>>
  /\ userMap' = [userMap EXCEPT ![p] = {v \in @ : SessionOf(v) # Head(leaveQ[p])}]
  /\ leaveQ' = Rest(leaveQ, p)
  /\ UNCHANGED <<sessionVars, moveVars, userVars, joinQ, moveInQ, moveOutQ, threadVars, asked>>

\* OnUserLeave, and DeletePipeUser destroys the session
Leave(p) ==
  /\ At(p, "leave") /\ leaveQ[p] # <<>>
  /\ LET s == Head(leaveQ[p]) IN
       IF InMap(p, s)
       THEN /\ userMap' = [userMap EXCEPT ![p] = {v \in @ : SessionOf(v) # s}]
            /\ status' = [status EXCEPT ![s] = "gone"]
            /\ cur' = [cur EXCEPT ![s] = None]
            /\ dest' = [dest EXCEPT ![s] = None]
            /\ moving' = [moving EXCEPT ![s] = FALSE]
            /\ UNCHANGED pc
       ELSE Goto(p, "quit") /\ UNCHANGED <<userMap, status, moveVars>>
  /\ leaveQ' = Rest(leaveQ, p)
  /\ UNCHANGED <<refs, receiving, userVars, joinQ, moveInQ, moveOutQ, who, code, user, to, asked>>

-----------------------------------------------------------------------------
Init ==
  /\ status = [s \in Sessions |-> "off"] /\ refs = [s \in Sessions |-> 0]
  /\ receiving = [s \in Sessions |-> FALSE]
  /\ cur = [s \in Sessions |-> None] /\ dest = [s \in Sessions |-> None]
  /\ moving = [s \in Sessions |-> FALSE]
  /\ made = [s \in Sessions |-> 0]
  /\ uPipe = [u \in Users |-> None] /\ uMoving = [u \in Users |-> FALSE]
  /\ userMap = [p \in Pipes |-> {}]
  /\ joinQ = [p \in Pipes |-> <<>>] /\ leaveQ = [p \in Pipes |-> <<>>]
  /\ moveInQ = [p \in Pipes |-> <<>>] /\ moveOutQ = [p \in Pipes |-> <<>>]
  /\ pc = [t \in Threads |-> IF t \in Pipes THEN "join" ELSE "idle"]
  /\ who = [t \in Threads |-> None] /\ code = [t \in Threads |-> None]
  /\ user = [t \in Threads |-> None] /\ to = [t \in Threads |-> None]
  /\ asked = [s \in Sessions |-> 0]

MoveStep(t) ==
  \/ isMovingPipe(t) \/ Refuse(t) \/ PipeMoveStart(t) \/ FindPipe(t)
  \/ RequestEnter(t) \/ RequestMoveOut(t)

FrameStep(p) ==
  \/ Join(p) \/ MoveIn(p) \/ AfterPipeEnter(p) \/ PipeMoveEnd(p)
  \/ DecrementIOCount(p) \/ UserMoveEnd(p) \/ MoveOut(p) \/ Leave(p)

Next ==
  \/ \E s \in Sessions : AllocSession(s) \/ DisconnectSession(s)
  \/ \E t \in Callers, s \in Sessions, c \in Codes : MovePipe(t, s, c)
  \/ \E t \in Pipes, u \in Users, c \in Codes : MoveUser(t, u, c)
  \/ \E t \in Threads : MoveStep(t)
  \/ \E p \in Pipes : NextPhase(p) \/ FrameStep(p)

\* Every thread is scheduled, and the callbacks of a frame are finitely many. That a
\* client disconnects, or is moved, is up to it and to the application.
Fairness ==
  /\ \A t \in Threads : WF_vars(MoveStep(t))
  /\ \A p \in Pipes : WF_vars(FrameStep(p)) /\ SF_vars(NextPhase(p))

Spec == Init /\ [][Next]_vars
FairSpec == Spec /\ Fairness
-----------------------------------------------------------------------------
(* What must hold.                                                         *)

ElementsOf(q) == {q[i] : i \in DOMAIN q}
Places(u) ==
  {<<"map", p, 0>> : p \in {r \in Pipes : u \in userMap[r]}}
  \cup UNION {{<<"in", p, i>> : i \in {j \in DOMAIN moveInQ[p] : moveInQ[p][j] = u}} : p \in Pipes}

\* A user is in one pipe or on its way into one, from OnUserJoin to OnUserLeave, and
\* then nowhere.
UserInOnePlace ==
  \A s \in Sessions :
    Cardinality(UNION {Places(u) : u \in {v \in Users : SessionOf(v) = s}})
      = IF made[s] = 0 \/ status[s] = "gone" THEN 0 ELSE 1

Moves(s) ==
  Cardinality({t \in Callers : who[t] = s})
  + Cardinality({p \in Pipes : pc[p] \in MovePcs \cup {"enter", "endmove", "drop"} /\ who[p] = s})
  + Cardinality({p \in Pipes : s \in ElementsOf(joinQ[p])})
  + Cardinality({u \in Users : SessionOf(u) = s
                   /\ \E p \in Pipes : u \in ElementsOf(moveInQ[p]) \cup ElementsOf(moveOutQ[p])})

\* IOcount_ counts the receive and the moves: a move keeps its reference, from the
\* thread that asked for it through two queues, until the new pipe has the user.
RefsExact ==
  \A s \in Sessions : refs[s] = Moves(s) + (IF receiving[s] THEN 1 ELSE 0)

\* A session is released only with no move under way, its pipe has the user that
\* has to leave, and nobody uses the session, which is destroyed by index, after.
ReleasedInItsPipe ==
  \A s \in Sessions : status[s] = "released" =>
    /\ ~moving[s] /\ dest[s] = None /\ cur[s] # None
    /\ InMap(cur[s], s)
    /\ Cardinality({i \in DOMAIN leaveQ[cur[s]] : leaveQ[cur[s]][i] = s}) = 1

\* No request is made twice while it waits, so that none is lost to a full queue.
RequestedOnce ==
  \A p \in Pipes : \A q \in {joinQ, leaveQ, moveInQ, moveOutQ} :
    Cardinality(ElementsOf(q[p])) = Len(q[p])

\* ErrorQuit is never reached: an insertion or a deletion that fails, a leave without a
\* user, a pipe entered that is not destPipe_; nor is a null curPipe_ used.
NeverQuits ==
  \A t \in Threads : pc[t] # "quit" /\ ~(At(t, "request") /\ user[t] # None /\ cur[who[t]] = None)

\* NetPipe::Join takes the ID for new: "Join - Insert Failed" ends the process.
JoinInserts ==
  \A p \in Pipes : At(p, "join") /\ joinQ[p] # <<>> => ~InMap(p, Head(joinQ[p]))

\* AfterPipeEnter: "DestPipe, ThisPipe Not Equal" ends the process.
EntersItsDest == \A p \in Pipes : At(p, "enter") => dest[who[p]] = p

\* The application sees every client enter, move and leave in the order it should, and
\* a move leads to a pipe of another code than the one the client came from.
UserOf(s) == <<s, IF made[s] = 0 THEN 1 ELSE made[s]>>
PlaceOf(s) ==
  IF status[s] = "gone" THEN "gone"
  ELSE IF \E p \in Pipes : UserOf(s) \in userMap[p]
  THEN CHOOSE p \in Pipes : UserOf(s) \in userMap[p]
  ELSE IF made[s] = 0 THEN "outside" ELSE "between"
AnyPipe == CHOOSE p \in Pipes : TRUE
FromOf(s) == IF uPipe[UserOf(s)] = None THEN AnyPipe ELSE uPipe[UserOf(s)]
ClientPlace == [s \in Sessions |-> PlaceOf(s)]
ClientFrom == [s \in Sessions |-> FromOf(s)]
Membership == INSTANCE PipeMembership WITH place <- ClientPlace, from <- ClientFrom
MembershipSpec == Membership!Spec

\* A session that was asked to move arrives, also if its client is gone meanwhile.
MoveEnds == \A s \in Sessions : moving[s] ~> ~moving[s]

\* A released session is destroyed by its pipe: its slot comes back.
LeaveServed == \A s \in Sessions : status[s] = "released" ~> status[s] = "gone"

(* A user is in one pipe, or on the way into one it was asked into once,   *)
(* and a session is destroyed by the pipe that has its user                *)
(* (NetServer.cpp 532-621, 698-714, 1481-1505, NetPipe.cpp 127-187).       *)
UsersInPlace == TypeOK /\ UserInOnePlace /\ RequestedOnce /\ ReleasedInItsPipe

\* What the safety properties rest on, when the application calls MovePipe(ID) once
\* for a session, as OnClientJoin does.
OneEntry == MaxIDMoves = 1
TheUser(s) == <<s, 1>>
Distinct(q) == \A i, j \in DOMAIN q : q[i] = q[j] => i = j

\* A thread that calls MovePipe(ID) has the session to itself.
CallerSupport(t) ==
  /\ pc[t] \in {"idle"} \cup (MovePcs \ {"refuse"})
  /\ user[t] = None
  /\ pc[t] = "idle" => who[t] = None
  /\ pc[t] # "idle" =>
       /\ who[t] \in Sessions
       /\ status[who[t]] = "on" /\ asked[who[t]] = 1 /\ made[who[t]] = 0
       /\ \A r \in Callers : who[r] = who[t] => r = t
       /\ \A p \in Pipes : who[t] \notin ElementsOf(joinQ[p])
       /\ moving[who[t]] <=> pc[t] \in {"findpipe", "request"}
       /\ pc[t] = "request" => to[t] \in Pipes /\ dest[who[t]] = to[t]
       /\ pc[t] # "request" => dest[who[t]] = None

\* A pipe that moves a user has it, and has it until the move is under way; a pipe that
\* lets one in has it from the insertion on.
PipeSupport(p) ==
  /\ pc[p] \in PipePcs \cup MovePcs
  /\ pc[p] \in {"join", "in", "out", "leave", "message"} => who[p] = None /\ user[p] = None
  /\ pc[p] \in MovePcs =>
       /\ who[p] \in Sessions /\ user[p] = TheUser(who[p])
       /\ user[p] \in userMap[p]
       /\ status[who[p]] = "on"
       /\ cur[who[p]] = p
  /\ pc[p] \in {"start", "findpipe", "request"} =>
       /\ code[p] # CodeOf[p]
       /\ user[p] \notin ElementsOf(moveOutQ[p])
       /\ moving[who[p]] <=> pc[p] # "start"
       /\ uMoving[user[p]] <=> pc[p] # "start"
       /\ pc[p] = "request" =>
            to[p] \in Pipes /\ dest[who[p]] = to[p] /\ CodeOf[to[p]] = code[p]
       /\ pc[p] # "request" => dest[who[p]] = None
  /\ pc[p] \in {"enter", "endmove", "drop"} =>
       /\ who[p] \in Sessions /\ user[p] \in {None, TheUser(who[p])}
       /\ TheUser(who[p]) \in userMap[p]
       /\ uMoving[TheUser(who[p])] <=> user[p] # None
       /\ status[who[p]] = "on"
       /\ moving[who[p]] <=> pc[p] # "drop"
       /\ dest[who[p]] = IF pc[p] = "enter" THEN p ELSE None
       /\ pc[p] = "enter" <=> cur[who[p]] # p
  /\ pc[p] = "enduser" =>
       /\ who[p] = None /\ user[p] \in userMap[p]
       /\ LET s == SessionOf(user[p]) IN
            cur[s] = p /\ ~moving[s] /\ dest[s] = None

\* A move that has begun is in somebody's hands.
MoveInHand(s) ==
  \/ \E t \in Threads : pc[t] \in {"findpipe", "request", "enter", "endmove"} /\ who[t] = s
  \/ \E p \in Pipes : \/ s \in ElementsOf(joinQ[p])
                      \/ TheUser(s) \in ElementsOf(moveInQ[p]) \cup ElementsOf(moveOutQ[p])

SessionSupport(s) ==
  /\ status[s] = "on" <=> refs[s] # 0
  /\ asked[s] = 0 => made[s] = 0
  /\ made[s] = 0 => cur[s] = None /\ ~uMoving[TheUser(s)]
  /\ moving[s] \/ dest[s] # None => MoveInHand(s)
  /\ status[s] = "released" =>
       cur[s] # None /\ s \in ElementsOf(leaveQ[cur[s]]) /\ TheUser(s) \in userMap[cur[s]]
  /\ made[s] = 1 /\ status[s] # "gone" =>
       \E p \in Pipes : TheUser(s) \in userMap[p] \cup ElementsOf(moveInQ[p])

\* What it means for a session, or its user, to be in a queue or in the map of a pipe.
QueueSupport(p) ==
  /\ Distinct(joinQ[p]) /\ Distinct(leaveQ[p]) /\ Distinct(moveInQ[p]) /\ Distinct(moveOutQ[p])
  /\ \A s \in ElementsOf(joinQ[p]) :
       status[s] = "on" /\ asked[s] = 1 /\ made[s] = 0 /\ moving[s] /\ dest[s] = p
  /\ \A s \in ElementsOf(leaveQ[p]) : status[s] = "released" /\ cur[s] = p
  /\ \A u \in ElementsOf(moveInQ[p]) :
       /\ made[SessionOf(u)] = 1 /\ status[SessionOf(u)] = "on"
       /\ moving[SessionOf(u)] /\ uMoving[u] /\ dest[SessionOf(u)] = p
       /\ \A r \in Pipes : u \notin userMap[r]
       /\ uPipe[u] \in Pipes /\ CodeOf[p] # CodeOf[uPipe[u]] /\ cur[SessionOf(u)] = uPipe[u]
  /\ \A u \in ElementsOf(moveOutQ[p]) :
       /\ u \in userMap[p] /\ status[SessionOf(u)] = "on"
       /\ moving[SessionOf(u)] /\ uMoving[u] /\ cur[SessionOf(u)] = p
       /\ dest[SessionOf(u)] \in Pipes /\ CodeOf[dest[SessionOf(u)]] # CodeOf[p]
  /\ \A u \in userMap[p] :
       /\ made[SessionOf(u)] = 1 /\ uPipe[u] = p
       /\ status[SessionOf(u)] \in {"on", "released"}
       /\ cur[SessionOf(u)] = p \/ (pc[p] = "enter" /\ who[p] = SessionOf(u))

IInv ==
  /\ Fields /\ RefsExact
  /\ \A t \in Callers : CallerSupport(t)
  /\ \A p \in Pipes : PipeSupport(p) /\ QueueSupport(p)
  /\ \A s \in Sessions : SessionSupport(s)

(* Every move arrives, and every released session is destroyed.            *)
(* (NetPipe.cpp 127-187)                                                   *)
MovesServed == MoveEnds /\ LeaveServed
=============================================================================
