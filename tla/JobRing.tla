------------------------------- MODULE JobRing -------------------------------
(***************************************************************************)
(* The job queue of a session: a QueueWithoutCount filled by the worker    *)
(* that receives and emptied by the frame of the pipe that has the user.   *)
(* ClearJobQ, called for a move and by Destroy, takes out what is left and *)
(* puts both ends back to the beginning of the array.                      *)
(***************************************************************************)
EXTENDS Naturals, Sequences, FiniteSets

CONSTANTS
  QUEUE_MAX_SIZE,     \* 256 in the code
  MaxJobs, MaxSessions,
  nullptr

Jobs == (1..MaxSessions) \X (1..MaxJobs)

VARIABLES
  arr, front, rear,
  session,            \* the session in the slot (the ID of the user, and of new jobs)
  made,               \* jobs received so far
  finished,           \* jobs processed or freed so far, in that order
  worker,             \* the thread in EnqueueJob: pc, its job, and a local copy of an end
  owner,              \* the thread in DequeueJob or ClearJobQ: pc, what it is there for, its buf
  quit
vars == <<arr, front, rear, session, made, finished, worker, owner, quit>>
ring == <<arr, front, rear>>

TypeOK ==
  /\ arr \in [0..QUEUE_MAX_SIZE - 1 -> Jobs \cup {nullptr}]
  /\ front \in 0..QUEUE_MAX_SIZE - 1 /\ rear \in 0..QUEUE_MAX_SIZE - 1
  /\ session \in 1..MaxSessions /\ made \in 0..MaxJobs
  /\ finished \in Seq(Jobs)
  /\ worker \in [pc : {"idle", "full", "write", "read_rear", "publish"},
                 job : Jobs \cup {nullptr}, at : 0..QUEUE_MAX_SIZE - 1]
  /\ owner \in [pc : {"idle", "empty", "take", "advance", "use", "reset_front", "reset_rear"},
                for : {"frame", "move", "destroy"}, buf : Jobs \cup {nullptr}]
  /\ quit \in {"no", "ArrayQueueFull", "NotEqual", "FreeNullptr"}

Init ==
  /\ arr = [i \in 0..QUEUE_MAX_SIZE - 1 |-> nullptr]
  /\ front = 0 /\ rear = 0 /\ session = 1 /\ made = 0 /\ finished = <<>>
  /\ worker = [pc |-> "idle", job |-> nullptr, at |-> 0]
  /\ owner = [pc |-> "idle", for |-> "frame", buf |-> nullptr]
  /\ quit = "no"

After(i) == (i + 1) % QUEUE_MAX_SIZE
-----------------------------------------------------------------------------
\* The worker. It holds a reference of the session, which Destroy waits for.

WorkerAt(pc) == quit = "no" /\ worker.pc = pc

\* a set of packets of the session arrives; isFull reads front_ first
EnqueueJob ==
  /\ WorkerAt("idle") /\ made < MaxJobs /\ owner.for # "destroy"
  /\ made' = made + 1
  /\ worker' = [pc |-> "full", job |-> <<session, made + 1>>, at |-> front]
  /\ UNCHANGED <<ring, session, finished, owner, quit>>

isFull ==
  /\ WorkerAt("full")
  /\ IF After(rear) = worker.at THEN quit' = "ArrayQueueFull" ELSE UNCHANGED quit
  /\ worker' = [worker EXCEPT !.pc = "write"]
  /\ UNCHANGED <<ring, session, made, finished, owner>>

WriteItem ==
  /\ WorkerAt("write")
  /\ arr' = [arr EXCEPT ![rear] = worker.job]
  /\ worker' = [worker EXCEPT !.pc = "read_rear"]
  /\ UNCHANGED <<front, rear, session, made, finished, owner, quit>>

ReadRear ==
  /\ WorkerAt("read_rear")
  /\ worker' = [worker EXCEPT !.pc = "publish", !.at = After(rear)]
  /\ UNCHANGED <<ring, session, made, finished, owner, quit>>

\* InterlockedExchange16(&rear_)
Publish ==
  /\ WorkerAt("publish")
  /\ rear' = worker.at
  /\ worker' = [pc |-> "idle", job |-> nullptr, at |-> 0]
  /\ UNCHANGED <<arr, front, session, made, finished, owner, quit>>
-----------------------------------------------------------------------------
\* The pipe, and the thread that destroys the session when the user has left.

OwnerAt(pc) == quit = "no" /\ owner.pc = pc

MutBegin(for) ==
  /\ OwnerAt("idle")
  /\ for = "destroy" => session < MaxSessions
  /\ owner' = [pc |-> "empty", for |-> for, buf |-> nullptr]
  /\ UNCHANGED <<ring, session, made, finished, worker, quit>>

\* DequeueJob of a frame, ClearJobQ of MovePipe, or Destroy, without references
Begin(for) ==
  /\ OwnerAt("idle")
  /\ for = "destroy" => worker.pc = "idle" /\ session < MaxSessions
  /\ owner' = [pc |-> "empty", for |-> for, buf |-> nullptr]
  /\ UNCHANGED <<ring, session, made, finished, worker, quit>>

isEmpty ==
  /\ OwnerAt("empty")
  /\ owner' = IF front # rear THEN [owner EXCEPT !.pc = "take"]
              ELSE IF owner.for = "frame" THEN [owner EXCEPT !.pc = "idle"]
              ELSE [owner EXCEPT !.pc = "reset_front"]
  /\ UNCHANGED <<ring, session, made, finished, worker, quit>>

MutTake ==
  /\ OwnerAt("take")
  /\ owner' = [owner EXCEPT !.pc = "advance", !.buf = arr[0]]
  /\ arr' = [arr EXCEPT ![front] = nullptr]
  /\ UNCHANGED <<front, rear, session, made, finished, worker, quit>>

\* *buf = arr_[front_] and arr_[front_] = NULL, in a slot that the worker leaves alone
Take ==
  /\ OwnerAt("take")
  /\ owner' = [owner EXCEPT !.pc = "advance", !.buf = arr[front]]
  /\ arr' = [arr EXCEPT ![front] = nullptr]
  /\ UNCHANGED <<front, rear, session, made, finished, worker, quit>>

\* InterlockedExchange16(&front_)
Advance ==
  /\ OwnerAt("advance")
  /\ front' = After(front)
  /\ owner' = [owner EXCEPT !.pc = "use"]
  /\ UNCHANGED <<arr, rear, session, made, finished, worker, quit>>

\* A frame ends at nullptr, and at a job the application refuses (it disconnects and keeps
\* what is behind it for the next frame); ClearJobQ frees the set and goes on.
Use ==
  /\ OwnerAt("use")
  /\ IF owner.buf = nullptr
     THEN IF owner.for = "frame"
          THEN owner' = [owner EXCEPT !.pc = "idle"] /\ UNCHANGED <<finished, quit>>
          ELSE quit' = "FreeNullptr" /\ UNCHANGED <<owner, finished>>
     ELSE /\ finished' = Append(finished, owner.buf)
          /\ \E pc \in {"empty", "idle"} :
               /\ pc = "idle" => owner.for = "frame"
               /\ owner' = [owner EXCEPT !.pc = pc, !.buf = nullptr]
          /\ quit' = IF owner.for = "frame" /\ owner.buf[1] # session
                     THEN "NotEqual" ELSE quit
  /\ UNCHANGED <<ring, session, made, worker>>

MutResetFront ==
  /\ OwnerAt("reset_front")
  /\ UNCHANGED front
  /\ owner' = [owner EXCEPT !.pc = "reset_rear"]
  /\ UNCHANGED <<arr, rear, session, made, finished, worker, quit>>

\* Clear
ResetFront ==
  /\ OwnerAt("reset_front")
  /\ front' = 0
  /\ owner' = [owner EXCEPT !.pc = "reset_rear"]
  /\ UNCHANGED <<arr, rear, session, made, finished, worker, quit>>
ResetRear ==
  /\ OwnerAt("reset_rear")
  /\ rear' = 0
  /\ session' = IF owner.for = "destroy" THEN session + 1 ELSE session
  /\ owner' = [pc |-> "idle", for |-> "frame", buf |-> nullptr]
  /\ UNCHANGED <<arr, front, made, finished, worker, quit>>
-----------------------------------------------------------------------------
WorkerStep == EnqueueJob \/ isFull \/ WriteItem \/ ReadRear \/ Publish
OwnerStep == isEmpty \/ Take \/ Advance \/ Use \/ ResetFront \/ ResetRear
Next == WorkerStep \/ OwnerStep \/ \E for \in {"frame", "move", "destroy"} : Begin(for)
Spec == Init /\ [][Next]_vars

\* MovePipe does not look whether a receive is being handed on. Without the steps in which
\* it clears the queue under the worker:
NoClearUnderWorker == ~(owner'.for = "move" /\ worker'.pc # "idle")
FreshSpec == Init /\ [][Next /\ NoClearUnderWorker]_vars
-----------------------------------------------------------------------------
Length == (rear + QUEUE_MAX_SIZE - front) % QUEUE_MAX_SIZE
Slots == [i \in 1..Length |-> arr[(front + i - 1) % QUEUE_MAX_SIZE]]

\* Every job received is finished once and in order, or in the hands of one of the two
\* threads, or in the ring: none is lost, none comes twice.
NoJobLost ==
  LET held == IF owner.buf = nullptr THEN <<>> ELSE <<owner.buf>>
      inRing == IF owner.pc = "advance" THEN SubSeq(Slots, 2, Length) ELSE Slots
      coming == IF worker.pc = "idle" THEN <<>> ELSE <<worker.job>>
      all == finished \o held \o (IF owner.pc = "reset_rear" THEN <<>> ELSE inRing) \o coming
  IN /\ \A i \in DOMAIN all : all[i] # nullptr
     /\ [i \in DOMAIN all |-> all[i][2]] = [i \in 1..made |-> i]

\* A user gets the jobs of its own session only (ErrorQuit in DequeueJob), and no set is
\* freed that is not there.
OwnJobs == quit \notin {"NotEqual", "FreeNullptr"}
-----------------------------------------------------------------------------
(* Why: the ring holds the last jobs of the session that are not finished, *)
(* numbered without a gap, and a front_ the worker has read before only    *)
(* lets it see a ring that is fuller than it is.                           *)
Position(i) == (front + i - 1) % QUEUE_MAX_SIZE
Working == IF worker.pc = "idle" THEN 0 ELSE 1
Held == IF owner.pc \in {"advance", "use"} THEN 1 ELSE 0
InRing == IF owner.pc = "reset_rear" THEN 0 ELSE Length - (IF owner.pc = "advance" THEN 1 ELSE 0)

OwnerSupport ==
  /\ owner.buf = IF Held = 1 THEN <<session, Len(finished) + 1>> ELSE nullptr
  /\ owner.pc \in {"take", "advance"} => Length > 0
  /\ owner.pc = "reset_front" => Length = 0
  /\ owner.pc = "reset_rear" => front = 0
  /\ owner.pc \in {"reset_front", "reset_rear"} => owner.for # "frame"
  /\ owner.pc = "idle" => owner.for = "frame"
  /\ owner.for # "frame" => worker.pc = "idle"
  /\ owner.for = "destroy" => session < MaxSessions

WorkerSupport ==
  /\ worker.pc # "idle" => worker.job = <<session, made>>
  /\ worker.pc = "full" => Length <= (rear + QUEUE_MAX_SIZE - worker.at) % QUEUE_MAX_SIZE
  /\ worker.pc \in {"write", "read_rear", "publish"} /\ quit = "no" => Length < QUEUE_MAX_SIZE - 1
  /\ worker.pc \in {"read_rear", "publish"} => arr[rear] = worker.job
  /\ worker.pc = "publish" => worker.at = After(rear)

JobsInOrder ==
  /\ \A k \in 1..Len(finished) : finished[k][2] = k
  /\ Len(finished) + Held + InRing + Working = made
  /\ owner.pc # "reset_rear" =>
       \A i \in 1..Length : (i = 1 /\ owner.pc = "advance") \/ arr[Position(i)] = <<session, made - Working - Length + i>>

JobInv == TypeOK /\ OwnerSupport /\ WorkerSupport /\ JobsInOrder /\ quit \in {"no", "ArrayQueueFull"}
=============================================================================
