------------------------------ MODULE PipePool ------------------------------
(***************************************************************************)
(* The pipes of one code: PipeManager makes one when they are full and     *)
(* destroys those that stood empty for long, while threads choose pipes in *)
(* MovePipe and enter them later. FindPipe_LoadBalanced returns a pipe and *)
(* gives pipeLock_ back; nothing but time keeps the pipe from being        *)
(* destroyed before the session is in: pipes that were empty for more than *)
(* AvoidAfter rounds are not chosen, and they go after more than           *)
(* DestroyAfter rounds of five seconds.                                    *)
(***************************************************************************)
EXTENDS Integers, FiniteSets

CONSTANTS
  PipeIDs,       \* pipes that can be made
  maxPipeCount,  \* maxPipeCount_
  maxPipeUser,   \* maxPipeUser_: seventy percent of what a pipe takes
  AvoidAfter,    \* 3 in FindPipe_LoadBalanced
  DestroyAfter,  \* 10 in DestroyZeroUserPipe
  Movers,        \* the moves under way, one for each session that moves
  NoPipe,
  MaxUsers       \* bound of the model: users of a pipe

\* A move takes less time, from FindPipe to the frame that lets the user in,
\* than this many rounds.
Slack == DestroyAfter - AvoidAfter

ASSUME ThresholdsAssumption == AvoidAfter \in Nat /\ DestroyAfter \in Nat /\ AvoidAfter <= DestroyAfter
ASSUME CountsAssumption == maxPipeCount \in Nat \ {0} /\ maxPipeUser \in Nat /\ MaxUsers \in Nat
ASSUME PipeIDsAssumption == IsFiniteSet(PipeIDs) /\ NoPipe \notin PipeIDs

VARIABLES
  map,         \* the pipes in pipeMap_
  zeroUserCount,
  users,       \* GetUserSize of a pipe
  stopped,     \* the pipes that were told to stop
  pipeCount,   \* pipeCount_ of the manager
  destroyed,   \* what DestroyZeroUserPipe returned, until it is subtracted
  dest, age    \* of a move: its pipe, and the rounds since it was chosen

poolVars == <<map, zeroUserCount, users, stopped, pipeCount, destroyed, dest, age>>

PoolTypeOK ==
  /\ map \subseteq PipeIDs /\ stopped \subseteq PipeIDs
  /\ zeroUserCount \in [PipeIDs -> Nat] /\ users \in [PipeIDs -> 0..MaxUsers]
  /\ pipeCount \in Nat /\ destroyed \in Nat
  /\ dest \in [Movers -> PipeIDs \cup {NoPipe}]
  /\ age \in [Movers -> Nat]

Fresh == PipeIDs \ (map \cup stopped)
-----------------------------------------------------------------------------
(* PipeManager                                                             *)

\* NewPipe and RegisterPipe
RegisterPipe(p) ==
  /\ p \in Fresh
  /\ map' = map \cup {p}
  /\ pipeCount' = pipeCount + 1
  /\ UNCHANGED <<zeroUserCount, users, stopped, destroyed, dest, age>>

AutoCreate(p) ==
  /\ pipeCount < maxPipeCount /\ destroyed = 0
  /\ \E q \in map : users[q] >= maxPipeUser
  /\ RegisterPipe(p)

\* one round of five seconds: every move under way gets older
Round ==
  /\ \A m \in Movers : dest[m] # NoPipe => age[m] < Slack
  /\ age' = [m \in Movers |-> IF dest[m] = NoPipe THEN 0 ELSE age[m] + 1]

RevivePipe ==
  /\ pipeCount <= 1 /\ destroyed = 0
  /\ zeroUserCount' = [p \in PipeIDs |-> IF p \in map THEN 0 ELSE zeroUserCount[p]]
  /\ Round
  /\ UNCHANGED <<map, users, stopped, pipeCount, destroyed, dest>>

Counted(p) == IF users[p] = 0 THEN zeroUserCount[p] + 1 ELSE 0

\* pipeList: empty now, and in more than DestroyAfter rounds
Idle == {p \in map : users[p] = 0 /\ Counted(p) > DestroyAfter}

MutToDestroy(p) == {Idle}

\* the first of the list stays if the list is all there is
ToDestroy(p) == IF Idle = map THEN {Idle \ {p}} ELSE {Idle}

DestroyZeroUserPipe ==
  /\ pipeCount > 1 /\ destroyed = 0
  /\ zeroUserCount' = [p \in PipeIDs |-> IF p \in map THEN Counted(p) ELSE zeroUserCount[p]]
  /\ \E first \in map : \E gone \in ToDestroy(first) :
       /\ map' = map \ gone
       /\ stopped' = stopped \cup gone
       /\ destroyed' = Cardinality(gone)
  /\ Round
  /\ UNCHANGED <<users, pipeCount, dest>>

\* GarbageCollect, after DestroyZeroUserPipe
MutSubtract ==
  /\ destroyed # 0
  /\ destroyed' = 0
  /\ UNCHANGED <<map, zeroUserCount, users, stopped, pipeCount, dest, age>>

SubtractDestroyed ==
  /\ destroyed # 0
  /\ pipeCount' = pipeCount - destroyed
  /\ destroyed' = 0
  /\ UNCHANGED <<map, zeroUserCount, users, stopped, dest, age>>
-----------------------------------------------------------------------------
(* Moves and users                                                         *)

Open == {p \in map : zeroUserCount[p] <= AvoidAfter}

Choose(m, p) == dest' = [dest EXCEPT ![m] = p] /\ age' = [age EXCEPT ![m] = 0]

\* FindPipe_LoadBalanced: the pipe with the fewest users
FindOpenPipe(m) ==
  /\ dest[m] = NoPipe
  /\ \E p \in Open : (\A q \in Open : users[p] <= users[q]) /\ Choose(m, p)
  /\ UNCHANGED <<map, zeroUserCount, users, stopped, pipeCount, destroyed>>

MutFindAnyPipe(m) ==
  /\ dest[m] = NoPipe /\ Open = {}
  /\ \E p \in map : Choose(m, p)
  /\ UNCHANGED <<map, zeroUserCount, users, stopped, pipeCount, destroyed>>

\* none is open: the first of the code, which is kept from now on
FindAnyPipe(m) ==
  /\ dest[m] = NoPipe /\ Open = {}
  /\ \E p \in map : Choose(m, p) /\ zeroUserCount' = [zeroUserCount EXCEPT ![p] = 0]
  /\ UNCHANGED <<map, users, stopped, pipeCount, destroyed>>

\* RequestEnter, and Join or Move in a frame of the pipe
Enter(m) ==
  /\ dest[m] # NoPipe /\ users[dest[m]] < MaxUsers
  /\ users' = [users EXCEPT ![dest[m]] = @ + 1]
  /\ dest' = [dest EXCEPT ![m] = NoPipe]
  /\ UNCHANGED <<map, zeroUserCount, stopped, pipeCount, destroyed, age>>

LeavePipe(p) ==
  /\ users[p] > 0
  /\ users' = [users EXCEPT ![p] = @ - 1]
  /\ UNCHANGED <<map, zeroUserCount, stopped, pipeCount, destroyed, dest, age>>
-----------------------------------------------------------------------------
PoolInit ==
  /\ \E p \in PipeIDs : map = {p}
  /\ zeroUserCount = [p \in PipeIDs |-> 0] /\ users = [p \in PipeIDs |-> 0]
  /\ stopped = {} /\ pipeCount = 1 /\ destroyed = 0
  /\ dest = [m \in Movers |-> NoPipe] /\ age = [m \in Movers |-> 0]

PoolNext ==
  \/ \E p \in PipeIDs : AutoCreate(p) \/ LeavePipe(p)
  \/ RevivePipe \/ DestroyZeroUserPipe \/ SubtractDestroyed
  \/ \E m \in Movers : FindOpenPipe(m) \/ FindAnyPipe(m) \/ Enter(m)

PoolSpec == PoolInit /\ [][PoolNext]_poolVars
-----------------------------------------------------------------------------
(* A move never waits for a pipe that was stopped: nobody would let the    *)
(* user in, and the session would keep its reference (MyWorkerProc of a    *)
(* pipe does not Join once it stops). And a stopped pipe has no users.     *)
NobodyEntersStopped ==
  /\ \A m \in Movers : dest[m] \notin stopped
  /\ \A p \in stopped : users[p] = 0

(* MovePipe finds a pipe (NewPipe Does Not Exist In the Map): the last one *)
(* stays.                                                                  *)
CodeHasPipe == map # {}

(* pipeCount_ is the number of pipes, as soon as GarbageCollect is through. *)
CountFollowsMap == pipeCount = Cardinality(map) + destroyed

\* The pipes of a code: nobody moves into a stopped one, one always stays, and
\* pipeCount_ follows (NetServer.cpp 642-694, 761-800, PipeManager.h 86-142).
PipesKept == PoolTypeOK /\ NobodyEntersStopped /\ CodeHasPipe /\ CountFollowsMap

\* A pipe somebody moves to was in the map when it was chosen, and has not been
\* counted as empty for more rounds than that, and the move, took.
ChosenStays ==
  \A m \in Movers : dest[m] # NoPipe =>
    /\ dest[m] \in map /\ age[m] <= Slack
    /\ zeroUserCount[dest[m]] <= AvoidAfter + age[m]

PoolInv == PipesKept /\ map \cap stopped = {} /\ ChosenStays
=============================================================================
