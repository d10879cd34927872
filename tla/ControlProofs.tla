--------------------------- MODULE ControlProofs ---------------------------
(***************************************************************************)
(* Proofs about what the threads that control a server do, for any number  *)
(* of them, of slots, pipes and connections: the pipes of a PipeManager,   *)
(* the timeout of sessions, the counters that the observer adds up, and    *)
(* Start and Stop.                                                         *)
(***************************************************************************)
EXTENDS ServerControl, PipePool, Timeouts, Monitor, FiniteSetTheorems, TLAPS

-----------------------------------------------------------------------------
(***************************************************************************)
(* PipePool: any number of pipes, moves and users, and any thresholds.     *)
(***************************************************************************)
LEMMA SlackIsNat == Slack \in Nat /\ AvoidAfter + Slack = DestroyAfter
BY ThresholdsAssumption DEF Slack

LEMMA PoolInitHasInv == PoolInit => PoolInv
<1> SUFFICES ASSUME PoolInit PROVE PoolInv
  OBVIOUS
<1>1. PICK p \in PipeIDs : map = {p}
  BY DEF PoolInit
<1>2. Cardinality(map) = 1
  BY <1>1, FS_Singleton
<1>3. PoolTypeOK
  BY <1>1, CountsAssumption DEF PoolInit, PoolTypeOK
<1>4. QED
  BY <1>1, <1>2, <1>3, PipeIDsAssumption
  DEF PoolInit, PoolInv, PipesKept, NobodyEntersStopped, CodeHasPipe, CountFollowsMap, ChosenStays

-----------------------------------------------------------------------------
(* The manager: a pipe is added, counted, or destroyed.                    *)

LEMMA AutoCreateKeepsInv ==
  ASSUME PoolInv, NEW p \in PipeIDs, AutoCreate(p)
  PROVE  PoolInv'
<1> USE DEF AutoCreate, RegisterPipe, Fresh, PoolInv, PipesKept
<1>1. IsFiniteSet(map)
  BY PipeIDsAssumption, FS_Subset DEF PoolTypeOK
<1>2. Cardinality(map') = Cardinality(map) + 1
  BY <1>1, FS_AddElement
<1>3. PoolTypeOK'
  BY DEF PoolTypeOK
<1>4. CountFollowsMap'
  BY <1>1, <1>2, FS_CardinalityType DEF CountFollowsMap, PoolTypeOK
<1>5. NobodyEntersStopped' /\ CodeHasPipe' /\ (map \cap stopped)' = {}
  BY DEF NobodyEntersStopped, CodeHasPipe
<1>6. ChosenStays'
  BY DEF ChosenStays
<1>7. QED
  BY <1>3, <1>4, <1>5, <1>6

LEMMA ReviveKeepsInv ==
  ASSUME PoolInv, RevivePipe
  PROVE  PoolInv'
<1> USE SlackIsNat, ThresholdsAssumption DEF RevivePipe, Round, PoolInv, PipesKept
<1>1. PoolTypeOK'
  BY DEF PoolTypeOK
<1>2. NobodyEntersStopped' /\ CodeHasPipe' /\ CountFollowsMap'
  BY DEF NobodyEntersStopped, CodeHasPipe, CountFollowsMap
<1>3. ChosenStays'
  <2> SUFFICES ASSUME NEW m \in Movers, dest[m] # NoPipe
               PROVE  /\ dest[m] \in map /\ age'[m] <= Slack
                      /\ zeroUserCount'[dest[m]] <= AvoidAfter + age'[m]
    BY DEF ChosenStays
  <2>1. dest[m] \in map /\ age[m] \in Nat /\ age[m] < Slack
    BY DEF ChosenStays, PoolTypeOK
  <2>2. age'[m] = age[m] + 1 /\ zeroUserCount'[dest[m]] = 0
    BY <2>1 DEF PoolTypeOK
  <2>3. QED
    BY <2>1, <2>2
<1>4. QED
  BY <1>1, <1>2, <1>3

\* The threshold of FindPipe_LoadBalanced and the slack of a move together do not reach
\* the threshold of DestroyZeroUserPipe: whatever somebody moves to is not idle.
LEMMA ChosenIsNotIdle ==
  ASSUME PoolInv, Round, NEW m \in Movers, dest[m] # NoPipe
  PROVE  /\ dest[m] \in map \ Idle
         /\ age'[m] = age[m] + 1 /\ age'[m] <= Slack
         /\ Counted(dest[m]) <= AvoidAfter + age'[m]
<1> USE SlackIsNat, ThresholdsAssumption DEF PoolInv, PipesKept
<1>1. /\ dest[m] \in map /\ age[m] \in Nat /\ age[m] < Slack
      /\ zeroUserCount[dest[m]] \in Nat /\ zeroUserCount[dest[m]] <= AvoidAfter + age[m]
  BY DEF ChosenStays, PoolTypeOK, Round
<1>2. age'[m] = age[m] + 1
  BY DEF Round
<1>3. Counted(dest[m]) <= AvoidAfter + age'[m]
  BY <1>1, <1>2 DEF Counted
<1>4. Counted(dest[m]) <= DestroyAfter
  BY <1>1, <1>2 DEF Counted
<1>5. Counted(dest[m]) \in Nat
  BY <1>1 DEF Counted
<1>6. QED
  BY <1>1, <1>2, <1>3, <1>4, <1>5 DEF Idle

LEMMA DestroyPipeKeepsInv ==
  ASSUME PoolInv, DestroyZeroUserPipe
  PROVE  PoolInv'
<1> USE SlackIsNat, ThresholdsAssumption DEF PoolInv, PipesKept
<1>1. PICK first \in map : \E gone \in ToDestroy(first) :
        map' = map \ gone /\ stopped' = stopped \cup gone /\ destroyed' = Cardinality(gone)
  BY DEF DestroyZeroUserPipe
<1>2. PICK gone \in ToDestroy(first) :
        map' = map \ gone /\ stopped' = stopped \cup gone /\ destroyed' = Cardinality(gone)
  BY <1>1
<1>3. gone \subseteq Idle /\ Idle \subseteq map /\ map \ gone # {}
  BY <1>2 DEF ToDestroy, Idle
<1>4. IsFiniteSet(map) /\ IsFiniteSet(gone)
  BY <1>3, PipeIDsAssumption, FS_Subset DEF PoolTypeOK
<1>5. Cardinality(map) = Cardinality(map \ gone) + Cardinality(gone)
  <2>1. map \cap gone = gone
    BY <1>3
  <2>2. /\ IsFiniteSet(map \ gone)
        /\ Cardinality(map \ gone) = Cardinality(map) - Cardinality(map \cap gone)
    BY <1>4, FS_Difference
  <2>3. Cardinality(map) \in Nat /\ Cardinality(gone) \in Nat
    BY <1>4, FS_CardinalityType
  <2>4. Cardinality(map \cap gone) = Cardinality(gone)
    BY <2>1, Zenon
  <2> DEFINE a == Cardinality(map)  b == Cardinality(gone)
             c == Cardinality(map \ gone)  d == Cardinality(map \cap gone)
  <2>5. a \in Nat /\ b \in Nat /\ c = a - d /\ d = b => a = c + b
    <3> HIDE DEF a, b, c, d
    <3> QED
      OBVIOUS
  <2>6. QED
    BY <2>2, <2>3, <2>4, <2>5, Zenon
<1>6. CountFollowsMap'
  <2>1. pipeCount = Cardinality(map) /\ pipeCount' = pipeCount
    <3>1. Cardinality(map) \in Nat
      BY <1>4, FS_CardinalityType
    <3>2. QED
      BY <3>1 DEF CountFollowsMap, DestroyZeroUserPipe
  <2>2. QED
    BY <1>2, <1>5, <2>1 DEF CountFollowsMap
<1>7. PoolTypeOK'
  <2>1. zeroUserCount' \in [PipeIDs -> Nat] /\ age' \in [Movers -> Nat]
    BY DEF DestroyZeroUserPipe, Round, Counted, PoolTypeOK
  <2>2. destroyed' \in Nat
    BY <1>2, <1>4, FS_CardinalityType
  <2>3. QED
    BY <1>2, <1>3, <2>1, <2>2 DEF DestroyZeroUserPipe, PoolTypeOK
<1>8. CodeHasPipe' /\ (map \cap stopped)' = {}
  BY <1>2, <1>3 DEF CodeHasPipe
<1>9. NobodyEntersStopped'
  <2>1. ASSUME NEW m \in Movers PROVE  dest'[m] \notin stopped'
    <3>1. CASE dest[m] = NoPipe
      BY <1>2, <1>3, <3>1, PipeIDsAssumption DEF DestroyZeroUserPipe, PoolTypeOK
    <3>2. CASE dest[m] # NoPipe
      BY <1>2, <1>3, <3>2, ChosenIsNotIdle DEF DestroyZeroUserPipe, NobodyEntersStopped
    <3>3. QED
      BY <3>1, <3>2
  <2>2. ASSUME NEW p \in stopped' PROVE  users'[p] = 0
    BY <1>2, <1>3, <2>2 DEF DestroyZeroUserPipe, NobodyEntersStopped, Idle
  <2>3. QED
    BY <2>1, <2>2 DEF NobodyEntersStopped
<1>10. ChosenStays'
  <2> SUFFICES ASSUME NEW m \in Movers, dest[m] # NoPipe
               PROVE  /\ dest[m] \in map' /\ age'[m] <= Slack
                      /\ zeroUserCount'[dest[m]] <= AvoidAfter + age'[m]
    BY DEF ChosenStays, DestroyZeroUserPipe
  <2>1. /\ dest[m] \in map \ Idle /\ age'[m] <= Slack
        /\ Counted(dest[m]) <= AvoidAfter + age'[m]
    BY ChosenIsNotIdle DEF DestroyZeroUserPipe
  <2>2. zeroUserCount'[dest[m]] = Counted(dest[m])
    BY <2>1 DEF DestroyZeroUserPipe, PoolTypeOK
  <2>3. QED
    BY <1>2, <1>3, <2>1, <2>2
<1>11. QED
  BY <1>6, <1>7, <1>8, <1>9, <1>10

LEMMA SubtractKeepsInv ==
  ASSUME PoolInv, SubtractDestroyed
  PROVE  PoolInv'
<1> USE DEF SubtractDestroyed, PoolInv, PipesKept
<1>1. Cardinality(map) \in Nat
  BY PipeIDsAssumption, FS_Subset, FS_CardinalityType DEF PoolTypeOK
<1>2. PoolTypeOK' /\ CountFollowsMap'
  BY <1>1 DEF PoolTypeOK, CountFollowsMap
<1>3. NobodyEntersStopped' /\ CodeHasPipe' /\ ChosenStays'
  BY DEF NobodyEntersStopped, CodeHasPipe, ChosenStays
<1>4. QED
  BY <1>2, <1>3

-----------------------------------------------------------------------------
(* Moves and users.                                                        *)

LEMMA ChooseKeepsInv ==
  ASSUME PoolInv, NEW m \in Movers, FindOpenPipe(m) \/ FindAnyPipe(m)
  PROVE  PoolInv'
<1> USE SlackIsNat, ThresholdsAssumption DEF PoolInv, PipesKept
<1>1. PICK p \in map : /\ Choose(m, p)
                       /\ zeroUserCount'[p] \in Nat /\ zeroUserCount'[p] <= AvoidAfter
                       /\ \A q \in PipeIDs : zeroUserCount'[q] \in {0, zeroUserCount[q]}
  BY DEF FindOpenPipe, FindAnyPipe, Open, PoolTypeOK
<1>2. UNCHANGED <<map, users, stopped, pipeCount, destroyed>>
  BY DEF FindOpenPipe, FindAnyPipe
<1>3. p \in PipeIDs /\ p # NoPipe /\ p \notin stopped
  BY <1>1, PipeIDsAssumption DEF PoolTypeOK
<1>4. PoolTypeOK'
  <2>1. zeroUserCount' \in [PipeIDs -> Nat]
    BY DEF FindOpenPipe, FindAnyPipe, PoolTypeOK
  <2>2. dest' \in [Movers -> PipeIDs \cup {NoPipe}] /\ age' \in [Movers -> Nat]
    BY <1>1, <1>3 DEF Choose, PoolTypeOK
  <2>3. QED
    BY <1>2, <2>1, <2>2 DEF PoolTypeOK
<1>5. NobodyEntersStopped' /\ CodeHasPipe' /\ CountFollowsMap'
  BY <1>1, <1>2, <1>3 DEF Choose, NobodyEntersStopped, CodeHasPipe, CountFollowsMap, PoolTypeOK
<1>6. ChosenStays'
  <2> SUFFICES ASSUME NEW n \in Movers, dest'[n] # NoPipe
               PROVE  /\ dest'[n] \in map /\ age'[n] <= Slack
                      /\ zeroUserCount'[dest'[n]] <= AvoidAfter + age'[n]
    BY <1>2 DEF ChosenStays
  <2>1. CASE n = m
    <3>1. dest'[n] = p /\ age'[n] = 0
      BY <1>1, <2>1 DEF Choose, PoolTypeOK
    <3>2. QED
      BY <1>1, <3>1
  <2>2. CASE n # m
    <3>1. dest'[n] = dest[n] /\ age'[n] = age[n] /\ age[n] \in Nat
      BY <1>1, <2>2 DEF Choose, PoolTypeOK
    <3>2. /\ dest[n] \in map /\ age[n] <= Slack /\ zeroUserCount[dest[n]] <= AvoidAfter + age[n]
          /\ dest[n] \in PipeIDs
      BY <3>1 DEF ChosenStays, PoolTypeOK
    <3>3. QED
      BY <1>1, <3>1, <3>2
  <2>3. QED
    BY <2>1, <2>2
<1>7. QED
  BY <1>2, <1>4, <1>5, <1>6

LEMMA EnterKeepsInv ==
  ASSUME PoolInv, NEW m \in Movers, Enter(m)
  PROVE  PoolInv'
<1> USE DEF PoolInv, PipesKept, Enter
<1>1. dest[m] \in map /\ dest[m] \in PipeIDs /\ dest[m] \notin stopped
  BY DEF ChosenStays, PoolTypeOK
<1>2. PoolTypeOK'
  BY <1>1, CountsAssumption DEF PoolTypeOK
<1>3. NobodyEntersStopped'
  BY <1>1, PipeIDsAssumption DEF NobodyEntersStopped, PoolTypeOK
<1>4. CodeHasPipe' /\ CountFollowsMap'
  BY DEF CodeHasPipe, CountFollowsMap
<1>5. ChosenStays'
  BY DEF ChosenStays, PoolTypeOK
<1>6. QED
  BY <1>2, <1>3, <1>4, <1>5

LEMMA LeaveKeepsInv ==
  ASSUME PoolInv, NEW p \in PipeIDs, LeavePipe(p)
  PROVE  PoolInv'
<1> USE DEF PoolInv, PipesKept, LeavePipe
<1>1. PoolTypeOK'
  BY CountsAssumption DEF PoolTypeOK
<1>2. NobodyEntersStopped'
  BY DEF NobodyEntersStopped, PoolTypeOK
<1>3. CodeHasPipe' /\ CountFollowsMap' /\ ChosenStays'
  BY DEF CodeHasPipe, CountFollowsMap, ChosenStays
<1>4. QED
  BY <1>1, <1>2, <1>3

-----------------------------------------------------------------------------
\* No move waits for a pipe that was stopped, a code keeps a pipe, and pipeCount_ is the
\* number of pipes, however AutoCreate, GarbageCollect and MovePipe interleave
\* (NetServer.cpp 642-694, 761-800, PipeManager.h 86-142).
THEOREM PoolSafe == PoolSpec => []PipesKept
<1>1. PoolInv /\ [PoolNext]_poolVars => PoolInv'
  <2> SUFFICES ASSUME PoolInv, [PoolNext]_poolVars PROVE PoolInv'
    OBVIOUS
  <2>1. CASE UNCHANGED poolVars
    BY <2>1 DEF poolVars, PoolInv, PipesKept, PoolTypeOK, NobodyEntersStopped, CodeHasPipe,
                CountFollowsMap, ChosenStays
  <2>2. CASE PoolNext
    BY <2>2, AutoCreateKeepsInv, LeaveKeepsInv, ReviveKeepsInv, DestroyPipeKeepsInv, SubtractKeepsInv,
       ChooseKeepsInv, EnterKeepsInv DEF PoolNext
  <2>3. QED
    BY <2>1, <2>2
<1>2. PoolInv => PipesKept
  BY DEF PoolInv
<1>3. QED
  BY PoolInitHasInv, <1>1, <1>2, PTL DEF PoolSpec

-----------------------------------------------------------------------------
(***************************************************************************)
(* Timeouts: any number of slots and connections, any interval, and passes *)
(* of any length.                                                          *)
(***************************************************************************)
LEMMA TimeoutInitHasInv == TimeoutInit => TimeoutInv
<1> SUFFICES ASSUME TimeoutInit PROVE TimeoutInv
  OBVIOUS
<1> USE TimesAssumption DEF TimeoutInit
<1>1. TimeoutTypeOK
  <2>1. LAST_RECV_TIME_DEAD \in 0..LAST_RECV_TIME_DEAD /\ 0 \in 0..MaxTime /\ 0 \in 0..MaxStamp
    BY DEF LAST_RECV_TIME_DEAD
  <2>2. lastRecvTime \in [Indices -> 0..LAST_RECV_TIME_DEAD] /\ id \in [Indices -> 0..MaxStamp]
    BY <2>1
  <2>3. heard \in [1..MaxStamp -> 0..MaxTime]
    BY <2>1
  <2>4. slotAt \in 0 .. LastIndex + 1 /\ stamp \in 1 .. MaxStamp + 1
    OBVIOUS
  <2>5. quiet \in BOOLEAN /\ dropped \subseteq 1..MaxStamp
    BY Zenon
  <2>6. QED
    BY <2>1, <2>2, <2>3, <2>4, <2>5, Zenon DEF TimeoutTypeOK
<1>2. SlotsKnown /\ PassKnown
  BY DEF SlotsKnown, PassKnown, Alive, Indices
<1>3. QED
  BY <1>1, <1>2 DEF TimeoutInv

\* Time passes.
LEMMA TickKeepsInv ==
  ASSUME TimeoutInv, Tick
  PROVE  TimeoutInv'
<1> USE TimesAssumption DEF Tick, slotVars, passVars, TimeoutInv, TimeoutTypeOK, Indices, LAST_RECV_TIME_DEAD
<1>1. TimeoutTypeOK'
  OBVIOUS
<1>2. SlotsKnown' /\ PassKnown'
  BY DEF SlotsKnown, PassKnown, Alive
<1>3. QED
  BY <1>1, <1>2

-----------------------------------------------------------------------------
(* A slot changes: it is taken, hears something, or is given up.           *)

LEMMA AcceptIntoKeepsInv ==
  ASSUME TimeoutInv, NEW s \in Indices, AcceptInto(s)
  PROVE  TimeoutInv'
<1> USE TimesAssumption DEF AcceptInto, passVars, TimeoutInv
<1>1. /\ stamp \in 1..MaxStamp /\ now \in 0..MaxTime /\ stamp' = stamp + 1
      /\ \A r \in Indices : r # s => id'[r] = id[r] /\ lastRecvTime'[r] = lastRecvTime[r]
      /\ id'[s] = stamp /\ lastRecvTime'[s] = now
      /\ \A c \in 1..MaxStamp : c # stamp => heard'[c] = heard[c]
      /\ heard'[stamp] = now
  BY DEF TimeoutTypeOK
<1>2. TimeoutTypeOK'
  BY <1>1 DEF TimeoutTypeOK, LAST_RECV_TIME_DEAD
<1>3. \A r \in Indices : id[r] \in 0..MaxStamp /\ id[r] < stamp
  BY DEF TimeoutTypeOK, SlotsKnown
<1>4. SlotsKnown'
  <2>1. \A r \in Indices : id'[r] < stamp' /\ (Alive(r)' => id'[r] # 0 /\ lastRecvTime'[r] = heard'[id'[r]])
    BY <1>1, <1>3 DEF SlotsKnown, Alive, LAST_RECV_TIME_DEAD
  <2>2. \A r, q \in Indices : id'[r] = id'[q] /\ id'[r] # 0 => r = q
    BY <1>1, <1>3 DEF SlotsKnown
  <2>3. \A r \in Indices : Alive(r)' => lastRecvTime'[r] <= now'
    BY <1>1 DEF SlotsKnown, Alive, LAST_RECV_TIME_DEAD
  <2>4. QED
    BY <2>1, <2>2, <2>3 DEF SlotsKnown
<1>5. PassKnown'
  BY <1>1 DEF PassKnown, Alive, LAST_RECV_TIME_DEAD, TimeoutTypeOK
<1>6. QED
  BY <1>2, <1>4, <1>5

LEMMA RecvKeepsInv ==
  ASSUME TimeoutInv, NEW s \in Indices, RecvComplete(s)
  PROVE  TimeoutInv'
<1> USE TimesAssumption DEF RecvComplete, passVars, TimeoutInv
<1>1. /\ now \in 0..MaxTime /\ id[s] \in 1..MaxStamp
      /\ \A r \in Indices : r # s => lastRecvTime'[r] = lastRecvTime[r]
      /\ lastRecvTime'[s] = now
      /\ \A c \in 1..MaxStamp : c # id[s] => heard'[c] = heard[c]
      /\ heard'[id[s]] = now
  BY DEF TimeoutTypeOK, SlotsKnown
<1>2. TimeoutTypeOK'
  BY <1>1 DEF TimeoutTypeOK, LAST_RECV_TIME_DEAD
<1>3. SlotsKnown'
  <2>1. \A r \in Indices : Alive(r)' => id[r] # 0 /\ lastRecvTime'[r] = heard'[id[r]]
    <3> SUFFICES ASSUME NEW r \in Indices, Alive(r)'
                 PROVE  id[r] # 0 /\ lastRecvTime'[r] = heard'[id[r]]
      OBVIOUS
    <3>1. CASE r = s
      BY <1>1, <3>1
    <3>2. CASE r # s
      <4>1. Alive(r) /\ id[r] \in 0..MaxStamp
        BY <1>1, <3>2 DEF Alive, LAST_RECV_TIME_DEAD, TimeoutTypeOK
      <4>2. id[r] # 0 /\ lastRecvTime[r] = heard[id[r]] /\ id[r] # id[s]
        BY <4>1, <3>2, <1>1 DEF SlotsKnown
      <4>3. QED
        BY <1>1, <3>2, <4>1, <4>2
    <3>3. QED
      BY <3>1, <3>2
  <2>2. \A r \in Indices : Alive(r)' => lastRecvTime'[r] <= now
    BY <1>1 DEF SlotsKnown, Alive, LAST_RECV_TIME_DEAD
  <2>3. QED
    BY <2>1, <2>2 DEF SlotsKnown
<1>4. PassKnown'
  BY <1>1 DEF PassKnown, Alive, LAST_RECV_TIME_DEAD, TimeoutTypeOK
<1>5. QED
  BY <1>2, <1>3, <1>4

LEMMA DestroyKeepsInv ==
  ASSUME TimeoutInv, NEW s \in Indices, Destroy(s)
  PROVE  TimeoutInv'
<1> USE TimesAssumption DEF Destroy, passVars, TimeoutInv
<1>1. /\ \A r \in Indices : r # s => lastRecvTime'[r] = lastRecvTime[r]
      /\ lastRecvTime'[s] = LAST_RECV_TIME_DEAD
  BY DEF TimeoutTypeOK
<1>2. TimeoutTypeOK'
  BY <1>1 DEF TimeoutTypeOK, LAST_RECV_TIME_DEAD
<1>3. SlotsKnown'
  BY <1>1 DEF SlotsKnown, Alive, LAST_RECV_TIME_DEAD
<1>4. PassKnown'
  BY <1>1 DEF PassKnown, Alive, LAST_RECV_TIME_DEAD, TimeoutTypeOK
<1>5. QED
  BY <1>2, <1>3, <1>4

-----------------------------------------------------------------------------
(* The pass.                                                               *)

LEMMA BeginPassKeepsInv ==
  ASSUME TimeoutInv, BeginPass
  PROVE  TimeoutInv'
<1> USE TimesAssumption DEF BeginPass, slotVars, TimeoutInv
<1>1. TimeoutTypeOK'
  BY DEF TimeoutTypeOK, Indices
<1>2. SlotsKnown'
  BY DEF SlotsKnown, Alive, LAST_RECV_TIME_DEAD
<1>3. PassKnown'
  BY DEF PassKnown, Alive, LAST_RECV_TIME_DEAD, TimeoutTypeOK, Indices
<1>4. QED
  BY <1>1, <1>2, <1>3

LEMMA TestLastRecvKeepsInv ==
  ASSUME TimeoutInv, TestLastRecv
  PROVE  TimeoutInv'
<1> USE TimesAssumption DEF TestLastRecv, slotVars, TimeoutInv
<1>1. TimeoutTypeOK'
  <2>1. slotAt' = slotAt \/ slotAt' = slotAt + 1
    BY Zenon
  <2>2. slotAt' \in 0 .. LastIndex + 1
    BY <2>1 DEF TimeoutTypeOK, Indices
  <2>3. quiet' \in BOOLEAN
    BY Zenon DEF TimeoutTypeOK
  <2>4. QED
    BY <2>2, <2>3 DEF TimeoutTypeOK
<1>2. SlotsKnown'
  BY DEF SlotsKnown, Alive, LAST_RECV_TIME_DEAD
<1>3. PassKnown'
  <2>1. CASE lastRecvTime[slotAt] < lastTimeoutTime
    BY <2>1 DEF PassKnown, Alive
  <2>2. CASE ~(lastRecvTime[slotAt] < lastTimeoutTime)
    <3>1. \A s \in Indices : slotAt' > s /\ Alive(s) => lastRecvTime[s] >= lastTimeoutTime
      BY <2>2 DEF PassKnown, TimeoutTypeOK, Indices, LAST_RECV_TIME_DEAD
    <3>2. QED
      BY <2>2, <3>1 DEF PassKnown, Alive, Indices
  <2>3. QED
    BY <2>1, <2>2
<1>4. QED
  BY <1>1, <1>2, <1>3

LEMMA OnTimeoutKeepsInv ==
  ASSUME TimeoutInv, OnTimeout
  PROVE  TimeoutInv'
<1> USE TimesAssumption DEF OnTimeout, TimeoutInv
<1>1. /\ slotAt \in Indices /\ slotAt' = slotAt + 1 /\ quiet' = FALSE
      /\ id[slotAt] \in 0..MaxStamp
      /\ \A r \in Indices : r # slotAt => lastRecvTime'[r] = lastRecvTime[r]
      /\ lastRecvTime'[slotAt] = LAST_RECV_TIME_DEAD
  BY DEF TimeoutTypeOK, PassKnown, Alive
<1>2. TimeoutTypeOK'
  <2>1. lastRecvTime' \in [Indices -> 0..LAST_RECV_TIME_DEAD]
    BY <1>1, SMTT(30) DEF TimeoutTypeOK, LAST_RECV_TIME_DEAD
  <2>2. dropped' \subseteq 1..MaxStamp
    <3>1. Alive(slotAt) => id[slotAt] \in 1..MaxStamp
      BY <1>1 DEF SlotsKnown
    <3>2. dropped' \subseteq dropped \cup (IF Alive(slotAt) THEN {id[slotAt]} ELSE {})
      OBVIOUS
    <3>3. QED
      BY <3>1, <3>2 DEF TimeoutTypeOK
  <2>3. slotAt' \in 0 .. LastIndex + 1
    BY <1>1 DEF Indices
  <2>4. QED
    BY <1>1, <2>1, <2>2, <2>3 DEF TimeoutTypeOK
<1>3. SlotsKnown'
  BY <1>1 DEF SlotsKnown, Alive, LAST_RECV_TIME_DEAD
<1>4. PassKnown'
  BY <1>1, SMTT(30), SMTT(30) DEF PassKnown, Alive, LAST_RECV_TIME_DEAD, TimeoutTypeOK, Indices
<1>5. QED
  BY <1>2, <1>3, <1>4

LEMMA EndPassKeepsInv ==
  ASSUME TimeoutInv, EndPass
  PROVE  TimeoutInv'
<1> USE TimesAssumption DEF EndPass, slotVars, TimeoutInv
<1>1. TimeoutTypeOK'
  BY DEF TimeoutTypeOK, Indices
<1>2. SlotsKnown'
  BY DEF SlotsKnown, Alive, LAST_RECV_TIME_DEAD
<1>3. PassKnown'
  BY DEF PassKnown, Alive, LAST_RECV_TIME_DEAD, TimeoutTypeOK, Indices
<1>4. QED
  BY <1>1, <1>2, <1>3

\* What the timeout thread knows of the slots between two reads, and what a slot's last
\* receive is, while sessions come and go.
THEOREM TimeoutInvariant == TimeoutSpec => []TimeoutInv
<1>1. TimeoutInv /\ [TimeoutNext]_timeoutVars => TimeoutInv'
  <2> SUFFICES ASSUME TimeoutInv, [TimeoutNext]_timeoutVars PROVE TimeoutInv'
    OBVIOUS
  <2>1. CASE UNCHANGED timeoutVars
    BY <2>1 DEF timeoutVars, slotVars, passVars, TimeoutInv, TimeoutTypeOK, SlotsKnown, PassKnown, Alive
  <2>2. CASE TimeoutNext
    BY <2>2, TickKeepsInv, AcceptIntoKeepsInv, RecvKeepsInv, DestroyKeepsInv, BeginPassKeepsInv,
       TestLastRecvKeepsInv, OnTimeoutKeepsInv, EndPassKeepsInv DEF TimeoutNext
  <2>3. QED
    BY <2>1, <2>2
<1>2. QED
  BY TimeoutInitHasInv, <1>1, PTL DEF TimeoutSpec

-----------------------------------------------------------------------------
LEMMA DroppedInOnTimeout ==
  ASSUME TimeoutInv, [TimeoutNext]_timeoutVars, NEW c \in dropped' \ dropped
  PROVE  OnTimeout /\ Alive(slotAt) /\ c = id[slotAt]
BY DEF timeoutVars, slotVars, passVars, TimeoutNext, Tick, AcceptInto, RecvComplete, Destroy,
   BeginPass, TestLastRecv, OnTimeout, EndPass

\* A session is timed out for an interval of silence, or for something that happened in
\* its slot during this pass.
LEMMA QuietBeforeTimeout ==
  ASSUME TimeoutInv, [TimeoutNext]_timeoutVars
  PROVE  TimedOutWasQuiet
<1> SUFFICES ASSUME NEW c \in dropped' \ dropped
             PROVE  heard[c] + timeoutInterval < now \/ heard[c] >= nowTime
  BY DEF TimedOutWasQuiet
<1> USE TimesAssumption DEF TimeoutInv, TimeoutTypeOK
<1>1. quiet /\ Alive(slotAt) /\ c = id[slotAt]
  BY DroppedInOnTimeout DEF OnTimeout
<1>2. slotAt \in Indices /\ slotAt # 0 /\ heard[c] = lastRecvTime[slotAt]
  BY <1>1 DEF PassKnown, SlotsKnown, Indices
<1>3. /\ lastRecvTime[slotAt] < lastTimeoutTime \/ lastRecvTime[slotAt] >= nowTime
      /\ nowTime >= lastTimeoutTime + timeoutInterval /\ nowTime <= now
  BY <1>1, <1>2 DEF PassKnown
<1>4. lastRecvTime[slotAt] \in Nat
  BY <1>2 DEF LAST_RECV_TIME_DEAD
<1>5. QED
  BY <1>2, <1>3, <1>4

LEMMA PassMissesNobody ==
  ASSUME TimeoutInv, [TimeoutNext]_timeoutVars
  PROVE  QuietIsNoticed
<1> SUFFICES ASSUME slotAt # 0, slotAt' = 0, NEW s \in Indices, Alive(s)
             PROVE  lastRecvTime[s] >= lastTimeoutTime
  BY DEF QuietIsNoticed
<1> USE TimesAssumption DEF TimeoutInv, TimeoutTypeOK
<1>1. slotAt = LastIndex + 1
  BY DEF timeoutVars, slotVars, passVars, TimeoutNext, Tick, AcceptInto, RecvComplete, Destroy,
     BeginPass, TestLastRecv, OnTimeout, EndPass, Indices
<1>2. slotAt > s
  BY <1>1 DEF Indices
<1>3. QED
  BY <1>2 DEF PassKnown

\* Whoever is timed out sent nothing for an interval, or something since the pass began;
\* and a pass leaves nobody alive who was silent since the pass before
\* (NetSessionArray.cpp 19-38).
THEOREM TimeoutsAreFair == TimeoutSpec => TimeoutsHit
<1>1. TimeoutInv /\ [TimeoutNext]_timeoutVars
        => [TimeoutTypeOK /\ TimedOutWasQuiet /\ QuietIsNoticed]_timeoutVars
  BY QuietBeforeTimeout, PassMissesNobody DEF TimeoutInv
<1>2. QED
  BY <1>1, TimeoutInvariant, PTL DEF TimeoutSpec, TimeoutsHit

-----------------------------------------------------------------------------
(***************************************************************************)
(* Monitor: any number of threads that count, and any amounts.             *)
(***************************************************************************)
LEMMA AmountsAreNat == TPS \in Nat /\ Traffic(1) \in Nat
<1>1. 1 \div eSEGMENT_SIZE \in Nat /\ eTCPIP_HEADER_SIZE \in Nat
  BY MonitorAssumption
<1>2. \A m, n \in Nat : m * n \in Nat
  OBVIOUS
<1>3. (1 \div eSEGMENT_SIZE + 1) * eTCPIP_HEADER_SIZE \in Nat
  BY <1>1, <1>2
<1>4. QED
  BY <1>3 DEF TPS, Traffic

LEMMA CountersFinite ==
  /\ Cardinality(Counters) \in Nat
  /\ \A S \in SUBSET Counters : IsFiniteSet(S) /\ Cardinality(S) \in Nat /\ Cardinality(S) <= Cardinality(Counters)
BY FS_Subset, FS_CardinalityType, MonitorAssumption

LEMMA UnitsFinite == ASSUME NEW S \in SUBSET Counters PROVE IsFiniteSet(Units(S)) /\ Cardinality(Units(S)) \in Nat
<1>1. IsFiniteSet(1..MaxAmount)
  BY FS_Interval, MonitorAssumption
<1>2. IsFiniteSet(S \X (1..MaxAmount))
  BY <1>1, CountersFinite, FS_Product
<1>3. QED
  BY <1>2, FS_Subset, FS_CardinalityType DEF Units

LEMMA UnitsCount == \A S \in SUBSET Counters : IsFiniteSet(Units(S)) /\ Cardinality(Units(S)) \in Nat
BY UnitsFinite

\* One thread more has its total more.
LEMMA UnitsOfOneMore ==
  ASSUME NEW S \in SUBSET Counters, NEW t \in Counters, t \notin S, total \in [Counters -> 0..MaxAmount]
  PROVE  Cardinality(Units(S \cup {t})) = Cardinality(Units(S)) + total[t]
<1> DEFINE own == {t} \X (1..total[t])
           f == [k \in 1..total[t] |-> <<t, k>>]
<1>1. total[t] \in Nat /\ total[t] <= MaxAmount /\ MaxAmount \in Nat
  BY MonitorAssumption
<1>2. IsFiniteSet(own) /\ Cardinality(own) = total[t]
  <2>1. IsFiniteSet(1..total[t]) /\ Cardinality(1..total[t]) = total[t]
    BY <1>1, FS_Interval
  <2>2. f \in Bijection(1..total[t], own)
    BY DEF Bijection, Injection, Surjection, IsInjective
  <2> HIDE DEF own, f
  <2>3. QED
    BY <2>1, <2>2, FS_Bijection DEF ExistsBijection
<1>3. Units(S \cup {t}) = Units(S) \cup own
  BY <1>1 DEF Units
<1>4. Units(S) \cap own = {}
  BY DEF Units
<1> HIDE DEF own
<1>5. IsFiniteSet(Units(S)) /\ Cardinality(Units(S)) \in Nat /\ Cardinality({}) = 0
  BY UnitsFinite, FS_EmptySet
<1>6. Cardinality(Units(S) \cup own) = Cardinality(Units(S)) + Cardinality(own) - Cardinality(Units(S) \cap own)
  BY <1>2, <1>5, FS_Union
<1> DEFINE a == Cardinality(Units(S))
           b == Cardinality(Units(S) \cup own)
<1>7. a \in Nat /\ b = a + total[t] - 0
  BY <1>2, <1>4, <1>5, <1>6
<1> HIDE DEF a, b
<1>8. b = a + total[t]
  BY <1>1, <1>7
<1>9. QED
  BY <1>3, <1>8 DEF a, b

LEMMA UnitsOfLess ==
  ASSUME NEW S \in SUBSET Counters, NEW T \in SUBSET S
  PROVE  Cardinality(Units(T)) <= Cardinality(Units(S))
<1>1. Units(T) \subseteq Units(S)
  BY DEF Units
<1>2. QED
  BY <1>1, UnitsFinite, FS_Subset

\* What was added up stays so, as totals do not go down.
LEMMA UnitsGrow ==
  ASSUME NEW S \in SUBSET Counters, \A t \in Counters : total[t] <= total'[t],
         total \in [Counters -> 0..MaxAmount], total' \in [Counters -> 0..MaxAmount]
  PROVE  Cardinality(Units(S)) <= Cardinality(Units(S)')
<1>2. IsFiniteSet(Units(S)')
  <2> DEFINE later == {u \in S \X (1..MaxAmount) : u[2] <= total'[u[1]]}
  <2>1. Units(S)' = later
    BY DEF Units
  <2>2. IsFiniteSet(S \X (1..MaxAmount))
    <3>1. IsFiniteSet(S) /\ IsFiniteSet(1..MaxAmount)
      BY CountersFinite, FS_Interval, MonitorAssumption
    <3>2. QED
      BY <3>1, FS_Product
  <2>3. QED
    BY <2>1, <2>2, FS_Subset
<1>3. Units(S) \subseteq Units(S)'
  <2>1. ASSUME NEW u \in Units(S) PROVE u \in Units(S)'
    <3>1. u[1] \in Counters /\ u[2] \in 1..MaxAmount /\ u[2] <= total[u[1]] /\ MaxAmount \in Nat
      BY MonitorAssumption DEF Units
    <3>2. total[u[1]] \in Nat /\ total'[u[1]] \in Nat /\ total[u[1]] <= total'[u[1]]
      BY <3>1
    <3>3. u[2] <= total'[u[1]]
      BY <3>1, <3>2
    <3>4. QED
      BY <3>3 DEF Units
  <2>2. QED
    BY <2>1
<1>4. QED
  BY <1>2, <1>3, FS_Subset

LEMMA AddedAreCounters ==
  ASSUME MonitorTypeOK, LocalTypes, EntriesTaken
  PROVE  /\ NoInfo \notin Added => Added \in SUBSET Counters
         /\ i \in Nat /\ TPSIndex \in Nat /\ sum \in Nat
BY CountersFinite DEF MonitorTypeOK, LocalTypes, EntriesTaken, Added

LEMMA MonitorInitHasInv == MonitorInit => MonitorInv
<1> SUFFICES ASSUME MonitorInit PROVE MonitorInv
  OBVIOUS
<1> USE DEF MonitorInit
<1>1. MonitorTypeOK /\ LocalTypes
  BY CountersFinite, MonitorAssumption DEF MonitorTypeOK, LocalTypes
<1>2. EntriesTaken
  <2>1. Placed = {}
    BY DEF Placed
  <2>2. Cardinality(Placed) = TPSIndex
    BY <2>1, FS_EmptySet
  <2>3. QED
    BY <2>2, MonitorAssumption DEF EntriesTaken
<1>3. CountsSinceZero /\ \A t \in Counters : CounterSupport(t)
  BY DEF CountsSinceZero, CounterSupport
<1>4. SumOfAdded
  BY UnitsFinite DEF SumOfAdded
<1>5. QED
  BY <1>1, <1>2, <1>3, <1>4 DEF MonitorInv

-----------------------------------------------------------------------------
(* A thread that counts: what it does between its entry and its counter    *)
(* leaves the entries, and what the observer adds up, alone.               *)

EntriesSame == UNCHANGED <<TPSIndex, TPSArray, tls>>

LEMMA EntriesStay ==
  ASSUME MonitorTypeOK, EntriesTaken, EntriesSame, index' = index, NEW t \in Counters, NEW l, cPc' = [cPc EXCEPT ![t] = l],
         l # "entry", cPc[t] # "entry"
  PROVE  EntriesTaken'
<1>1. \A u \in Counters : cPc'[u] = "entry" <=> cPc[u] = "entry"
  BY DEF MonitorTypeOK
<1>2. Placed' = Placed
  BY <1>1 DEF Placed, EntriesSame
<1>3. QED
  BY <1>1, <1>2 DEF EntriesTaken, EntriesSame, Entries

LEMMA SumStays ==
  ASSUME MonitorInv, UNCHANGED <<TPSArray, observerVars>>, LocalTypes', \A t \in Counters : total[t] <= total'[t]
  PROVE  SumOfAdded'
<1>1. Added' = Added /\ oPc' = oPc /\ sum' = sum /\ sum \in Nat
  BY DEF Added, Entries, observerVars, MonitorInv, LocalTypes
<1>2. \A S \in SUBSET Counters : Cardinality(Units(S)) <= Cardinality(Units(S)')
  BY UnitsGrow DEF MonitorInv, LocalTypes
<1>3. \A S \in SUBSET Counters : Cardinality(Units(S)) \in Nat
  BY UnitsFinite
<1>4. (\A S \in SUBSET Counters : IsFiniteSet(Units(S)) /\ Cardinality(Units(S)) \in Nat)'
  BY UnitsCount, PTL
<1>5. oPc = "sum" => Added \in SUBSET Counters
  BY AddedAreCounters DEF MonitorInv, SumOfAdded
<1>6. sum' <= Cardinality(Units(Counters))'
  BY <1>1, <1>2, <1>3, <1>4 DEF MonitorInv, SumOfAdded
<1>7. ASSUME oPc = "sum" PROVE sum' <= Cardinality(Units(Added))'
  BY <1>1, <1>2, <1>3, <1>4, <1>5, <1>7 DEF MonitorInv, SumOfAdded
<1>8. QED
  BY <1>1, <1>6, <1>7 DEF MonitorInv, SumOfAdded

LEMMA AddKeepsInv ==
  ASSUME MonitorInv, NEW t \in Counters, NEW n \in Nat, Add(t, n)
  PROVE  MonitorInv'
<1> USE DEF MonitorInv
<1>1. /\ cPc[t] = "idle" /\ cPc' = [cPc EXCEPT ![t] = IF t \in tls THEN "read" ELSE "index"]
      /\ total[t] + n <= MaxAmount /\ amount' = [amount EXCEPT ![t] = n]
      /\ UNCHANGED <<TPSIndex, TPSArray, tls, tps, index, old, oPc, i, sum, total, since, raced>>
  BY DEF Add, CounterAt, observerVars
<1>2. MonitorTypeOK' /\ LocalTypes'
  BY <1>1 DEF MonitorTypeOK, LocalTypes, Entries
<1>3. EntriesTaken'
  BY <1>1, EntriesStay DEF EntriesSame
<1>4. CountsSinceZero'
  BY <1>1 DEF CountsSinceZero
<1>5. SumOfAdded'
  BY <1>1, <1>2, SumStays DEF observerVars, LocalTypes
<1>6. \A u \in Counters : CounterSupport(u)'
  BY <1>1 DEF CounterSupport, MonitorTypeOK, LocalTypes
<1>7. QED
  BY <1>2, <1>3, <1>4, <1>5, <1>6

LEMMA ReadIndexKeepsInv ==
  ASSUME MonitorInv, NEW t \in Counters, ReadIndex(t)
  PROVE  MonitorInv'
<1> USE DEF MonitorInv
<1>1. /\ cPc[t] = "index" /\ cPc' = [cPc EXCEPT ![t] = "exchange"] /\ index' = [index EXCEPT ![t] = TPSIndex]
      /\ UNCHANGED <<TPSIndex, TPSArray, tls, tps, amount, old, oPc, i, sum, total, since, raced>>
  BY DEF ReadIndex, CounterAt, observerVars
<1>2. MonitorTypeOK' /\ LocalTypes'
  BY <1>1, CountersFinite DEF MonitorTypeOK, LocalTypes, Entries
<1>3. EntriesTaken'
  <2>1. \A u \in Counters : (cPc'[u] = "entry" <=> cPc[u] = "entry") /\ (cPc[u] = "entry" => index'[u] = index[u])
    BY <1>1 DEF MonitorTypeOK, LocalTypes
  <2>2. Placed' = Placed
    BY <1>1, <2>1 DEF Placed
  <2>3. QED
    BY <1>1, <2>1, <2>2 DEF EntriesTaken, Entries
<1>4. CountsSinceZero'
  BY <1>1 DEF CountsSinceZero
<1>5. SumOfAdded'
  BY <1>1, <1>2, SumStays DEF observerVars, LocalTypes
<1>6. \A u \in Counters : CounterSupport(u)'
  BY <1>1 DEF CounterSupport, MonitorTypeOK, LocalTypes
<1>7. QED
  BY <1>2, <1>3, <1>4, <1>5, <1>6

LEMMA TakeIndexKeepsInv ==
  ASSUME MonitorInv, NEW t \in Counters, TakeIndex(t)
  PROVE  MonitorInv'
<1> USE DEF MonitorInv
<1>1. CASE TPSIndex # index[t]
  <2>1. /\ cPc[t] = "exchange" /\ cPc' = [cPc EXCEPT ![t] = "index"]
        /\ UNCHANGED <<TPSIndex, TPSArray, tls, tps, index, amount, old, oPc, i, sum, total, since, raced>>
    BY <1>1 DEF TakeIndex, CounterAt, observerVars, localVars
  <2>2. MonitorTypeOK' /\ LocalTypes'
    BY <2>1 DEF MonitorTypeOK, LocalTypes, Entries
  <2>3. EntriesTaken'
    BY <2>1, EntriesStay DEF EntriesSame
  <2>4. CountsSinceZero'
    BY <2>1 DEF CountsSinceZero
  <2>5. SumOfAdded'
    BY <2>1, <2>2, SumStays DEF observerVars, LocalTypes
  <2>6. \A u \in Counters : CounterSupport(u)'
    BY <2>1 DEF CounterSupport, MonitorTypeOK, LocalTypes
  <2>7. QED
    BY <2>2, <2>3, <2>4, <2>5, <2>6
<1>2. CASE TPSIndex = index[t]
  <2>1. /\ cPc[t] = "exchange" /\ cPc' = [cPc EXCEPT ![t] = "entry"] /\ TPSIndex' = TPSIndex + 1
        /\ UNCHANGED <<TPSArray, tls, tps, index, amount, old, oPc, i, sum, total, since, raced>>
    BY <1>2 DEF TakeIndex, CounterAt, observerVars, localVars
  <2>2. t \notin Placed /\ Placed' = Placed \cup {t} /\ Placed \in SUBSET Counters /\ Placed' \in SUBSET Counters
    BY <2>1 DEF Placed, MonitorTypeOK, CounterSupport
  <2>3. Cardinality(Placed') = TPSIndex' /\ TPSIndex' <= Cardinality(Counters) /\ TPSIndex \in Nat
    <3>1. IsFiniteSet(Placed) /\ Cardinality(Placed) = TPSIndex /\ Cardinality(Placed) \in Nat
      BY <2>2, CountersFinite DEF EntriesTaken
    <3>2. Cardinality(Placed') = Cardinality(Placed) + 1
      BY <2>2, <3>1, FS_AddElement
    <3>3. Cardinality(Placed') <= Cardinality(Counters)
      BY <2>2, CountersFinite
    <3>4. QED
      BY <2>1, <3>1, <3>2, <3>3
  <2>4. MonitorTypeOK' /\ LocalTypes'
    <3>1. TPSIndex' \in 0..Cardinality(Counters)
      BY <2>1, <2>3, CountersFinite
    <3>2. i' <= TPSIndex'
      BY <2>1, AddedAreCounters DEF LocalTypes
    <3>3. QED
      BY <2>1, <3>1, <3>2 DEF MonitorTypeOK, LocalTypes, Entries
  <2>5. EntriesTaken'
    <3>1. \A u, v \in Counters : cPc'[u] = "entry" /\ cPc'[v] = "entry" /\ index'[u] = index'[v] => u = v
      <4>1. ASSUME NEW u \in Counters, cPc[u] = "entry" PROVE index[u] # index[t] /\ u # t
        BY <1>2, <2>1, <2>3, <4>1 DEF CounterSupport, LocalTypes
      <4>2. QED
        BY <2>1, <4>1 DEF EntriesTaken, MonitorTypeOK
    <3>2. \A k \in Entries : k < TPSIndex => k < TPSIndex'
      BY <2>1, <2>3, CountersFinite DEF Entries
    <3>3. QED
      BY <2>1, <2>3, <3>1, <3>2 DEF EntriesTaken, Entries
  <2>6. CountsSinceZero' /\ SumOfAdded'
    BY <2>1, <2>4, SumStays DEF CountsSinceZero, observerVars, LocalTypes
  <2>7. \A u \in Counters : CounterSupport(u)'
    <3>1. ASSUME NEW u \in Counters, u # t PROVE CounterSupport(u)'
      BY <2>1, <2>3, <3>1 DEF CounterSupport, MonitorTypeOK, LocalTypes
    <3>2. CounterSupport(t)'
      <4>1. TPSIndex \in Entries
        BY <2>1, <2>3, CountersFinite DEF Entries
      <4>2. TPSArray[TPSIndex] = NoInfo
        BY <2>3, <4>1 DEF EntriesTaken
      <4>3. QED
        BY <1>2, <2>1, <2>3, <4>2 DEF CounterSupport, MonitorTypeOK
    <3>3. QED
      BY <3>1, <3>2
  <2>8. QED
    BY <2>4, <2>5, <2>6, <2>7
<1>3. QED
  BY <1>1, <1>2

LEMMA SetEntryKeepsInv ==
  ASSUME MonitorInv, NEW t \in Counters, SetEntry(t)
  PROVE  MonitorInv'
<1> USE DEF MonitorInv
<1>1. /\ cPc[t] = "entry" /\ cPc' = [cPc EXCEPT ![t] = "read"] /\ TPSArray' = [TPSArray EXCEPT ![index[t]] = t]
      /\ tls' = tls \cup {t}
      /\ UNCHANGED <<TPSIndex, tps, index, amount, old, oPc, i, sum, total, since, raced>>
  BY DEF SetEntry, CounterAt, observerVars, localVars
<1>2. t \notin tls /\ index[t] < TPSIndex /\ TPSArray[index[t]] = NoInfo /\ index[t] \in Entries /\ t # NoInfo
  <2>1. index[t] \in Nat /\ TPSIndex \in Nat /\ TPSIndex <= Cardinality(Counters) /\ index[t] < TPSIndex
    BY <1>1, CountersFinite DEF CounterSupport, MonitorTypeOK, LocalTypes
  <2>2. index[t] \in Entries
    BY <2>1, CountersFinite DEF Entries
  <2>3. QED
    BY <1>1, <2>1, <2>2, MonitorAssumption DEF CounterSupport
<1>3. MonitorTypeOK' /\ LocalTypes'
  BY <1>1, <1>2 DEF MonitorTypeOK, LocalTypes, Entries
<1>4. \A k \in Entries : TPSArray'[k] = IF k = index[t] THEN t ELSE TPSArray[k]
  BY <1>1, <1>2 DEF MonitorTypeOK
<1>5. EntriesTaken'
  <2>1. Placed' = Placed
    BY <1>1, <1>2 DEF Placed, MonitorTypeOK
  <2>2. \A u \in Counters : cPc'[u] = "entry" => cPc[u] = "entry"
    BY <1>1 DEF MonitorTypeOK
  <2>3. \A k \in Entries : TPSArray[k] # t
    BY <1>2 DEF EntriesTaken
  <2>4. \A k \in Entries : TPSArray'[k] # NoInfo => TPSArray'[k] \in tls' /\ k < TPSIndex'
    BY <1>1, <1>2, <1>4 DEF EntriesTaken
  <2>5. \A k, j \in Entries : TPSArray'[k] = TPSArray'[j] => k = j \/ TPSArray'[k] = NoInfo
    BY <1>2, <1>4, <2>3 DEF EntriesTaken
  <2>6. \A u \in tls' : \E k \in Entries : TPSArray'[k] = u
    <3>1. TPSArray'[index[t]] = t
      BY <1>2, <1>4
    <3>2. ASSUME NEW u \in tls PROVE \E k \in Entries : TPSArray'[k] = u
      <4>1. PICK k \in Entries : TPSArray[k] = u
        BY DEF EntriesTaken
      <4>2. k # index[t]
        BY <1>2, <4>1, MonitorAssumption DEF MonitorTypeOK
      <4>3. QED
        BY <1>4, <4>1, <4>2
    <3>3. QED
      BY <1>1, <1>2, <3>1, <3>2
  <2>7. QED
    BY <1>1, <2>1, <2>2, <2>4, <2>5, <2>6 DEF EntriesTaken, Entries
<1>6. CountsSinceZero'
  BY <1>1 DEF CountsSinceZero
<1>7. SumOfAdded'
  <2>1. Units(Counters)' = Units(Counters) /\ \A S : Units(S)' = Units(S)
    BY <1>1 DEF Units
  <2>2. ASSUME oPc = "sum" PROVE Added' = Added
    <3>1. NoInfo \notin Added
      BY <2>2 DEF SumOfAdded
    <3>2. ~(index[t] < i)
      BY <1>2, <3>1 DEF Added
    <3>3. \A k \in Entries : k < i => TPSArray'[k] = TPSArray[k]
      BY <1>4, <3>2
    <3>4. QED
      BY <1>1, <3>3 DEF Added, Entries
  <2>3. QED
    BY <1>1, <2>1, <2>2 DEF SumOfAdded
<1>8. \A u \in Counters : CounterSupport(u)'
  <2>1. CounterSupport(t)'
    BY <1>1, <1>2 DEF CounterSupport, MonitorTypeOK
  <2>2. ASSUME NEW u \in Counters, u # t PROVE CounterSupport(u)'
    <3>1. cPc[u] = "entry" => index[u] # index[t]
      BY <1>1, <2>2 DEF EntriesTaken
    <3>2. cPc[u] = "entry" => TPSArray'[index[u]] = NoInfo
      <4>1. ASSUME cPc[u] = "entry" PROVE index[u] \in Entries
        BY <4>1, CountersFinite, SMTT(30), SMTT(30) DEF CounterSupport, MonitorTypeOK, LocalTypes, Entries
      <4>2. QED
        BY <1>4, <3>1, <4>1 DEF CounterSupport
    <3>3. QED
      BY <1>1, <2>2, <3>2 DEF CounterSupport, MonitorTypeOK
  <2>3. QED
    BY <2>1, <2>2
<1>9. QED
  BY <1>3, <1>5, <1>6, <1>7, <1>8

LEMMA ReadTPSKeepsInv ==
  ASSUME MonitorInv, NEW t \in Counters, ReadTPS(t)
  PROVE  MonitorInv'
<1> USE DEF MonitorInv
<1>1. /\ cPc[t] = "read" /\ cPc' = [cPc EXCEPT ![t] = "write"] /\ old' = [old EXCEPT ![t] = tps[t]]
      /\ UNCHANGED <<TPSIndex, TPSArray, tls, tps, index, amount, oPc, i, sum, total, since, raced>>
  BY DEF ReadTPS, CounterAt, observerVars
<1>2. MonitorTypeOK' /\ LocalTypes'
  BY <1>1 DEF MonitorTypeOK, LocalTypes, Entries
<1>3. EntriesTaken'
  BY <1>1, EntriesStay DEF EntriesSame
<1>4. CountsSinceZero'
  BY <1>1 DEF CountsSinceZero
<1>5. SumOfAdded'
  BY <1>1, <1>2, SumStays DEF observerVars, LocalTypes
<1>6. \A u \in Counters : CounterSupport(u)'
  BY <1>1 DEF CounterSupport, CountsSinceZero, MonitorTypeOK, LocalTypes
<1>7. QED
  BY <1>2, <1>3, <1>4, <1>5, <1>6

LEMMA WriteTPSKeepsInv ==
  ASSUME MonitorInv, NEW t \in Counters, WriteTPS(t)
  PROVE  MonitorInv'
<1> USE DEF MonitorInv
<1>1. /\ cPc[t] = "write" /\ cPc' = [cPc EXCEPT ![t] = "idle"] /\ tps' = [tps EXCEPT ![t] = old[t] + amount[t]]
      /\ total' = [total EXCEPT ![t] = @ + amount[t]] /\ since' = [since EXCEPT ![t] = @ + amount[t]]
      /\ UNCHANGED <<TPSIndex, TPSArray, tls, index, amount, old, oPc, i, sum, raced>>
  BY DEF WriteTPS, CounterAt, observerVars, localVars
<1>2. /\ old[t] \in Nat /\ amount[t] \in Nat /\ total[t] \in Nat /\ old[t] <= total[t] /\ total[t] + amount[t] <= MaxAmount
      /\ MaxAmount \in Nat /\ since[t] \in Nat /\ (t \notin raced => old[t] = tps[t]) /\ t \in tls
  BY <1>1, MonitorAssumption DEF CounterSupport, LocalTypes
<1>3. MonitorTypeOK' /\ LocalTypes'
  <2>1. old[t] + amount[t] \in 0..MaxAmount /\ total[t] + amount[t] \in 0..MaxAmount /\ since[t] + amount[t] \in Nat
    BY <1>2
  <2>2. /\ tps' \in [Counters -> 0..MaxAmount] /\ total' \in [Counters -> 0..MaxAmount] /\ since' \in [Counters -> Nat]
        /\ cPc' \in [Counters -> {"idle", "index", "exchange", "entry", "read", "write"}]
    BY <1>1, <2>1 DEF MonitorTypeOK, LocalTypes
  <2>3. QED
    BY <1>1, <2>2 DEF MonitorTypeOK, LocalTypes, Entries
<1>4. EntriesTaken'
  BY <1>1, EntriesStay DEF EntriesSame
<1>5. CountsSinceZero'
  BY <1>1, <1>2 DEF CountsSinceZero, MonitorTypeOK, LocalTypes
<1>6. SumOfAdded'
  <2>1. \A u \in Counters : total[u] <= total'[u]
    BY <1>1, <1>2 DEF LocalTypes
  <2>2. QED
    BY <1>1, <1>3, <2>1, SumStays DEF observerVars
<1>7. \A u \in Counters : CounterSupport(u)'
  BY <1>1, <1>2 DEF CounterSupport, MonitorTypeOK, LocalTypes
<1>8. QED
  BY <1>3, <1>4, <1>5, <1>6, <1>7

-----------------------------------------------------------------------------
(* The observer.                                                           *)

LEMMA ObserverLeavesEntries ==
  ASSUME MonitorInv, EntriesSame, UNCHANGED <<cPc, index>>
  PROVE  EntriesTaken'
<1>1. Placed' = Placed
  BY DEF Placed, EntriesSame
<1>2. QED
  BY <1>1 DEF MonitorInv, EntriesTaken, EntriesSame, Entries

LEMMA ReportKeepsInv ==
  ASSUME MonitorInv, Report
  PROVE  MonitorInv'
<1> USE DEF MonitorInv
<1>1. /\ oPc' = "sum" /\ i' = 0 /\ sum' = 0
      /\ UNCHANGED <<TPSIndex, TPSArray, tls, tps, cPc, index, amount, old, total, since, raced>>
  BY DEF Report, localVars
<1>2. MonitorTypeOK' /\ LocalTypes'
  BY <1>1, CountersFinite DEF MonitorTypeOK, LocalTypes, Entries
<1>3. EntriesTaken'
  BY <1>1, ObserverLeavesEntries DEF EntriesSame
<1>4. Added' = {}
  BY <1>1, CountersFinite DEF Added, Entries
<1>5. SumOfAdded'
  <2>1. (\A S \in SUBSET Counters : IsFiniteSet(Units(S)) /\ Cardinality(Units(S)) \in Nat)'
    BY UnitsCount, PTL
  <2>2. Cardinality(Units(Added))' \in Nat /\ Cardinality(Units(Counters))' \in Nat
    BY <1>4, <2>1
  <2>3. QED
    BY <1>1, <1>4, <2>2 DEF SumOfAdded
<1>6. CountsSinceZero' /\ \A u \in Counters : CounterSupport(u)'
  BY <1>1 DEF CountsSinceZero, CounterSupport
<1>7. QED
  BY <1>2, <1>3, <1>5, <1>6

LEMMA GetTPSTurnKeepsInv ==
  ASSUME MonitorInv, GetTPSTurn
  PROVE  MonitorInv'
<1> USE DEF MonitorInv
<1>1. /\ oPc = "sum"
      /\ UNCHANGED <<TPSIndex, TPSArray, tls, tps, cPc, index, amount, old, total, since, raced>>
  BY DEF GetTPSTurn, localVars
<1>2. i \in Nat /\ TPSIndex \in Nat /\ sum \in Nat /\ TPSIndex <= Cardinality(Counters) /\ Cardinality(Counters) \in Nat
  BY CountersFinite, AddedAreCounters DEF MonitorTypeOK
<1>3. EntriesTaken' /\ CountsSinceZero' /\ \A u \in Counters : CounterSupport(u)'
  BY <1>1, ObserverLeavesEntries DEF EntriesSame, CountsSinceZero, CounterSupport
<1>4. \A S : Units(S)' = Units(S)
  BY <1>1 DEF Units
<1>5. CASE i < TPSIndex /\ TPSArray[i] # NoInfo
  <2>1. sum' = sum + tps[TPSArray[i]] /\ i' = i + 1 /\ oPc' = oPc
    BY <1>2, <1>5 DEF GetTPSTurn, Unwritten
  <2> DEFINE t == TPSArray[i]
  <2>2. i \in Entries /\ t \in tls /\ t \in Counters
    BY <1>1, <1>2, <1>5 DEF Entries, EntriesTaken, MonitorTypeOK
  <2>3. tps[t] \in Nat /\ total[t] \in Nat /\ tps[t] <= total[t]
    BY <2>2 DEF MonitorTypeOK, LocalTypes, CountsSinceZero
  <2>4. Added' = Added \cup {t} /\ t \notin Added
    <3>1. \A k \in Entries : k < i + 1 <=> k < i \/ k = i
      BY <1>2 DEF Entries
    <3>2. \A k \in Entries : TPSArray[k] = TPSArray[i] => k = i
      BY <1>1, <1>5, <2>2 DEF EntriesTaken
    <3>3. QED
      BY <1>1, <1>2, <2>1, <2>2, <3>1, <3>2 DEF Added, Entries
  <2>5. Added \in SUBSET Counters /\ sum <= Cardinality(Units(Added)) /\ NoInfo \notin Added
    BY <1>1, AddedAreCounters DEF SumOfAdded
  <2> HIDE DEF t
  <2>6. Cardinality(Units(Added \cup {t})) = Cardinality(Units(Added)) + total[t]
    BY <2>2, <2>4, <2>5, UnitsOfOneMore DEF LocalTypes
  <2>7. Added \cup {t} \in SUBSET Counters
    BY <2>2, <2>5
  <2>8. /\ Cardinality(Units(Added)) \in Nat /\ Cardinality(Units(Counters)) \in Nat
        /\ Cardinality(Units(Added \cup {t})) <= Cardinality(Units(Counters))
    BY <2>5, <2>7, UnitsFinite, UnitsOfLess
  <2>9. sum' = sum + tps[t] /\ sum' \in Nat /\ sum' <= Cardinality(Units(Added \cup {t})) /\ sum' <= Cardinality(Units(Counters))
    <3>1. sum' = sum + tps[t]
      BY <2>1 DEF t
    <3>2. QED
      BY <1>2, <2>3, <2>5, <2>6, <2>8, <3>1
  <2>10. MonitorTypeOK' /\ LocalTypes'
    <3>1. i' \in 0..Cardinality(Counters) /\ i' <= TPSIndex' /\ oPc' = "sum"
      BY <1>1, <1>2, <1>5, <2>1
    <3>2. QED
      BY <1>1, <2>9, <3>1 DEF MonitorTypeOK, LocalTypes, Entries
  <2>11. t # NoInfo
    BY <2>2, MonitorAssumption
  <2>12. SumOfAdded'
    BY <1>1, <1>4, <2>4, <2>5, <2>9, <2>11 DEF SumOfAdded
  <2>13. QED
    BY <1>3, <2>10, <2>12
<1>6. CASE ~(i < TPSIndex)
  <2>1. oPc' = "zero" /\ i' = 0 /\ sum' = sum
    BY <1>2, <1>6 DEF GetTPSTurn, Unwritten
  <2>2. MonitorTypeOK' /\ LocalTypes'
    BY <1>1, <1>2, <2>1 DEF MonitorTypeOK, LocalTypes, Entries
  <2>3. SumOfAdded'
    BY <1>4, <2>1 DEF SumOfAdded
  <2>4. QED
    BY <1>3, <2>2, <2>3
<1>7. CASE Unwritten
  <2>1. oPc' = "wild" /\ i' = i /\ sum' = sum
    BY <1>2, <1>7 DEF GetTPSTurn, Unwritten
  <2>2. MonitorTypeOK' /\ LocalTypes'
    BY <1>1, <1>2, <2>1 DEF MonitorTypeOK, LocalTypes, Entries
  <2>3. SumOfAdded'
    BY <1>4, <2>1 DEF SumOfAdded
  <2>4. QED
    BY <1>3, <2>2, <2>3
<1>8. QED
  BY <1>5, <1>6, <1>7 DEF Unwritten

LEMMA ZeroTPSTurnKeepsInv ==
  ASSUME MonitorInv, ZeroTPSTurn
  PROVE  MonitorInv'
<1> USE DEF MonitorInv
<1>1. /\ oPc = "zero" /\ sum' \in {0, sum}
      /\ UNCHANGED <<TPSIndex, TPSArray, tls, cPc, index, amount, old, total>>
  BY DEF ZeroTPSTurn, localVars
<1>2. i \in Nat /\ TPSIndex \in Nat /\ TPSIndex <= Cardinality(Counters) /\ Cardinality(Counters) \in Nat
  BY CountersFinite, AddedAreCounters DEF MonitorTypeOK
<1>3. EntriesTaken'
  BY <1>1, ObserverLeavesEntries DEF EntriesSame
<1>4. oPc' # "sum" /\ oPc' \in {"zero", "sleep", "wild"} /\ sum' \in Nat
  BY <1>1 DEF ZeroTPSTurn, LocalTypes
<1>5. SumOfAdded'
  <2>1. sum' \in Nat /\ sum' <= Cardinality(Units(Counters)) /\ Units(Counters)' = Units(Counters)
    <3>1. Cardinality(Units(Counters)) \in Nat
      BY UnitsFinite
    <3>2. sum \in Nat /\ sum <= Cardinality(Units(Counters))
      BY DEF LocalTypes, SumOfAdded
    <3>3. QED
      BY <1>1, <3>1, <3>2 DEF Units
  <2>2. QED
    BY <1>1, <1>4, <2>1 DEF SumOfAdded
<1>6. CASE i < TPSIndex /\ TPSArray[i] # NoInfo
  <2> DEFINE t == TPSArray[i]
  <2>1. t \in Counters /\ i \in Entries
    BY <1>1, <1>2, <1>6 DEF Entries, EntriesTaken, MonitorTypeOK
  <2>2. /\ tps' = [tps EXCEPT ![t] = 0] /\ since' = [since EXCEPT ![t] = 0] /\ i' = i + 1
        /\ raced' = IF cPc[t] = "write" THEN raced \cup {t} ELSE raced \ {t}
    BY <1>2, <1>6 DEF ZeroTPSTurn, Unwritten
  <2> HIDE DEF t
  <2>3. MonitorTypeOK' /\ LocalTypes'
    <3>1. i' \in 0..Cardinality(Counters) /\ i' <= TPSIndex' /\ sum' \in Nat
      BY <1>1, <1>2, <1>4, <1>6, <2>2
    <3>2. tps' \in [Counters -> 0..MaxAmount] /\ since' \in [Counters -> Nat] /\ raced' \subseteq Counters
      <4>1. 0 \in 0..MaxAmount
        BY MonitorAssumption
      <4>2. QED
        BY <2>1, <2>2, <4>1 DEF MonitorTypeOK, LocalTypes
    <3>3. QED
      BY <1>1, <1>4, <3>1, <3>2 DEF MonitorTypeOK, LocalTypes, Entries
  <2>4. CountsSinceZero'
    <3>1. \A u \in Counters : total[u] \in Nat
      BY DEF LocalTypes
    <3>2. ASSUME NEW u \in Counters PROVE tps'[u] <= total'[u] /\ (u \notin raced' => tps'[u] = since'[u])
      BY <1>1, <2>1, <2>2, <3>1 DEF CountsSinceZero, MonitorTypeOK, LocalTypes
    <3>3. QED
      BY <3>2 DEF CountsSinceZero
  <2>5. \A u \in Counters : CounterSupport(u)'
    <3>1. ASSUME NEW u \in Counters, cPc[u] = "write", u \notin raced' PROVE u # t /\ u \notin raced /\ tps'[u] = tps[u]
      BY <2>1, <2>2, <3>1 DEF MonitorTypeOK
    <3>2. QED
      BY <1>1, <3>1 DEF CounterSupport
  <2>6. QED
    BY <1>3, <1>5, <2>3, <2>4, <2>5
<1>7. CASE ~(i < TPSIndex)
  <2>1. i' = 0 /\ UNCHANGED <<tps, since, raced>>
    BY <1>2, <1>7 DEF ZeroTPSTurn, Unwritten
  <2>2. MonitorTypeOK' /\ LocalTypes'
    <3>1. i' \in 0..Cardinality(Counters) /\ i' <= TPSIndex'
      BY <1>1, <1>2, <2>1
    <3>2. MonitorTypeOK'
      BY <1>1, <1>4, <2>1, <3>1 DEF MonitorTypeOK, Entries
    <3>3. LocalTypes'
      BY <1>1, <1>4, <2>1, <3>1 DEF LocalTypes
    <3>4. QED
      BY <3>2, <3>3
  <2>3. CountsSinceZero' /\ \A u \in Counters : CounterSupport(u)'
    BY <1>1, <2>1 DEF CountsSinceZero, CounterSupport
  <2>4. QED
    BY <1>3, <1>5, <2>2, <2>3
<1>8. CASE Unwritten
  <2>1. i' = i /\ UNCHANGED <<tps, since, raced>>
    BY <1>2, <1>8 DEF ZeroTPSTurn, Unwritten
  <2>2. MonitorTypeOK' /\ LocalTypes'
    BY <1>1, <1>2, <1>4, <2>1 DEF MonitorTypeOK, LocalTypes, Entries
  <2>3. CountsSinceZero' /\ \A u \in Counters : CounterSupport(u)'
    BY <1>1, <2>1 DEF CountsSinceZero, CounterSupport
  <2>4. QED
    BY <1>3, <1>5, <2>2, <2>3
<1>9. QED
  BY <1>6, <1>7, <1>8 DEF Unwritten

\* A thread's entry is below TPSIndex_, and it has no other.
LEMMA OneEntry == MonitorInv => EntryOfItsOwn
<1> SUFFICES ASSUME MonitorInv, NEW t \in tls
    PROVE  Cardinality({k \in Entries : TPSArray[k] = t /\ k < TPSIndex}) = 1
  BY DEF EntryOfItsOwn
<1>1. t # NoInfo
  BY MonitorAssumption DEF MonitorInv, MonitorTypeOK
<1>2. PICK k \in Entries : TPSArray[k] = t
  BY DEF MonitorInv, EntriesTaken
<1>3. {j \in Entries : TPSArray[j] = t /\ j < TPSIndex} = {k}
  BY <1>1, <1>2 DEF MonitorInv, EntriesTaken
<1>4. QED
  BY <1>3, FS_Singleton

(* Every thread that counts has an entry of its own, whatever the          *)
(* exchanges of TPSIndex_, its counter is what came since the last zero or *)
(* a zero fell into its +=, and the observer's sum is no more than was     *)
(* counted (NetServer.h 302-423, 530-551, LanServer.h 275-395).            *)
THEOREM MonitorIsExact == MonitorSpec => []MonitorCounts
<1>1. MonitorInv /\ [MonitorNext]_monitorVars => MonitorInv'
  <2> SUFFICES ASSUME MonitorInv, [MonitorNext]_monitorVars PROVE MonitorInv'
    OBVIOUS
  <2>1. CASE UNCHANGED monitorVars
    BY <2>1 DEF monitorVars, MonitorInv, MonitorTypeOK, LocalTypes, EntriesTaken, CountsSinceZero, SumOfAdded,
                CounterSupport, Placed, Added, Units, Entries
  <2>2. CASE MonitorNext
    BY <2>2, AmountsAreNat, AddKeepsInv, ReadIndexKeepsInv, TakeIndexKeepsInv, SetEntryKeepsInv, ReadTPSKeepsInv,
       WriteTPSKeepsInv, ReportKeepsInv, GetTPSTurnKeepsInv, ZeroTPSTurnKeepsInv DEF MonitorNext, Count
  <2>3. QED
    BY <2>1, <2>2
<1>2. MonitorInv => MonitorCounts
  BY OneEntry DEF MonitorInv, MonitorCounts, SumOfAdded, ReportsNoMore
<1>3. QED
  BY MonitorInitHasInv, <1>1, <1>2, PTL DEF MonitorSpec

-----------------------------------------------------------------------------
(***************************************************************************)
(* ServerControl: any number of slots, workers and connections.            *)
(***************************************************************************)
USE BoundsAssumption

LEMMA ControlInitHasInv == ControlInit => ControlInv
<1> SUFFICES ASSUME ControlInit PROVE ControlInv
  OBVIOUS
<1> USE DEF ControlInit
<1>1. Dead \in SessionRecord
  BY DEF Dead, SessionRecord
<1>2. ControlTypeOK
  <2>1. sess \in [Slots -> SessionRecord]
    BY <1>1
  <2>2. free \in [Slots -> 0..MaxStarts] /\ starts \in 0..MaxStarts /\ accepted \in 0..MaxSessions
        /\ at \in 1 .. LastSlot + 1 /\ accSlot \in 0..LastSlot
    OBVIOUS
  <2>3. {listening, accepting, isRunning, observing, hasArray} \subseteq BOOLEAN
    BY Zenon
  <2>4. told \in [Sessions -> {"nothing", "joined", "left"}] /\ worker \in [Workers -> {"none", "waiting", "ended"}]
        /\ passed \subseteq Sessions /\ leaveQ \subseteq Slots
    OBVIOUS
  <2>5. QED
    BY <2>1, <2>2, <2>3, <2>4 DEF ControlTypeOK
<1>3. ThreadsHaveTheirData /\ PipeRunsOnce /\ PassedSupport
  BY DEF ThreadsHaveTheirData, PipeRunsOnce, PassedSupport
<1>4. MainSupport
  BY DEF MainSupport, EarlyPcs, EndedPcs, RunningPcs, StartPcs, StopPcs
<1>5. SlotsSupport
  <2>1. \A s \in Slots : sess[s].dead /\ sess[s].refs = 0 /\ sess[s].io = "none"
    BY DEF Dead
  <2>2. QED
    BY <2>1 DEF SlotsSupport, OneSlotEach, SlotSupport, Live, AcceptHolds, HoldingPcs
<1>6. QED
  BY <1>2, <1>3, <1>4, <1>5 DEF ControlInv

-----------------------------------------------------------------------------
(* Records.                                                                *)

IOStates == {"none", "posted", "fin", "data", "aborted"}

LEMMA CanceledRecord ==
  ASSUME NEW r \in SessionRecord
  PROVE  LET q == [r EXCEPT !.canceled = TRUE] IN
         /\ q \in SessionRecord /\ q.canceled
         /\ q.id = r.id /\ q.refs = r.refs /\ q.dead = r.dead /\ q.io = r.io /\ q.piped = r.piped
BY DEF SessionRecord

LEMMA IORecord ==
  ASSUME NEW r \in SessionRecord, NEW x \in IOStates
  PROVE  LET q == [r EXCEPT !.io = x] IN
         /\ q \in SessionRecord /\ q.io = x /\ q.canceled = r.canceled
         /\ q.id = r.id /\ q.refs = r.refs /\ q.dead = r.dead /\ q.piped = r.piped
BY DEF SessionRecord, IOStates

LEMMA RefsRecord ==
  ASSUME NEW r \in SessionRecord, NEW x \in 0..3
  PROVE  LET q == [r EXCEPT !.refs = x] IN
         /\ q \in SessionRecord /\ q.refs = x
         /\ q.id = r.id /\ q.dead = r.dead /\ q.canceled = r.canceled /\ q.io = r.io /\ q.piped = r.piped
BY DEF SessionRecord

LEMMA PipedRecord ==
  ASSUME NEW r \in SessionRecord, NEW x \in BOOLEAN
  PROVE  LET q == [r EXCEPT !.piped = x] IN
         /\ q \in SessionRecord /\ q.piped = x /\ q.canceled = r.canceled
         /\ q.id = r.id /\ q.refs = r.refs /\ q.dead = r.dead /\ q.io = r.io
BY DEF SessionRecord

LEMMA DeadRecord ==
  ASSUME NEW r \in SessionRecord
  PROVE  [r EXCEPT !.dead = TRUE] \in SessionRecord
BY DEF SessionRecord

LEMMA NewRecord ==
  ASSUME NEW x \in 0..MaxSessions
  PROVE  LET q == [Dead EXCEPT !.id = x, !.refs = 1, !.dead = FALSE] IN
         /\ q \in SessionRecord /\ q.id = x /\ q.refs = 1 /\ ~q.dead
         /\ ~q.canceled /\ q.io = "none" /\ ~q.piped
<1> DEFINE y == [Dead EXCEPT !.id = x]
           z == [y EXCEPT !.refs = 1]
           q == [Dead EXCEPT !.id = x, !.refs = 1, !.dead = FALSE]
<1>1. q = [z EXCEPT !.dead = FALSE]
  BY DEF Dead
<1>2. y \in SessionRecord
  <2>1. Dead \in SessionRecord
    BY DEF Dead, SessionRecord
  <2>2. QED
    BY <2>1 DEF SessionRecord
<1>3. z \in SessionRecord
  <2> HIDE DEF y
  <2>1. 1 \in 0..3
    OBVIOUS
  <2>2. QED
    BY <1>2, <2>1, RefsRecord
<1>4. q \in SessionRecord
  <2> HIDE DEF z, q
  <2>1. [z EXCEPT !.dead = FALSE] \in SessionRecord
    BY <1>3 DEF SessionRecord
  <2>2. QED
    BY <1>1, <2>1
<1>5. q.id = x /\ q.refs = 1 /\ ~q.dead /\ ~q.canceled /\ q.io = "none" /\ ~q.piped
  BY DEF Dead
<1>6. QED
  BY <1>4, <1>5

LEMMA ReleasedRecord ==
  ASSUME NEW r \in SessionRecord
  PROVE  LET q == [r EXCEPT !.refs = 0, !.dead = TRUE] IN
         /\ q \in SessionRecord /\ q.refs = 0 /\ q.dead
         /\ q.id = r.id /\ q.canceled = r.canceled /\ q.io = r.io /\ q.piped = r.piped
<1> DEFINE z == [r EXCEPT !.refs = 0]
           q == [r EXCEPT !.refs = 0, !.dead = TRUE]
<1>1. q = [z EXCEPT !.dead = TRUE]
  BY DEF SessionRecord
<1>2. z \in SessionRecord
  <2>1. 0 \in 0..3
    OBVIOUS
  <2>2. QED
    BY <2>1, RefsRecord
<1>3. q \in SessionRecord
  <2> HIDE DEF z, q
  <2>1. QED
    BY <1>1, <1>2, DeadRecord
<1>4. q.refs = 0 /\ q.dead /\ q.id = r.id /\ q.canceled = r.canceled /\ q.io = r.io /\ q.piped = r.piped
  BY DEF SessionRecord
<1>5. QED
  BY <1>3, <1>4

-----------------------------------------------------------------------------
(* What does not touch a slot leaves it as it is.                          *)

SameSlot(r) ==
  /\ sess'[r] = sess[r] /\ free'[r] = free[r] /\ (r \in leaveQ' <=> r \in leaveQ)
  /\ Live(r) => told'[sess[r].id] = told[sess[r].id]

AcceptElsewhere(r) ==
  \/ acc' = acc /\ accSlot' = accSlot
  \/ ~AcceptHolds(r) /\ ~AcceptHolds(r)'

PipeGoesOn == pipe \in {"running", "ended"} => pipe' = pipe
CancelGoesOn(r) ==
  /\ main = "cancel" /\ at = r => (main' = "cancel" /\ at' = r) \/ main' = "quit"
  /\ main = "quit" => main' = "quit"

LEMMA Bystander ==
  ASSUME NEW r \in Slots, SlotSupport(r), SameSlot(r), AcceptElsewhere(r), PipeGoesOn, CancelGoesOn(r),
         hasArray' = hasArray, accepted \in Nat, accepted' \in Nat, accepted' >= accepted,
         Live(r) /\ acc' = "alloc" => sess[r].id # accepted'
  PROVE  SlotSupport(r)'
<1> USE DEF SameSlot, SlotSupport, AcceptElsewhere, AcceptHolds, PipeGoesOn
<1>1. free'[r] = (IF hasArray' /\ sess'[r].dead /\ r \notin leaveQ' THEN 1 ELSE 0)
  OBVIOUS
<1>2. r \in leaveQ' => sess'[r].dead /\ pipe' = "running"
  OBVIOUS
<1>3. sess'[r].dead => sess'[r].refs = 0 /\ sess'[r].io = "none" /\ ~AcceptHolds(r)'
  OBVIOUS
<1>4. ASSUME Live(r) PROVE LiveSupport(r)'
  <2> USE <1>4 DEF LiveSupport
  <2>1. RefsOfAccept(r)' = RefsOfAccept(r) /\ RefsOfReceive(r)' = RefsOfReceive(r)
    BY DEF RefsOfAccept, RefsOfReceive
  <2>2. (acc = "join" /\ accSlot = r)' <=> (acc = "join" /\ accSlot = r)
    BY DEF HoldingPcs
  <2>3. acc = "recheck" /\ accSlot = r => (acc = "recheck" /\ accSlot = r)'
    BY DEF HoldingPcs
  <2>4. sess'[r].id \in 1..accepted' /\ (acc' = "alloc" => sess'[r].id # accepted')
    OBVIOUS
  <2>5. sess'[r].canceled /\ sess'[r].io = "posted" =>
          (main' = "cancel" /\ at' = r) \/ (acc' = "recheck" /\ accSlot' = r) \/ main' = "quit"
    BY <2>3 DEF CancelGoesOn
  <2>6. told'[sess'[r].id] = (IF acc' = "join" /\ accSlot' = r THEN "nothing" ELSE "joined")
    BY <2>2
  <2>7. (accSlot = r /\ acc \in {"join", "recv"})' => accSlot = r /\ acc \in {"join", "recv"}
    BY DEF HoldingPcs
  <2>8. QED
    BY <2>1, <2>4, <2>5, <2>6, <2>7
<1>5. Live(r)' <=> Live(r)
  BY DEF Live
<1>6. QED
  BY <1>1, <1>2, <1>3, <1>4, <1>5

\* A step that touches no slot at all.
LEMMA SlotsStay ==
  ASSUME ControlTypeOK, SlotsSupport, UNCHANGED <<sess, free, told, leaveQ, hasArray, accSlot, accepted>>,
         acc' = acc \/ (acc \notin HoldingPcs \cup {"alloc"} /\ acc' \notin HoldingPcs \cup {"alloc"}),
         PipeGoesOn, \A r \in Slots : CancelGoesOn(r)
  PROVE  SlotsSupport'
<1>1. accepted \in Nat
  BY DEF ControlTypeOK
<1>2. ASSUME NEW r \in Slots PROVE SlotSupport(r)'
  <2>1. SameSlot(r) /\ AcceptElsewhere(r)
    BY DEF SameSlot, AcceptElsewhere, AcceptHolds
  <2>2. Live(r) /\ acc' = "alloc" => sess[r].id # accepted'
    BY DEF SlotsSupport, SlotSupport, LiveSupport
  <2>3. SlotSupport(r) /\ CancelGoesOn(r)
    BY DEF SlotsSupport
  <2>4. QED
    BY <1>1, <2>1, <2>2, <2>3, Bystander
<1>3. QED
  BY <1>2 DEF SlotsSupport, OneSlotEach, Live

-----------------------------------------------------------------------------
(* Start and Stop, and the other threads' steps that touch no slot.        *)

\* What such a step has to show.
LEMMA QuietStep ==
  ASSUME ControlInv, SlotsSupport', ControlTypeOK', ThreadsHaveTheirData', PipeRunsOnce', MainSupport',
         UNCHANGED <<sess, told, passed>>,
         main = "flag" => (main' = "flag" /\ at' = at) \/ main' = "quit",
         main = "quit" => main' = "quit",
         main' \in {"wait"} \cup EndedPcs => main \in {"wait"} \cup EndedPcs
  PROVE  ControlInv'
<1>1. PassedSupport'
  BY DEF ControlInv, PassedSupport, Live
<1>2. QED
  BY <1>1 DEF ControlInv

LEMMA StartKeepsInv ==
  ASSUME ControlInv, Start
  PROVE  ControlInv'
<1> USE DEF ControlInv, Start, Goto
<1>1. ControlTypeOK'
  <2>1. main' \in {"failed"} \cup StartPcs /\ hcp' \in {"none", "open", "closed"} /\ starts' \in 0..MaxStarts
    BY DEF ControlTypeOK, StartPcs
  <2>2. {listening, accepting, isRunning, observing, hasArray}' \subseteq BOOLEAN
    BY DEF ControlTypeOK
  <2>3. QED
    BY <2>1, <2>2 DEF ControlTypeOK, sessionVars, threadVars, pipeVars
<1>2. SlotsSupport'
  BY SlotsStay DEF PipeGoesOn, CancelGoesOn, sessionVars, threadVars, pipeVars
<1>3. MainSupport'
  BY DEF MainSupport, EarlyPcs, EndedPcs, RunningPcs, StartPcs, StopPcs, sessionVars, threadVars, pipeVars, ControlTypeOK
<1>4. ThreadsHaveTheirData' /\ PipeRunsOnce'
  BY DEF ThreadsHaveTheirData, PipeRunsOnce, MainSupport, EarlyPcs, sessionVars, threadVars, pipeVars
<1>5. QED
  BY <1>1, <1>2, <1>3, <1>4, QuietStep DEF EndedPcs, sessionVars

LEMMA RunWorkerThreadKeepsInv ==
  ASSUME ControlInv, RunWorkerThread
  PROVE  ControlInv'
<1> USE DEF ControlInv, RunWorkerThread, Goto
<1>1. ControlTypeOK'
  BY DEF ControlTypeOK, flagVars, portVars, sessionVars, pipeVars, StartPcs
<1>2. SlotsSupport'
  BY SlotsStay DEF PipeGoesOn, CancelGoesOn, flagVars, portVars, sessionVars, pipeVars
<1>3. MainSupport'
  BY DEF MainSupport, EarlyPcs, EndedPcs, RunningPcs, StartPcs, StopPcs, flagVars, portVars, sessionVars, pipeVars
<1>4. ThreadsHaveTheirData' /\ PipeRunsOnce'
  BY DEF ThreadsHaveTheirData, PipeRunsOnce, MainSupport, RunningPcs, StartPcs, flagVars, portVars, sessionVars, pipeVars
<1>5. QED
  BY <1>1, <1>2, <1>3, <1>4, QuietStep DEF EndedPcs, sessionVars

LEMMA RunPipesKeepsInv ==
  ASSUME ControlInv, RunPipes
  PROVE  ControlInv'
<1> USE DEF ControlInv, RunPipes, Goto
<1>0. pipe \in {"none", "registered"}
  BY DEF MainSupport
<1>1. ControlTypeOK'
  BY <1>0 DEF ControlTypeOK, flagVars, portVars, sessionVars, threadVars, pipeVars, StartPcs, PipeRunsOnce
<1>2. SlotsSupport'
  BY <1>0, SlotsStay DEF PipeGoesOn, CancelGoesOn, flagVars, portVars, sessionVars, threadVars, pipeVars
<1>3. MainSupport'
  BY <1>0 DEF MainSupport, EarlyPcs, EndedPcs, RunningPcs, StartPcs, StopPcs, flagVars, portVars, sessionVars, threadVars, pipeVars
<1>4. ThreadsHaveTheirData' /\ PipeRunsOnce'
  BY <1>0 DEF ThreadsHaveTheirData, PipeRunsOnce, MainSupport, flagVars, portVars, sessionVars, threadVars, pipeVars
<1>5. QED
  BY <1>1, <1>2, <1>3, <1>4, QuietStep DEF EndedPcs, sessionVars

LEMMA RunObserverThreadKeepsInv ==
  ASSUME ControlInv, RunObserverThread
  PROVE  ControlInv'
<1> USE DEF ControlInv, RunObserverThread, Goto
<1>1. ControlTypeOK'
  BY DEF ControlTypeOK, portVars, sessionVars, pipeVars, StartPcs
<1>2. SlotsSupport'
  BY SlotsStay DEF PipeGoesOn, CancelGoesOn, portVars, sessionVars, pipeVars
<1>3. MainSupport'
  BY DEF MainSupport, EarlyPcs, EndedPcs, RunningPcs, StartPcs, StopPcs, portVars, sessionVars, pipeVars
<1>4. ThreadsHaveTheirData' /\ PipeRunsOnce'
  BY DEF ThreadsHaveTheirData, PipeRunsOnce, MainSupport, EarlyPcs, portVars, sessionVars, pipeVars
<1>5. QED
  BY <1>1, <1>2, <1>3, <1>4, QuietStep DEF EndedPcs, sessionVars

LEMMA RunAcceptThreadKeepsInv ==
  ASSUME ControlInv, RunAcceptThread
  PROVE  ControlInv'
<1> USE DEF ControlInv, RunAcceptThread, Goto
<1>1. ControlTypeOK'
  BY DEF ControlTypeOK, portVars, sessionVars, pipeVars, StartPcs
<1>2. SlotsSupport'
  BY SlotsStay DEF MainSupport, StartPcs, PipeGoesOn, CancelGoesOn, HoldingPcs, portVars, sessionVars, pipeVars
<1>3. MainSupport'
  BY DEF MainSupport, EarlyPcs, EndedPcs, RunningPcs, StartPcs, StopPcs, portVars, sessionVars, pipeVars
<1>4. ThreadsHaveTheirData' /\ PipeRunsOnce'
  BY DEF ThreadsHaveTheirData, PipeRunsOnce, MainSupport, EarlyPcs, RunningPcs, StartPcs, portVars, sessionVars, pipeVars
<1>5. QED
  BY <1>1, <1>2, <1>3, <1>4, QuietStep DEF EndedPcs, sessionVars

LEMMA NewPipeKeepsInv ==
  ASSUME ControlInv, NewPipe
  PROVE  ControlInv'
<1> USE DEF ControlInv, NewPipe
<1>1. ControlTypeOK'
  BY DEF ControlTypeOK, flagVars, portVars, sessionVars, threadVars
<1>2. SlotsSupport'
  BY SlotsStay DEF PipeGoesOn, CancelGoesOn, portVars, sessionVars, threadVars
<1>3. MainSupport'
  BY DEF MainSupport, EarlyPcs, EndedPcs, RunningPcs, StartPcs, StopPcs, flagVars, portVars, sessionVars, threadVars
<1>4. ThreadsHaveTheirData' /\ PipeRunsOnce'
  BY DEF ThreadsHaveTheirData, PipeRunsOnce, portVars, threadVars
<1>5. QED
  BY <1>1, <1>2, <1>3, <1>4, QuietStep DEF EndedPcs, sessionVars

\* Stop, but for its walk over the sessions; the end of the observer; a worker's end.
StopSteps ==
  \/ CloseListenSocket \/ StopAccepting \/ WaitForThreads \/ StopRunning
  \/ CloseHandles \/ StopObserver \/ StopPipes \/ ObserverEnds
  \/ \E w \in Workers : TakeQuit(w)

LEMMA StopStepsKeepInv ==
  ASSUME ControlInv, main # "quit", StopSteps
  PROVE  ControlInv'
<1>2. (main # "cancel" /\ main # "flag") \/ (main' = main /\ at' = at)
  <2>1. ObserverEnds => main' = main /\ at' = at
    BY DEF ObserverEnds
  <2>2. ASSUME NEW w \in Workers, TakeQuit(w) PROVE main' = main /\ at' = at
    BY <2>2 DEF TakeQuit, KeepForWorker
  <2>3. CloseListenSocket \/ StopAccepting \/ WaitForThreads => main # "cancel" /\ main # "flag"
    BY DEF CloseListenSocket, StopAccepting, WaitForThreads
  <2>4. StopRunning \/ CloseHandles \/ StopObserver \/ StopPipes => main # "cancel" /\ main # "flag"
    BY DEF StopRunning, CloseHandles, StopObserver, StopPipes
  <2>5. QED
    BY <2>1, <2>2, <2>3, <2>4 DEF StopSteps
<1> USE DEF StopSteps, CloseListenSocket, StopAccepting, WaitForThreads, StopRunning, CloseHandles, StopObserver,
        StopPipes, ObserverEnds, TakeQuit, KeepForWorker, Goto
<1>1. UNCHANGED <<sess, free, told, leaveQ, hasArray, accSlot, accepted, acc, pipe, pipeThreads, passed, starts>>
  BY DEF flagVars, portVars, sessionVars, threadVars, pipeVars
<1>3. ControlTypeOK'
  <2>1. main' \in {"stopped"} \cup StopPcs \/ main' = main
    BY DEF StopPcs
  <2>2. at' \in 1 .. LastSlot + 1 /\ hcp' \in {"none", "open", "closed"} /\ port' \in 0..1
        /\ observer' \in {"none", "running", "ended"}
    BY DEF ControlInv, ControlTypeOK, flagVars, portVars, threadVars
  <2>3. {listening, accepting, isRunning, observing, hasArray}' \subseteq BOOLEAN
    BY DEF ControlInv, ControlTypeOK, flagVars, portVars
  <2>4. worker' \in [Workers -> {"none", "waiting", "ended"}]
    BY DEF ControlInv, ControlTypeOK, threadVars
  <2>5. QED
    BY <1>1, <2>1, <2>2, <2>3, <2>4 DEF ControlInv, ControlTypeOK
<1>4. SlotsSupport'
  BY <1>1, <1>2, SlotsStay DEF ControlInv, PipeGoesOn, CancelGoesOn
<1>5. \A w \in Workers : worker'[w] \in {worker[w], "ended"}
  BY DEF threadVars, ControlInv, ControlTypeOK
<1>6. MainSupport'
  BY <1>1, <1>5 DEF ControlInv, MainSupport, EarlyPcs, EndedPcs, RunningPcs, StartPcs, StopPcs, flagVars, portVars
<1>7. ThreadsHaveTheirData'
  BY <1>1, <1>5 DEF ControlInv, MainSupport, RunningPcs, StartPcs, StopPcs, EndedPcs, ThreadsHaveTheirData, flagVars, portVars, threadVars
<1>8. PipeRunsOnce'
  BY <1>1 DEF ControlInv, PipeRunsOnce
<1>9. main' \in {"wait"} \cup EndedPcs => main \in {"wait"} \cup EndedPcs
  BY DEF EndedPcs
<1>10. QED
  BY <1>1, <1>2, <1>3, <1>4, <1>6, <1>7, <1>8, <1>9, QuietStep

\* Every slot is free for the first time.
LEMMA ValidateKeepsInv ==
  ASSUME ControlInv, Validate
  PROVE  ControlInv'
<1> USE DEF Validate, Goto
<1>1. ~hasArray /\ starts > 0 /\ acc = "none" /\ pipe \in {"none", "registered"}
  BY DEF ControlInv, MainSupport, EarlyPcs, StartPcs
<1>2. ASSUME NEW s \in Slots
      PROVE  sess[s].dead /\ free[s] = 0 /\ s \notin leaveQ
  <2>1. SlotSupport(s)
    BY DEF ControlInv, SlotsSupport
  <2>2. QED
    BY <1>1, <2>1 DEF SlotSupport, Live, LiveSupport
<1>3. free' = [s \in Slots |-> 1]
  BY <1>2
<1>4. ControlTypeOK'
  <2>1. free' \in [Slots -> 0..MaxStarts]
    BY <1>1, <1>3 DEF ControlInv, ControlTypeOK
  <2>2. {listening, accepting, isRunning, observing, hasArray}' \subseteq BOOLEAN
    BY DEF ControlInv, ControlTypeOK, flagVars
  <2>3. QED
    BY <2>1, <2>2 DEF ControlInv, ControlTypeOK, StartPcs, flagVars, threadVars, pipeVars
<1>5. SlotsSupport'
  BY <1>1, <1>2, <1>3 DEF ControlInv, SlotsSupport, SlotSupport, OneSlotEach, Live, AcceptHolds, HoldingPcs,
     threadVars, pipeVars
<1>6. MainSupport'
  BY <1>1 DEF ControlInv, MainSupport, EarlyPcs, EndedPcs, RunningPcs, StartPcs, StopPcs, flagVars, threadVars, pipeVars
<1>7. ThreadsHaveTheirData' /\ PipeRunsOnce'
  BY DEF ControlInv, ThreadsHaveTheirData, PipeRunsOnce, threadVars, pipeVars
<1>8. QED
  BY <1>4, <1>5, <1>6, <1>7, QuietStep DEF EndedPcs

-----------------------------------------------------------------------------
(* Invalidate.                                                             *)

LEMMA InvalidateTestKeepsInv ==
  ASSUME ControlInv, InvalidateTest
  PROVE  ControlInv'
<1> USE DEF InvalidateTest, Goto
<1>1. UNCHANGED <<sess, free, told, leaveQ, hasArray, accSlot, accepted, acc, pipe, pipeThreads, starts, isRunning, hcp, worker, observer>>
  BY DEF flagVars, portVars, sessionVars, threadVars, pipeVars
<1>2. at \in Slots /\ main = "invalidate" /\ main' \in {"invalidate", "flag"}
      /\ (main' = "flag" => at' = at /\ Live(at))
  BY DEF ControlInv, ControlTypeOK, Slots, Live
<1>3. sess[at].id \in 0..MaxSessions /\ (Live(at) => sess[at].id \in Sessions)
  <2>1. sess[at].id \in 0..MaxSessions /\ accepted \in 0..MaxSessions
    BY <1>2 DEF ControlInv, ControlTypeOK, SessionRecord
  <2>2. Live(at) => sess[at].id \in 1..accepted
    BY <1>2 DEF ControlInv, SlotsSupport, SlotSupport, LiveSupport
  <2>3. QED
    BY <2>1, <2>2 DEF Sessions
<1>4. ControlTypeOK'
  <2>1. main' \in StopPcs /\ at' \in 1 .. LastSlot + 1
    BY <1>2 DEF StopPcs, Slots
  <2>2. passed' \subseteq Sessions
    BY <1>3 DEF ControlInv, ControlTypeOK, Live
  <2>3. QED
    BY <1>1, <2>1, <2>2 DEF ControlInv, ControlTypeOK, flagVars, portVars
<1>5. SlotsSupport'
  BY <1>1, <1>2, SlotsStay DEF ControlInv, PipeGoesOn, CancelGoesOn
<1>6. MainSupport'
  BY <1>1, <1>2 DEF ControlInv, MainSupport, EarlyPcs, EndedPcs, RunningPcs, StartPcs, StopPcs
<1>7. ThreadsHaveTheirData' /\ PipeRunsOnce'
  BY <1>1 DEF ControlInv, ThreadsHaveTheirData, PipeRunsOnce
<1>8. PassedSupport'
  <2> SUFFICES ASSUME NEW c \in passed'
               PROVE  \/ told[c] = "left"
                      \/ \E s \in Slots : /\ Live(s) /\ sess[s].id = c
                                           /\ (sess[s].canceled \/ (main' = "flag" /\ at' = s))
    BY <1>1, <1>2 DEF PassedSupport, Live, EndedPcs
  <2>1. CASE c \in passed
    BY <1>2, <2>1 DEF ControlInv, PassedSupport
  <2>2. CASE c \notin passed
    BY <1>2, <2>2 DEF Live
  <2>3. QED
    BY <2>1, <2>2
<1>9. QED
  BY <1>4, <1>5, <1>6, <1>7, <1>8 DEF ControlInv

InvalidateVars == <<free, told, leaveQ, hasArray, accSlot, accepted, acc, pipe, pipeThreads, starts,
                    isRunning, hcp, worker, observer, passed, listening, accepting, observing, port>>

\* The two steps of Disconnect change one slot, and of that slot the flag and the receive.
LEMMA InvalidateChangesSlot ==
  ASSUME ControlInv, UNCHANGED InvalidateVars, at \in Slots, main \in {"flag", "cancel"},
         main' \in {"cancel", "invalidate"}, at' \in 1 .. LastSlot + 1, main' = "cancel" => at' = at,
         \A r \in Slots : r # at => sess'[r] = sess[r],
         sess' \in [Slots -> SessionRecord],
         sess'[at].id = sess[at].id, sess'[at].refs = sess[at].refs, sess'[at].dead = sess[at].dead,
         sess'[at].piped = sess[at].piped,
         sess'[at].io = "none" <=> sess[at].io = "none",
         sess'[at].canceled /\ sess'[at].io = "posted" => main' = "cancel",
         sess[at].canceled => sess'[at].canceled,
         main = "flag" => sess'[at].canceled
  PROVE  ControlInv'
<1> USE DEF InvalidateVars
<1>1. ControlTypeOK'
  BY DEF ControlInv, ControlTypeOK, StopPcs
<1>2. \A r \in Slots : Live(r)' <=> Live(r)
  BY DEF Live
<1>3. ASSUME NEW r \in Slots PROVE SlotSupport(r)'
  <2>1. SlotSupport(r) /\ accepted \in Nat
    BY DEF ControlInv, SlotsSupport, ControlTypeOK
  <2>2. CASE r # at
    <3>1. SameSlot(r) /\ AcceptElsewhere(r) /\ PipeGoesOn /\ CancelGoesOn(r)
      BY <2>2 DEF SameSlot, AcceptElsewhere, PipeGoesOn, CancelGoesOn
    <3>2. Live(r) /\ acc' = "alloc" => sess[r].id # accepted'
      BY <2>1 DEF SlotSupport, LiveSupport
    <3>3. QED
      BY <2>1, <3>1, <3>2, Bystander
  <2>3. CASE r = at
    <3>1. RefsOfReceive(r)' = RefsOfReceive(r) /\ RefsOfAccept(r)' = RefsOfAccept(r) /\ (AcceptHolds(r)' <=> AcceptHolds(r))
      BY <2>3 DEF RefsOfReceive, RefsOfAccept, AcceptHolds
    <3>2. Live(r) => LiveSupport(r)'
      BY <2>1, <2>3, <3>1 DEF SlotSupport, LiveSupport
    <3>3. QED
      BY <2>1, <2>3, <1>2, <3>1, <3>2 DEF SlotSupport
  <2>4. QED
    BY <2>2, <2>3
<1>4. OneSlotEach'
  <2>1. \A r \in Slots : sess'[r].id = sess[r].id
    OBVIOUS
  <2>2. QED
    BY <1>2, <2>1 DEF ControlInv, SlotsSupport, OneSlotEach
<1>5. SlotsSupport'
  BY <1>3, <1>4 DEF ControlInv, SlotsSupport
<1>6. MainSupport'
  BY DEF ControlInv, MainSupport, EarlyPcs, EndedPcs, RunningPcs, StartPcs, StopPcs
<1>7. ThreadsHaveTheirData' /\ PipeRunsOnce'
  BY DEF ControlInv, ThreadsHaveTheirData, PipeRunsOnce
<1>8. PassedSupport'
  <2> SUFFICES ASSUME NEW c \in passed, told[c] # "left"
               PROVE  \E s \in Slots : Live(s)' /\ sess'[s].id = c /\ sess'[s].canceled
    BY DEF PassedSupport, EndedPcs
  <2>1. PICK s \in Slots : /\ Live(s) /\ sess[s].id = c
                          /\ (sess[s].canceled \/ (main = "flag" /\ at = s))
    BY DEF ControlInv, PassedSupport
  <2>2. sess'[s].id = c /\ sess'[s].canceled
    BY <2>1
  <2>3. QED
    BY <1>2, <2>1, <2>2
<1>9. QED
  BY <1>1, <1>5, <1>6, <1>7, <1>8 DEF ControlInv

LEMMA InvalidateKeepsInv ==
  ASSUME ControlInv, InvalidateFlag \/ InvalidateCancel
  PROVE  ControlInv'
<1> USE DEF Goto
<1>1. at \in Slots /\ main \in {"flag", "cancel"}
  BY DEF ControlInv, MainSupport, InvalidateFlag, InvalidateCancel
<1>2. UNCHANGED InvalidateVars
  BY DEF InvalidateFlag, InvalidateCancel, InvalidateVars, flagVars, portVars, sessionVars, threadVars, pipeVars
<1>3. sess[at] \in SessionRecord
  BY <1>1 DEF ControlInv, ControlTypeOK
<1>4. sess \in [Slots -> SessionRecord]
  BY DEF ControlInv, ControlTypeOK
<1>5. CASE InvalidateFlag
  <2>1. sess' = [sess EXCEPT ![at] = [sess[at] EXCEPT !.canceled = TRUE]]
    BY <1>5, <1>4 DEF InvalidateFlag
  <2>2. sess'[at] = [sess[at] EXCEPT !.canceled = TRUE] /\ \A r \in Slots : r # at => sess'[r] = sess[r]
    BY <1>1, <1>4, <2>1
  <2>3. sess' \in [Slots -> SessionRecord]
    BY <1>1, <1>3, <1>4, <2>1, CanceledRecord
  <2>4. /\ main' = "cancel" /\ at' = at
    BY <1>5 DEF InvalidateFlag
  <2>5. QED
    BY <1>1, <1>2, <1>3, <2>2, <2>3, <2>4, CanceledRecord, InvalidateChangesSlot DEF Slots
<1>6. CASE InvalidateCancel
  <2>1. sess' = [sess EXCEPT ![at] = [sess[at] EXCEPT !.io = Aborted(sess[at].io)]]
    BY <1>6, <1>4 DEF InvalidateCancel
  <2>2. sess'[at] = [sess[at] EXCEPT !.io = Aborted(sess[at].io)] /\ \A r \in Slots : r # at => sess'[r] = sess[r]
    BY <1>1, <1>4, <2>1
  <2>3. Aborted(sess[at].io) \in IOStates /\ Aborted(sess[at].io) # "posted"
        /\ (Aborted(sess[at].io) = "none" <=> sess[at].io = "none")
    BY <1>3 DEF Aborted, SessionRecord, IOStates
  <2>4. sess' \in [Slots -> SessionRecord]
    BY <1>1, <1>3, <1>4, <2>1, <2>3, IORecord
  <2>5. main = "cancel" /\ main' = "invalidate" /\ at' \in 1 .. LastSlot + 1
    BY <1>1, <1>6 DEF InvalidateCancel, Slots
  <2>6. QED
    BY <1>1, <1>2, <1>3, <2>2, <2>3, <2>4, <2>5, IORecord, InvalidateChangesSlot
<1>7. QED
  BY <1>5, <1>6

\* Stop goes on when no canceled session is alive: it would have a receive, for the accept
\* thread holds none, and that receive would be aborted and wait to be taken.
LEMMA PostQuitKeepsInv ==
  ASSUME ControlInv, PostQuit
  PROVE  ControlInv'
<1> USE DEF PostQuit, Goto
<1>1. UNCHANGED <<sess, free, told, leaveQ, hasArray, accSlot, accepted, acc, pipe, pipeThreads, starts, isRunning, hcp, worker, observer, passed>>
  BY DEF flagVars, sessionVars, threadVars, pipeVars
<1>2. main = "invalidate" /\ main' = "wait"
  OBVIOUS
<1>3. ControlTypeOK'
  BY <1>1 DEF ControlInv, ControlTypeOK, StopPcs, flagVars
<1>4. SlotsSupport'
  BY <1>1, <1>2, SlotsStay DEF ControlInv, PipeGoesOn, CancelGoesOn
<1>5. MainSupport'
  BY <1>1, <1>2 DEF ControlInv, MainSupport, EarlyPcs, EndedPcs, RunningPcs, StartPcs, StopPcs
<1>6. ThreadsHaveTheirData' /\ PipeRunsOnce'
  BY <1>1 DEF ControlInv, ThreadsHaveTheirData, PipeRunsOnce
<1>7. ASSUME NEW s \in Slots, Live(s), sess[s].canceled PROVE FALSE
  <2>1. LiveSupport(s)
    BY <1>7 DEF ControlInv, SlotsSupport, SlotSupport
  <2>2. acc \notin HoldingPcs /\ sess[s].io \in {"none", "posted"}
    <3>1. sess[s].io \in IOStates
      BY DEF ControlInv, ControlTypeOK, SessionRecord, IOStates
    <3>2. QED
      BY <1>7, <3>1 DEF SleptLongEnough, HoldingPcs, IOStates, Live
  <2>3. RefsOfAccept(s) = 0
    BY <2>2 DEF RefsOfAccept, AcceptHolds
  <2>4. sess[s].io = "posted"
    BY <2>1, <2>2, <2>3 DEF LiveSupport, RefsOfReceive
  <2>5. QED
    BY <1>2, <1>7, <2>1, <2>2, <2>4 DEF LiveSupport, HoldingPcs
<1>8. PassedSupport'
  BY <1>1, <1>2, <1>7 DEF ControlInv, PassedSupport
<1>9. QED
  BY <1>3, <1>4, <1>5, <1>6, <1>8 DEF ControlInv

-----------------------------------------------------------------------------
(* Accept thread, workers and pipe: what does not move main.               *)

LEMMA PassedStays ==
  ASSUME ControlInv, UNCHANGED <<main, at, passed>>,
         \A c \in Sessions : told[c] = "left" => told'[c] = "left",
         \A s \in Slots : Live(s) =>
            \/ Live(s)' /\ sess'[s].id = sess[s].id /\ (sess[s].canceled => sess'[s].canceled)
            \/ told'[sess[s].id] = "left"
  PROVE  PassedSupport'
<1> SUFFICES ASSUME NEW c \in passed, told'[c] # "left"
             PROVE  /\ main \notin {"wait"} \cup EndedPcs
                    /\ \E s \in Slots : /\ Live(s)' /\ sess'[s].id = c
                                         /\ (sess'[s].canceled \/ (main = "flag" /\ at = s) \/ main = "quit")
  BY DEF PassedSupport
<1>1. told[c] # "left"
  BY DEF ControlInv, ControlTypeOK
<1>2. /\ main \notin {"wait"} \cup EndedPcs
      /\ \E s \in Slots : /\ Live(s) /\ sess[s].id = c
                           /\ (sess[s].canceled \/ (main = "flag" /\ at = s) \/ main = "quit")
  BY <1>1 DEF ControlInv, PassedSupport
<1>3. QED
  BY <1>2

\* A release or another drop of references in slot s.
DropFacts(s, r, n) ==
  /\ r \in SessionRecord /\ ~r.dead
  /\ r.id = sess[s].id /\ r.refs = sess[s].refs /\ r.piped = sess[s].piped
  /\ (sess[s].canceled => r.canceled)
  /\ n \in 1..2 /\ r.refs >= n
  /\ r.refs - n = RefsOfAccept(s)' + (IF r.io = "none" THEN 0 ELSE 1)
  /\ r.refs = n => ~AcceptHolds(s)'
  /\ r.canceled /\ r.io = "posted" => (main = "cancel" /\ at = s) \/ main = "quit"
  /\ ~(accSlot' = s /\ acc' \in {"join", "recv"})
  /\ ~(accSlot = s /\ acc = "join")

LEMMA DropRefsKeepsSlots ==
  ASSUME ControlInv, NEW s \in Slots, Live(s), NEW r, NEW n, DropRefs(s, r, n), DropFacts(s, r, n),
         UNCHANGED <<main, at, passed, hasArray, pipe, isRunning, accepted>>, isRunning,
         acc' # "alloc" \/ acc' = acc, acc' \in HoldingPcs => accSlot' \in Slots,
         \A q \in Slots : q # s => AcceptElsewhere(q)
  PROVE  /\ SlotsSupport' /\ PassedSupport'
         /\ sess' \in [Slots -> SessionRecord] /\ free' \in [Slots -> 0..MaxStarts]
         /\ told' \in [Sessions -> {"nothing", "joined", "left"}] /\ leaveQ' \subseteq Slots
<1> USE DEF DropFacts
<1>1. /\ SlotSupport(s) /\ LiveSupport(s) /\ accepted \in 0..MaxSessions
      /\ sess \in [Slots -> SessionRecord] /\ free \in [Slots -> 0..MaxStarts]
      /\ told \in [Sessions -> {"nothing", "joined", "left"}] /\ leaveQ \subseteq Slots
  BY DEF ControlInv, ControlTypeOK, SlotsSupport, SlotSupport
<1>2. sess[s].id \in Sessions /\ s \notin leaveQ /\ free[s] = 0 /\ told[sess[s].id] = "joined"
  BY <1>1 DEF LiveSupport, SlotSupport, Live, Sessions
<1>3. sess[s].piped => pipe = "running"
  BY <1>1 DEF LiveSupport, ControlInv, MainSupport
<1>4. hasArray /\ MaxStarts > 0
  <2>1. main # "new"
    BY DEF ControlInv, MainSupport
  <2>2. QED
    BY <1>1, <2>1 DEF LiveSupport, ControlInv, ControlTypeOK, MainSupport
<1>5. /\ \A q \in Slots : q # s => sess'[q] = sess[q] /\ free'[q] = free[q] /\ (q \in leaveQ' <=> q \in leaveQ)
      /\ \A c \in Sessions : c # sess[s].id => told'[c] = told[c]
  BY <1>1, <1>2 DEF DropRefs
<1>6. ASSUME NEW q \in Slots, q # s PROVE SlotSupport(q)'
  <2>1. SlotSupport(q) /\ accepted \in Nat
    BY <1>1 DEF ControlInv, SlotsSupport
  <2>2. Live(q) => sess[q].id \in Sessions /\ sess[q].id # sess[s].id /\ (acc' = "alloc" => sess[q].id # accepted)
    <3>1. Live(q) => sess[q].id # sess[s].id
      BY <1>6 DEF ControlInv, SlotsSupport, OneSlotEach
    <3>2. Live(q) => sess[q].id \in 1..accepted /\ (acc = "alloc" => sess[q].id # accepted)
      BY <2>1 DEF SlotSupport, LiveSupport
    <3>3. QED
      BY <1>1, <3>1, <3>2 DEF Sessions
  <2>3. SameSlot(q) /\ PipeGoesOn /\ CancelGoesOn(q)
    BY <1>5, <1>6, <2>2 DEF SameSlot, PipeGoesOn, CancelGoesOn
  <2>4. AcceptElsewhere(q)
    BY <1>6
  <2>5. QED
    BY <2>1, <2>2, <2>3, <2>4, Bystander
<1>7. CASE r.refs # n
  <2>1. sess' = [sess EXCEPT ![s] = [r EXCEPT !.refs = r.refs - n]] /\ UNCHANGED <<free, told, leaveQ>>
    BY <1>7 DEF DropRefs
  <2>2. r.refs - n \in 1..3 /\ r.refs - n \in 0..3
    BY <1>7 DEF SessionRecord
  <2>3. sess'[s] = [r EXCEPT !.refs = r.refs - n]
    BY <1>1, <2>1
  <2>4. /\ sess'[s] \in SessionRecord /\ sess'[s].refs = r.refs - n /\ ~sess'[s].dead
        /\ sess'[s].id = sess[s].id /\ sess'[s].io = r.io /\ sess'[s].canceled = r.canceled
        /\ sess'[s].piped = sess[s].piped
    <3> DEFINE x == r.refs - n
    <3>1. x \in 0..3 /\ sess'[s] = [r EXCEPT !.refs = x]
      BY <2>2, <2>3
    <3> HIDE DEF x
    <3>2. LET q == [r EXCEPT !.refs = x] IN
          /\ q \in SessionRecord /\ q.refs = x
          /\ q.id = r.id /\ q.dead = r.dead /\ q.canceled = r.canceled /\ q.io = r.io /\ q.piped = r.piped
      BY <3>1, RefsRecord
    <3>3. QED
      BY <3>1, <3>2 DEF x
  <2>5. LiveSupport(s)'
    BY <1>1, <1>2, <2>1, <2>2, <2>4 DEF LiveSupport, RefsOfReceive
  <2>6. SlotSupport(s)'
    BY <1>1, <1>2, <2>1, <2>4, <2>5 DEF SlotSupport, Live
  <2>7. OneSlotEach'
    <3>1. \A q \in Slots : (Live(q)' <=> Live(q)) /\ sess'[q].id = sess[q].id
      BY <1>5, <2>4 DEF Live
    <3>2. QED
      BY <3>1 DEF ControlInv, SlotsSupport, OneSlotEach
  <2>8. SlotsSupport'
    BY <1>6, <2>1, <2>6, <2>7 DEF ControlInv, SlotsSupport
  <2>9. PassedSupport'
    BY <1>5, <2>1, <2>4, PassedStays DEF Live
  <2>10. sess' \in [Slots -> SessionRecord]
    BY <1>1, <2>1, <2>3, <2>4
  <2>11. QED
    BY <1>1, <2>1, <2>8, <2>9, <2>10
<1>8. CASE r.refs = n
  <2>1. sess' = [sess EXCEPT ![s] = [r EXCEPT !.refs = 0, !.dead = TRUE]]
        /\ told' = [told EXCEPT ![sess[s].id] = "left"]
    BY <1>8 DEF DropRefs
  <2>2. /\ sess'[s] = [r EXCEPT !.refs = 0, !.dead = TRUE]
        /\ told'[sess[s].id] = "left"
    BY <1>1, <1>2, <2>1
  <2>3. r.io = "none" /\ ~AcceptHolds(s)'
    BY <1>8 DEF RefsOfAccept, SessionRecord
  <2>4. /\ sess'[s] \in SessionRecord /\ sess'[s].refs = 0 /\ sess'[s].dead /\ sess'[s].io = "none"
    BY <2>2, <2>3, ReleasedRecord
  <2>5. IF sess[s].piped THEN leaveQ' = leaveQ \cup {s} /\ UNCHANGED free
        ELSE free' = [free EXCEPT ![s] = 1] /\ UNCHANGED leaveQ
    BY <1>1, <1>2, <1>8 DEF DropRefs
  <2>6. SlotSupport(s)'
    BY <1>1, <1>2, <1>3, <1>4, <2>3, <2>4, <2>5 DEF SlotSupport, Live
  <2>7. OneSlotEach'
    <3>1. \A q \in Slots : (Live(q)' => Live(q)) /\ (Live(q)' => sess'[q].id = sess[q].id)
      BY <1>5, <2>4 DEF Live
    <3>2. QED
      BY <3>1 DEF ControlInv, SlotsSupport, OneSlotEach
  <2>8. SlotsSupport'
    <3>1. ASSUME NEW c \in Sessions, c > accepted' \/ (acc' = "alloc" /\ c = accepted') PROVE told'[c] = "nothing"
      <4>1. c # sess[s].id
        BY <1>1, <3>1 DEF LiveSupport
      <4>2. QED
        BY <1>5, <3>1, <4>1 DEF ControlInv, SlotsSupport
    <3>2. QED
      BY <1>6, <2>6, <2>7, <3>1 DEF ControlInv, SlotsSupport
  <2>9. PassedSupport'
    <3>1. \A c \in Sessions : told[c] = "left" => told'[c] = "left"
      BY <1>1, <2>1
    <3>2. ASSUME NEW q \in Slots, Live(q)
          PROVE  \/ Live(q)' /\ sess'[q].id = sess[q].id /\ (sess[q].canceled => sess'[q].canceled)
                 \/ told'[sess[q].id] = "left"
      BY <1>5, <2>2, <3>2 DEF Live
    <3>3. QED
      BY <3>1, <3>2, PassedStays
  <2>10. sess' \in [Slots -> SessionRecord] /\ told' \in [Sessions -> {"nothing", "joined", "left"}]
    BY <1>1, <1>2, <2>1, <2>2, <2>4
  <2>11. free' \in [Slots -> 0..MaxStarts] /\ leaveQ' \subseteq Slots
    <3>1. 1 \in 0..MaxStarts
      BY <1>4
    <3>2. QED
      BY <1>1, <2>5, <3>1
  <2>12. QED
    BY <2>8, <2>9, <2>10, <2>11
<1>9. QED
  BY <1>7, <1>8

-----------------------------------------------------------------------------
(* The accept thread.                                                      *)

LEMMA AcceptStepShows ==
  ASSUME ControlInv, KeepForAccept, UNCHANGED hcp, acc \notin {"none", "ended"},
         acc' \in {"loop", "accept", "alloc", "join", "recv", "recheck", "dec", "fail", "ended"},
         accSlot' \in 0..LastSlot, accepted' \in 0..MaxSessions,
         sess' \in [Slots -> SessionRecord], free' \in [Slots -> 0..MaxStarts],
         told' \in [Sessions -> {"nothing", "joined", "left"}], leaveQ' \subseteq Slots,
         SlotsSupport', PassedSupport'
  PROVE  ControlInv'
<1> USE DEF KeepForAccept, flagVars, portVars
<1>1. main \notin {"new", "failed"} \cup StartPcs \cup EndedPcs /\ isRunning
  BY DEF ControlInv, MainSupport
<1>2. ControlTypeOK'
  BY DEF ControlInv, ControlTypeOK
<1>3. MainSupport'
  BY <1>1 DEF ControlInv, MainSupport
<1>4. ThreadsHaveTheirData' /\ PipeRunsOnce'
  BY DEF ControlInv, ThreadsHaveTheirData, PipeRunsOnce
<1>5. QED
  BY <1>2, <1>3, <1>4 DEF ControlInv

\* What accept steps start from.
LEMMA AcceptorRuns ==
  ASSUME ControlInv, acc \notin {"none", "ended"}
  PROVE  /\ isRunning /\ hasArray /\ MaxStarts > 0
         /\ acc \in HoldingPcs => accSlot \in Slots /\ Live(accSlot) /\ LiveSupport(accSlot)
                                  /\ sess[accSlot].id \in Sessions
<1>1. isRunning /\ hasArray
  BY DEF ControlInv, MainSupport, ThreadsHaveTheirData
<1>2. MaxStarts > 0
  BY <1>1 DEF ControlInv, ControlTypeOK, MainSupport
<1>3. ASSUME acc \in HoldingPcs
      PROVE  accSlot \in Slots /\ Live(accSlot) /\ LiveSupport(accSlot) /\ sess[accSlot].id \in Sessions
  <2>1. accSlot \in Slots /\ SlotSupport(accSlot) /\ AcceptHolds(accSlot)
    BY <1>3 DEF ControlInv, SlotsSupport, AcceptHolds
  <2>2. Live(accSlot) /\ LiveSupport(accSlot)
    BY <2>1 DEF SlotSupport, Live
  <2>3. QED
    BY <2>1, <2>2 DEF LiveSupport, ControlInv, ControlTypeOK, Sessions
<1>4. QED
  BY <1>1, <1>2, <1>3

\* Steps with no session at hand, before and after.
LEMMA IdleAccept ==
  ASSUME ControlInv, KeepForAccept, UNCHANGED <<hcp, hasArray, sess, free, told, accSlot, leaveQ>>,
         acc \in {"loop", "accept", "alloc"}, acc' \in {"loop", "accept", "alloc", "ended"},
         accepted' \in 0..MaxSessions, accepted' >= accepted, acc' = "alloc" => accepted' > accepted
  PROVE  ControlInv'
<1>1. accepted \in 0..MaxSessions
  BY DEF ControlInv, ControlTypeOK
<1>2. ASSUME NEW q \in Slots PROVE SlotSupport(q)'
  <2>1. SlotSupport(q)
    BY DEF ControlInv, SlotsSupport
  <2>2. SameSlot(q) /\ AcceptElsewhere(q) /\ PipeGoesOn /\ CancelGoesOn(q)
    BY DEF SameSlot, AcceptElsewhere, AcceptHolds, HoldingPcs, PipeGoesOn, CancelGoesOn, KeepForAccept
  <2>3. Live(q) /\ acc' = "alloc" => sess[q].id # accepted'
    BY <1>1, <2>1 DEF SlotSupport, LiveSupport
  <2>4. QED
    BY <1>1, <2>1, <2>2, <2>3, Bystander
<1>3. \A c \in Sessions : c > accepted' \/ (acc' = "alloc" /\ c = accepted') => told'[c] = "nothing"
  BY <1>1 DEF ControlInv, SlotsSupport, Sessions
<1>4. SlotsSupport'
  BY <1>1, <1>2, <1>3 DEF ControlInv, SlotsSupport, OneSlotEach, Live, HoldingPcs
<1>5. PassedSupport'
  BY PassedStays DEF KeepForAccept, Live
<1>6. QED
  BY <1>4, <1>5, AcceptStepShows DEF ControlInv, ControlTypeOK

LEMMA AcceptLoopKeepsInv ==
  ASSUME ControlInv, AcceptLoop \/ Accept
  PROVE  ControlInv'
<1>1. accepted \in 0..MaxSessions
  BY DEF ControlInv, ControlTypeOK
<1>2. CASE AcceptLoop
  BY <1>1, <1>2, IdleAccept DEF AcceptLoop, KeepForAccept, portVars, sessionVars
<1>3. CASE Accept
  BY <1>1, <1>3, IdleAccept DEF Accept, KeepForAccept, portVars, sessionVars
<1>4. QED
  BY <1>2, <1>3

\* A connection takes an index: the session's id is new, and the slot was free.
LEMMA AllocSessionKeepsInv ==
  ASSUME ControlInv, AllocSession
  PROVE  ControlInv'
<1>1. /\ acc = "alloc" /\ KeepForAccept /\ UNCHANGED <<hcp, hasArray, told, accepted, leaveQ>>
      /\ accepted \in 0..MaxSessions /\ accepted > 0 /\ accSlot \in 0..LastSlot
      /\ sess \in [Slots -> SessionRecord] /\ free \in [Slots -> 0..MaxStarts]
      /\ told \in [Sessions -> {"nothing", "joined", "left"}] /\ leaveQ \subseteq Slots
  BY DEF AllocSession, KeepForAccept, portVars, ControlInv, ControlTypeOK, SlotsSupport
<1>2. hasArray /\ MaxStarts > 0
  BY <1>1, AcceptorRuns
<1>3. CASE \A s \in Slots : free[s] = 0
  <2>1. acc' = "loop" /\ UNCHANGED <<accSlot, sess, free>>
    BY <1>3 DEF AllocSession
  <2>2. QED
    BY <1>1, <2>1, IdleAccept
<1>4. CASE ~ \A s \in Slots : free[s] = 0
  <2>1. PICK s \in Slots :
          /\ free[s] > 0 /\ free' = [free EXCEPT ![s] = free[s] - 1]
          /\ accSlot' = s /\ acc' = "join"
          /\ sess' = [sess EXCEPT ![s] = [Dead EXCEPT !.id = accepted, !.refs = 1, !.dead = FALSE]]
    BY <1>4 DEF AllocSession
  <2> DEFINE new == [Dead EXCEPT !.id = accepted, !.refs = 1, !.dead = FALSE]
  <2>3. new \in SessionRecord
    BY <1>1, NewRecord
  <2>4. new.id = accepted /\ new.refs = 1 /\ ~new.dead /\ ~new.canceled /\ new.io = "none" /\ ~new.piped
    BY <1>1, NewRecord
  <2>5. sess' = [sess EXCEPT ![s] = new]
    BY <2>1
  <2> HIDE DEF new
  <2>6. sess'[s] = new /\ sess' \in [Slots -> SessionRecord] /\ \A q \in Slots : q # s => sess'[q] = sess[q]
    BY <1>1, <2>3, <2>5
  <2>7. free[s] = 1 /\ s \notin leaveQ /\ sess[s].dead
    <3>1. SlotSupport(s)
      BY DEF ControlInv, SlotsSupport
    <3>2. QED
      BY <2>1, <3>1 DEF SlotSupport
  <2>8. free'[s] = 0 /\ free' \in [Slots -> 0..MaxStarts] /\ \A q \in Slots : q # s => free'[q] = free[q]
    <3>1. free' = [free EXCEPT ![s] = 0] /\ 0 \in 0..MaxStarts
      BY <1>2, <2>1, <2>7
    <3>2. QED
      BY <1>1, <3>1
  <2>9. told[accepted] = "nothing" /\ accepted \in Sessions
    BY <1>1 DEF ControlInv, SlotsSupport, Sessions
  <2>10. ASSUME NEW q \in Slots, q # s PROVE SlotSupport(q)'
    <3>1. SlotSupport(q)
      BY DEF ControlInv, SlotsSupport
    <3>2. SameSlot(q) /\ AcceptElsewhere(q) /\ PipeGoesOn /\ CancelGoesOn(q)
      BY <1>1, <2>1, <2>6, <2>8, <2>10 DEF SameSlot, AcceptElsewhere, AcceptHolds, HoldingPcs, PipeGoesOn, CancelGoesOn, KeepForAccept
    <3>3. QED
      BY <1>1, <2>1, <3>1, <3>2, Bystander
  <2>11. SlotSupport(s)'
    <3>1. RefsOfAccept(s)' = 1 /\ RefsOfReceive(s)' = 0
      BY <2>1, <2>4, <2>6 DEF RefsOfAccept, RefsOfReceive, AcceptHolds, HoldingPcs
    <3>2. LiveSupport(s)'
      <4>1. /\ hasArray' /\ sess'[s].refs = 1 /\ sess'[s].id = accepted /\ told'[accepted] = "nothing"
            /\ accepted' = accepted /\ acc' = "join" /\ accSlot' = s
        BY <1>1, <1>2, <2>1, <2>4, <2>6, <2>9
      <4>2. ~sess'[s].piped /\ ~sess'[s].canceled /\ sess'[s].io = "none"
        BY <2>4, <2>6
      <4>3. QED
        BY <1>1, <3>1, <4>1, <4>2 DEF LiveSupport
    <3>3. QED
      BY <1>1, <2>4, <2>6, <2>7, <2>8, <3>2 DEF SlotSupport
  <2>12. OneSlotEach'
    <3>1. ASSUME NEW q \in Slots, Live(q) PROVE sess[q].id # accepted
      BY <1>1, <3>1 DEF ControlInv, SlotsSupport, SlotSupport, LiveSupport
    <3>2. \A q \in Slots : q # s => (Live(q)' <=> Live(q)) /\ sess'[q].id = sess[q].id
      BY <2>6 DEF Live
    <3>3. sess'[s].id = accepted
      BY <2>4, <2>6
    <3>4. QED
      BY <3>1, <3>2, <3>3 DEF ControlInv, SlotsSupport, OneSlotEach
  <2>13. SlotsSupport'
    BY <1>1, <2>1, <2>10, <2>11, <2>12 DEF ControlInv, SlotsSupport
  <2>14. PassedSupport'
    <3>1. \A q \in Slots : Live(q) => Live(q)' /\ sess'[q] = sess[q]
      BY <2>6, <2>7 DEF Live
    <3>2. QED
      BY <1>1, <3>1, PassedStays DEF KeepForAccept
  <2>15. QED
    BY <1>1, <2>1, <2>6, <2>8, <2>13, <2>14, AcceptStepShows DEF Slots
<1>5. QED
  BY <1>3, <1>4

\* The steps that handle the session the accept thread holds.
LEMMA AcceptChangesSlot ==
  ASSUME ControlInv, KeepForAccept, UNCHANGED <<hcp, hasArray, free, accSlot, accepted, leaveQ>>,
         acc \in HoldingPcs, acc' \in HoldingPcs,
         sess' \in [Slots -> SessionRecord],
         \A q \in Slots : q # accSlot => sess'[q] = sess[q],
         sess'[accSlot].id = sess[accSlot].id, ~sess'[accSlot].dead,
         sess'[accSlot].canceled = sess[accSlot].canceled,
         told' \in [Sessions -> {"nothing", "joined", "left"}],
         \A c \in Sessions : c # sess[accSlot].id => told'[c] = told[c],
         LiveSupport(accSlot)'
  PROVE  ControlInv'
<1>1. accSlot \in Slots /\ Live(accSlot) /\ LiveSupport(accSlot) /\ sess[accSlot].id \in Sessions /\ SlotSupport(accSlot)
  BY AcceptorRuns DEF HoldingPcs, ControlInv, SlotsSupport
<1>2. accepted \in 0..MaxSessions
  BY DEF ControlInv, ControlTypeOK
<1>3. ASSUME NEW q \in Slots, q # accSlot PROVE SlotSupport(q)'
  <2>1. SlotSupport(q) /\ (Live(q) => sess[q].id # sess[accSlot].id)
    BY <1>1, <1>3 DEF ControlInv, SlotsSupport, OneSlotEach
  <2>2. Live(q) => sess[q].id \in Sessions
    BY <1>2, <2>1 DEF SlotSupport, LiveSupport, Sessions
  <2>3. SameSlot(q) /\ AcceptElsewhere(q) /\ PipeGoesOn /\ CancelGoesOn(q)
    BY <1>3, <2>1, <2>2 DEF SameSlot, AcceptElsewhere, AcceptHolds, PipeGoesOn, CancelGoesOn, KeepForAccept
  <2>4. QED
    BY <1>2, <2>1, <2>3, Bystander DEF HoldingPcs
<1>4. SlotSupport(accSlot)'
  BY <1>1 DEF SlotSupport, Live, KeepForAccept
<1>5. OneSlotEach'
  <2>1. \A q \in Slots : (Live(q)' <=> Live(q)) /\ sess'[q].id = sess[q].id
    BY <1>1 DEF Live
  <2>2. QED
    BY <2>1 DEF ControlInv, SlotsSupport, OneSlotEach
<1>6. SlotsSupport'
  <2>1. ASSUME NEW c \in Sessions, c > accepted PROVE told'[c] = "nothing"
    <3>1. c # sess[accSlot].id
      BY <1>1, <1>2, <2>1 DEF LiveSupport
    <3>2. QED
      BY <2>1, <3>1 DEF ControlInv, SlotsSupport
  <2>2. QED
    BY <1>1, <1>3, <1>4, <1>5, <2>1 DEF SlotsSupport, HoldingPcs
<1>7. PassedSupport'
  <2>1. told[sess[accSlot].id] # "left"
    BY <1>1 DEF LiveSupport
  <2>2. \A c \in Sessions : told[c] = "left" => told'[c] = "left"
    BY <2>1
  <2>3. \A q \in Slots : Live(q) => Live(q)' /\ sess'[q].id = sess[q].id /\ (sess[q].canceled => sess'[q].canceled)
    BY <1>1 DEF Live
  <2>4. QED
    BY <2>2, <2>3, PassedStays DEF KeepForAccept
<1>8. QED
  BY <1>6, <1>7, AcceptStepShows DEF HoldingPcs, ControlInv, ControlTypeOK

LEMMA ClientJoinKeepsInv ==
  ASSUME ControlInv, ClientJoin
  PROVE  ControlInv'
<1>1. acc = "join" /\ acc' = "recv" /\ KeepForAccept /\ UNCHANGED <<hcp, hasArray, free, accSlot, accepted, leaveQ>>
      /\ told' = [told EXCEPT ![sess[accSlot].id] = "joined"]
  BY DEF ClientJoin, KeepForAccept, portVars
<1>2. /\ isRunning /\ accSlot \in Slots /\ Live(accSlot) /\ LiveSupport(accSlot) /\ sess[accSlot].id \in Sessions
      /\ sess \in [Slots -> SessionRecord] /\ told \in [Sessions -> {"nothing", "joined", "left"}]
  BY <1>1, AcceptorRuns DEF HoldingPcs, ControlInv, ControlTypeOK
<1>3. PICK into \in BOOLEAN :
        /\ into => pipe = "running"
        /\ sess' = [sess EXCEPT ![accSlot] = [sess[accSlot] EXCEPT !.piped = into]]
  BY <1>2 DEF ClientJoin
<1>4. sess'[accSlot] = [sess[accSlot] EXCEPT !.piped = into] /\ \A q \in Slots : q # accSlot => sess'[q] = sess[q]
  BY <1>2, <1>3
<1>5. /\ sess'[accSlot] \in SessionRecord /\ sess'[accSlot].piped = into
      /\ sess'[accSlot].canceled = sess[accSlot].canceled /\ sess'[accSlot].id = sess[accSlot].id
      /\ sess'[accSlot].refs = sess[accSlot].refs /\ sess'[accSlot].dead = sess[accSlot].dead
      /\ sess'[accSlot].io = sess[accSlot].io
  BY <1>2, <1>4, PipedRecord
<1>6. sess' \in [Slots -> SessionRecord]
  BY <1>2, <1>3, <1>4, <1>5
<1>7. sess[accSlot].io = "none"
  BY <1>1, <1>2 DEF LiveSupport
<1>8. RefsOfAccept(accSlot)' = RefsOfAccept(accSlot) /\ RefsOfReceive(accSlot)' = RefsOfReceive(accSlot)
  BY <1>1, <1>5 DEF RefsOfAccept, RefsOfReceive, AcceptHolds, HoldingPcs
<1>9. LiveSupport(accSlot)'
  <2>1. told'[sess[accSlot].id] = "joined"
    BY <1>1, <1>2
  <2>2. hasArray' /\ sess'[accSlot].refs > 0
        /\ sess'[accSlot].refs = RefsOfAccept(accSlot)' + RefsOfReceive(accSlot)'
        /\ sess'[accSlot].id \in 1..accepted'
    BY <1>1, <1>2, <1>5, <1>8 DEF LiveSupport
  <2>3. sess'[accSlot].piped => pipe' \in {"running", "ended"}
    BY <1>1, <1>3, <1>5 DEF KeepForAccept
  <2>4. QED
    BY <1>1, <1>5, <1>7, <2>1, <2>2, <2>3 DEF LiveSupport
<1>10. /\ told' \in [Sessions -> {"nothing", "joined", "left"}]
       /\ \A c \in Sessions : c # sess[accSlot].id => told'[c] = told[c]
  BY <1>1, <1>2
<1>11. QED
  BY <1>1, <1>2, <1>4, <1>5, <1>6, <1>9, <1>10, AcceptChangesSlot DEF HoldingPcs, Live

LEMMA PostRecvKeepsInv ==
  ASSUME ControlInv, PostRecv
  PROVE  ControlInv'
<1>1. acc = "recv" /\ KeepForAccept /\ UNCHANGED <<hcp, hasArray, free, told, accSlot, accepted, leaveQ>>
  BY DEF PostRecv, KeepForAccept, portVars
<1>2. /\ accSlot \in Slots /\ Live(accSlot) /\ LiveSupport(accSlot) /\ sess[accSlot].id \in Sessions
      /\ sess \in [Slots -> SessionRecord] /\ told \in [Sessions -> {"nothing", "joined", "left"}]
  BY <1>1, AcceptorRuns DEF HoldingPcs, ControlInv, ControlTypeOK
<1>3. sess[accSlot].io = "none" /\ sess[accSlot].refs = 1 /\ sess[accSlot] \in SessionRecord
  BY <1>1, <1>2 DEF LiveSupport, RefsOfAccept, RefsOfReceive, AcceptHolds, HoldingPcs
<1> DEFINE r == [sess[accSlot] EXCEPT !.refs = 2]
<1>4. r \in SessionRecord /\ r.refs = 2 /\ r.id = sess[accSlot].id /\ r.dead = sess[accSlot].dead
      /\ r.canceled = sess[accSlot].canceled /\ r.io = sess[accSlot].io /\ r.piped = sess[accSlot].piped
  <2>1. 2 \in 0..3
    OBVIOUS
  <2>2. QED
    BY <1>3, <2>1, RefsRecord
<1>5. PICK x \in IOStates :
        /\ sess'[accSlot] = [r EXCEPT !.io = x]
        /\ \A q \in Slots : q # accSlot => sess'[q] = sess[q]
        /\ DOMAIN sess' = Slots /\ sess' = [q \in Slots |-> sess'[q]]
        /\ \/ x = "posted" /\ acc' = "recheck"
           \/ x = "none" /\ acc' = "fail"
  <2>1. CASE acc' = "recheck" /\ sess' = [sess EXCEPT ![accSlot].refs = @ + 1, ![accSlot].io = "posted"]
    <3>1. sess'[accSlot] = [r EXCEPT !.io = "posted"]
      BY <1>2, <1>3, <2>1
    <3>2. "posted" \in IOStates
      BY DEF IOStates
    <3>3. QED
      BY <1>2, <2>1, <3>1, <3>2
  <2>2. CASE acc' = "fail" /\ sess' = [sess EXCEPT ![accSlot].refs = @ + 1]
    <3>1. sess'[accSlot] = r
      BY <1>2, <1>3, <2>2
    <3>2. r = [r EXCEPT !.io = "none"] /\ "none" \in IOStates
      BY <1>3 DEF SessionRecord, IOStates
    <3>3. QED
      BY <1>2, <2>2, <3>1, <3>2
  <2>3. QED
    BY <2>1, <2>2 DEF PostRecv
<1> HIDE DEF r
<1>6. /\ sess'[accSlot] \in SessionRecord /\ sess'[accSlot].piped = sess[accSlot].piped
      /\ sess'[accSlot].canceled = sess[accSlot].canceled /\ sess'[accSlot].id = sess[accSlot].id
      /\ sess'[accSlot].refs = 2 /\ sess'[accSlot].dead = sess[accSlot].dead
      /\ sess'[accSlot].io = x
  BY <1>4, <1>5, IORecord
<1>7. sess' \in [Slots -> SessionRecord]
  BY <1>2, <1>5, <1>6
<1>8. RefsOfAccept(accSlot)' + RefsOfReceive(accSlot)' = 2
  BY <1>1, <1>5, <1>6 DEF RefsOfAccept, RefsOfReceive, AcceptHolds, HoldingPcs
<1>9. LiveSupport(accSlot)'
  <2>1. told'[sess[accSlot].id] = "joined"
    BY <1>1, <1>2 DEF LiveSupport
  <2>2. hasArray' /\ sess'[accSlot].id \in 1..accepted'
    BY <1>1, <1>2, <1>6 DEF LiveSupport
  <2>3. sess'[accSlot].piped => pipe' \in {"running", "ended"}
    BY <1>1, <1>2, <1>6 DEF LiveSupport, KeepForAccept
  <2>4. QED
    BY <1>1, <1>5, <1>6, <1>8, <2>1, <2>2, <2>3 DEF LiveSupport
<1>10. QED
  BY <1>1, <1>2, <1>5, <1>6, <1>7, <1>9, AcceptChangesSlot DEF HoldingPcs, Live

LEMMA RecheckCanceledKeepsInv ==
  ASSUME ControlInv, RecheckCanceled
  PROVE  ControlInv'
<1>1. acc = "recheck" /\ acc' = "dec" /\ KeepForAccept /\ UNCHANGED <<hcp, hasArray, free, told, accSlot, accepted, leaveQ>>
  BY DEF RecheckCanceled, KeepForAccept, portVars
<1>2. /\ accSlot \in Slots /\ Live(accSlot) /\ LiveSupport(accSlot) /\ sess[accSlot].id \in Sessions
      /\ sess \in [Slots -> SessionRecord] /\ told \in [Sessions -> {"nothing", "joined", "left"}]
  BY <1>1, AcceptorRuns DEF HoldingPcs, ControlInv, ControlTypeOK
<1> DEFINE x == IF sess[accSlot].canceled THEN Aborted(sess[accSlot].io) ELSE sess[accSlot].io
<1>3. sess' = [sess EXCEPT ![accSlot] = [sess[accSlot] EXCEPT !.io = x]]
  BY <1>2 DEF RecheckCanceled
<1>4. x \in IOStates /\ (x = "none" <=> sess[accSlot].io = "none") /\ (sess[accSlot].canceled => x # "posted")
  BY <1>2 DEF Aborted, SessionRecord, IOStates
<1> HIDE DEF x
<1>5. sess'[accSlot] = [sess[accSlot] EXCEPT !.io = x] /\ \A q \in Slots : q # accSlot => sess'[q] = sess[q]
  BY <1>2, <1>3
<1>6. /\ sess'[accSlot] \in SessionRecord /\ sess'[accSlot].piped = sess[accSlot].piped
      /\ sess'[accSlot].canceled = sess[accSlot].canceled /\ sess'[accSlot].id = sess[accSlot].id
      /\ sess'[accSlot].refs = sess[accSlot].refs /\ sess'[accSlot].dead = sess[accSlot].dead
      /\ sess'[accSlot].io = x
  BY <1>2, <1>4, <1>5, IORecord
<1>7. sess' \in [Slots -> SessionRecord]
  BY <1>2, <1>3, <1>5, <1>6
<1>8. RefsOfAccept(accSlot)' = RefsOfAccept(accSlot) /\ RefsOfReceive(accSlot)' = RefsOfReceive(accSlot)
  BY <1>1, <1>4, <1>6 DEF RefsOfAccept, RefsOfReceive, AcceptHolds, HoldingPcs
<1>9. LiveSupport(accSlot)'
  BY <1>1, <1>2, <1>4, <1>6, <1>8 DEF LiveSupport, KeepForAccept
<1>10. QED
  BY <1>1, <1>2, <1>5, <1>6, <1>7, <1>9, AcceptChangesSlot DEF HoldingPcs, Live

LEMMA AcceptDropsRefKeepsInv ==
  ASSUME ControlInv, AcceptDropsRef
  PROVE  ControlInv'
<1> DEFINE n == IF acc = "dec" THEN 1 ELSE 2
<1>1. /\ acc \in {"dec", "fail"} /\ acc' = "loop" /\ accSlot' = 0 /\ KeepForAccept
      /\ DropRefs(accSlot, sess[accSlot], n) /\ UNCHANGED <<hcp, hasArray, accepted>>
  BY DEF AcceptDropsRef, KeepForAccept, portVars
<1>2. /\ isRunning /\ accSlot \in Slots /\ Live(accSlot) /\ LiveSupport(accSlot)
      /\ sess[accSlot] \in SessionRecord
  BY <1>1, AcceptorRuns DEF HoldingPcs, ControlInv, ControlTypeOK
<1>3. RefsOfAccept(accSlot) = n /\ n \in 1..2 /\ ~AcceptHolds(accSlot)' /\ RefsOfAccept(accSlot)' = 0
  BY <1>1 DEF RefsOfAccept, AcceptHolds, HoldingPcs
<1> HIDE DEF n
<1>4. DropFacts(accSlot, sess[accSlot], n)
  <2>1. sess[accSlot].refs = n + (IF sess[accSlot].io = "none" THEN 0 ELSE 1)
    BY <1>2, <1>3 DEF LiveSupport, RefsOfReceive
  <2>2. sess[accSlot].canceled /\ sess[accSlot].io = "posted" => (main = "cancel" /\ at = accSlot) \/ main = "quit"
    BY <1>1, <1>2 DEF LiveSupport
  <2>3. sess[accSlot].refs \in 0..3
    BY <1>2 DEF SessionRecord
  <2>4. QED
    BY <1>1, <1>2, <1>3, <2>1, <2>2, <2>3 DEF DropFacts, Live
<1>5. \A q \in Slots : q # accSlot => AcceptElsewhere(q)
  BY <1>1 DEF AcceptElsewhere, AcceptHolds, HoldingPcs
<1>6. /\ SlotsSupport' /\ PassedSupport'
      /\ sess' \in [Slots -> SessionRecord] /\ free' \in [Slots -> 0..MaxStarts]
      /\ told' \in [Sessions -> {"nothing", "joined", "left"}] /\ leaveQ' \subseteq Slots
  <2>1. acc' # "alloc" /\ acc' \notin HoldingPcs
    BY <1>1 DEF HoldingPcs
  <2>2. UNCHANGED <<main, at, passed, hasArray, pipe, isRunning, accepted>>
    BY <1>1 DEF KeepForAccept, flagVars
  <2>3. QED
    BY <1>1, <1>2, <1>4, <1>5, <2>1, <2>2, DropRefsKeepsSlots
<1>7. accepted' \in 0..MaxSessions /\ 0 \in 0..LastSlot
  BY <1>1 DEF ControlInv, ControlTypeOK
<1>8. QED
  BY <1>1, <1>6, <1>7, AcceptStepShows

LEMMA AcceptKeepsInv == ControlInv /\ AcceptStep => ControlInv'
BY AcceptLoopKeepsInv, AllocSessionKeepsInv, ClientJoinKeepsInv, PostRecvKeepsInv,
   RecheckCanceledKeepsInv, AcceptDropsRefKeepsInv DEF AcceptStep

-----------------------------------------------------------------------------
(* The kernel, the workers and the pipe.                                   *)

\* The receive of a live session goes on: data arrives, or the next is posted.
LEMMA ReceiveGoesOn ==
  ASSUME ControlInv, NEW s \in Slots, NEW x \in IOStates \ {"none"},
         sess[s].io # "none", x = "posted" => ~sess[s].canceled,
         sess' = [sess EXCEPT ![s].io = x],
         UNCHANGED <<main, at, starts, passed, flagVars, portVars, free, told, threadVars, pipeVars>>
  PROVE  ControlInv'
<1> USE DEF flagVars, portVars, threadVars, pipeVars
<1>1. /\ SlotSupport(s) /\ sess \in [Slots -> SessionRecord] /\ sess[s] \in SessionRecord
      /\ accepted \in 0..MaxSessions
  BY DEF ControlInv, ControlTypeOK, SlotsSupport
<1>2. Live(s) /\ LiveSupport(s)
  BY <1>1 DEF SlotSupport, Live
<1>3. sess'[s] = [sess[s] EXCEPT !.io = x] /\ \A q \in Slots : q # s => sess'[q] = sess[q]
  BY <1>1
<1>4. /\ sess'[s] \in SessionRecord /\ sess'[s].piped = sess[s].piped
      /\ sess'[s].canceled = sess[s].canceled /\ sess'[s].id = sess[s].id
      /\ sess'[s].refs = sess[s].refs /\ sess'[s].dead = sess[s].dead
      /\ sess'[s].io = x
  <2>1. x \in IOStates
    OBVIOUS
  <2>2. QED
    BY <1>1, <1>3, <2>1, IORecord
<1>5. sess' \in [Slots -> SessionRecord]
  BY <1>1, <1>3, <1>4
<1>6. \A q \in Slots : (Live(q)' <=> Live(q)) /\ sess'[q].id = sess[q].id /\ sess'[q].canceled = sess[q].canceled
  BY <1>3, <1>4 DEF Live
<1>7. ASSUME NEW q \in Slots PROVE SlotSupport(q)'
  <2>1. CASE q = s
    <3>1. RefsOfAccept(s)' = RefsOfAccept(s) /\ RefsOfReceive(s)' = RefsOfReceive(s) /\ (AcceptHolds(s)' <=> AcceptHolds(s))
      BY <1>4 DEF RefsOfAccept, RefsOfReceive, AcceptHolds
    <3>2. ~(accSlot = s /\ acc \in {"join", "recv"})
      BY <1>2 DEF LiveSupport
    <3>3. LiveSupport(s)'
      BY <1>2, <1>4, <3>1, <3>2 DEF LiveSupport
    <3>4. QED
      BY <1>1, <1>2, <1>4, <2>1, <3>3 DEF SlotSupport, Live
  <2>2. CASE q # s
    <3>1. SlotSupport(q)
      BY DEF ControlInv, SlotsSupport
    <3>2. SameSlot(q) /\ AcceptElsewhere(q) /\ PipeGoesOn /\ CancelGoesOn(q)
      BY <1>3, <2>2 DEF SameSlot, AcceptElsewhere, PipeGoesOn, CancelGoesOn
    <3>3. Live(q) /\ acc' = "alloc" => sess[q].id # accepted'
      BY <3>1 DEF SlotSupport, LiveSupport
    <3>4. QED
      BY <1>1, <3>1, <3>2, <3>3, Bystander
  <2>3. QED
    BY <2>1, <2>2
<1>8. SlotsSupport'
  BY <1>6, <1>7 DEF ControlInv, SlotsSupport, OneSlotEach
<1>9. PassedSupport'
  BY <1>6, PassedStays
<1>10. ControlTypeOK'
  BY <1>5 DEF ControlInv, ControlTypeOK
<1>11. MainSupport' /\ ThreadsHaveTheirData' /\ PipeRunsOnce'
  BY DEF ControlInv, MainSupport, ThreadsHaveTheirData, PipeRunsOnce
<1>12. QED
  BY <1>8, <1>9, <1>10, <1>11 DEF ControlInv

LEMMA ReceiveKeepsInv ==
  ASSUME ControlInv, NEW s \in Slots, Receive(s)
  PROVE  ControlInv'
<1>1. PICK io \in {"data", "fin"} : sess' = [sess EXCEPT ![s].io = io]
  BY DEF Receive
<1>2. io \in IOStates \ {"none"} /\ io # "posted"
  BY DEF IOStates
<1>3. /\ sess[s].io # "none"
      /\ UNCHANGED <<main, at, starts, passed, flagVars, portVars, free, told, threadVars, pipeVars>>
  BY DEF Receive
<1>4. QED
  BY <1>1, <1>2, <1>3, ReceiveGoesOn

LEMMA DisconnectedRecord ==
  ASSUME NEW r \in SessionRecord
  PROVE  LET q == [r EXCEPT !.io = "none", !.canceled = TRUE] IN
         /\ q \in SessionRecord /\ q.io = "none" /\ q.canceled
         /\ q.id = r.id /\ q.refs = r.refs /\ q.dead = r.dead /\ q.piped = r.piped
<1> DEFINE z == [r EXCEPT !.io = "none"]
           q == [r EXCEPT !.io = "none", !.canceled = TRUE]
<1>1. q = [z EXCEPT !.canceled = TRUE]
  BY DEF SessionRecord
<1>2. z \in SessionRecord
  <2>1. "none" \in IOStates
    BY DEF IOStates
  <2>2. QED
    BY <2>1, IORecord
<1>3. q \in SessionRecord
  <2> HIDE DEF z, q
  <2>1. QED
    BY <1>1, <1>2, CanceledRecord
<1>4. q.io = "none" /\ q.canceled /\ q.id = r.id /\ q.refs = r.refs /\ q.dead = r.dead /\ q.piped = r.piped
  BY DEF SessionRecord
<1>5. QED
  BY <1>3, <1>4

\* A worker hands the reference of the last receive back.
LEMMA DisconnectKeepsInv ==
  ASSUME ControlInv, NEW s \in Slots, sess[s].io # "none", isRunning, DropRefs(s, Disconnected(s), 1),
         UNCHANGED <<main, at, starts, passed, flagVars, portVars, threadVars, pipe, pipeThreads>>
  PROVE  ControlInv'
<1> USE DEF flagVars, portVars, threadVars
<1>1. SlotSupport(s) /\ sess[s] \in SessionRecord
  BY DEF ControlInv, ControlTypeOK, SlotsSupport
<1>2. Live(s) /\ LiveSupport(s)
  BY <1>1 DEF SlotSupport, Live
<1>3. /\ Disconnected(s) \in SessionRecord /\ Disconnected(s).io = "none" /\ Disconnected(s).canceled
      /\ Disconnected(s).id = sess[s].id /\ Disconnected(s).refs = sess[s].refs
      /\ Disconnected(s).dead = sess[s].dead /\ Disconnected(s).piped = sess[s].piped
  BY <1>1, DisconnectedRecord DEF Disconnected
<1>4. sess[s].refs = RefsOfAccept(s) + 1 /\ RefsOfAccept(s)' = RefsOfAccept(s)
      /\ RefsOfAccept(s) \in 0..2 /\ (AcceptHolds(s)' <=> AcceptHolds(s))
      /\ (RefsOfAccept(s) = 0 => ~AcceptHolds(s))
  BY <1>2 DEF LiveSupport, RefsOfReceive, RefsOfAccept, AcceptHolds
<1>5. ~(accSlot = s /\ acc \in {"join", "recv"})
  BY <1>2 DEF LiveSupport
<1>6. DropFacts(s, Disconnected(s), 1)
  BY <1>2, <1>3, <1>4, <1>5 DEF DropFacts, Live
<1>7. /\ SlotsSupport' /\ PassedSupport'
      /\ sess' \in [Slots -> SessionRecord] /\ free' \in [Slots -> 0..MaxStarts]
      /\ told' \in [Sessions -> {"nothing", "joined", "left"}] /\ leaveQ' \subseteq Slots
  <2>1. \A q \in Slots : q # s => AcceptElsewhere(q)
    BY DEF AcceptElsewhere
  <2>2. acc' \in HoldingPcs => accSlot' \in Slots
    BY DEF ControlInv, SlotsSupport
  <2>3. UNCHANGED <<main, at, passed, hasArray, pipe, isRunning, accepted, acc>>
    OBVIOUS
  <2>4. QED
    BY <1>2, <1>6, <2>1, <2>2, <2>3, DropRefsKeepsSlots
<1>8. ControlTypeOK'
  BY <1>7 DEF ControlInv, ControlTypeOK
<1>9. MainSupport' /\ ThreadsHaveTheirData' /\ PipeRunsOnce'
  BY DEF ControlInv, MainSupport, ThreadsHaveTheirData, PipeRunsOnce
<1>10. QED
  BY <1>7, <1>8, <1>9 DEF ControlInv

\* A receive that was aborted and that nobody canceled ends the process.
LEMMA QuitKeepsInv ==
  ASSUME ControlInv, isRunning, main' = "quit",
         UNCHANGED <<at, starts, passed, flagVars, portVars, sessionVars, threadVars, pipeVars>>
  PROVE  ControlInv'
<1> USE DEF flagVars, portVars, sessionVars, threadVars, pipeVars
<1>1. SlotsSupport'
  BY SlotsStay DEF ControlInv, PipeGoesOn, CancelGoesOn
<1>2. ControlTypeOK'
  BY DEF ControlInv, ControlTypeOK
<1>3. MainSupport'
  <2>1. main # "new" => starts > 0
    BY DEF ControlInv, MainSupport
  <2>2. QED
    BY <2>1 DEF ControlInv, MainSupport, EarlyPcs, EndedPcs, RunningPcs, StartPcs, StopPcs
<1>4. ThreadsHaveTheirData' /\ PipeRunsOnce'
  BY DEF ControlInv, ThreadsHaveTheirData, PipeRunsOnce
<1>5. QED
  BY <1>1, <1>2, <1>3, <1>4, QuietStep DEF EndedPcs

LEMMA TakeCompletionKeepsInv ==
  ASSUME ControlInv, NEW w \in Workers, NEW s \in Slots, TakeCompletion(w, s)
  PROVE  ControlInv'
<1>1. isRunning /\ KeepForWorker /\ UNCHANGED <<port, worker>>
  <2>1. worker[w] = "waiting"
    BY DEF TakeCompletion
  <2>2. isRunning
    BY <2>1 DEF ControlInv, MainSupport
  <2>3. QED
    BY <2>2 DEF TakeCompletion
<1>2. UNCHANGED <<at, starts, passed, flagVars, portVars, threadVars, pipe, pipeThreads>>
  BY <1>1 DEF KeepForWorker, flagVars, portVars, threadVars
<1>3. CASE sess[s].io \in {"fin", "aborted", "data"} /\ DropRefs(s, Disconnected(s), 1) /\ UNCHANGED main
  BY <1>1, <1>2, <1>3, DisconnectKeepsInv
<1>4. CASE sess[s].io = "aborted" /\ ~sess[s].canceled /\ main' = "quit" /\ UNCHANGED <<sess, free, told, leaveQ>>
  BY <1>1, <1>2, <1>4, QuitKeepsInv DEF sessionVars, pipeVars
<1>5. CASE /\ sess[s].io = "data" /\ ~sess[s].canceled
           /\ sess' = [sess EXCEPT ![s].io = "posted"] /\ UNCHANGED <<main, free, told, leaveQ>>
  <2>1. "posted" \in IOStates \ {"none"}
    BY DEF IOStates
  <2>2. QED
    BY <1>2, <1>5, <2>1, ReceiveGoesOn DEF pipeVars
<1>6. QED
  BY <1>3, <1>4, <1>5 DEF TakeCompletion, Goto

\* The pipe returns the indices, in a frame or with its end.
LEMMA PipeKeepsInv ==
  ASSUME ControlInv, PipeFrame \/ PipeEnds
  PROVE  ControlInv'
<1>1. /\ pipe = "running" /\ Leave
      /\ UNCHANGED <<main, at, starts, passed, flagVars, portVars, sess, told, threadVars>>
      /\ \/ UNCHANGED <<pipe, pipeThreads>>
         \/ ~isRunning /\ pipe' = "ended" /\ pipeThreads' = pipeThreads - 1
  BY DEF PipeFrame, PipeEnds
<1> USE DEF flagVars, portVars, threadVars
<1>2. hasArray /\ MaxStarts > 0
  BY <1>1 DEF ControlInv, ControlTypeOK, MainSupport, EarlyPcs
<1>3. ASSUME NEW q \in Slots PROVE SlotSupport(q) /\ free'[q] = (IF sess[q].dead THEN 1 ELSE 0)
  <2>1. SlotSupport(q)
    BY DEF ControlInv, SlotsSupport
  <2>2. free'[q] = free[q] + (IF q \in leaveQ THEN 1 ELSE 0)
    BY <1>1 DEF Leave
  <2>3. QED
    BY <1>2, <2>1, <2>2 DEF SlotSupport
<1>4. SlotsSupport'
  <2>1. leaveQ' = {} /\ UNCHANGED <<sess, told, acc, accSlot, accepted, main, at, hasArray>>
    BY <1>1 DEF Leave
  <2>2. ASSUME NEW q \in Slots PROVE SlotSupport(q)'
    <3>1. LiveSupport(q) => LiveSupport(q)'
      BY <1>1, <2>1 DEF LiveSupport, RefsOfAccept, RefsOfReceive, AcceptHolds
    <3>2. AcceptHolds(q)' <=> AcceptHolds(q)
      BY <2>1 DEF AcceptHolds
    <3>3. QED
      BY <1>2, <1>3, <2>1, <3>1, <3>2 DEF SlotSupport, Live
  <2>3. QED
    BY <2>1, <2>2 DEF ControlInv, SlotsSupport, OneSlotEach, Live
<1>5. ControlTypeOK'
  <2>1. free' \in [Slots -> 0..MaxStarts] /\ leaveQ' \subseteq Slots
    <3>1. free' = [s \in Slots |-> free[s] + (IF s \in leaveQ THEN 1 ELSE 0)] /\ leaveQ' = {}
      BY <1>1 DEF Leave
    <3>2. \A q \in Slots : free'[q] \in 0..MaxStarts
      BY <1>2, <1>3
    <3>3. QED
      BY <3>1, <3>2
  <2>2. pipe' \in {"none", "registered", "running", "ended"} /\ pipeThreads' \in 0..2
    BY <1>1 DEF ControlInv, ControlTypeOK, PipeRunsOnce
  <2>3. QED
    BY <1>1, <2>1, <2>2 DEF ControlInv, ControlTypeOK
<1>6. MainSupport'
  BY <1>1 DEF ControlInv, MainSupport
<1>7. ThreadsHaveTheirData' /\ PipeRunsOnce'
  BY <1>1 DEF ControlInv, ThreadsHaveTheirData, PipeRunsOnce
<1>8. PassedSupport'
  BY <1>1 DEF ControlInv, PassedSupport, Live
<1>9. QED
  BY <1>4, <1>5, <1>6, <1>7, <1>8 DEF ControlInv

-----------------------------------------------------------------------------
LEMMA NextKeepsInv == ControlInv /\ [ControlNext]_ctlVars => ControlInv'
<1> SUFFICES ASSUME ControlInv, [ControlNext]_ctlVars PROVE ControlInv'
  OBVIOUS
<1>1. CASE UNCHANGED ctlVars
  <2>1. UNCHANGED <<main, at, starts, passed, flagVars, portVars, sessionVars, threadVars, pipeVars>>
    BY <1>1 DEF ctlVars
  <2>2. UNCHANGED <<listening, accepting, isRunning, observing, hcp, hasArray, port, free, sess, told,
                    acc, accSlot, accepted, worker, observer, pipe, pipeThreads, leaveQ>>
    BY <2>1 DEF flagVars, portVars, sessionVars, threadVars, pipeVars
  <2>3. ControlTypeOK' /\ MainSupport' /\ ThreadsHaveTheirData' /\ PipeRunsOnce'
    BY <2>1, <2>2 DEF ControlInv, ControlTypeOK, MainSupport, ThreadsHaveTheirData, PipeRunsOnce
  <2>4. SlotsSupport'
    BY <2>1, <2>2, SlotsStay DEF ControlInv, PipeGoesOn, CancelGoesOn
  <2>5. QED
    BY <2>1, <2>2, <2>3, <2>4, QuietStep
<1>2. CASE ControlNext
  <2>1. CASE Start \/ NewPipe
    BY <2>1, StartKeepsInv, NewPipeKeepsInv
  <2>2. CASE MainStep \/ CloseListenSocket \/ ObserverEnds
    BY <1>2, <2>2, RunWorkerThreadKeepsInv, ValidateKeepsInv, RunPipesKeepsInv, RunObserverThreadKeepsInv,
       RunAcceptThreadKeepsInv, InvalidateTestKeepsInv, InvalidateKeepsInv, PostQuitKeepsInv, StopStepsKeepInv
    DEF MainStep, StopSteps, ControlNext
  <2>3. CASE AcceptStep
    BY <2>3, AcceptKeepsInv
  <2>4. CASE \E w \in Workers : WorkerStep(w)
    <3>1. CASE \E w \in Workers : TakeQuit(w)
      BY <1>2, <3>1, StopStepsKeepInv DEF StopSteps, ControlNext
    <3>2. CASE \E w \in Workers, s \in Slots : TakeCompletion(w, s)
      BY <3>2, TakeCompletionKeepsInv
    <3>3. QED
      BY <2>4, <3>1, <3>2 DEF WorkerStep
  <2>5. CASE \E s \in Slots : Receive(s)
    BY <2>5, ReceiveKeepsInv
  <2>6. CASE PipeFrame \/ PipeEnds
    BY <2>6, PipeKeepsInv
  <2>7. QED
    BY <1>2, <2>1, <2>2, <2>3, <2>4, <2>5, <2>6 DEF ControlNext
<1>3. QED
  BY <1>1, <1>2

\* However Start, Stop, the accept thread, the workers and the pipe interleave, every
\* reference of a session has its holder, every index is in one place, and a session that
\* Invalidate found is marked or has left.
THEOREM ControlInvariant == ControlSpec => []ControlInv
BY ControlInitHasInv, NextKeepsInv, PTL DEF ControlSpec

\* Threads find what they use, a pipe has one thread, and when Stop goes on from the
\* threads all sessions it found have left and their indices are back.
THEOREM StopIsOrdered == ControlSpec => []StopInOrder
<1>1. ASSUME ControlInv PROVE StopInOrder
  <2>1. ToldBeforeStopped
    BY <1>1 DEF ControlInv, PassedSupport, ToldBeforeStopped, EndedPcs
  <2>2. IndicesBack
    <3> SUFFICES ASSUME main = "stopped", pipe # "running", NEW s \in Slots
                 PROVE  /\ free[s] = (IF sess[s].dead THEN 1 ELSE 0)
                        /\ (sess[s].dead \/ sess[s].id \notin passed)
      BY DEF IndicesBack
    <3>1. SlotSupport(s) /\ hasArray
      BY <1>1 DEF ControlInv, SlotsSupport, MainSupport, EarlyPcs
    <3>2. free[s] = (IF sess[s].dead THEN 1 ELSE 0)
      BY <3>1 DEF SlotSupport
    <3>3. ASSUME Live(s) PROVE sess[s].id \notin passed
      <4>1. told[sess[s].id] # "left"
        BY <3>1, <3>3 DEF SlotSupport, LiveSupport
      <4>2. QED
        BY <1>1, <4>1 DEF ControlInv, PassedSupport, EndedPcs
    <3>4. QED
      BY <3>2, <3>3 DEF Live
  <2>3. QED
    BY <1>1, <2>1, <2>2 DEF ControlInv, StopInOrder
<1>2. QED
  BY <1>1, ControlInvariant, PTL
=============================================================================
