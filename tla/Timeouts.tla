------------------------------ MODULE Timeouts ------------------------------
(***************************************************************************)
(* NetSessionArray::Timeout: every interval the timeout thread walks the   *)
(* array, dead slots included, and reports the ID of every session that    *)
(* received nothing since the pass before. It reads lastRecvTime_ and then *)
(* the ID and holds no reference: in between the slot may change hands.    *)
(* OnTimeout disconnects the session the ID stands for, if it still lives. *)
(***************************************************************************)
EXTENDS Integers

CONSTANTS
  LastIndex,        \* slots 1..LastIndex
  timeoutInterval,  \* timeoutInterval_, in ticks
  MaxTime,          \* bound of the model: ticks
  MaxStamp          \* bound of the model: connections

ASSUME TimesAssumption ==
  /\ LastIndex \in Nat /\ MaxTime \in Nat /\ MaxStamp \in Nat
  /\ timeoutInterval \in Nat \ {0}     \* zero means that nobody is timed out

Indices == 1..LastIndex
LAST_RECV_TIME_DEAD == MaxTime + 1   \* greater than any time

VARIABLES
  now,              \* GetTickCount64
  lastTimeoutTime,
  lastRecvTime, id, \* of every slot: the last receive, and ID_
  stamp,
  nowTime, slotAt, quiet,   \* of the pass: when it began, its slot, whether it found the slot quiet
  heard,            \* history: the last receive of every session
  dropped           \* history: the sessions OnTimeout disconnected

slotVars == <<lastRecvTime, id, stamp, heard>>
passVars == <<nowTime, slotAt, quiet>>
timeoutVars == <<now, lastTimeoutTime, slotVars, passVars, dropped>>

Alive(s) == lastRecvTime[s] # LAST_RECV_TIME_DEAD

TimeoutTypeOK ==
  /\ now \in 0..MaxTime /\ lastTimeoutTime \in 0..MaxTime
  /\ lastRecvTime \in [Indices -> 0..LAST_RECV_TIME_DEAD] /\ id \in [Indices -> 0..MaxStamp]
  /\ stamp \in 1 .. MaxStamp + 1 /\ heard \in [1..MaxStamp -> 0..MaxTime]
  /\ nowTime \in 0..MaxTime /\ slotAt \in 0 .. LastIndex + 1 /\ quiet \in BOOLEAN
  /\ dropped \subseteq 1..MaxStamp

Tick ==
  /\ now < MaxTime /\ now' = now + 1
  /\ UNCHANGED <<lastTimeoutTime, slotVars, passVars, dropped>>

\* AllocSession and Initialize: ID_, then lastRecvTime_
AcceptInto(s) ==
  /\ ~Alive(s) /\ stamp <= MaxStamp
  /\ id' = [id EXCEPT ![s] = stamp]
  /\ lastRecvTime' = [lastRecvTime EXCEPT ![s] = now]
  /\ heard' = [heard EXCEPT ![stamp] = now]
  /\ stamp' = stamp + 1
  /\ UNCHANGED <<now, lastTimeoutTime, passVars, dropped>>

\* CompleteRecvCheck_PacketQ
RecvComplete(s) ==
  /\ Alive(s)
  /\ lastRecvTime' = [lastRecvTime EXCEPT ![s] = now]
  /\ heard' = [heard EXCEPT ![id[s]] = now]
  /\ UNCHANGED <<now, lastTimeoutTime, id, stamp, passVars, dropped>>

\* the peer leaves; NetSession::Destroy. ID_ stays.
Destroy(s) ==
  /\ Alive(s)
  /\ lastRecvTime' = [lastRecvTime EXCEPT ![s] = LAST_RECV_TIME_DEAD]
  /\ UNCHANGED <<now, lastTimeoutTime, id, stamp, heard, passVars, dropped>>

-----------------------------------------------------------------------------
(* Timeout. slotAt is 0 while the thread sleeps.                            *)

MutBeginPass ==
  /\ slotAt = 0 /\ now >= lastTimeoutTime + timeoutInterval
  /\ nowTime' = now /\ slotAt' = 1
  /\ lastTimeoutTime' = now
  /\ UNCHANGED <<now, slotVars, quiet, dropped>>

BeginPass ==
  /\ slotAt = 0 /\ now >= lastTimeoutTime + timeoutInterval
  /\ nowTime' = now /\ slotAt' = 1
  /\ UNCHANGED <<now, lastTimeoutTime, slotVars, quiet, dropped>>

TestLastRecv ==
  /\ slotAt \in Indices /\ ~quiet
  /\ IF lastRecvTime[slotAt] < lastTimeoutTime
     THEN quiet' = TRUE /\ UNCHANGED slotAt
     ELSE slotAt' = slotAt + 1 /\ UNCHANGED quiet
  /\ UNCHANGED <<now, lastTimeoutTime, slotVars, nowTime, dropped>>

\* GetTotalID and OnTimeout: Disconnect does nothing for a session that is gone
OnTimeout ==
  /\ quiet /\ quiet' = FALSE /\ slotAt' = slotAt + 1
  /\ IF Alive(slotAt)
     THEN /\ dropped' = dropped \cup {id[slotAt]}
          /\ lastRecvTime' = [lastRecvTime EXCEPT ![slotAt] = LAST_RECV_TIME_DEAD]
     ELSE UNCHANGED <<dropped, lastRecvTime>>
  /\ UNCHANGED <<now, lastTimeoutTime, id, stamp, heard, nowTime>>

MutEndPass ==
  /\ ~quiet /\ slotAt = LastIndex /\ slotAt' = 0
  /\ lastTimeoutTime' = nowTime
  /\ UNCHANGED <<now, slotVars, nowTime, quiet, dropped>>

EndPass ==
  /\ slotAt = LastIndex + 1 /\ slotAt' = 0
  /\ lastTimeoutTime' = nowTime
  /\ UNCHANGED <<now, slotVars, nowTime, quiet, dropped>>

TimeoutInit ==
  /\ now = 0 /\ lastTimeoutTime = 0 /\ stamp = 1
  /\ lastRecvTime = [s \in Indices |-> LAST_RECV_TIME_DEAD] /\ id = [s \in Indices |-> 0]
  /\ nowTime = 0 /\ slotAt = 0 /\ quiet = FALSE
  /\ heard = [i \in 1..MaxStamp |-> 0]
  /\ dropped = {}

TimeoutNext ==
  \/ Tick \/ \E s \in Indices : AcceptInto(s) \/ RecvComplete(s) \/ Destroy(s)
  \/ BeginPass \/ TestLastRecv \/ OnTimeout \/ EndPass

TimeoutSpec == TimeoutInit /\ [][TimeoutNext]_timeoutVars
-----------------------------------------------------------------------------
(* Whoever is timed out sent nothing for an interval; only somebody who    *)
(* took the slot, or sent something, since the pass began may be hit too,  *)
(* between its two reads.                                                  *)
TimedOutWasQuiet ==
  \A i \in dropped' \ dropped : heard[i] + timeoutInterval < now \/ heard[i] >= nowTime

(* Whoever a pass leaves alive sent something since the pass before began. *)
QuietIsNoticed ==
  slotAt # 0 /\ slotAt' = 0 => \A s \in Indices : Alive(s) => lastRecvTime[s] >= lastTimeoutTime

\* Timeout: whoever is timed out sent nothing for an interval, and nobody stays
\* quiet unnoticed (NetSessionArray.cpp 19-38).
TimeoutsHit == [][TimeoutTypeOK /\ TimedOutWasQuiet /\ QuietIsNoticed]_timeoutVars

\* What the pass relies on.
SlotsKnown ==
  /\ \A s \in Indices : id[s] < stamp /\ (Alive(s) => id[s] # 0 /\ lastRecvTime[s] = heard[id[s]])
  /\ \A s, r \in Indices : id[s] = id[r] /\ id[s] # 0 => s = r
  /\ \A s \in Indices : Alive(s) => lastRecvTime[s] <= now

PassKnown ==
  /\ lastTimeoutTime <= now /\ nowTime <= now
  /\ slotAt # 0 => nowTime >= lastTimeoutTime + timeoutInterval
  /\ \A s \in Indices : slotAt > s /\ Alive(s) => lastRecvTime[s] >= lastTimeoutTime
  /\ quiet => slotAt \in Indices
  /\ quiet => lastRecvTime[slotAt] < lastTimeoutTime \/ lastRecvTime[slotAt] >= nowTime

TimeoutInv == TimeoutTypeOK /\ SlotsKnown /\ PassKnown
=============================================================================
