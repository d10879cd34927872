------------------------------- MODULE Monitor -------------------------------
(***************************************************************************)
(* What a server counts for its observer thread. Every thread has a        *)
(* TPSInfo of its own, found through TLS and made when it first counts     *)
(* something; the observer adds them up and sets them to zero, without a   *)
(* lock: `+=` is a read and a write. The six counters of a TPSInfo are     *)
(* alike, and one of them is kept here. NetRoot and LanRoot have the same  *)
(* code.                                                                   *)
(*                                                                         *)
(* Between the exchange of TPSIndex_ and the write of the entry, the entry *)
(* is memory of TPSArray_ that nobody wrote. An observer that looks at it  *)
(* then follows a wild pointer: what comes after that is undefined, and    *)
(* the model ends there.                                                   *)
(*                                                                         *)
(* Condition: there are no more threads than TPSArray_ has room for        *)
(* (waitingThreadNum_ + 2).                                                *)
(***************************************************************************)
EXTENDS Integers, FiniteSets

CONSTANTS
  Counters,          \* the threads that count: workers, accept thread, pipes, others
  NoInfo,            \* what the memory of TPSArray_ holds before it is written
  MaxAmount,         \* bound: what a thread counts altogether
  eSEGMENT_SIZE, eTCPIP_HEADER_SIZE

ASSUME MonitorAssumption ==
  /\ IsFiniteSet(Counters) /\ NoInfo \notin Counters /\ MaxAmount \in Nat
  /\ eSEGMENT_SIZE \in Nat \ {0} /\ eTCPIP_HEADER_SIZE \in Nat

Entries == 0 .. Cardinality(Counters) - 1

VARIABLES
  TPSIndex, TPSArray,      \* an entry is known by the thread whose TPSInfo it is
  tls,                     \* the threads whose TLS slot is set
  tps,                     \* per thread, its counter
  cPc, index, amount, old, \* per thread: where it is, and its local values
  oPc, i, sum,             \* the observer
  total, since,            \* history: what a thread counted at all, and since its counter was zeroed
  raced                    \* history: the threads in whose `+=` the last zero fell

monitorVars == <<TPSIndex, TPSArray, tls, tps, cPc, index, amount, old, oPc, i, sum, total, since, raced>>

observerVars == <<oPc, i, sum>>
localVars == <<index, amount, old>>

MonitorTypeOK ==
  /\ TPSIndex \in 0..Cardinality(Counters) /\ TPSArray \in [Entries -> Counters \cup {NoInfo}]
  /\ tls \subseteq Counters /\ tps \in [Counters -> 0..MaxAmount]
  /\ cPc \in [Counters -> {"idle", "index", "exchange", "entry", "read", "write"}]
  /\ oPc \in {"sleep", "sum", "zero", "wild"} /\ i \in 0..Cardinality(Counters)
-----------------------------------------------------------------------------
(* A thread counts                                                         *)

CounterAt(t, l, m) == cPc[t] = l /\ cPc' = [cPc EXCEPT ![t] = m]

\* one packet, one pending request
TPS == 1

\* a header for each segment, and one more
Traffic(transferred) == transferred + (transferred \div eSEGMENT_SIZE + 1) * eTCPIP_HEADER_SIZE

\* AddRecvTPS and the others: GetTPS
Add(t, n) ==
  /\ CounterAt(t, "idle", IF t \in tls THEN "read" ELSE "index")
  /\ total[t] + n <= MaxAmount
  /\ amount' = [amount EXCEPT ![t] = n]
  /\ UNCHANGED <<TPSIndex, TPSArray, tls, tps, index, old, observerVars, total, since, raced>>

\* MakeTPS: the index by compare and exchange, then the entry
ReadIndex(t) ==
  /\ CounterAt(t, "index", "exchange")
  /\ index' = [index EXCEPT ![t] = TPSIndex]
  /\ UNCHANGED <<TPSIndex, TPSArray, tls, tps, amount, old, observerVars, total, since, raced>>

MutTakeIndex(t) ==
  /\ CounterAt(t, "exchange", "entry")
  /\ TPSIndex' = index[t] + 1
  /\ UNCHANGED <<TPSArray, tls, tps, localVars, observerVars, total, since, raced>>

TakeIndex(t) ==
  /\ IF TPSIndex = index[t] THEN CounterAt(t, "exchange", "entry") /\ TPSIndex' = TPSIndex + 1
     ELSE CounterAt(t, "exchange", "index") /\ UNCHANGED TPSIndex
  /\ UNCHANGED <<TPSArray, tls, tps, localVars, observerVars, total, since, raced>>

SetEntry(t) ==
  /\ CounterAt(t, "entry", "read")
  /\ TPSArray' = [TPSArray EXCEPT ![index[t]] = t]
  /\ tls' = tls \cup {t}
  /\ UNCHANGED <<TPSIndex, tps, localVars, observerVars, total, since, raced>>

\* the two halves of +=
ReadTPS(t) ==
  /\ CounterAt(t, "read", "write")
  /\ old' = [old EXCEPT ![t] = tps[t]]
  /\ UNCHANGED <<TPSIndex, TPSArray, tls, tps, index, amount, observerVars, total, since, raced>>

WriteTPS(t) ==
  /\ CounterAt(t, "write", "idle")
  /\ tps' = [tps EXCEPT ![t] = old[t] + amount[t]]
  /\ total' = [total EXCEPT ![t] = @ + amount[t]]
  /\ since' = [since EXCEPT ![t] = @ + amount[t]]
  /\ UNCHANGED <<TPSIndex, TPSArray, tls, localVars, observerVars, raced>>

Count(t) == ReadIndex(t) \/ TakeIndex(t) \/ SetEntry(t) \/ ReadTPS(t) \/ WriteTPS(t)
-----------------------------------------------------------------------------
(* MyObserverProc                                                          *)

\* the interval is over
Report ==
  /\ oPc = "sleep" /\ oPc' = "sum" /\ i' = 0 /\ sum' = 0
  /\ UNCHANGED <<TPSIndex, TPSArray, tls, tps, cPc, localVars, total, since, raced>>

\* the entry at i is not written yet
Unwritten == i < TPSIndex /\ TPSArray[i] = NoInfo

\* a turn of the loop of GetRecvTPS
GetTPSTurn ==
  /\ oPc = "sum"
  /\ \/ Unwritten /\ oPc' = "wild" /\ UNCHANGED <<i, sum>>
     \/ /\ i < TPSIndex /\ ~Unwritten
        /\ sum' = sum + tps[TPSArray[i]] /\ i' = i + 1 /\ UNCHANGED oPc
     \/ i >= TPSIndex /\ oPc' = "zero" /\ i' = 0 /\ UNCHANGED sum
  /\ UNCHANGED <<TPSIndex, TPSArray, tls, tps, cPc, localVars, total, since, raced>>

\* ZeroTPS, and OnMonitor when it is through
ZeroTPSTurn ==
  /\ oPc = "zero"
  /\ \/ Unwritten /\ oPc' = "wild" /\ UNCHANGED <<i, sum, tps, since, raced>>
     \/ /\ i < TPSIndex /\ ~Unwritten
        /\ LET t == TPSArray[i] IN
           /\ tps' = [tps EXCEPT ![t] = 0] /\ since' = [since EXCEPT ![t] = 0]
           /\ raced' = IF cPc[t] = "write" THEN raced \cup {t} ELSE raced \ {t}
        /\ sum' = 0 /\ i' = i + 1 /\ UNCHANGED oPc
     \/ i >= TPSIndex /\ oPc' = "sleep" /\ sum' = 0 /\ i' = 0 /\ UNCHANGED <<tps, since, raced>>
  /\ UNCHANGED <<TPSIndex, TPSArray, tls, cPc, localVars, total>>

MonitorInit ==
  /\ TPSIndex = 0 /\ TPSArray = [k \in Entries |-> NoInfo]
  /\ tls = {} /\ tps = [t \in Counters |-> 0]
  /\ cPc = [t \in Counters |-> "idle"]
  /\ index = [t \in Counters |-> 0] /\ amount = [t \in Counters |-> 0] /\ old = [t \in Counters |-> 0]
  /\ oPc = "sleep" /\ i = 0 /\ sum = 0
  /\ total = [t \in Counters |-> 0] /\ since = [t \in Counters |-> 0] /\ raced = {}

MonitorNext ==
  /\ oPc # "wild"
  /\ \/ \E t \in Counters : Add(t, TPS) \/ Add(t, Traffic(1)) \/ Count(t)
     \/ Report \/ GetTPSTurn \/ ZeroTPSTurn

MonitorSpec == MonitorInit /\ [][MonitorNext]_monitorVars
-----------------------------------------------------------------------------
(* A thread that counts has one entry, below TPSIndex_, that no other      *)
(* thread's write replaces.                                                *)
EntryOfItsOwn ==
  \A t \in tls : Cardinality({k \in Entries : TPSArray[k] = t /\ k < TPSIndex}) = 1

(* A counter has what was counted since the observer zeroed it, unless the *)
(* zero fell into a +=, which then brings the old value back; and never    *)
(* more than the thread counted at all.                                    *)
CountsSinceZero ==
  \A t \in Counters : tps[t] <= total[t] /\ (t \notin raced => tps[t] = since[t])

\* what there is to add up: the units every thread has counted
Units(S) == {u \in S \X (1..MaxAmount) : u[2] <= total[u[1]]}

(* The sum that is reported is at most what there was to count.            *)
ReportsNoMore == sum <= Cardinality(Units(Counters))

\* What the observer adds up: every thread that counts is an entry of TPSArray_, and
\* its counter is what came since the last zero, if that fell not into a +=; up to the
\* moment when the observer reads an entry that is not written
\* (NetServer.h 302-423, 530-551, LanServer.h 275-395).
MonitorCounts == MonitorTypeOK /\ EntryOfItsOwn /\ CountsSinceZero /\ ReportsNoMore

(* What it rests on. Types of what only one thread reads;                  *)
LocalTypes ==
  /\ index \in [Counters -> Nat] /\ amount \in [Counters -> Nat] /\ old \in [Counters -> Nat]
  /\ total \in [Counters -> 0..MaxAmount] /\ since \in [Counters -> Nat]
  /\ raced \subseteq Counters /\ sum \in Nat /\ i <= TPSIndex

(* an index that is taken, but not written, is one thread's, and as many   *)
(* are taken as threads have one;                                          *)
Placed == tls \cup {t \in Counters : cPc[t] = "entry"}
EntriesTaken ==
  /\ Cardinality(Placed) = TPSIndex
  /\ \A k \in Entries : /\ TPSArray[k] # NoInfo => TPSArray[k] \in tls /\ k < TPSIndex
                         /\ \A j \in Entries : TPSArray[k] = TPSArray[j] => k = j \/ TPSArray[k] = NoInfo
  /\ \A t \in tls : \E k \in Entries : TPSArray[k] = t
  /\ \A t, u \in Counters : cPc[t] = "entry" /\ cPc[u] = "entry" /\ index[t] = index[u] => t = u

CounterSupport(t) ==
  /\ cPc[t] \in {"index", "exchange", "entry"} => t \notin tls
  /\ cPc[t] \in {"read", "write"} => t \in tls
  /\ cPc[t] = "entry" => index[t] < TPSIndex /\ TPSArray[index[t]] = NoInfo
  /\ cPc[t] # "idle" => total[t] + amount[t] <= MaxAmount
  /\ cPc[t] = "write" => old[t] <= total[t] /\ (t \notin raced => old[t] = tps[t])

(* and the sum is of entries the observer has been at.                     *)
Added == {TPSArray[k] : k \in {e \in Entries : e < i}}
SumOfAdded ==
  /\ oPc = "sum" => NoInfo \notin Added /\ sum <= Cardinality(Units(Added))
  /\ sum <= Cardinality(Units(Counters))

MonitorInv ==
  /\ MonitorTypeOK /\ LocalTypes /\ EntriesTaken /\ CountsSinceZero /\ SumOfAdded
  /\ \A t \in Counters : CounterSupport(t)
=============================================================================
