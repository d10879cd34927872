--------------------------- MODULE SendPathProofs ---------------------------
(***************************************************************************)
(* The safety properties of SendPath, for any number of senders, workers,  *)
(* packets and sessions, and in both modes of sending. IInv is the         *)
(* inductive invariant. Actions are taken in the groups that Continue and  *)
(* GetQueuedCompletion make of them; an action that a property is really   *)
(* about has a step of its own.                                            *)
(***************************************************************************)
EXTENDS SendPath, FiniteSetTheorems, FunctionTheorems, SequenceTheorems, TLAPS

ThreadStep(t) ==
  \/ InitializeRef(t)
  \/ \E op \in Ops, p \in Packets \cup {NoPacket}, u \in 1..unique :
       Call(t, op, p, u) \/ PostPacket(t, op, p, u)
  \/ GetQueuedCompletion(t)
  \/ Continue(t)

\* A step of one thread leaves the others where they are.
LEMMA OthersStay ==
  ASSUME TypeOK, NEW t \in Threads, ThreadStep(t)
  PROVE  \A r \in Threads \ {t} : pc'[r] = pc[r] /\ job'[r] = job[r]
<1> DEFINE Stay == \A r \in Threads \ {t} : pc'[r] = pc[r] /\ job'[r] = job[r]
<1> USE DEF Goto, Begin, DropRefs, TypeOK, sessionVars, ioVars, historyVars
<1>1. ASSUME InitializeRef(t) PROVE  Stay
  BY <1>1 DEF InitializeRef
<1>2. ASSUME NEW op \in Ops, NEW p \in Packets \cup {NoPacket}, NEW u \in 1..unique,
         Call(t, op, p, u)
      PROVE  Stay
  BY <1>2 DEF Call
<1>3. ASSUME NEW op \in Ops, NEW p \in Packets \cup {NoPacket}, NEW u \in 1..unique,
         PostPacket(t, op, p, u)
      PROVE  Stay
  BY <1>3 DEF PostPacket
<1>4. ASSUME RecvCompletion(t) \/ SendCompletion(t) PROVE  Stay
  BY <1>4 DEF RecvCompletion, SendCompletion
<1>5. ASSUME NEW j \in posts, TakePost(t, j) PROVE  Stay
  BY <1>5 DEF TakePost
<1>6. ASSUME InitializePublish(t) PROVE  Stay
  BY <1>6 DEF InitializePublish
<1>7. ASSUME FindStep(t) PROVE  Stay
  BY <1>7 DEF FindStep, AcquireDead, AcquireUnique, AlreadyCanceled, Refuse, Acquired
<1>8. ASSUME EnqueueStep(t) PROVE  Stay
  BY <1>8 DEF EnqueueStep, EnqueueSendQ, Enqueue, PostSign, AfterEnqueue
<1>9. ASSUME PostStep(t) PROVE  Stay
  BY <1>9 DEF PostStep, LastFlag, LastCancelIO, SpinForSendFlag, TrySendFlag, FreeSentPacket,
     DequeueSendQ, SendQEmpty, SetSendFlagFalse, WSASend, RecheckCanceled, SendCancelIO,
     SendFailed, SendFailedCancelIO, SubIOCount
<1>10. ASSUME CompletionStep(t) PROVE  Stay
  BY <1>10 DEF CompletionStep, OnSendComplete, SentCanceled, SentFlagFalse, OperationAborted
<1>11. ASSUME ReleaseStep(t) PROVE  Stay
  BY <1>11 DEF ReleaseStep, DisconnectFlag, DisconnectCancelIO, DecrementIOCount, SetDeleteFlag,
     Destroy, PushSessionIndex
<1>12. QED
  BY <1>1, <1>2, <1>3, <1>4, <1>5, <1>6, <1>7, <1>8, <1>9, <1>10, <1>11
     DEF ThreadStep, GetQueuedCompletion, Continue
-----------------------------------------------------------------------------
(* The references.                                                         *)

RecvWeight == IF recvIO = "none" THEN 0 ELSE 1

\* by how much a step of t changes the references it accounts for
Delta(t) ==
  Held(t)' - Held(t) + 2 * (Cardinality(Signs)' - Cardinality(Signs))
    + HeldBySend' - HeldBySend + RecvWeight' - RecvWeight

LEMMA HeldValues ==
  /\ \A t \in Threads : Held(t) \in {0, 1, 2}
  /\ HeldBySend \in {0, 1, 2}
  /\ HeldBySend = 0 => sendIO = "none"
  /\ RecvWeight \in {0, 1}
  /\ RecvWeight = 0 => recvIO = "none"
  BY DEF Held, Refs, HeldBySend, RecvWeight

\* Two finite sets that differ in one element at most.
LEMMA CardinalityOfNeighbours ==
  ASSUME NEW S, IsFiniteSet(S), NEW T, NEW x,
         S \subseteq T \cup {x}, T \subseteq S \cup {x}
  PROVE  /\ IsFiniteSet(T)
         /\ Cardinality(S) \in Nat
         /\ Cardinality(T) \in Nat
         /\ Cardinality(T) = Cardinality(S) + (IF x \in T THEN 1 ELSE 0)
                                            - (IF x \in S THEN 1 ELSE 0)
<1>1. Cardinality(S) \in Nat
  BY FS_CardinalityType
<1>2. CASE x \in S <=> x \in T
  <2>1. S = T
    BY <1>2
  <2>2. QED
    BY <2>1, <1>1, <1>2
<1>3. CASE x \in S /\ x \notin T
  <2>1. T = S \ {x}
    BY <1>3
  <2>2. IsFiniteSet(T) /\ Cardinality(T) = Cardinality(S) - 1
    BY <2>1, <1>3, FS_RemoveElement
  <2>3. Cardinality(T) \in Nat
    BY <2>2, FS_CardinalityType
  <2>4. QED
    BY <2>2, <2>3, <1>1, <1>3
<1>4. CASE x \notin S /\ x \in T
  <2>1. T = S \cup {x}
    BY <1>4
  <2>2. IsFiniteSet(T) /\ Cardinality(T) = Cardinality(S) + 1
    BY <2>1, <1>4, FS_AddElement
  <2>3. QED
    BY <2>2, <1>1, <1>4
<1>5. QED
  BY <1>2, <1>3, <1>4

\* Jobs with different packets are no more than packets.
LEMMA SignsFinite ==
  ASSUME NEW P, \A j \in P : j.packet \in Packets,
         \A j, k \in P : j.packet = k.packet => j = k
  PROVE  /\ IsFiniteSet({j \in P : j.op = "SENDSIGN"})
         /\ Cardinality({j \in P : j.op = "SENDSIGN"}) \in Nat
         /\ Cardinality({j \in P : j.op = "SENDSIGN"}) <= Cardinality(Packets)
<1> DEFINE S == {j \in P : j.op = "SENDSIGN"}
           f == [j \in S |-> j.packet]
<1>1. f \in [S -> Packets]
  OBVIOUS
<1>2. IsInjective(f)
  BY DEF IsInjective
<1>3. f \in Injection(S, Packets)
  BY <1>1, <1>2 DEF Injection
<1> HIDE DEF f, S
<1>4. IsFiniteSet(S) /\ Cardinality(S) <= Cardinality(Packets)
  BY <1>3, ThreadsAssumption, FS_Injection
<1>5. QED
  BY <1>4, FS_CardinalityType DEF S

AtLeastOne == {t \in Threads : Held(t) >= 1}
AtTwo == {t \in Threads : Held(t) = 2}

LEMMA HoldersFinite ==
  ASSUME NEW S, S \subseteq Threads
  PROVE  /\ IsFiniteSet(S)
         /\ Cardinality(S) \in Nat
         /\ Cardinality(S) <= Cardinality(Threads)
         /\ S # {} => Cardinality(S) # 0
  BY ThreadsAssumption, FS_Subset, FS_CardinalityType, FS_EmptySet

\* Few enough to stay below the delete flag.
LEMMA SmallSum ==
  ASSUME NEW a \in Nat, a <= Cardinality(Threads), NEW b \in Nat, b <= Cardinality(Threads),
         NEW c \in Nat, c <= Cardinality(Packets), NEW d \in {0, 1, 2}, NEW e \in {0, 1}
  PROVE  a + b + 2 * c + d + e < DELETE_FLAG_BIT
<1>1. Cardinality(Threads) \in Nat /\ Cardinality(Packets) \in Nat /\ DELETE_FLAG_BIT \in Nat
  BY ThreadsAssumption, FS_CardinalityType
<1>2. 2 * Cardinality(Threads) + 2 * Cardinality(Packets) + 3 < DELETE_FLAG_BIT
  BY ThreadsAssumption
<1>3. QED
  BY <1>1, <1>2

\* The references are a small number; without any, nobody holds one.
LEMMA RefsBounded ==
  ASSUME OneCallEach, \A j \in posts : PostSupport(j)
  PROVE  /\ RefsHeld \in Nat
         /\ RefsHeld < DELETE_FLAG_BIT
         /\ \A t \in Threads : Held(t) <= RefsHeld
         /\ RefsHeld = 0 => sendIO = "none" /\ recvIO = "none" /\ Signs = {}
<1> DEFINE A == Cardinality(AtLeastOne)
           B == Cardinality(AtTwo)
           C == Cardinality(Signs)
<1>1. RefsHeld = A + B + 2 * C + HeldBySend + RecvWeight
  BY DEF RefsHeld, AtLeastOne, AtTwo, RecvWeight
<1>2. /\ A \in Nat /\ A <= Cardinality(Threads) /\ (AtLeastOne # {} => A # 0)
      /\ B \in Nat /\ B <= Cardinality(Threads) /\ (AtTwo # {} => B # 0)
  <2>1. AtLeastOne \subseteq Threads /\ AtTwo \subseteq Threads
    BY DEF AtLeastOne, AtTwo
  <2>2. QED
    BY <2>1, HoldersFinite
<1>3. C \in Nat /\ C <= Cardinality(Packets) /\ (C = 0 => Signs = {})
  <2>1. IsFiniteSet(Signs) /\ C \in Nat /\ C <= Cardinality(Packets)
    BY SignsFinite DEF Signs, OneCallEach, PostSupport
  <2>2. QED
    BY <2>1, FS_EmptySet
<1>4. ASSUME NEW t \in Threads
      PROVE  Held(t) \in {0, 1, 2} /\ Held(t) <= A + B
  <2>1. /\ Held(t) >= 1 => AtLeastOne # {}
        /\ Held(t) = 2 => AtTwo # {}
    BY DEF AtLeastOne, AtTwo
  <2>2. QED
    BY <1>2, <2>1, HeldValues
<1> HIDE DEF A, B, C
<1>5. A + B + 2 * C + HeldBySend + RecvWeight < DELETE_FLAG_BIT
  BY <1>2, <1>3, HeldValues, SmallSum
<1>6. QED
  BY <1>1, <1>2, <1>3, <1>4, <1>5, HeldValues

\* When thread t moves and the others stay, the references change by Delta.
LEMMA RefsChange ==
  ASSUME OneCallEach, \A j \in posts : PostSupport(j),
         OneCallEach', \A j \in posts' : PostSupport(j)',
         NEW t \in Threads,
         \A r \in Threads \ {t} : pc'[r] = pc[r] /\ job'[r] = job[r]
  PROVE  /\ RefsHeld' = RefsHeld + Delta(t)
         /\ RefsHeld' \in Nat
         /\ RefsHeld' < DELETE_FLAG_BIT
         /\ Delta(t) \in Int
<1>1. \A r \in Threads \ {t} : Held(r)' = Held(r)
  BY DEF Held, Refs
<1>2. /\ AtLeastOne \subseteq AtLeastOne' \cup {t} /\ AtLeastOne' \subseteq AtLeastOne \cup {t}
      /\ AtTwo \subseteq AtTwo' \cup {t} /\ AtTwo' \subseteq AtTwo \cup {t}
  BY <1>1 DEF AtLeastOne, AtTwo
<1>3. /\ t \in AtLeastOne <=> Held(t) >= 1
      /\ t \in AtLeastOne' <=> Held(t)' >= 1
      /\ t \in AtTwo <=> Held(t) = 2
      /\ t \in AtTwo' <=> Held(t)' = 2
  BY DEF AtLeastOne, AtTwo
<1>4. /\ AtLeastOne \subseteq Threads /\ AtTwo \subseteq Threads
      /\ AtLeastOne' \subseteq Threads /\ AtTwo' \subseteq Threads
  BY DEF AtLeastOne, AtTwo
<1> DEFINE A == Cardinality(AtLeastOne)
           B == Cardinality(AtTwo)
           C == Cardinality(Signs)
<1>5. /\ A \in Nat /\ A' \in Nat /\ A' <= Cardinality(Threads)
      /\ A' = A + (IF t \in AtLeastOne' THEN 1 ELSE 0) - (IF t \in AtLeastOne THEN 1 ELSE 0)
  <2>1. IsFiniteSet(AtLeastOne) /\ A' <= Cardinality(Threads)
    BY <1>4, HoldersFinite
  <2>2. QED
    BY <1>2, <2>1, CardinalityOfNeighbours
<1>6. /\ B \in Nat /\ B' \in Nat /\ B' <= Cardinality(Threads)
      /\ B' = B + (IF t \in AtTwo' THEN 1 ELSE 0) - (IF t \in AtTwo THEN 1 ELSE 0)
  <2>1. IsFiniteSet(AtTwo) /\ B' <= Cardinality(Threads)
    BY <1>4, HoldersFinite
  <2>2. QED
    BY <1>2, <2>1, CardinalityOfNeighbours
<1>7. C \in Nat /\ C' \in Nat /\ C' <= Cardinality(Packets)
  BY SignsFinite DEF Signs, OneCallEach, PostSupport
<1>8. /\ RefsHeld = A + B + 2 * C + HeldBySend + RecvWeight
      /\ RefsHeld' = A' + B' + 2 * C' + HeldBySend' + RecvWeight'
      /\ Delta(t) = Held(t)' - Held(t) + 2 * (C' - C) + HeldBySend' - HeldBySend
                      + RecvWeight' - RecvWeight
  BY DEF RefsHeld, AtLeastOne, AtTwo, RecvWeight, Delta
<1>9. /\ Held(t) \in {0, 1, 2} /\ HeldBySend \in {0, 1, 2} /\ RecvWeight \in {0, 1}
      /\ Held(t)' \in {0, 1, 2} /\ HeldBySend' \in {0, 1, 2} /\ RecvWeight' \in {0, 1}
  <2>1. Held(t) \in {0, 1, 2} /\ HeldBySend \in {0, 1, 2} /\ RecvWeight \in {0, 1}
    BY HeldValues
  <2>2. Held(t)' \in {0, 1, 2} /\ HeldBySend' \in {0, 1, 2} /\ RecvWeight' \in {0, 1}
    BY DEF Held, Refs, HeldBySend, RecvWeight
  <2>3. QED
    BY <2>1, <2>2
<1> HIDE DEF A, B, C
<1>10. A' + B' + 2 * C' + HeldBySend' + RecvWeight' < DELETE_FLAG_BIT
  BY <1>5, <1>6, <1>7, <1>9, SmallSum
<1>11. A' - A = (IF Held(t)' >= 1 THEN 1 ELSE 0) - (IF Held(t) >= 1 THEN 1 ELSE 0)
  BY <1>3, <1>5
<1>12. B' - B = (IF Held(t)' = 2 THEN 1 ELSE 0) - (IF Held(t) = 2 THEN 1 ELSE 0)
  BY <1>3, <1>6
<1>13. A' + B' = A + B + Held(t)' - Held(t)
  BY <1>5, <1>6, <1>9, <1>11, <1>12
<1>14. /\ HeldBySend \in Int /\ HeldBySend' \in Nat /\ RecvWeight \in Int /\ RecvWeight' \in Nat
       /\ Held(t) \in Int /\ Held(t)' \in Int
  BY <1>9
<1>15. RefsHeld' = RefsHeld + Delta(t)
  BY <1>5, <1>6, <1>7, <1>8, <1>13, <1>14
<1>16. RefsHeld' \in Nat /\ Delta(t) \in Int
  BY <1>5, <1>6, <1>7, <1>8, <1>14
<1>17. QED
  BY <1>8, <1>10, <1>15, <1>16

\* AddIOCount of a word that does not wrap.
LEMMA WordMoves ==
  ASSUME IOcount \in 0 .. 2 * DELETE_FLAG_BIT - 1
  PROVE  /\ AddIOCount(1) /\ IOcount + 1 < 2 * DELETE_FLAG_BIT => IOcount' = IOcount + 1
         /\ AddIOCount(2) /\ IOcount + 2 < 2 * DELETE_FLAG_BIT => IOcount' = IOcount + 2
         /\ AddIOCount(2 * DELETE_FLAG_BIT - 1) /\ IOcount - 1 >= 0 => IOcount' = IOcount - 1
         /\ AddIOCount(2 * DELETE_FLAG_BIT - 2) /\ IOcount - 2 >= 0 => IOcount' = IOcount - 2
<1> DEFINE W == 2 * DELETE_FLAG_BIT
<1>1. W \in Nat /\ W > 2 /\ IOcount \in 0 .. W - 1
  BY ThreadsAssumption, FS_CardinalityType
<1> HIDE DEF W
<1>2. \A n \in 0 .. W - 1 : n % W = n
  BY <1>1
<1>3. \A n \in 0 .. W - 1 : (n + W) % W = n
  BY <1>1
<1>4. AddIOCount(1) /\ IOcount + 1 < W => IOcount' = IOcount + 1
  <2>1. AddIOCount(1) <=> IOcount' = (IOcount + 1) % W
    BY DEF AddIOCount, W
  <2>2. QED
    BY <1>1, <1>2, <2>1
<1>5. AddIOCount(2) /\ IOcount + 2 < W => IOcount' = IOcount + 2
  <2>1. AddIOCount(2) <=> IOcount' = (IOcount + 2) % W
    BY DEF AddIOCount, W
  <2>2. QED
    BY <1>1, <1>2, <2>1
<1>6. AddIOCount(W - 1) /\ IOcount - 1 >= 0 => IOcount' = IOcount - 1
  <2>1. AddIOCount(W - 1) <=> IOcount' = (IOcount + (W - 1)) % W
    BY DEF AddIOCount, W
  <2>2. IOcount + (W - 1) = (IOcount - 1) + W
    BY <1>1
  <2>3. QED
    BY <1>1, <1>3, <2>1, <2>2
<1>7. AddIOCount(W - 2) /\ IOcount - 2 >= 0 => IOcount' = IOcount - 2
  <2>1. AddIOCount(W - 2) <=> IOcount' = (IOcount + (W - 2)) % W
    BY DEF AddIOCount, W
  <2>2. IOcount + (W - 2) = (IOcount - 2) + W
    BY <1>1
  <2>3. QED
    BY <1>1, <1>3, <2>1, <2>2
<1>8. QED
  BY <1>4, <1>5, <1>6, <1>7 DEF W

Counted(t) ==
  \/ IOcount + Delta(t) \in 0 .. 2 * DELETE_FLAG_BIT - 1 => IOcount' = IOcount + Delta(t)
  \/ Delta(t) = 0 /\ InitializePublish(t)
  \/ Delta(t) = 0 /\ SetDeleteFlag(t) /\ IOcount = 0

\* A posted sign is a new one, and what a worker takes is gone.
LEMMA SignsChange ==
  ASSUME OneCallEach, \A j \in posts : PostSupport(j), NEW t \in Threads
  PROVE  /\ PostSign(t) /\ ~isSending /\ CallSupport(t) /\ TypeOK
              => Cardinality(Signs') = Cardinality(Signs) + 1
         /\ \A j \in Signs : posts' = posts \ {j} => Cardinality(Signs') = Cardinality(Signs) - 1
<1>1. IsFiniteSet(Signs) /\ Cardinality(Signs) \in Nat
  BY SignsFinite DEF Signs, OneCallEach, PostSupport
<1>2. ASSUME PostSign(t), ~isSending, CallSupport(t), TypeOK
      PROVE  Cardinality(Signs') = Cardinality(Signs) + 1
  <2> DEFINE j == [job[t] EXCEPT !.op = "SENDSIGN"]
  <2>1. posts' = posts \cup {j}
    BY <1>2 DEF PostSign
  <2>2. j.op = "SENDSIGN" /\ j.packet = job[t].packet
    BY <1>2 DEF TypeOK, Jobs
  <2>3. j \notin posts
    BY <2>2 DEF OneCallEach
  <2>4. Signs' = Signs \cup {j} /\ j \notin Signs
    BY <2>1, <2>2, <2>3 DEF Signs
  <2>5. QED
    BY <1>1, <2>4, FS_AddElement
<1>3. ASSUME NEW j \in Signs, posts' = posts \ {j}
      PROVE  Cardinality(Signs') = Cardinality(Signs) - 1
  <2>1. Signs' = Signs \ {j}
    BY <1>3 DEF Signs
  <2>2. QED
    BY <1>1, <2>1, FS_RemoveElement
<1>4. QED
  BY <1>2, <1>3

\* What a position holds.
Weight(l, op) ==
  IF l \in FindPcs THEN Refs(op) ELSE IF l \in HoldTwo THEN 2 ELSE IF l \in HoldOne THEN 1 ELSE 0

LEMMA WeightOf ==
  /\ \A op : \A l \in {"idle", "cas", "destroy", "push", "quit"} : Weight(l, op) = 0
  /\ \A op : \A l \in {"publish", "canceled?", "recheck", "recancel", "inc", "abort", "set",
                       "cancel", "dec"} : Weight(l, op) = 1
  /\ \A op : \A l \in {"enqueue", "link", "sign?", "clear", "fail", "failcancel", "sub2", "last",
                       "lastcancel", "spin", "sent?", "sentclear", "crash", "flag", "free",
                       "fill", "wsasend"} : Weight(l, op) = 2
  /\ \A op : \A l \in {"dead?", "unique?"} : Weight(l, op) = IF op = "Disconnect" THEN 1 ELSE 2
  BY DEF Weight, HoldOne, HoldTwo, FindPcs, PostPcs, Refs

\* CancelIoEx keeps the references of what it cancels.
LEMMA CancelKeeps ==
  ASSUME CancelIO
  PROVE  HeldBySend' = HeldBySend /\ RecvWeight' = RecvWeight
<1>1. RecvWeight' = RecvWeight
  BY DEF CancelIO, Aborted, RecvWeight
<1>2. CASE sendIO = "posted"
  <2>1. sendIO' = "aborted"
    BY <1>2 DEF CancelIO, Aborted
  <2>2. QED
    BY <1>1, <1>2, <2>1 DEF HeldBySend
<1>3. CASE sendIO # "posted"
  <2>1. sendIO' = sendIO
    BY <1>3 DEF CancelIO, Aborted
  <2>2. QED
    BY <1>1, <2>1 DEF HeldBySend
<1>4. QED
  BY <1>2, <1>3

\* Every step changes IOcount_ by exactly what it changes the references by, but
\* for the two that set and clear the delete flag.
LEMMA Accounts ==
  ASSUME SendsFitMode, TypeOK, OneSender, ReleasedClean,
         SlotPlaced, CanceledBefore, ModeKept, OneCallEach,
         \A j \in posts : PostSupport(j), NEW t \in Threads, CallSupport(t), ThreadStep(t)
  PROVE  Counted(t)
<1> DEFINE C == Cardinality(Signs)
<1>0. C \in Nat /\ DELETE_FLAG_BIT \in Nat
  BY SignsFinite, ThreadsAssumption DEF Signs, OneCallEach, PostSupport
<1>00. Delta(t) = Weight(pc'[t], job'[t].op) - Weight(pc[t], job[t].op)
                  + 2 * (C' - C) + HeldBySend' - HeldBySend + RecvWeight' - RecvWeight
  BY DEF Delta, Held, Weight
<1> HIDE DEF C
<1> USE DEF At, Goto, Begin, TypeOK
<1>1. ASSUME InitializeRef(t) PROVE  Counted(t)
  <2>1. C' = C
    BY <1>1 DEF InitializeRef, Signs, ioVars, sessionVars, DropRefs, CancelIO, CallOps, PostOps, C
  <2>2. QED
    BY <1>1, <2>1, <1>0, <1>00, WeightOf, WordMoves
       DEF InitializeRef, Counted, FindPcs, Refs, HeldBySend, RecvWeight, ioVars, sessionVars
<1>2. ASSUME NEW op \in Ops, NEW p \in Packets \cup {NoPacket}, NEW u \in 1..unique,
         Call(t, op, p, u)
      PROVE  Counted(t)
  <2>1. C' = C
    BY <1>2 DEF Call, Signs, ioVars, sessionVars, DropRefs, CancelIO, CallOps, PostOps, C
  <2>2. QED
    BY <1>2, <2>1, <1>0, <1>00, WeightOf, WordMoves
       DEF Call, Counted, FindPcs, Refs, HeldBySend, RecvWeight, ioVars, sessionVars, CallOps, PostOps
<1>3. ASSUME NEW op \in Ops, NEW p \in Packets \cup {NoPacket}, NEW u \in 1..unique,
         PostPacket(t, op, p, u)
      PROVE  Counted(t)
  <2>1. Signs' = Signs
    BY <1>3 DEF PostPacket, Signs, PostOps
  <2>2. C' = C
    BY <2>1 DEF C
  <2>3. QED
    <3>1. /\ Weight(pc'[t], job'[t].op) = Weight(pc[t], job[t].op)
          /\ HeldBySend' = HeldBySend /\ RecvWeight' = RecvWeight /\ IOcount' = IOcount
      BY <1>3 DEF PostPacket, HeldBySend, RecvWeight, sessionVars
    <3>2. Weight(pc[t], job[t].op) = 0
      BY <1>3, WeightOf DEF PostPacket
    <3>3. QED
      BY <2>2, <3>1, <3>2, <1>0, <1>00, HeldValues DEF Counted
<1>4. ASSUME RecvCompletion(t) \/ SendCompletion(t) PROVE  Counted(t)
  <2>1. C' = C
    BY <1>4 DEF RecvCompletion, SendCompletion, Signs, ioVars, sessionVars, DropRefs, CancelIO, C
  <2>2. CASE RecvCompletion(t)
    BY <2>2, <2>1, <1>0, <1>00, WeightOf, WordMoves DEF RecvCompletion, Counted, FindPcs, HeldBySend, RecvWeight, ioVars, sessionVars
  <2>3. CASE SendCompletion(t)
    BY <2>3, <2>1, <1>0, <1>00, WeightOf, WordMoves DEF SendCompletion, Counted, FindPcs, HeldBySend, RecvWeight, ioVars, sessionVars
  <2>4. QED
    BY <1>4, <2>2, <2>3
<1>5. ASSUME NEW j \in posts, TakePost(t, j) PROVE  Counted(t)
  <2>1. CASE j.op = "SENDSIGN"
    <3>1. C' = C - 1
      BY <1>5, <2>1, SignsChange DEF TakePost, Signs, C
    <3>2. QED
      BY <1>5, <2>1, <3>1, <1>0, <1>00, WeightOf
         DEF TakePost, Counted, FindPcs, Refs, HeldBySend, RecvWeight
  <2>2. CASE j.op # "SENDSIGN"
    <3>1. C' = C
      BY <1>5, <2>2 DEF TakePost, Signs, C
    <3>2. j.op \in PostOps
      BY <2>2 DEF PostSupport
    <3>3. QED
      BY <1>5, <2>2, <3>1, <3>2, <1>0, <1>00, WeightOf, WordMoves, SMTT(30)
         DEF TakePost, Counted, PostOps,
             HeldBySend, RecvWeight
  <2>3. QED
    BY <2>1, <2>2
<1>6. ASSUME InitializePublish(t) PROVE  Counted(t)
  <2>1. C' = C
    BY <1>6 DEF InitializePublish, Signs, ioVars, sessionVars, DropRefs, CancelIO, CallOps, PostOps, C
  <2>2. QED
    BY <1>6, <2>1, <1>0, <1>00, WeightOf, WordMoves
       DEF InitializePublish, Counted, FindPcs, Refs, HeldBySend, RecvWeight, ioVars, sessionVars, SlotPlaced, ReleasedClean, Owners, OwnerPcs
<1>7. ASSUME FindStep(t) PROVE  Counted(t)
  <2>1. C' = C
    BY <1>7 DEF FindStep, AcquireDead, AcquireUnique, AlreadyCanceled, Refuse, Acquired, Signs, ioVars, sessionVars, DropRefs, CancelIO, C
  <2>2. CASE AcquireDead(t)
    BY <2>2, <2>1, <1>0, <1>00, WeightOf, WordMoves DEF AcquireDead, Counted, FindPcs, HeldBySend, RecvWeight, ioVars, sessionVars, Refuse
  <2>3. CASE AcquireUnique(t)
    BY <2>3, <2>1, <1>0, <1>00, WeightOf, WordMoves DEF AcquireUnique, Counted, FindPcs, HeldBySend, RecvWeight, ioVars, sessionVars, Refuse, Acquired
  <2>4. CASE AlreadyCanceled(t)
    BY <2>4, <2>1, <1>0, <1>00, WeightOf, WordMoves DEF AlreadyCanceled, Counted, FindPcs, HeldBySend, RecvWeight, ioVars, sessionVars
  <2>5. QED
    BY <1>7, <2>2, <2>3, <2>4 DEF FindStep
<1>8. ASSUME EnqueueStep(t) PROVE  Counted(t)
  <2>1. CASE PostSign(t) /\ ~isSending
    <3>1. C' = C + 1
      BY <2>1, SignsChange DEF C
    <3>2. QED
      BY <2>1, <3>1, <1>0, <1>00, WeightOf
         DEF PostSign, KeepSend, Counted, Held, HoldOne, HoldTwo, FindPcs, PostPcs,
             HeldBySend, RecvWeight, sessionVars
  <2>2. CASE ~(PostSign(t) /\ ~isSending)
    <3>1. C' = C
      BY <1>8, <2>2 DEF EnqueueStep, EnqueueSendQ, Enqueue, PostSign, Signs, ioVars, C
    <3>2. QED
      BY <1>8, <2>2, <3>1, <1>0, <1>00, WeightOf, SMTT(30)
         DEF EnqueueStep, EnqueueSendQ, Enqueue, PostSign, AfterEnqueue, Counted,
             HeldBySend, RecvWeight, ioVars, sessionVars
  <2>3. QED
    BY <2>1, <2>2
<1>9. ASSUME PostStep(t) PROVE  Counted(t)
  <2>1. C' = C
    BY <1>9 DEF PostStep, LastFlag, LastCancelIO, SpinForSendFlag, TrySendFlag, FreeSentPacket,
     DequeueSendQ, SendQEmpty, SetSendFlagFalse, WSASend, RecheckCanceled, SendCancelIO,
     SendFailed, SendFailedCancelIO, SubIOCount, Signs, ioVars, sessionVars, DropRefs, CancelIO, C
  <2>2. CASE LastFlag(t)
    BY <2>2, <2>1, <1>0, <1>00, WeightOf, WordMoves DEF LastFlag, Counted, FindPcs, HeldBySend, RecvWeight, ioVars, sessionVars
  <2>3. CASE LastCancelIO(t)
    BY <2>3, <2>1, <1>0, <1>00, WeightOf, CancelKeeps, HeldValues DEF LastCancelIO, Counted, sessionVars
  <2>4. CASE SpinForSendFlag(t)
    BY <2>4, <2>1, <1>0, <1>00, WeightOf, WordMoves DEF SpinForSendFlag, Counted, FindPcs, HeldBySend, RecvWeight, ioVars, sessionVars
  <2>5. CASE TrySendFlag(t)
    BY <2>5, <2>1, <1>0, <1>00, WeightOf, WordMoves DEF TrySendFlag, Counted, FindPcs, HeldBySend, RecvWeight, ioVars, sessionVars
  <2>6. CASE FreeSentPacket(t)
    BY <2>6, <2>1, <1>0, <1>00, WeightOf, WordMoves DEF FreeSentPacket, Counted, FindPcs, HeldBySend, RecvWeight, ioVars, sessionVars
  <2>7. CASE DequeueSendQ(t)
    BY <2>7, <2>1, <1>0, <1>00, WeightOf, WordMoves DEF DequeueSendQ, Counted, FindPcs, HeldBySend, RecvWeight, ioVars, sessionVars
  <2>8. CASE SendQEmpty(t)
    BY <2>8, <2>1, <1>0, <1>00, WeightOf, WordMoves DEF SendQEmpty, Counted, FindPcs, HeldBySend, RecvWeight, ioVars, sessionVars
  <2>9. CASE SetSendFlagFalse(t)
    BY <2>9, <2>1, <1>0, <1>00, WeightOf, WordMoves DEF SetSendFlagFalse, Counted, FindPcs, HeldBySend, RecvWeight, ioVars, sessionVars
  <2>10. CASE WSASend(t)
    BY <2>10, <2>1, <1>0, <1>00, WeightOf, WordMoves DEF WSASend, Counted, FindPcs, HeldBySend, RecvWeight, ioVars, sessionVars, AfterPending, SendsFitMode, OneSender, SendUsers
  <2>11. CASE RecheckCanceled(t)
    BY <2>11, <2>1, <1>0, <1>00, WeightOf, WordMoves DEF RecheckCanceled, Counted, FindPcs, HeldBySend, RecvWeight, ioVars, sessionVars, AfterPending
  <2>12. CASE SendCancelIO(t)
    BY <2>12, <2>1, <1>0, <1>00, WeightOf, CancelKeeps, HeldValues DEF SendCancelIO, Counted, sessionVars
  <2>13. CASE SendFailed(t)
    BY <2>13, <2>1, <1>0, <1>00, WeightOf, WordMoves DEF SendFailed, Counted, FindPcs, HeldBySend, RecvWeight, ioVars, sessionVars
  <2>14. CASE SendFailedCancelIO(t)
    BY <2>14, <2>1, <1>0, <1>00, WeightOf, CancelKeeps, HeldValues DEF SendFailedCancelIO, Counted, sessionVars
  <2>15. CASE SubIOCount(t)
    BY <2>15, <2>1, <1>0, <1>00, WeightOf, WordMoves DEF SubIOCount, Counted, FindPcs, HeldBySend, RecvWeight, ioVars, sessionVars, DropRefs
  <2>16. QED
    BY <1>9, <2>2, <2>3, <2>4, <2>5, <2>6, <2>7, <2>8, <2>9, <2>10, <2>11, <2>12, <2>13, <2>14, <2>15 DEF PostStep
<1>10. ASSUME CompletionStep(t) PROVE  Counted(t)
  <2>1. C' = C
    BY <1>10 DEF CompletionStep, OnSendComplete, SentCanceled, SentFlagFalse, OperationAborted, Signs, ioVars, sessionVars, DropRefs, CancelIO, C
  <2>2. CASE OnSendComplete(t)
    BY <2>2, <2>1, <1>0, <1>00, WeightOf, WordMoves DEF OnSendComplete, Counted, FindPcs, HeldBySend, RecvWeight, ioVars, sessionVars
  <2>3. CASE SentCanceled(t)
    BY <2>3, <2>1, <1>0, <1>00, WeightOf, WordMoves DEF SentCanceled, Counted, FindPcs, HeldBySend, RecvWeight, ioVars, sessionVars
  <2>4. CASE SentFlagFalse(t)
    BY <2>4, <2>1, <1>0, <1>00, WeightOf, WordMoves DEF SentFlagFalse, Counted, FindPcs, HeldBySend, RecvWeight, ioVars, sessionVars
  <2>5. CASE OperationAborted(t)
    BY <2>5, <2>1, <1>0, <1>00, WeightOf, WordMoves DEF OperationAborted, Counted, FindPcs, HeldBySend, RecvWeight, ioVars, sessionVars, CanceledBefore
  <2>6. QED
    BY <1>10, <2>2, <2>3, <2>4, <2>5 DEF CompletionStep
<1>11. ASSUME ReleaseStep(t) PROVE  Counted(t)
  <2>1. C' = C
    BY <1>11 DEF ReleaseStep, DisconnectFlag, DisconnectCancelIO, DecrementIOCount, SetDeleteFlag,
     Destroy, PushSessionIndex, Signs, ioVars, sessionVars, DropRefs, CancelIO, C
  <2>2. CASE DisconnectFlag(t)
    BY <2>2, <2>1, <1>0, <1>00, WeightOf, WordMoves DEF DisconnectFlag, Counted, FindPcs, HeldBySend, RecvWeight, ioVars, sessionVars
  <2>3. CASE DisconnectCancelIO(t)
    BY <2>3, <2>1, <1>0, <1>00, WeightOf, CancelKeeps, HeldValues DEF DisconnectCancelIO, Counted, sessionVars
  <2>4. CASE DecrementIOCount(t)
    BY <2>4, <2>1, <1>0, <1>00, WeightOf, WordMoves DEF DecrementIOCount, Counted, FindPcs, HeldBySend, RecvWeight, ioVars, sessionVars, DropRefs
  <2>5. CASE SetDeleteFlag(t)
    BY <2>5, <2>1, <1>0, <1>00, WeightOf, WordMoves DEF SetDeleteFlag, Counted, FindPcs, HeldBySend, RecvWeight, ioVars, sessionVars
  <2>6. CASE Destroy(t)
    BY <2>6, <2>1, <1>0, <1>00, WeightOf, WordMoves DEF Destroy, Counted, FindPcs, HeldBySend, RecvWeight, ioVars, sessionVars
  <2>7. CASE PushSessionIndex(t)
    BY <2>7, <2>1, <1>0, <1>00, WeightOf, WordMoves DEF PushSessionIndex, Counted, FindPcs, HeldBySend, RecvWeight, ioVars, sessionVars
  <2>8. QED
    BY <1>11, <2>2, <2>3, <2>4, <2>5, <2>6, <2>7 DEF ReleaseStep
<1>12. QED
  BY <1>1, <1>2, <1>3, <1>4, <1>5, <1>6, <1>7, <1>8, <1>9, <1>10, <1>11
     DEF ThreadStep, GetQueuedCompletion, Continue

-----------------------------------------------------------------------------
(* The calls and their packets.                                            *)

\* Most steps go on with a call or end it.
GoesOn(t) == posts' = posts /\ (job' = job \/ job' = [job EXCEPT ![t] = NoJob])

LEMMA MostGoOn ==
  ASSUME TypeOK, NEW t \in Threads,
         \/ FindStep(t) \/ EnqueueSendQ(t) \/ Enqueue(t) \/ PostStep(t)
         \/ CompletionStep(t) \/ ReleaseStep(t)
  PROVE  GoesOn(t)
<1> USE DEF Begin, GoesOn, ioVars, sessionVars
<1>1. CASE FindStep(t)
  BY <1>1 DEF FindStep, AcquireDead, AcquireUnique, AlreadyCanceled, Refuse, Acquired
<1>2. CASE EnqueueSendQ(t)
  BY <1>2 DEF EnqueueSendQ
<1>3. CASE Enqueue(t)
  BY <1>3 DEF Enqueue, TypeOK
<1>4. CASE PostStep(t)
  BY <1>4 DEF PostStep, LastFlag, LastCancelIO, SpinForSendFlag, TrySendFlag, FreeSentPacket,
     DequeueSendQ, SendQEmpty, SetSendFlagFalse, WSASend, RecheckCanceled, SendCancelIO,
     SendFailed, SendFailedCancelIO, SubIOCount, DropRefs
<1>5. CASE CompletionStep(t)
  BY <1>5 DEF CompletionStep, OnSendComplete, SentCanceled, SentFlagFalse, OperationAborted
<1>6. CASE ReleaseStep(t)
  BY <1>6 DEF ReleaseStep, DisconnectFlag, DisconnectCancelIO, DecrementIOCount, SetDeleteFlag,
     Destroy, PushSessionIndex, DropRefs
<1>7. QED
  BY <1>1, <1>2, <1>3, <1>4, <1>5, <1>6

LEMMA ThreadOneCallEach ==
  ASSUME TypeOK, OneCallEach, \A j \in posts : PostSupport(j),
         NEW t \in Threads, CallSupport(t), ThreadStep(t)
  PROVE  OneCallEach'
<1> USE ThreadsAssumption DEF At, Goto, Begin, OneCallEach
<1>0. ASSUME GoesOn(t)
      PROVE  OneCallEach'
  <2>1. \A r \in Threads : job'[r] = job[r] \/ job'[r].packet = NoPacket
    BY <1>0 DEF GoesOn, TypeOK, NoJob
  <2>2. \A j \in posts : j.packet # NoPacket
    BY DEF PostSupport
  <2>3. posts' = posts
    BY <1>0 DEF GoesOn
  <2>4. QED
    BY <2>1, <2>2, <2>3
<1>1. ASSUME InitializeRef(t) PROVE  OneCallEach'
  BY <1>1 DEF InitializeRef, TypeOK, Jobs, NoJob, ioVars, sessionVars, historyVars, DropRefs
<1>2. ASSUME NEW op \in Ops, NEW p \in Packets \cup {NoPacket}, NEW u \in 1..unique,
         Call(t, op, p, u)
      PROVE  OneCallEach'
  BY <1>2 DEF Call, PostSupport, Unused, TypeOK, Jobs, ioVars
<1>3. ASSUME NEW op \in Ops, NEW p \in Packets \cup {NoPacket}, NEW u \in 1..unique,
         PostPacket(t, op, p, u)
      PROVE  OneCallEach'
  BY <1>3 DEF PostPacket, PostSupport, Unused
<1>4. ASSUME RecvCompletion(t) \/ SendCompletion(t) PROVE  OneCallEach'
  BY <1>4 DEF RecvCompletion, SendCompletion, TypeOK, Jobs, NoJob, ioVars, sessionVars, historyVars, DropRefs
<1>5. ASSUME NEW j \in posts, TakePost(t, j) PROVE  OneCallEach'
  <2>1. CASE j.op = "SENDSIGN"
    BY <1>5, <2>1 DEF TakePost
  <2>2. CASE j.op # "SENDSIGN"
    <3>1. posts' = posts \ {j} /\ job' = [job EXCEPT ![t] = j]
      BY <1>5, <2>2 DEF TakePost
    <3>2. job'[t] = j /\ \A r \in Threads \ {t} : job'[r] = job[r]
      BY <3>1 DEF TypeOK
    <3>3. QED
      BY <3>1, <3>2
  <2>3. QED
    BY <2>1, <2>2
<1>6. ASSUME InitializePublish(t) PROVE  OneCallEach'
  BY <1>6 DEF InitializePublish, TypeOK, Jobs, NoJob, ioVars, sessionVars, historyVars, DropRefs
<1>7. ASSUME FindStep(t) PROVE  OneCallEach'
  BY <1>7, <1>0, MostGoOn
<1>8. ASSUME EnqueueStep(t) PROVE  OneCallEach'
  <2>1. CASE PostSign(t) /\ ~isSending
    <3> DEFINE j == [job[t] EXCEPT !.op = "SENDSIGN"]
    <3>1. posts' = posts \cup {j} /\ job' = [job EXCEPT ![t] = NoJob]
      BY <2>1 DEF PostSign
    <3>2. job'[t].packet = NoPacket /\ \A r \in Threads \ {t} : job'[r] = job[r]
      BY <3>1 DEF TypeOK, NoJob
    <3>3. j.packet = job[t].packet /\ j.packet # NoPacket
      BY <2>1 DEF TypeOK, Jobs, CallSupport, PostSign
    <3> HIDE DEF j
    <3>4. QED
      BY <3>1, <3>2, <3>3 DEF PostSupport
  <2>2. CASE ~(PostSign(t) /\ ~isSending)
    <3>1. GoesOn(t)
      BY <1>8, <2>2, MostGoOn DEF EnqueueStep, PostSign, GoesOn
    <3>2. QED
      BY <3>1, <1>0
  <2>3. QED
    BY <2>1, <2>2
<1>9. ASSUME PostStep(t) PROVE  OneCallEach'
  BY <1>9, <1>0, MostGoOn
<1>10. ASSUME CompletionStep(t) PROVE  OneCallEach'
  BY <1>10, <1>0, MostGoOn
<1>11. ASSUME ReleaseStep(t) PROVE  OneCallEach'
  BY <1>11, <1>0, MostGoOn
<1>12. QED
  BY <1>1, <1>2, <1>3, <1>4, <1>5, <1>6, <1>7, <1>8, <1>9, <1>10, <1>11
     DEF ThreadStep, GetQueuedCompletion, Continue

LEMMA ThreadPostSupport ==
  ASSUME TypeOK, \A j \in posts : PostSupport(j), OneCallEach,
         NEW t \in Threads, CallSupport(t), ThreadStep(t)
  PROVE  \A j \in posts' : PostSupport(j)'
<1> USE ThreadsAssumption DEF At, Goto, Begin, PostSupport
<1>1. ASSUME InitializeRef(t) PROVE  \A j \in posts' : PostSupport(j)'
  BY <1>1 DEF InitializeRef, TypeOK, Jobs, NoJob, ioVars, sessionVars, historyVars, DropRefs, KeepSend
<1>2. ASSUME NEW op \in Ops, NEW p \in Packets \cup {NoPacket}, NEW u \in 1..unique,
         Call(t, op, p, u)
      PROVE  \A j \in posts' : PostSupport(j)'
  BY <1>2 DEF Call, TypeOK, Jobs, NoJob, ioVars, sessionVars, historyVars, DropRefs, KeepSend
<1>3. ASSUME NEW op \in Ops, NEW p \in Packets \cup {NoPacket}, NEW u \in 1..unique,
         PostPacket(t, op, p, u)
      PROVE  \A j \in posts' : PostSupport(j)'
  BY <1>3 DEF PostPacket, Unused, TypeOK
<1>4. ASSUME RecvCompletion(t) \/ SendCompletion(t) PROVE  \A j \in posts' : PostSupport(j)'
  BY <1>4 DEF RecvCompletion, SendCompletion, TypeOK, Jobs, NoJob, ioVars, sessionVars, historyVars, DropRefs, KeepSend
<1>5. ASSUME NEW k \in posts, TakePost(t, k) PROVE  \A j \in posts' : PostSupport(j)'
  BY <1>5 DEF TakePost, TypeOK, Jobs, NoJob, ioVars, sessionVars, historyVars, DropRefs, KeepSend
<1>6. ASSUME InitializePublish(t) PROVE  \A j \in posts' : PostSupport(j)'
  BY <1>6 DEF InitializePublish, TypeOK, Jobs, NoJob, ioVars, sessionVars, historyVars, DropRefs, KeepSend
<1>7. ASSUME FindStep(t) PROVE  \A j \in posts' : PostSupport(j)'
  BY <1>7 DEF FindStep, AcquireDead, AcquireUnique, AlreadyCanceled, Refuse, Acquired, FindPcs, ioVars, KeepSend, historyVars, OneCallEach, CallSupport, TypeOK
<1>8. ASSUME EnqueueStep(t) PROVE  \A j \in posts' : PostSupport(j)'
  <2>1. CASE PostSign(t) /\ ~isSending
    <3> DEFINE j == [job[t] EXCEPT !.op = "SENDSIGN"]
    <3>1. posts' = posts \cup {j} /\ idOf' = idOf
      BY <2>1 DEF PostSign, KeepSend, historyVars
    <3>2. j.packet = job[t].packet /\ j.op = "SENDSIGN"
      BY DEF TypeOK, Jobs
    <3>3. job[t].packet \in Packets /\ idOf[job[t].packet] # 0
      BY <2>1 DEF CallSupport, PostSign
    <3> HIDE DEF j
    <3>4. QED
      BY <3>1, <3>2, <3>3 DEF PostOps
  <2>2. CASE ~(PostSign(t) /\ ~isSending)
    BY <1>8, <2>2 DEF EnqueueStep, EnqueueSendQ, Enqueue, PostSign, KeepSend, ioVars, historyVars
  <2>3. QED
    BY <2>1, <2>2
<1>9. ASSUME PostStep(t) PROVE  \A j \in posts' : PostSupport(j)'
  BY <1>9 DEF PostStep, LastFlag, LastCancelIO, SpinForSendFlag, TrySendFlag, FreeSentPacket,
     DequeueSendQ, SendQEmpty, SetSendFlagFalse, WSASend, RecheckCanceled, SendCancelIO,
     SendFailed, SendFailedCancelIO, SubIOCount, TypeOK, Jobs, NoJob, ioVars, sessionVars, historyVars, DropRefs, KeepSend
<1>10. ASSUME CompletionStep(t) PROVE  \A j \in posts' : PostSupport(j)'
  BY <1>10 DEF CompletionStep, OnSendComplete, SentCanceled, SentFlagFalse, OperationAborted, TypeOK, Jobs, NoJob, ioVars, sessionVars, historyVars, DropRefs, KeepSend
<1>11. ASSUME ReleaseStep(t) PROVE  \A j \in posts' : PostSupport(j)'
  BY <1>11 DEF ReleaseStep, DisconnectFlag, DisconnectCancelIO, DecrementIOCount, SetDeleteFlag,
     Destroy, PushSessionIndex, TypeOK, Jobs, NoJob, ioVars, sessionVars, historyVars, DropRefs, KeepSend
<1>12. QED
  BY <1>1, <1>2, <1>3, <1>4, <1>5, <1>6, <1>7, <1>8, <1>9, <1>10, <1>11
     DEF ThreadStep, GetQueuedCompletion, Continue

LEMMA MoverCallSupport ==
  ASSUME TypeOK, \A j \in posts : PostSupport(j),
         NEW t \in Threads, CallSupport(t), ThreadStep(t)
  PROVE  CallSupport(t)'
<1> USE ThreadsAssumption DEF At, Goto, Begin, CallSupport, FindPcs, OwnerPcs
<1>1. ASSUME InitializeRef(t) PROVE  CallSupport(t)'
  BY <1>1 DEF InitializeRef, TypeOK, Jobs, NoJob, sessionVars, historyVars, DropRefs, KeepSend
<1>2. ASSUME NEW op \in Ops, NEW p \in Packets \cup {NoPacket}, NEW u \in 1..unique,
         Call(t, op, p, u)
      PROVE  CallSupport(t)'
  BY <1>2 DEF Call, CallOps, PostOps, Unused, TypeOK, KeepSend, historyVars
<1>3. ASSUME NEW op \in Ops, NEW p \in Packets \cup {NoPacket}, NEW u \in 1..unique,
         PostPacket(t, op, p, u)
      PROVE  CallSupport(t)'
  BY <1>3 DEF PostPacket, TypeOK, Jobs, NoJob, sessionVars, historyVars, DropRefs, KeepSend
<1>4. ASSUME RecvCompletion(t) \/ SendCompletion(t) PROVE  CallSupport(t)'
  BY <1>4 DEF RecvCompletion, SendCompletion, TypeOK, Jobs, NoJob, sessionVars, historyVars, DropRefs, KeepSend
<1>5. ASSUME NEW j \in posts, TakePost(t, j) PROVE  CallSupport(t)'
  <2>1. CASE j.op = "SENDSIGN"
    BY <1>5, <2>1 DEF TakePost, TypeOK
  <2>2. CASE j.op # "SENDSIGN"
    <3>1. /\ pc'[t] = "dead?" /\ job'[t] = j /\ idOf' = idOf
      BY <1>5, <2>2 DEF TakePost, TypeOK, KeepSend, historyVars
    <3>2. QED
      BY <3>1, <2>2 DEF PostSupport, CallOps, PostOps
  <2>3. QED
    BY <2>1, <2>2
<1>6. ASSUME InitializePublish(t) PROVE  CallSupport(t)'
  BY <1>6 DEF InitializePublish, TypeOK, Jobs, NoJob, sessionVars, historyVars, DropRefs, KeepSend
<1>7. ASSUME FindStep(t) PROVE  CallSupport(t)'
  BY <1>7, SMTT(30), SMTT(30) DEF FindStep, AcquireDead, AcquireUnique, AlreadyCanceled, Refuse, Acquired, TypeOK, Jobs, NoJob, sessionVars, historyVars, DropRefs, KeepSend
<1>8. ASSUME EnqueueStep(t) PROVE  CallSupport(t)'
  BY <1>8, SMTT(30), SMTT(30) DEF EnqueueStep, EnqueueSendQ, Enqueue, PostSign, AfterEnqueue, TypeOK, Jobs, NoJob, sessionVars, historyVars, DropRefs, KeepSend
<1>9. ASSUME PostStep(t) PROVE  CallSupport(t)'
  <2>1. CASE LastFlag(t)
    BY <2>1 DEF LastFlag, TypeOK, NoJob
  <2>2. CASE LastCancelIO(t)
    BY <2>2 DEF LastCancelIO, TypeOK, NoJob
  <2>3. CASE SpinForSendFlag(t)
    BY <2>3 DEF SpinForSendFlag, TypeOK, NoJob
  <2>4. CASE TrySendFlag(t)
    BY <2>4 DEF TrySendFlag, TypeOK, NoJob
  <2>5. CASE FreeSentPacket(t)
    BY <2>5 DEF FreeSentPacket, TypeOK, NoJob
  <2>6. CASE DequeueSendQ(t)
    BY <2>6 DEF DequeueSendQ, TypeOK, NoJob
  <2>7. CASE SendQEmpty(t)
    BY <2>7 DEF SendQEmpty, TypeOK, NoJob
  <2>8. CASE SetSendFlagFalse(t)
    BY <2>8 DEF SetSendFlagFalse, TypeOK, NoJob
  <2>9. CASE WSASend(t)
    BY <2>9 DEF WSASend, TypeOK, NoJob, AfterPending
  <2>10. CASE RecheckCanceled(t)
    BY <2>10 DEF RecheckCanceled, TypeOK, NoJob, AfterPending
  <2>11. CASE SendCancelIO(t)
    BY <2>11 DEF SendCancelIO, TypeOK, NoJob
  <2>12. CASE SendFailed(t)
    BY <2>12 DEF SendFailed, TypeOK, NoJob
  <2>13. CASE SendFailedCancelIO(t)
    BY <2>13 DEF SendFailedCancelIO, TypeOK, NoJob
  <2>14. CASE SubIOCount(t)
    BY <2>14 DEF SubIOCount, TypeOK, NoJob, DropRefs
  <2>15. QED
    BY <1>9, <2>1, <2>2, <2>3, <2>4, <2>5, <2>6, <2>7, <2>8, <2>9, <2>10, <2>11, <2>12, <2>13, <2>14 DEF PostStep
<1>10. ASSUME CompletionStep(t) PROVE  CallSupport(t)'
  BY <1>10, ZenonT(40), ZenonT(40) DEF CompletionStep, OnSendComplete, SentCanceled, SentFlagFalse, OperationAborted, TypeOK, Jobs, NoJob, sessionVars, historyVars, DropRefs, KeepSend
<1>11. ASSUME ReleaseStep(t) PROVE  CallSupport(t)'
  BY <1>11, SMTT(30) DEF ReleaseStep, DisconnectFlag, DisconnectCancelIO, DecrementIOCount, SetDeleteFlag,
     Destroy, PushSessionIndex, TypeOK, Jobs, NoJob, sessionVars, historyVars, DropRefs, KeepSend
<1>12. QED
  BY <1>1, <1>2, <1>3, <1>4, <1>5, <1>6, <1>7, <1>8, <1>9, <1>10, <1>11
     DEF ThreadStep, GetQueuedCompletion, Continue

-----------------------------------------------------------------------------
(* The count, the delete flag and the slot.                                *)

\* The count stays exact; the flag is set by the thread that wins the compare and
\* exchange, at a count of zero, and cleared by the one that publishes.
LEMMA ThreadRefsExact ==
  ASSUME SendsFitMode, IInv, NEW t \in Threads, ThreadStep(t)
  PROVE  /\ RefsExact'
         /\ isDead' <=> IF InitializePublish(t) THEN FALSE
                        ELSE IF SetDeleteFlag(t) /\ IOcount = 0 THEN TRUE
                        ELSE isDead
<1>1. /\ IOcount \in 0 .. 2 * DELETE_FLAG_BIT - 1 /\ DELETE_FLAG_BIT \in Nat \ {0}
      /\ RefsExact
  BY ThreadsAssumption, FS_CardinalityType DEF IInv, TypeOK
<1>2. RefsHeld \in Nat /\ RefsHeld < DELETE_FLAG_BIT
  BY RefsBounded DEF IInv, Support
<1>3. \A r \in Threads \ {t} : pc'[r] = pc[r] /\ job'[r] = job[r]
  BY OthersStay DEF IInv
<1>4. OneCallEach' /\ \A j \in posts' : PostSupport(j)'
  BY ThreadOneCallEach, ThreadPostSupport DEF IInv, Support
<1>5. /\ RefsHeld' = RefsHeld + Delta(t)
      /\ RefsHeld' \in Nat
      /\ RefsHeld' < DELETE_FLAG_BIT
      /\ Delta(t) \in Int
  BY <1>3, <1>4, RefsChange DEF IInv, Support
<1>6. Counted(t)
  BY Accounts DEF IInv, Support
<1>7. CASE InitializePublish(t) /\ Delta(t) = 0
  <2>1. isDead
    BY <1>7 DEF InitializePublish, At, IInv, Support, SlotPlaced, Owners, OwnerPcs
  <2>2. IOcount' = IOcount % DELETE_FLAG_BIT
    BY <1>7 DEF InitializePublish
  <2>3. IOcount = RefsHeld + DELETE_FLAG_BIT
    BY <1>1, <2>1 DEF RefsExact
  <2>4. (RefsHeld + DELETE_FLAG_BIT) % DELETE_FLAG_BIT = RefsHeld
    BY <1>1, <1>2
  <2>5. QED
    BY <1>1, <1>2, <1>5, <1>7, <2>2, <2>3, <2>4 DEF RefsExact, isDead
<1>8. CASE SetDeleteFlag(t) /\ IOcount = 0 /\ Delta(t) = 0
  <2>1. ~InitializePublish(t)
    BY <1>8 DEF InitializePublish, SetDeleteFlag, At
  <2>2. IOcount' = DELETE_FLAG_BIT
    BY <1>8 DEF SetDeleteFlag
  <2>3. RefsHeld = 0
    BY <1>1, <1>2, <1>8 DEF RefsExact, isDead
  <2>4. QED
    BY <1>1, <1>5, <1>8, <2>1, <2>2, <2>3 DEF RefsExact, isDead
<1>9. CASE /\ ~InitializePublish(t)
           /\ ~(SetDeleteFlag(t) /\ IOcount = 0)
           /\ IOcount + Delta(t) \in 0 .. 2 * DELETE_FLAG_BIT - 1 => IOcount' = IOcount + Delta(t)
  <2>1. IOcount + Delta(t) = RefsHeld' + (IF isDead THEN DELETE_FLAG_BIT ELSE 0)
    BY <1>1, <1>2, <1>5 DEF RefsExact
  <2>2. IOcount' = RefsHeld' + (IF isDead THEN DELETE_FLAG_BIT ELSE 0)
    BY <1>1, <1>5, <1>9, <2>1
  <2>3. isDead' <=> isDead
    BY <1>1, <1>5, <2>2 DEF isDead
  <2>4. QED
    BY <1>9, <2>2, <2>3 DEF RefsExact
<1>10. InitializePublish(t) => IOcount' = IOcount % DELETE_FLAG_BIT /\ Delta(t) = 0
  <2>1. ASSUME InitializePublish(t)
        PROVE  Delta(t) = 0
    <3>1. recvIO = "none" /\ recvIO' = "posted"
      BY <2>1 DEF InitializePublish, At, IInv, Support, SlotPlaced, ReleasedClean, Owners, OwnerPcs
    <3>2. /\ Weight(pc[t], job[t].op) = 1 /\ Weight(pc'[t], job'[t].op) = 0
          /\ HeldBySend' = HeldBySend /\ posts' = posts
      BY <2>1, WeightOf DEF InitializePublish, At, Goto, IInv, TypeOK, HeldBySend
    <3>3. Cardinality(Signs)' = Cardinality(Signs) /\ Cardinality(Signs) \in Int
      <4>1. Signs' = Signs
        BY <3>2 DEF Signs
      <4>2. Cardinality(Signs) \in Int
        BY SignsFinite DEF Signs, IInv, Support, OneCallEach, PostSupport
      <4>3. QED
        BY <4>1, <4>2
    <3>4. Held(t) = 1 /\ Held(t)' = 0 /\ RecvWeight = 0 /\ RecvWeight' = 1
      BY <3>1, <3>2 DEF Held, Weight, RecvWeight
    <3>5. QED
      BY <3>2, <3>3, <3>4, HeldValues DEF Delta
  <2>2. QED
    BY <2>1 DEF InitializePublish
<1>11. SetDeleteFlag(t) => Delta(t) = 0
  <2>1. ASSUME SetDeleteFlag(t)
        PROVE  Delta(t) = 0
    <3>1. /\ Weight(pc[t], job[t].op) = 0 /\ Weight(pc'[t], job'[t].op) = 0
          /\ HeldBySend' = HeldBySend /\ posts' = posts /\ RecvWeight' = RecvWeight
      BY <2>1, WeightOf DEF SetDeleteFlag, At, Goto, IInv, TypeOK, HeldBySend, RecvWeight, ioVars
    <3>2. Cardinality(Signs)' = Cardinality(Signs) /\ Cardinality(Signs) \in Int
      BY <3>1, SignsFinite DEF Signs, IInv, Support, OneCallEach, PostSupport
    <3>3. Held(t) = 0 /\ Held(t)' = 0
      BY <3>1 DEF Held, Weight
    <3>4. QED
      BY <3>1, <3>2, <3>3, HeldValues DEF Delta
  <2>2. QED
    BY <2>1
<1>12. QED
  BY <1>6, <1>7, <1>8, <1>9, <1>10, <1>11 DEF Counted

LEMMA ThreadCountFits ==
  ASSUME SendsFitMode, IInv, NEW t \in Threads, ThreadStep(t)
  PROVE  IOcount' \in 0 .. 2 * DELETE_FLAG_BIT - 1
<1>1. \A r \in Threads \ {t} : pc'[r] = pc[r] /\ job'[r] = job[r]
  BY OthersStay DEF IInv
<1>2. OneCallEach' /\ \A j \in posts' : PostSupport(j)'
  BY ThreadOneCallEach, ThreadPostSupport DEF IInv, Support
<1>3. RefsHeld' \in Nat /\ RefsHeld' < DELETE_FLAG_BIT
  BY <1>1, <1>2, RefsChange DEF IInv, Support
<1>4. RefsExact'
  BY ThreadRefsExact
<1>5. QED
  BY <1>3, <1>4, ThreadsAssumption DEF RefsExact, isDead

\* A count of zero: nobody holds a reference of the session.
LEMMA ZeroMeansNobody ==
  ASSUME IInv, IOcount = 0
  PROVE  /\ ~isDead
         /\ \A r \in Threads : pc[r] \notin AlivePcs
         /\ sendIO = "none" /\ recvIO = "none" /\ Signs = {}
<1>1. ~isDead
  BY ThreadsAssumption, FS_CardinalityType DEF isDead
<1>2. RefsHeld = 0
  BY <1>1, RefsBounded DEF IInv, Support, RefsExact
<1>3. \A r \in Threads : Held(r) <= 0
  BY <1>2, RefsBounded DEF IInv, Support
<1>4. \A r \in Threads : pc[r] \notin AlivePcs
  BY <1>3 DEF AlivePcs, Held, HoldOne, HoldTwo, FindPcs, PostPcs, Refs
<1>5. QED
  BY <1>1, <1>2, <1>4, RefsBounded DEF IInv, Support

\* All steps but those of an owner: the slot keeps its place, and whoever knows of
\* a live session knew it before or has just seen it.
Plain(t) ==
  /\ isFree' = isFree
  /\ pc[t] \notin OwnerPcs /\ pc'[t] \notin OwnerPcs
  /\ pc'[t] \in AlivePcs => ~isDead
  /\ Signs' # {} => ~isDead

LEMMA MostArePlain ==
  ASSUME IInv, NEW t \in Threads, ThreadStep(t)
  PROVE  \/ Plain(t)
         \/ InitializeRef(t) \/ InitializePublish(t)
         \/ SetDeleteFlag(t) /\ IOcount = 0
         \/ Destroy(t) \/ PushSessionIndex(t)
<1> DEFINE Goal == \/ Plain(t)
                   \/ InitializeRef(t) \/ InitializePublish(t)
                   \/ SetDeleteFlag(t) /\ IOcount = 0
                   \/ Destroy(t) \/ PushSessionIndex(t)
<1>0. /\ TypeOK
      /\ pc[t] \in AlivePcs => ~isDead
      /\ Signs # {} => ~isDead
      /\ sendIO # "none" \/ recvIO # "none" => ~isDead
  BY DEF IInv, Support, SlotPlaced, ReleasedClean
<1> USE DEF Plain, At, Goto, OwnerPcs, AlivePcs, HoldTwo, PostPcs, TypeOK
<1>1. ASSUME InitializeRef(t) PROVE  Goal
  BY <1>1, <1>0 DEF InitializeRef, Signs, ioVars
<1>2. ASSUME NEW op \in Ops, NEW p \in Packets \cup {NoPacket}, NEW u \in 1..unique,
         Call(t, op, p, u)
      PROVE  Goal
  BY <1>2, <1>0 DEF Call, Signs, ioVars
<1>3. ASSUME NEW op \in Ops, NEW p \in Packets \cup {NoPacket}, NEW u \in 1..unique,
         PostPacket(t, op, p, u)
      PROVE  Goal
  <2>1. Signs' = Signs
    BY <1>3 DEF PostPacket, Signs, PostOps
  <2>2. QED
    BY <1>3, <2>1, <1>0 DEF PostPacket, TypeOK
<1>4. ASSUME RecvCompletion(t) \/ SendCompletion(t) PROVE  Goal
  BY <1>4, <1>0 DEF RecvCompletion, SendCompletion, Signs, ioVars
<1>5. ASSUME NEW j \in posts, TakePost(t, j) PROVE  Goal
  BY <1>5, <1>0 DEF TakePost, Signs, ioVars
<1>6. ASSUME InitializePublish(t) PROVE  Goal
  BY <1>6, <1>0 DEF InitializePublish, Signs, ioVars
<1>7. ASSUME FindStep(t) PROVE  Goal
  BY <1>7, <1>0 DEF FindStep, AcquireDead, AcquireUnique, AlreadyCanceled, Refuse, Acquired, Signs, ioVars
<1>8. ASSUME EnqueueStep(t) PROVE  Goal
  BY <1>8, <1>0 DEF EnqueueStep, EnqueueSendQ, Enqueue, PostSign, AfterEnqueue, Signs, ioVars
<1>9. ASSUME PostStep(t) PROVE  Goal
  <2>1. CASE LastFlag(t)
    BY <2>1, <1>0 DEF LastFlag, Signs, ioVars
  <2>2. CASE LastCancelIO(t)
    BY <2>2, <1>0 DEF LastCancelIO, Signs, ioVars
  <2>3. CASE SpinForSendFlag(t)
    BY <2>3, <1>0 DEF SpinForSendFlag, Signs, ioVars
  <2>4. CASE TrySendFlag(t)
    BY <2>4, <1>0 DEF TrySendFlag, Signs, ioVars
  <2>5. CASE FreeSentPacket(t)
    BY <2>5, <1>0 DEF FreeSentPacket, Signs, ioVars
  <2>6. CASE DequeueSendQ(t)
    BY <2>6, <1>0 DEF DequeueSendQ, Signs, ioVars
  <2>7. CASE SendQEmpty(t)
    BY <2>7, <1>0 DEF SendQEmpty, Signs, ioVars
  <2>8. CASE SetSendFlagFalse(t)
    BY <2>8, <1>0 DEF SetSendFlagFalse, Signs, ioVars
  <2>9. CASE WSASend(t)
    BY <2>9, <1>0 DEF WSASend, Signs, ioVars, AfterPending
  <2>10. CASE RecheckCanceled(t)
    BY <2>10, <1>0 DEF RecheckCanceled, Signs, ioVars, AfterPending
  <2>11. CASE SendCancelIO(t)
    BY <2>11, <1>0 DEF SendCancelIO, Signs, ioVars
  <2>12. CASE SendFailed(t)
    BY <2>12, <1>0 DEF SendFailed, Signs, ioVars
  <2>13. CASE SendFailedCancelIO(t)
    BY <2>13, <1>0 DEF SendFailedCancelIO, Signs, ioVars
  <2>14. CASE SubIOCount(t)
    BY <2>14, <1>0 DEF SubIOCount, Signs, ioVars, DropRefs
  <2>15. QED
    BY <1>9, <2>1, <2>2, <2>3, <2>4, <2>5, <2>6, <2>7, <2>8, <2>9, <2>10, <2>11, <2>12, <2>13, <2>14 DEF PostStep
<1>10. ASSUME CompletionStep(t) PROVE  Goal
  BY <1>10, <1>0 DEF CompletionStep, OnSendComplete, SentCanceled, SentFlagFalse, OperationAborted, Signs, ioVars
<1>11. ASSUME ReleaseStep(t) PROVE  Goal
  <2>1. CASE DisconnectFlag(t)
    BY <2>1, <1>0 DEF DisconnectFlag, Signs, ioVars
  <2>2. CASE DisconnectCancelIO(t)
    BY <2>2, <1>0 DEF DisconnectCancelIO, Signs, ioVars
  <2>3. CASE DecrementIOCount(t)
    BY <2>3, <1>0 DEF DecrementIOCount, Signs, ioVars, DropRefs
  <2>4. CASE SetDeleteFlag(t)
    BY <2>4, <1>0 DEF SetDeleteFlag, Signs, ioVars
  <2>5. CASE Destroy(t)
    BY <2>5, <1>0 DEF Destroy, Signs, ioVars
  <2>6. CASE PushSessionIndex(t)
    BY <2>6, <1>0 DEF PushSessionIndex, Signs, ioVars
  <2>7. QED
    BY <1>11, <2>1, <2>2, <2>3, <2>4, <2>5, <2>6 DEF ReleaseStep
<1>12. QED
  BY <1>1, <1>2, <1>3, <1>4, <1>5, <1>6, <1>7, <1>8, <1>9, <1>10, <1>11
     DEF ThreadStep, GetQueuedCompletion, Continue

LEMMA ThreadSlotPlaced ==
  ASSUME SendsFitMode, IInv, NEW t \in Threads, ThreadStep(t)
  PROVE  SlotPlaced'
<1>1. \A r \in Threads \ {t} : pc'[r] = pc[r]
  BY OthersStay DEF IInv
<1>2. isDead' <=> IF InitializePublish(t) THEN FALSE
                  ELSE IF SetDeleteFlag(t) /\ IOcount = 0 THEN TRUE
                  ELSE isDead
  BY ThreadRefsExact
<1>3. SlotPlaced /\ pc \in [Threads -> Pcs]
  BY DEF IInv, Support, TypeOK
<1> USE DEF SlotPlaced, Owners
<1>4. CASE InitializePublish(t)
  <2>1. pc[t] \in OwnerPcs /\ pc'[t] = "idle" /\ isFree' = isFree
    BY <1>3, <1>4 DEF InitializePublish, At, Goto, OwnerPcs
  <2>2. Owners' = {} /\ ~isFree
    BY <1>1, <1>3, <2>1 DEF OwnerPcs
  <2>3. QED
    BY <1>2, <1>4, <2>1, <2>2
<1>5. CASE SetDeleteFlag(t) /\ IOcount = 0
  <2>1. /\ ~isDead /\ Signs = {}
        /\ \A r \in Threads : pc[r] \notin AlivePcs
    BY <1>5, ZeroMeansNobody
  <2>2. pc'[t] = "destroy" /\ isFree' = isFree /\ Signs' = Signs /\ ~InitializePublish(t)
    BY <1>3, <1>5 DEF SetDeleteFlag, InitializePublish, At, Goto, ioVars, Signs
  <2>3. ~isFree /\ \A r \in Threads : pc[r] \notin OwnerPcs
    BY <1>3, <2>1
  <2>4. pc'[t] \in OwnerPcs /\ pc'[t] \notin AlivePcs
    BY <2>2 DEF OwnerPcs, AlivePcs, HoldTwo, PostPcs
  <2>5. Owners' = {t}
    BY <1>1, <2>3, <2>4
  <2>6. \A r \in Threads : pc'[r] \notin AlivePcs
    BY <1>1, <2>1, <2>4
  <2>7. QED
    BY <1>2, <1>5, <2>1, <2>2, <2>3, <2>5, <2>6
<1>6. CASE InitializeRef(t)
  <2>1. /\ pc'[t] = "publish" /\ isFree /\ ~isFree' /\ Signs' = Signs
        /\ ~InitializePublish(t) /\ ~SetDeleteFlag(t)
    BY <1>3, <1>6 DEF InitializeRef, SetDeleteFlag, InitializePublish, At, Goto, ioVars, Signs
  <2>2. pc'[t] \in OwnerPcs /\ pc'[t] \notin AlivePcs
    BY <2>1 DEF OwnerPcs, AlivePcs, HoldTwo, PostPcs
  <2>3. QED
    BY <1>1, <1>2, <1>3, <2>1, <2>2
<1>7. CASE Destroy(t) \/ PushSessionIndex(t)
  <2>1. /\ pc[t] \in OwnerPcs /\ pc'[t] \notin AlivePcs /\ Signs' = Signs
        /\ ~InitializePublish(t) /\ ~SetDeleteFlag(t)
        /\ \/ isFree' = isFree /\ pc'[t] \in OwnerPcs
           \/ isFree' = TRUE /\ pc'[t] \notin OwnerPcs
    BY <1>3, <1>7 DEF Destroy, PushSessionIndex, SetDeleteFlag, InitializePublish, At, Goto, ioVars,
       Signs, OwnerPcs, AlivePcs, HoldTwo, PostPcs
  <2>2. QED
    BY <1>1, <1>2, <1>3, <2>1
<1>8. CASE Plain(t) /\ ~InitializePublish(t) /\ ~(SetDeleteFlag(t) /\ IOcount = 0)
  <2>1. isDead' <=> isDead
    BY <1>2, <1>8
  <2>2. Owners' = Owners
    BY <1>1, <1>8 DEF Plain
  <2>3. QED
    BY <1>1, <1>3, <1>8, <2>1, <2>2 DEF Plain
<1>9. QED
  BY <1>4, <1>5, <1>6, <1>7, <1>8, MostArePlain

-----------------------------------------------------------------------------
(* Sending has one user, and nothing is aborted before its cancellation.   *)

\* A live session has no owner, so that its slot is not reset.
LEMMA ThreadOneSender ==
  ASSUME IInv, NEW t \in Threads, ThreadStep(t)
  PROVE  OneSender'
<1>stay. /\ TypeOK /\ OneSender
         /\ \A r \in Threads \ {t} : pc'[r] = pc[r]
  BY OthersStay DEF IInv
<1>dead. pc[t] = "destroy" => SendUsers = {} /\ sendIO = "none"
  BY DEF IInv, Support, SlotPlaced, ReleasedClean, Owners, OwnerPcs, SendUsers, AlivePcs, HoldTwo, PostPcs
<1> DEFINE UserPcs == {"free", "fill", "wsasend", "clear", "inc", "sent?", "sentclear"}
<1>same. ASSUME pc'[t] \in UserPcs => pc[t] \in UserPcs, isSending' = isSending,
                sendIO' # "none" => sendIO # "none"
         PROVE  OneSender'
  BY <1>stay, <1>same DEF OneSender, SendUsers
<1> HIDE DEF UserPcs
<1> USE DEF At, Goto, TypeOK
<1>1. ASSUME InitializeRef(t) PROVE  OneSender'
  BY <1>1, <1>same, <1>stay DEF InitializeRef, KeepSend, sendVars, historyVars, ioVars, sessionVars, UserPcs
<1>2. ASSUME NEW op \in Ops, NEW p \in Packets \cup {NoPacket}, NEW u \in 1..unique,
         Call(t, op, p, u)
      PROVE  OneSender'
  BY <1>2, <1>same, <1>stay DEF Call, KeepSend, sendVars, historyVars, ioVars, sessionVars, UserPcs
<1>3. ASSUME NEW op \in Ops, NEW p \in Packets \cup {NoPacket}, NEW u \in 1..unique,
         PostPacket(t, op, p, u)
      PROVE  OneSender'
  BY <1>3, <1>same, <1>stay DEF PostPacket, KeepSend, sendVars, historyVars, ioVars, sessionVars, UserPcs
<1>4. ASSUME RecvCompletion(t) \/ SendCompletion(t) PROVE  OneSender'
  <2>1. CASE RecvCompletion(t)
    BY <2>1, <1>same, <1>stay DEF RecvCompletion, KeepSend, sendVars, historyVars, ioVars, sessionVars, UserPcs
  <2>2. CASE SendCompletion(t)
    <3>1. SendUsers = {} /\ isSending /\ sendIO' = "none" /\ isSending' = isSending
      BY <2>2, <1>stay DEF SendCompletion, OneSender, KeepSend, sendVars
    <3>2. QED
      BY <3>1, <1>stay DEF OneSender, SendUsers
  <2>3. QED
    BY <1>4, <2>1, <2>2
<1>5. ASSUME NEW j \in posts, TakePost(t, j) PROVE  OneSender'
  BY <1>5, <1>same, <1>stay DEF TakePost, KeepSend, sendVars, historyVars, ioVars, sessionVars, UserPcs
<1>6. ASSUME InitializePublish(t) PROVE  OneSender'
  BY <1>6, <1>same, <1>stay DEF InitializePublish, KeepSend, sendVars, historyVars, ioVars, sessionVars, UserPcs
<1>7. ASSUME FindStep(t) PROVE  OneSender'
  <2>1. CASE AcquireDead(t)
    BY <2>1, <1>same, <1>stay DEF AcquireDead, KeepSend, sendVars, historyVars, ioVars, sessionVars, UserPcs, Refuse
  <2>2. CASE AcquireUnique(t)
    BY <2>2, <1>same, <1>stay DEF AcquireUnique, KeepSend, sendVars, historyVars, ioVars, sessionVars, UserPcs, Refuse, Acquired
  <2>3. CASE AlreadyCanceled(t)
    BY <2>3, <1>same, <1>stay DEF AlreadyCanceled, KeepSend, sendVars, historyVars, ioVars, sessionVars, UserPcs
  <2>4. QED
    BY <1>7, <2>1, <2>2, <2>3 DEF FindStep
<1>8. ASSUME EnqueueStep(t) PROVE  OneSender'
  <2>1. CASE EnqueueSendQ(t)
    BY <2>1, <1>same, <1>stay DEF EnqueueSendQ, KeepSend, sendVars, historyVars, ioVars, sessionVars, UserPcs
  <2>2. CASE Enqueue(t)
    BY <2>2, <1>same, <1>stay DEF Enqueue, KeepSend, sendVars, historyVars, ioVars, sessionVars, UserPcs, AfterEnqueue
  <2>3. CASE PostSign(t)
    BY <2>3, <1>same, <1>stay DEF PostSign, KeepSend, sendVars, historyVars, ioVars, sessionVars, UserPcs
  <2>4. QED
    BY <1>8, <2>1, <2>2, <2>3 DEF EnqueueStep
<1>9. ASSUME PostStep(t) PROVE  OneSender'
  <2>1. CASE LastFlag(t)
    BY <2>1, <1>same, <1>stay DEF LastFlag, KeepSend, sendVars, historyVars, ioVars, sessionVars, UserPcs
  <2>2. CASE LastCancelIO(t)
    BY <2>2, <1>same, <1>stay DEF LastCancelIO, KeepSend, sendVars, historyVars, ioVars, sessionVars, UserPcs, CancelIO, Aborted
  <2>3. CASE SpinForSendFlag(t)
    BY <2>3, <1>stay DEF SpinForSendFlag, OneSender, SendUsers, KeepSend, sendVars, historyVars, ioVars, sessionVars
  <2>4. CASE TrySendFlag(t)
    BY <2>4, <1>stay DEF TrySendFlag, OneSender, SendUsers, KeepSend, sendVars, historyVars, ioVars, sessionVars
  <2>5. CASE FreeSentPacket(t)
    BY <2>5, <1>same, <1>stay DEF FreeSentPacket, KeepSend, sendVars, historyVars, ioVars, sessionVars, UserPcs
  <2>6. CASE DequeueSendQ(t)
    BY <2>6, <1>same, <1>stay DEF DequeueSendQ, KeepSend, sendVars, historyVars, ioVars, sessionVars, UserPcs
  <2>7. CASE SendQEmpty(t)
    BY <2>7, <1>same, <1>stay DEF SendQEmpty, KeepSend, sendVars, historyVars, ioVars, sessionVars, UserPcs
  <2>8. CASE SetSendFlagFalse(t)
    BY <2>8, <1>stay DEF SetSendFlagFalse, OneSender, SendUsers, KeepSend, sendVars, historyVars, ioVars, sessionVars
  <2>9. CASE WSASend(t)
    <3>1. pc[t] = "wsasend" /\ pc'[t] \notin UserPcs /\ isSending' = isSending
      BY <2>9, <1>stay DEF WSASend, AfterPending, UserPcs, sendVars
    <3>2. t \in SendUsers
      BY <3>1 DEF SendUsers
    <3>3. SendUsers' = {}
      BY <3>1, <3>2, <1>stay DEF OneSender, SendUsers, UserPcs
    <3>4. QED
      BY <3>1, <3>2, <3>3, <1>stay DEF OneSender
  <2>10. CASE RecheckCanceled(t)
    BY <2>10, <1>same, <1>stay DEF RecheckCanceled, KeepSend, sendVars, historyVars, ioVars, sessionVars, UserPcs, AfterPending
  <2>11. CASE SendCancelIO(t)
    BY <2>11, <1>same, <1>stay DEF SendCancelIO, KeepSend, sendVars, historyVars, ioVars, sessionVars, UserPcs, CancelIO, Aborted
  <2>12. CASE SendFailed(t)
    BY <2>12, <1>same, <1>stay DEF SendFailed, KeepSend, sendVars, historyVars, ioVars, sessionVars, UserPcs
  <2>13. CASE SendFailedCancelIO(t)
    BY <2>13, <1>same, <1>stay DEF SendFailedCancelIO, KeepSend, sendVars, historyVars, ioVars, sessionVars, UserPcs, CancelIO, Aborted
  <2>14. CASE SubIOCount(t)
    BY <2>14, <1>same, <1>stay DEF SubIOCount, KeepSend, sendVars, historyVars, ioVars, sessionVars, UserPcs, DropRefs
  <2>15. QED
    BY <1>9, <2>1, <2>2, <2>3, <2>4, <2>5, <2>6, <2>7, <2>8, <2>9, <2>10, <2>11, <2>12, <2>13, <2>14 DEF PostStep
<1>10. ASSUME CompletionStep(t) PROVE  OneSender'
  <2>1. CASE OnSendComplete(t)
    BY <2>1, <1>same, <1>stay DEF OnSendComplete, KeepSend, sendVars, historyVars, ioVars, sessionVars, UserPcs
  <2>2. CASE SentCanceled(t)
    BY <2>2, <1>same, <1>stay DEF SentCanceled, KeepSend, sendVars, historyVars, ioVars, sessionVars, UserPcs
  <2>3. CASE SentFlagFalse(t)
    BY <2>3, <1>stay DEF SentFlagFalse, OneSender, SendUsers, KeepSend, sendVars, historyVars, ioVars, sessionVars
  <2>4. CASE OperationAborted(t)
    BY <2>4, <1>same, <1>stay DEF OperationAborted, KeepSend, sendVars, historyVars, ioVars, sessionVars, UserPcs
  <2>5. QED
    BY <1>10, <2>1, <2>2, <2>3, <2>4 DEF CompletionStep
<1>11. ASSUME ReleaseStep(t) PROVE  OneSender'
  <2>1. CASE DisconnectFlag(t)
    BY <2>1, <1>same, <1>stay DEF DisconnectFlag, KeepSend, sendVars, historyVars, ioVars, sessionVars, UserPcs
  <2>2. CASE DisconnectCancelIO(t)
    BY <2>2, <1>same, <1>stay DEF DisconnectCancelIO, KeepSend, sendVars, historyVars, ioVars, sessionVars, UserPcs, CancelIO, Aborted
  <2>3. CASE DecrementIOCount(t)
    BY <2>3, <1>same, <1>stay DEF DecrementIOCount, KeepSend, sendVars, historyVars, ioVars, sessionVars, UserPcs, DropRefs
  <2>4. CASE SetDeleteFlag(t)
    BY <2>4, <1>same, <1>stay DEF SetDeleteFlag, KeepSend, sendVars, historyVars, ioVars, sessionVars, UserPcs
  <2>5. CASE Destroy(t)
    BY <2>5, <1>stay, <1>dead DEF Destroy, OneSender, SendUsers, KeepSend, sendVars, historyVars, ioVars, sessionVars
  <2>6. CASE PushSessionIndex(t)
    BY <2>6, <1>same, <1>stay DEF PushSessionIndex, KeepSend, sendVars, historyVars, ioVars, sessionVars, UserPcs
  <2>7. QED
    BY <1>11, <2>1, <2>2, <2>3, <2>4, <2>5, <2>6 DEF ReleaseStep
<1>12. QED
  BY <1>1, <1>2, <1>3, <1>4, <1>5, <1>6, <1>7, <1>8, <1>9, <1>10, <1>11
     DEF ThreadStep, GetQueuedCompletion, Continue

\* The positions after the test or the setting of isIOCanceled_ are those of a live
\* session: nobody resets it under them.
LEMMA ThreadCanceledBefore ==
  ASSUME IInv, NEW t \in Threads, ThreadStep(t)
  PROVE  CanceledBefore' /\ NeverQuits'
<1> DEFINE Goal == CanceledBefore' /\ NeverQuits'
<1>stay. /\ TypeOK /\ CanceledBefore /\ NeverQuits
         /\ \A r \in Threads \ {t} : pc'[r] = pc[r]
  BY OthersStay DEF IInv, Support
<1>dead. pc[t] = "publish" =>
           /\ sendIO = "none" /\ recvIO = "none"
           /\ \A r \in Threads : pc[r] \notin {"lastcancel", "recancel", "failcancel", "cancel", "abort"}
  BY DEF IInv, Support, SlotPlaced, ReleasedClean, Owners, OwnerPcs, AlivePcs, HoldTwo, PostPcs
<1> USE DEF CanceledBefore, NeverQuits, At, Goto, TypeOK
<1>1. ASSUME InitializeRef(t) PROVE  Goal
  BY <1>1, <1>stay DEF InitializeRef, KeepSend, sendVars, historyVars, ioVars, sessionVars
<1>2. ASSUME NEW op \in Ops, NEW p \in Packets \cup {NoPacket}, NEW u \in 1..unique,
         Call(t, op, p, u)
      PROVE  Goal
  BY <1>2, <1>stay DEF Call, KeepSend, sendVars, historyVars, ioVars, sessionVars
<1>3. ASSUME NEW op \in Ops, NEW p \in Packets \cup {NoPacket}, NEW u \in 1..unique,
         PostPacket(t, op, p, u)
      PROVE  Goal
  BY <1>3, <1>stay DEF PostPacket, KeepSend, sendVars, historyVars, ioVars, sessionVars
<1>4. ASSUME RecvCompletion(t) \/ SendCompletion(t) PROVE  Goal
  BY <1>4, <1>stay DEF RecvCompletion, SendCompletion, KeepSend, sendVars, historyVars, ioVars, sessionVars
<1>5. ASSUME NEW j \in posts, TakePost(t, j) PROVE  Goal
  BY <1>5, <1>stay DEF TakePost, KeepSend, sendVars, historyVars, ioVars, sessionVars
<1>6. ASSUME InitializePublish(t) PROVE  Goal
  BY <1>6, <1>stay, <1>dead DEF InitializePublish, KeepSend, sendVars, historyVars, ioVars, sessionVars
<1>7. ASSUME FindStep(t) PROVE  Goal
  BY <1>7, <1>stay DEF FindStep, AcquireDead, AcquireUnique, AlreadyCanceled, Refuse, Acquired, KeepSend, sendVars, historyVars, ioVars, sessionVars
<1>8. ASSUME EnqueueStep(t) PROVE  Goal
  BY <1>8, <1>stay DEF EnqueueStep, EnqueueSendQ, Enqueue, PostSign, AfterEnqueue, KeepSend, sendVars, historyVars, ioVars, sessionVars
<1>9. ASSUME PostStep(t) PROVE  Goal
  <2>1. CASE LastFlag(t)
    BY <2>1, <1>stay DEF LastFlag, KeepSend, sendVars, historyVars, ioVars, sessionVars
  <2>2. CASE LastCancelIO(t)
    BY <2>2, <1>stay DEF LastCancelIO, KeepSend, sendVars, historyVars, ioVars, sessionVars, CancelIO, Aborted
  <2>3. CASE SpinForSendFlag(t)
    BY <2>3, <1>stay DEF SpinForSendFlag, KeepSend, sendVars, historyVars, ioVars, sessionVars
  <2>4. CASE TrySendFlag(t)
    BY <2>4, <1>stay DEF TrySendFlag, KeepSend, sendVars, historyVars, ioVars, sessionVars
  <2>5. CASE FreeSentPacket(t)
    BY <2>5, <1>stay DEF FreeSentPacket, KeepSend, sendVars, historyVars, ioVars, sessionVars
  <2>6. CASE DequeueSendQ(t)
    BY <2>6, <1>stay DEF DequeueSendQ, KeepSend, sendVars, historyVars, ioVars, sessionVars
  <2>7. CASE SendQEmpty(t)
    BY <2>7, <1>stay DEF SendQEmpty, KeepSend, sendVars, historyVars, ioVars, sessionVars
  <2>8. CASE SetSendFlagFalse(t)
    BY <2>8, <1>stay DEF SetSendFlagFalse, KeepSend, sendVars, historyVars, ioVars, sessionVars
  <2>9. CASE WSASend(t)
    BY <2>9, <1>stay DEF WSASend, KeepSend, sendVars, historyVars, ioVars, sessionVars, AfterPending
  <2>10. CASE RecheckCanceled(t)
    BY <2>10, <1>stay DEF RecheckCanceled, KeepSend, sendVars, historyVars, ioVars, sessionVars, AfterPending
  <2>11. CASE SendCancelIO(t)
    BY <2>11, <1>stay DEF SendCancelIO, KeepSend, sendVars, historyVars, ioVars, sessionVars, CancelIO, Aborted
  <2>12. CASE SendFailed(t)
    BY <2>12, <1>stay DEF SendFailed, KeepSend, sendVars, historyVars, ioVars, sessionVars
  <2>13. CASE SendFailedCancelIO(t)
    BY <2>13, <1>stay DEF SendFailedCancelIO, KeepSend, sendVars, historyVars, ioVars, sessionVars, CancelIO, Aborted
  <2>14. CASE SubIOCount(t)
    BY <2>14, <1>stay DEF SubIOCount, KeepSend, sendVars, historyVars, ioVars, sessionVars, DropRefs
  <2>15. QED
    BY <1>9, <2>1, <2>2, <2>3, <2>4, <2>5, <2>6, <2>7, <2>8, <2>9, <2>10, <2>11, <2>12, <2>13, <2>14 DEF PostStep
<1>10. ASSUME CompletionStep(t) PROVE  Goal
  BY <1>10, <1>stay DEF CompletionStep, OnSendComplete, SentCanceled, SentFlagFalse, OperationAborted, KeepSend, sendVars, historyVars, ioVars, sessionVars
<1>11. ASSUME ReleaseStep(t) PROVE  Goal
  <2>1. CASE DisconnectFlag(t)
    BY <2>1, <1>stay DEF DisconnectFlag, KeepSend, sendVars, historyVars, ioVars, sessionVars
  <2>2. CASE DisconnectCancelIO(t)
    BY <2>2, <1>stay DEF DisconnectCancelIO, KeepSend, sendVars, historyVars, ioVars, sessionVars, CancelIO, Aborted
  <2>3. CASE DecrementIOCount(t)
    BY <2>3, <1>stay DEF DecrementIOCount, KeepSend, sendVars, historyVars, ioVars, sessionVars, DropRefs
  <2>4. CASE SetDeleteFlag(t)
    BY <2>4, <1>stay DEF SetDeleteFlag, KeepSend, sendVars, historyVars, ioVars, sessionVars
  <2>5. CASE Destroy(t)
    BY <2>5, <1>stay DEF Destroy, KeepSend, sendVars, historyVars, ioVars, sessionVars
  <2>6. CASE PushSessionIndex(t)
    BY <2>6, <1>stay DEF PushSessionIndex, KeepSend, sendVars, historyVars, ioVars, sessionVars
  <2>7. QED
    BY <1>11, <2>1, <2>2, <2>3, <2>4, <2>5, <2>6 DEF ReleaseStep
<1>12. QED
  BY <1>1, <1>2, <1>3, <1>4, <1>5, <1>6, <1>7, <1>8, <1>9, <1>10, <1>11
     DEF ThreadStep, GetQueuedCompletion, Continue

LEMMA ThreadModeKept ==
  ASSUME SendsFitMode, IInv, NEW t \in Threads, ThreadStep(t)
  PROVE  ModeKept'
<1>stay. /\ TypeOK /\ ModeKept
         /\ \A r \in Threads \ {t} : pc'[r] = pc[r]
  BY OthersStay DEF IInv, Support
<1> USE DEF ModeKept, At, Goto, TypeOK
<1>1. ASSUME InitializeRef(t) PROVE  ModeKept'
  BY <1>1, <1>stay DEF InitializeRef, KeepSend, sendVars, historyVars, ioVars, sessionVars
<1>2. ASSUME NEW op \in Ops, NEW p \in Packets \cup {NoPacket}, NEW u \in 1..unique,
         Call(t, op, p, u)
      PROVE  ModeKept'
  BY <1>2, <1>stay DEF Call, KeepSend, sendVars, historyVars, ioVars, sessionVars
<1>3. ASSUME NEW op \in Ops, NEW p \in Packets \cup {NoPacket}, NEW u \in 1..unique,
         PostPacket(t, op, p, u)
      PROVE  ModeKept'
  BY <1>3, <1>stay DEF PostPacket, KeepSend, sendVars, historyVars, ioVars, sessionVars
<1>4. ASSUME RecvCompletion(t) \/ SendCompletion(t) PROVE  ModeKept'
  BY <1>4, <1>stay DEF RecvCompletion, SendCompletion, KeepSend, sendVars, historyVars, ioVars, sessionVars
<1>5. ASSUME NEW j \in posts, TakePost(t, j) PROVE  ModeKept'
  BY <1>5, <1>stay DEF TakePost, KeepSend, sendVars, historyVars, ioVars, sessionVars
<1>6. ASSUME InitializePublish(t) PROVE  ModeKept'
  BY <1>6, <1>stay DEF InitializePublish, KeepSend, sendVars, historyVars, ioVars, sessionVars
<1>7. ASSUME FindStep(t) PROVE  ModeKept'
  BY <1>7, <1>stay DEF FindStep, AcquireDead, AcquireUnique, AlreadyCanceled, Refuse, Acquired, KeepSend, sendVars, historyVars, ioVars, sessionVars
<1>8. ASSUME EnqueueStep(t) PROVE  ModeKept'
  BY <1>8, <1>stay DEF EnqueueStep, EnqueueSendQ, Enqueue, PostSign, AfterEnqueue, KeepSend, sendVars, historyVars, ioVars, sessionVars
<1>9. ASSUME PostStep(t) PROVE  ModeKept'
  <2>1. CASE LastFlag(t)
    BY <2>1, <1>stay DEF LastFlag, KeepSend, sendVars, historyVars, ioVars, sessionVars
  <2>2. CASE LastCancelIO(t)
    BY <2>2, <1>stay DEF LastCancelIO, KeepSend, sendVars, historyVars, ioVars, sessionVars, CancelIO, Aborted
  <2>3. CASE SpinForSendFlag(t)
    BY <2>3, <1>stay DEF SpinForSendFlag, KeepSend, sendVars, historyVars, ioVars, sessionVars
  <2>4. CASE TrySendFlag(t)
    BY <2>4, <1>stay DEF TrySendFlag, KeepSend, sendVars, historyVars, ioVars, sessionVars
  <2>5. CASE FreeSentPacket(t)
    BY <2>5, <1>stay DEF FreeSentPacket, KeepSend, sendVars, historyVars, ioVars, sessionVars
  <2>6. CASE DequeueSendQ(t)
    BY <2>6, <1>stay DEF DequeueSendQ, KeepSend, sendVars, historyVars, ioVars, sessionVars
  <2>7. CASE SendQEmpty(t)
    BY <2>7, <1>stay DEF SendQEmpty, KeepSend, sendVars, historyVars, ioVars, sessionVars
  <2>8. CASE SetSendFlagFalse(t)
    BY <2>8, <1>stay DEF SetSendFlagFalse, KeepSend, sendVars, historyVars, ioVars, sessionVars
  <2>9. CASE WSASend(t)
    BY <2>9, <1>stay DEF WSASend, KeepSend, sendVars, historyVars, ioVars, sessionVars, AfterPending, SendsFitMode
  <2>10. CASE RecheckCanceled(t)
    BY <2>10, <1>stay DEF RecheckCanceled, KeepSend, sendVars, historyVars, ioVars, sessionVars, AfterPending
  <2>11. CASE SendCancelIO(t)
    BY <2>11, <1>stay DEF SendCancelIO, KeepSend, sendVars, historyVars, ioVars, sessionVars, CancelIO, Aborted
  <2>12. CASE SendFailed(t)
    BY <2>12, <1>stay DEF SendFailed, KeepSend, sendVars, historyVars, ioVars, sessionVars
  <2>13. CASE SendFailedCancelIO(t)
    BY <2>13, <1>stay DEF SendFailedCancelIO, KeepSend, sendVars, historyVars, ioVars, sessionVars, CancelIO, Aborted
  <2>14. CASE SubIOCount(t)
    BY <2>14, <1>stay DEF SubIOCount, KeepSend, sendVars, historyVars, ioVars, sessionVars, DropRefs
  <2>15. QED
    BY <1>9, <2>1, <2>2, <2>3, <2>4, <2>5, <2>6, <2>7, <2>8, <2>9, <2>10, <2>11, <2>12, <2>13, <2>14 DEF PostStep
<1>10. ASSUME CompletionStep(t) PROVE  ModeKept'
  BY <1>10, <1>stay DEF CompletionStep, OnSendComplete, SentCanceled, SentFlagFalse, OperationAborted, KeepSend, sendVars, historyVars, ioVars, sessionVars
<1>11. ASSUME ReleaseStep(t) PROVE  ModeKept'
  <2>1. CASE DisconnectFlag(t)
    BY <2>1, <1>stay DEF DisconnectFlag, KeepSend, sendVars, historyVars, ioVars, sessionVars
  <2>2. CASE DisconnectCancelIO(t)
    BY <2>2, <1>stay DEF DisconnectCancelIO, KeepSend, sendVars, historyVars, ioVars, sessionVars, CancelIO, Aborted
  <2>3. CASE DecrementIOCount(t)
    BY <2>3, <1>stay DEF DecrementIOCount, KeepSend, sendVars, historyVars, ioVars, sessionVars, DropRefs
  <2>4. CASE SetDeleteFlag(t)
    BY <2>4, <1>stay DEF SetDeleteFlag, KeepSend, sendVars, historyVars, ioVars, sessionVars
  <2>5. CASE Destroy(t)
    BY <2>5, <1>stay DEF Destroy, KeepSend, sendVars, historyVars, ioVars, sessionVars
  <2>6. CASE PushSessionIndex(t)
    BY <2>6, <1>stay DEF PushSessionIndex, KeepSend, sendVars, historyVars, ioVars, sessionVars
  <2>7. QED
    BY <1>11, <2>1, <2>2, <2>3, <2>4, <2>5, <2>6 DEF ReleaseStep
<1>12. QED
  BY <1>1, <1>2, <1>3, <1>4, <1>5, <1>6, <1>7, <1>8, <1>9, <1>10, <1>11
     DEF ThreadStep, GetQueuedCompletion, Continue

\* What the others know of their calls is not disturbed: each has its own packet.
LEMMA BystanderCallSupport ==
  ASSUME IInv, NEW t \in Threads, ThreadStep(t), NEW r \in Threads \ {t}
  PROVE  CallSupport(r)'
<1>stay. /\ TypeOK /\ CallSupport(r) /\ CallSupport(t)
         /\ pc'[r] = pc[r] /\ job'[r] = job[r]
         /\ job[r].packet = job[t].packet => job[r].packet = NoPacket
  BY OthersStay DEF IInv, Support, OneCallEach
<1>dead. pc[t] = "publish" => pc[r] \notin {"enqueue", "link", "publish"}
  BY DEF IInv, Support, SlotPlaced, Owners, OwnerPcs, AlivePcs, HoldTwo, PostPcs
<1> USE DEF CallSupport, At, Goto, Begin, TypeOK, FindPcs, OwnerPcs
<1>1. ASSUME InitializeRef(t) PROVE  CallSupport(r)'
  BY <1>1, <1>stay DEF InitializeRef, KeepSend, sendVars, historyVars, ioVars, sessionVars
<1>2. ASSUME NEW op \in Ops, NEW p \in Packets \cup {NoPacket}, NEW u \in 1..unique,
         Call(t, op, p, u)
      PROVE  CallSupport(r)'
  BY <1>2, <1>stay DEF Call, KeepSend, sendVars, historyVars, ioVars, sessionVars
<1>3. ASSUME NEW op \in Ops, NEW p \in Packets \cup {NoPacket}, NEW u \in 1..unique,
         PostPacket(t, op, p, u)
      PROVE  CallSupport(r)'
  BY <1>3, <1>stay DEF PostPacket, Unused, PostOps, KeepSend, sendVars, historyVars, ioVars, sessionVars
<1>4. ASSUME RecvCompletion(t) \/ SendCompletion(t) PROVE  CallSupport(r)'
  BY <1>4, <1>stay DEF RecvCompletion, SendCompletion, KeepSend, sendVars, historyVars, ioVars, sessionVars
<1>5. ASSUME NEW j \in posts, TakePost(t, j) PROVE  CallSupport(r)'
  BY <1>5, <1>stay DEF TakePost, KeepSend, sendVars, historyVars, ioVars, sessionVars
<1>6. ASSUME InitializePublish(t) PROVE  CallSupport(r)'
  BY <1>6, <1>stay, <1>dead DEF InitializePublish, KeepSend, sendVars, historyVars, ioVars, sessionVars
<1>7. ASSUME FindStep(t) PROVE  CallSupport(r)'
  <2>1. CASE AcquireDead(t)
    BY <2>1, <1>stay DEF AcquireDead, KeepSend, sendVars, historyVars, ioVars, sessionVars, Refuse
  <2>2. CASE AcquireUnique(t)
    BY <2>2, <1>stay DEF AcquireUnique, KeepSend, sendVars, historyVars, ioVars, sessionVars, Refuse, Acquired, Jobs, CallOps, PostOps
  <2>3. CASE AlreadyCanceled(t)
    BY <2>3, <1>stay DEF AlreadyCanceled, KeepSend, sendVars, historyVars, ioVars, sessionVars
  <2>4. QED
    BY <1>7, <2>1, <2>2, <2>3 DEF FindStep
<1>8. ASSUME EnqueueStep(t) PROVE  CallSupport(r)'
  BY <1>8, <1>stay DEF EnqueueStep, EnqueueSendQ, Enqueue, PostSign, AfterEnqueue, KeepSend, sendVars, historyVars, ioVars, sessionVars
<1>9. ASSUME PostStep(t) PROVE  CallSupport(r)'
  BY <1>9, <1>stay DEF PostStep, LastFlag, LastCancelIO, SpinForSendFlag, TrySendFlag, FreeSentPacket,
     DequeueSendQ, SendQEmpty, SetSendFlagFalse, WSASend, RecheckCanceled, SendCancelIO,
     SendFailed, SendFailedCancelIO, SubIOCount, KeepSend, sendVars, historyVars, ioVars, sessionVars
<1>10. ASSUME CompletionStep(t) PROVE  CallSupport(r)'
  BY <1>10, <1>stay DEF CompletionStep, OnSendComplete, SentCanceled, SentFlagFalse, OperationAborted, KeepSend, sendVars, historyVars, ioVars, sessionVars
<1>11. ASSUME ReleaseStep(t) PROVE  CallSupport(r)'
  BY <1>11, <1>stay DEF ReleaseStep, DisconnectFlag, DisconnectCancelIO, DecrementIOCount, SetDeleteFlag,
     Destroy, PushSessionIndex, KeepSend, sendVars, historyVars, ioVars, sessionVars
<1>12. QED
  BY <1>1, <1>2, <1>3, <1>4, <1>5, <1>6, <1>7, <1>8, <1>9, <1>10, <1>11
     DEF ThreadStep, GetQueuedCompletion, Continue

-----------------------------------------------------------------------------
(* The packets in a queue.                                                 *)

LEMMA CountInQueue ==
  ASSUME NEW q \in Seq(Packets), NEW p
  PROVE  /\ IsFiniteSet({i \in DOMAIN q : q[i] = p})
         /\ Count(q, p) \in Nat
         /\ Count(q, p) = 0 <=> p \notin Elements(q)
<1> DEFINE S == {i \in DOMAIN q : q[i] = p}
<1>1. IsFiniteSet(S)
  BY FS_Interval, FS_Subset, LenProperties
<1>2. Cardinality(S) \in Nat /\ (Cardinality(S) = 0 <=> S = {})
  BY <1>1, FS_CardinalityType, FS_EmptySet
<1>3. S = {} <=> p \notin Elements(q)
  BY DEF Elements
<1>4. QED
  BY <1>1, <1>2, <1>3 DEF Count

LEMMA CountEmpty ==
  ASSUME NEW p
  PROVE  Count(<<>>, p) = 0 /\ Elements(<<>>) = {}
<1>1. {i \in DOMAIN <<>> : <<>>[i] = p} = {} /\ Elements(<<>>) = {}
  BY DEF Elements
<1>2. QED
  BY <1>1, FS_EmptySet DEF Count

LEMMA CountAppend ==
  ASSUME NEW q \in Seq(Packets), NEW x \in Packets, NEW p
  PROVE  /\ Append(q, x) \in Seq(Packets)
         /\ Elements(Append(q, x)) = Elements(q) \cup {x}
         /\ Count(Append(q, x), p) = Count(q, p) + (IF x = p THEN 1 ELSE 0)
<1> DEFINE a == Append(q, x)
           S == {i \in DOMAIN q : q[i] = p}
           T == {i \in DOMAIN a : a[i] = p}
           n == Len(q) + 1
<1>1. /\ a \in Seq(Packets) /\ DOMAIN a = DOMAIN q \cup {n} /\ n \notin DOMAIN q
      /\ a[n] = x /\ \A i \in DOMAIN q : a[i] = q[i]
  BY AppendProperties, LenProperties
<1>2. Elements(a) = Elements(q) \cup {x}
  BY <1>1 DEF Elements
<1>3. S \subseteq T \cup {n} /\ T \subseteq S \cup {n} /\ n \notin S /\ (n \in T <=> x = p)
  BY <1>1
<1>4. IsFiniteSet(S)
  BY CountInQueue
<1>5. Cardinality(S) \in Nat /\ Cardinality(T) = Cardinality(S) + (IF x = p THEN 1 ELSE 0)
  <2> HIDE DEF S, T
  <2>1. /\ Cardinality(S) \in Nat
        /\ Cardinality(T) = Cardinality(S) + (IF n \in T THEN 1 ELSE 0) - (IF n \in S THEN 1 ELSE 0)
    BY <1>3, <1>4, CardinalityOfNeighbours
  <2>2. QED
    BY <2>1, <1>3
<1>6. QED
  BY <1>1, <1>2, <1>5 DEF Count

LEMMA CountHead ==
  ASSUME NEW q \in Seq(Packets), q # <<>>, NEW p
  PROVE  /\ Head(q) \in Packets /\ Tail(q) \in Seq(Packets)
         /\ Elements(q) = Elements(Tail(q)) \cup {Head(q)}
         /\ Count(q, p) = Count(Tail(q), p) + (IF Head(q) = p THEN 1 ELSE 0)
<1> DEFINE r == Tail(q)
           S == {i \in DOMAIN q : q[i] = p}
           T == {i \in DOMAIN r : r[i] = p}
           U == S \ {1}
           f == [i \in T |-> i + 1]
<1>1. /\ Head(q) \in Packets /\ r \in Seq(Packets) /\ Head(q) = q[1] /\ Len(q) \in Nat /\ Len(q) >= 1
      /\ DOMAIN q = 1..Len(q) /\ DOMAIN r = 1..(Len(q) - 1)
      /\ \A i \in DOMAIN r : r[i] = q[i + 1]
  BY HeadTailProperties, LenProperties, EmptySeq
<1>2. Elements(q) = Elements(r) \cup {Head(q)}
  <2>1. Elements(q) \subseteq Elements(r) \cup {Head(q)}
    <3>1. ASSUME NEW i \in DOMAIN q
          PROVE  q[i] \in Elements(r) \cup {Head(q)}
      <4>1. CASE i = 1
        BY <4>1, <1>1
      <4>2. CASE i # 1
        <5>1. i - 1 \in DOMAIN r /\ r[i - 1] = q[i]
          BY <4>2, <1>1
        <5>2. QED
          BY <5>1 DEF Elements
      <4>3. QED
        BY <4>1, <4>2
    <3>2. QED
      BY <3>1 DEF Elements
  <2>2. Elements(r) \cup {Head(q)} \subseteq Elements(q)
    <3>1. \A i \in DOMAIN r : i + 1 \in DOMAIN q
      BY <1>1
    <3>2. 1 \in DOMAIN q
      BY <1>1
    <3>3. QED
      BY <1>1, <3>1, <3>2 DEF Elements
  <2>3. QED
    BY <2>1, <2>2
<1>3. f \in Bijection(T, U)
  <2>1. f \in [T -> U]
    BY <1>1
  <2>2. \A i, j \in T : f[i] = f[j] => i = j
    BY <1>1
  <2>3. \A k \in U : \E i \in T : f[i] = k
    <3>1. ASSUME NEW k \in U
          PROVE  k - 1 \in T /\ f[k - 1] = k
      BY <1>1
    <3>2. QED
      BY <3>1
  <2>4. QED
    BY <2>1, <2>2, <2>3, Fun_IsBij
<1>4. IsFiniteSet(T) /\ IsFiniteSet(S)
  BY CountInQueue, <1>1
<1>5. IsFiniteSet(U) /\ Cardinality(U) = Cardinality(T)
  <2> HIDE DEF T, U, f
  <2>1. ExistsBijection(T, U)
    BY <1>3 DEF ExistsBijection
  <2>2. QED
    BY <2>1, <1>4, FS_Bijection
<1>6. 1 \in S <=> Head(q) = p
  BY <1>1
<1>7. Cardinality(S) = Cardinality(T) + (IF Head(q) = p THEN 1 ELSE 0)
  <2>1. U \subseteq S \cup {1} /\ S \subseteq U \cup {1} /\ 1 \notin U
    OBVIOUS
  <2> HIDE DEF S, T, U, f
  <2>2. /\ Cardinality(U) \in Nat
        /\ Cardinality(S) = Cardinality(U) + (IF 1 \in S THEN 1 ELSE 0) - (IF 1 \in U THEN 1 ELSE 0)
    BY <2>1, <1>5, CardinalityOfNeighbours
  <2>3. QED
    BY <2>1, <2>2, <1>5, <1>6
<1>8. QED
  BY <1>1, <1>2, <1>7 DEF Count

\* A packet in somebody's hands is taken and not yet freed.
LEMMA HeldPacket ==
  ASSUME IInv, NEW p \in Packets
  PROVE  /\ Count(sendQ, p) \in Nat /\ Count(sentQ, p) \in Nat
         /\ IsFiniteSet(Carriers(p)) /\ Cardinality(Carriers(p)) \in Nat
         /\ IsFiniteSet(PostsOf(p)) /\ Cardinality(PostsOf(p)) \in Nat
         /\ (p \in Elements(sendQ) \cup Elements(sentQ) \/ Carriers(p) # {} \/ PostsOf(p) # {})
              => /\ freed[p] = 0 /\ idOf[p] # 0
                 /\ Count(sendQ, p) + Count(sentQ, p) + Cardinality(Carriers(p))
                      + Cardinality(PostsOf(p)) = 1
<1>1. /\ Count(sendQ, p) \in Nat /\ (Count(sendQ, p) = 0 <=> p \notin Elements(sendQ))
      /\ Count(sentQ, p) \in Nat /\ (Count(sentQ, p) = 0 <=> p \notin Elements(sentQ))
  BY CountInQueue DEF IInv, TypeOK
<1>2. /\ IsFiniteSet(Carriers(p)) /\ Cardinality(Carriers(p)) \in Nat
      /\ Carriers(p) # {} => Cardinality(Carriers(p)) # 0
  <2>1. Carriers(p) \subseteq Threads
    BY DEF Carriers
  <2>2. QED
    BY <2>1, HoldersFinite
<1>3. /\ IsFiniteSet(PostsOf(p)) /\ Cardinality(PostsOf(p)) \in Nat
      /\ PostsOf(p) # {} => Cardinality(PostsOf(p)) # 0
  <2>1. \A j, k \in PostsOf(p) : j = k
    BY DEF PostsOf, IInv, Support, OneCallEach
  <2>2. CASE PostsOf(p) = {}
    BY <2>2, FS_EmptySet
  <2>3. CASE PostsOf(p) # {}
    <3>1. PICK j \in PostsOf(p) : PostsOf(p) = {j}
      BY <2>1, <2>3
    <3>2. IsFiniteSet({j}) /\ Cardinality({j}) = 1
      BY FS_Singleton
    <3> HIDE DEF PostsOf
    <3>3. QED
      BY <3>1, <3>2
  <2>4. QED
    BY <2>2, <2>3
<1>4. freed[p] \in 0..1
  BY DEF IInv, TypeOK
<1>5. Count(sendQ, p) + Count(sentQ, p) + Cardinality(Carriers(p)) + Cardinality(PostsOf(p))
        + freed[p] = IF idOf[p] = 0 THEN 0 ELSE 1
  BY DEF IInv, PacketsAccounted
<1>6. ASSUME p \in Elements(sendQ) \cup Elements(sentQ) \/ Carriers(p) # {} \/ PostsOf(p) # {}
      PROVE  Count(sendQ, p) + Count(sentQ, p) + Cardinality(Carriers(p)) + Cardinality(PostsOf(p)) >= 1
  BY <1>1, <1>2, <1>3, <1>6
<1> DEFINE Places == Count(sendQ, p) + Count(sentQ, p) + Cardinality(Carriers(p)) + Cardinality(PostsOf(p))
<1>7. Places \in Nat /\ Places + freed[p] = IF idOf[p] = 0 THEN 0 ELSE 1
  BY <1>1, <1>2, <1>3, <1>5
<1>8. ASSUME p \in Elements(sendQ) \cup Elements(sentQ) \/ Carriers(p) # {} \/ PostsOf(p) # {}
      PROVE  freed[p] = 0 /\ idOf[p] # 0 /\ Places = 1
  <2>1. Places >= 1
    BY <1>6, <1>8
  <2> HIDE DEF Places
  <2>2. QED
    BY <2>1, <1>4, <1>7
<1>9. QED
  BY <1>1, <1>2, <1>3, <1>8

-----------------------------------------------------------------------------
(* Types, and what the queues hold.                                        *)

LEMMA FreedOnce ==
  ASSUME TypeOK, NEW ps, Free(ps), \A p \in Packets : p \in ps => freed[p] = 0
  PROVE  freed' \in [Packets -> 0..1]
<1>1. freed' = [p \in Packets |-> freed[p] + (IF p \in ps THEN 1 ELSE 0)]
  BY DEF Free
<1>2. ASSUME NEW p \in Packets
      PROVE  freed[p] + (IF p \in ps THEN 1 ELSE 0) \in 0..1
  <2>1. freed[p] \in 0..1 /\ (p \in ps => freed[p] = 0)
    BY DEF TypeOK
  <2>2. QED
    BY <2>1
<1>3. QED
  BY <1>1, <1>2

LEMMA ThreadTypeOK ==
  ASSUME SendsFitMode, IInv, NEW t \in Threads, ThreadStep(t)
  PROVE  TypeOK'
<1> DEFINE Rest == /\ unique' \in 0..MaxStamp
                   /\ canceled' \in BOOLEAN /\ isSending' \in BOOLEAN /\ isFree' \in BOOLEAN
                   /\ sendQ' \in Seq(Packets) /\ sentQ' \in Seq(Packets)
                   /\ recvIO' \in {"none", "posted", "fin", "aborted"}
                   /\ sendIO' \in {"none", "posted", "done", "reset", "aborted"}
                   /\ posts' \subseteq Jobs
                   /\ pc' \in [Threads -> Pcs]
                   /\ job' \in [Threads -> Jobs]
                   /\ idOf' \in [Packets -> 0..MaxStamp]
                   /\ freed' \in [Packets -> 0..1]
                   /\ sentOn' \in [Packets -> 0..MaxStamp]
<1>type. TypeOK /\ CallSupport(t) /\ MaxStamp \in Nat
  BY BoundsAssumption DEF IInv, Support
<1>freed. \A p \in Packets :
            p \in Elements(sendQ) \cup Elements(sentQ) \/ Carriers(p) # {} => freed[p] = 0
  BY HeldPacket
<1>queues. /\ <<>> \in Seq(Packets)
           /\ \A p \in Packets : Append(sendQ, p) \in Seq(Packets)
           /\ sendQ # <<>> => Tail(sendQ) \in Seq(Packets) /\ Append(sentQ, Head(sendQ)) \in Seq(Packets)
  BY CountAppend, CountHead, EmptySeq DEF IInv, TypeOK
<1>count. IOcount' \in 0 .. 2 * DELETE_FLAG_BIT - 1
  BY ThreadCountFits
<1>noJob. NoJob \in Jobs
  BY BoundsAssumption DEF NoJob, Jobs
<1>ops. Ops \subseteq CallOps \cup PostOps
  BY ModeAssumption
<1> HIDE DEF Rest
<1> USE DEF At, Goto, Begin, TypeOK, Rest
<1>1. ASSUME InitializeRef(t) PROVE  Rest
  BY <1>1, <1>type, <1>noJob DEF InitializeRef, KeepSend, sendVars, historyVars, ioVars, sessionVars, Pcs, FindPcs, PostPcs
<1>2. ASSUME NEW op \in Ops, NEW p \in Packets \cup {NoPacket}, NEW u \in 1..unique,
         Call(t, op, p, u)
      PROVE  Rest
  BY <1>2, <1>type, <1>ops DEF Call, Jobs, KeepSend, sendVars, historyVars, ioVars, sessionVars, Pcs, FindPcs, PostPcs
<1>3. ASSUME NEW op \in Ops, NEW p \in Packets \cup {NoPacket}, NEW u \in 1..unique,
         PostPacket(t, op, p, u)
      PROVE  Rest
  BY <1>3, <1>type, <1>ops, SMTT(30) DEF PostPacket, Jobs, KeepSend, sendVars, historyVars, ioVars, sessionVars
<1>4. ASSUME RecvCompletion(t) \/ SendCompletion(t) PROVE  Rest
  BY <1>4, <1>type, <1>noJob, SMTT(30) DEF RecvCompletion, SendCompletion, KeepSend, sendVars, historyVars, ioVars, sessionVars, Pcs, FindPcs, PostPcs
<1>5. ASSUME NEW j \in posts, TakePost(t, j) PROVE  Rest
  BY <1>5, <1>type, <1>noJob, ZenonT(40), ZenonT(40) DEF TakePost, KeepSend, sendVars, historyVars, ioVars, sessionVars, Pcs, FindPcs, PostPcs
<1>6. ASSUME InitializePublish(t) PROVE  Rest
  <2>1. unique < MaxStamp /\ unique' = unique + 1
    BY <1>6, <1>type DEF InitializePublish, CallSupport
  <2>2. unique' \in 0..MaxStamp
    BY <2>1, <1>type
  <2>3. QED
    BY <1>6, <2>2, <1>type DEF InitializePublish, KeepSend, sendVars, historyVars, Pcs
<1>7. ASSUME FindStep(t) PROVE  Rest
  <2>1. ASSUME pc[t] \in FindPcs, Refuse(t), UNCHANGED <<sessionVars, sendVars, ioVars, isFree, sentOn>>
        PROVE  Rest
    <3> DEFINE ps == IF job[t].op \in PostOps THEN {job[t].packet} ELSE {}
    <3>1. Free(ps)
      BY <2>1 DEF Refuse
    <3>2. \A p \in ps : t \in Carriers(p)
      BY <2>1 DEF Carriers
    <3> HIDE DEF ps
    <3>3. \A p \in Packets : p \in ps => freed[p] = 0
      BY <3>2, <1>freed
    <3>4. freed' \in [Packets -> 0..1]
      BY <3>1, <3>3, <1>type, FreedOnce
    <3>5. QED
      BY <2>1, <3>4, <1>type, <1>noJob DEF Refuse, Pcs, KeepSend, sendVars, historyVars, ioVars, sessionVars
  <2>2. CASE AcquireDead(t)
    BY <2>2, <1>type, <2>1, ZenonT(40), ZenonT(40) DEF AcquireDead, KeepSend, sendVars, historyVars, ioVars, sessionVars, Pcs, FindPcs
  <2>3. CASE AcquireUnique(t)
    BY <2>3, <1>type, <2>1, ZenonT(40), ZenonT(40) DEF AcquireUnique, KeepSend, sendVars, historyVars, ioVars, sessionVars, Pcs, FindPcs, Acquired, Jobs
  <2>4. CASE AlreadyCanceled(t)
    BY <2>4, <1>type, <2>1 DEF AlreadyCanceled, KeepSend, sendVars, historyVars, ioVars, sessionVars, Pcs
  <2>5. QED
    BY <1>7, <2>2, <2>3, <2>4 DEF FindStep
<1>8. ASSUME EnqueueStep(t) PROVE  Rest
  <2>1. CASE EnqueueSendQ(t)
    <3>1. CASE canceled \/ Len(sendQ) >= MAX_SIZE
      <4>1. Free({job[t].packet}) /\ t \in Carriers(job[t].packet)
        BY <2>1, <3>1 DEF EnqueueSendQ, Carriers
      <4>2. freed' \in [Packets -> 0..1]
        BY <4>1, <1>type, <1>freed, FreedOnce
      <4>3. QED
        BY <2>1, <3>1, <4>2, <1>type, <1>noJob, ZenonT(40), ZenonT(40) DEF EnqueueSendQ, KeepSend, sendVars, historyVars, ioVars, sessionVars, Pcs, FindPcs, PostPcs
    <3>2. CASE ~(canceled \/ Len(sendQ) >= MAX_SIZE)
      BY <2>1, <3>2, <1>type DEF EnqueueSendQ, KeepSend, sendVars, historyVars, ioVars, sessionVars, Pcs, FindPcs, PostPcs
    <3>3. QED
      BY <3>1, <3>2
  <2>2. CASE Enqueue(t)
    BY <2>2, <1>type, <1>noJob, <1>queues DEF Enqueue, AfterEnqueue, CallSupport, KeepSend, sendVars, historyVars, ioVars, sessionVars, Pcs, FindPcs, PostPcs
  <2>3. CASE PostSign(t)
    <3> DEFINE j == [job[t] EXCEPT !.op = "SENDSIGN"]
    <3>1. j \in Jobs
      BY <1>type DEF Jobs
    <3>2. posts' \subseteq posts \cup {j}
      BY <2>3 DEF PostSign
    <3> HIDE DEF j
    <3>3. QED
      BY <2>3, <3>1, <3>2, <1>type, <1>noJob, ZenonT(40), ZenonT(40) DEF PostSign, KeepSend, sendVars, historyVars, ioVars, sessionVars, Pcs, FindPcs, PostPcs
  <2>4. QED
    BY <1>8, <2>1, <2>2, <2>3 DEF EnqueueStep
<1>9. ASSUME PostStep(t) PROVE  Rest
  <2>1. CASE LastFlag(t)
    BY <2>1, <1>type, <1>noJob DEF LastFlag, KeepSend, sendVars, historyVars, ioVars, sessionVars, Pcs, FindPcs, PostPcs
  <2>2. CASE LastCancelIO(t)
    BY <2>2, <1>type, <1>noJob DEF LastCancelIO, KeepSend, sendVars, historyVars, ioVars, sessionVars, Pcs, FindPcs, PostPcs, CancelIO, Aborted
  <2>3. CASE SpinForSendFlag(t)
    BY <2>3, <1>type, <1>noJob DEF SpinForSendFlag, KeepSend, sendVars, historyVars, ioVars, sessionVars, Pcs, FindPcs, PostPcs
  <2>4. CASE TrySendFlag(t)
    BY <2>4, <1>type, <1>noJob DEF TrySendFlag, KeepSend, sendVars, historyVars, ioVars, sessionVars, Pcs, FindPcs, PostPcs
  <2>5. CASE FreeSentPacket(t)
    <3>1. Free(Elements(sentQ)) /\ sentQ' = <<>>
      BY <2>5 DEF FreeSentPacket
    <3>2. freed' \in [Packets -> 0..1]
      BY <3>1, <1>type, <1>freed, FreedOnce
    <3>3. QED
      BY <2>5, <3>1, <3>2, <1>type, <1>queues DEF FreeSentPacket, KeepSend, sendVars, historyVars, ioVars, sessionVars, Pcs, FindPcs, PostPcs
  <2>6. CASE DequeueSendQ(t)
    BY <2>6, <1>type, <1>queues DEF DequeueSendQ, KeepSend, sendVars, historyVars, ioVars, sessionVars
  <2>7. CASE SendQEmpty(t)
    BY <2>7, <1>type, <1>noJob DEF SendQEmpty, KeepSend, sendVars, historyVars, ioVars, sessionVars, Pcs, FindPcs, PostPcs
  <2>8. CASE SetSendFlagFalse(t)
    BY <2>8, <1>type, <1>noJob DEF SetSendFlagFalse, KeepSend, sendVars, historyVars, ioVars, sessionVars, Pcs, FindPcs, PostPcs
  <2>9. CASE WSASend(t)
    BY <2>9, <1>type, <1>noJob, ZenonT(40), ZenonT(40) DEF WSASend, KeepSend, sendVars, historyVars, ioVars, sessionVars, Pcs, FindPcs, PostPcs, AfterPending
  <2>10. CASE RecheckCanceled(t)
    BY <2>10, <1>type, <1>noJob DEF RecheckCanceled, KeepSend, sendVars, historyVars, ioVars, sessionVars, Pcs, FindPcs, PostPcs, AfterPending
  <2>11. CASE SendCancelIO(t)
    BY <2>11, <1>type, <1>noJob DEF SendCancelIO, KeepSend, sendVars, historyVars, ioVars, sessionVars, Pcs, FindPcs, PostPcs, CancelIO, Aborted
  <2>12. CASE SendFailed(t)
    BY <2>12, <1>type, <1>noJob DEF SendFailed, KeepSend, sendVars, historyVars, ioVars, sessionVars, Pcs, FindPcs, PostPcs
  <2>13. CASE SendFailedCancelIO(t)
    BY <2>13, <1>type, <1>noJob DEF SendFailedCancelIO, KeepSend, sendVars, historyVars, ioVars, sessionVars, Pcs, FindPcs, PostPcs, CancelIO, Aborted
  <2>14. CASE SubIOCount(t)
    BY <2>14, <1>type, <1>noJob DEF SubIOCount, KeepSend, sendVars, historyVars, ioVars, sessionVars, Pcs, FindPcs, PostPcs, DropRefs
  <2>15. QED
    BY <1>9, <2>1, <2>2, <2>3, <2>4, <2>5, <2>6, <2>7, <2>8, <2>9, <2>10, <2>11, <2>12, <2>13, <2>14 DEF PostStep
<1>10. ASSUME CompletionStep(t) PROVE  Rest
  <2>1. CASE OnSendComplete(t)
    BY <2>1, <1>type, <1>noJob DEF OnSendComplete, KeepSend, sendVars, historyVars, ioVars, sessionVars, Pcs, FindPcs, PostPcs
  <2>2. CASE SentCanceled(t)
    BY <2>2, <1>type, <1>noJob DEF SentCanceled, KeepSend, sendVars, historyVars, ioVars, sessionVars, Pcs, FindPcs, PostPcs
  <2>3. CASE SentFlagFalse(t)
    BY <2>3, <1>type, <1>noJob DEF SentFlagFalse, KeepSend, sendVars, historyVars, ioVars, sessionVars, Pcs, FindPcs, PostPcs
  <2>4. CASE OperationAborted(t)
    BY <2>4, <1>type, <1>noJob DEF OperationAborted, KeepSend, sendVars, historyVars, ioVars, sessionVars, Pcs, FindPcs, PostPcs
  <2>5. QED
    BY <1>10, <2>1, <2>2, <2>3, <2>4 DEF CompletionStep
<1>11. ASSUME ReleaseStep(t) PROVE  Rest
  <2>1. CASE DisconnectFlag(t)
    BY <2>1, <1>type, <1>noJob DEF DisconnectFlag, KeepSend, sendVars, historyVars, ioVars, sessionVars, Pcs, FindPcs, PostPcs
  <2>2. CASE DisconnectCancelIO(t)
    BY <2>2, <1>type, <1>noJob DEF DisconnectCancelIO, KeepSend, sendVars, historyVars, ioVars, sessionVars, Pcs, FindPcs, PostPcs, CancelIO, Aborted
  <2>3. CASE DecrementIOCount(t)
    BY <2>3, <1>type, <1>noJob DEF DecrementIOCount, KeepSend, sendVars, historyVars, ioVars, sessionVars, Pcs, FindPcs, PostPcs, DropRefs
  <2>4. CASE SetDeleteFlag(t)
    BY <2>4, <1>type, <1>noJob DEF SetDeleteFlag, KeepSend, sendVars, historyVars, ioVars, sessionVars, Pcs, FindPcs, PostPcs
  <2>5. CASE Destroy(t)
    <3>1. Free(Elements(sentQ) \cup Elements(sendQ)) /\ sentQ' = <<>> /\ sendQ' = <<>>
      BY <2>5 DEF Destroy
    <3>2. freed' \in [Packets -> 0..1]
      BY <3>1, <1>type, <1>freed, FreedOnce
    <3>3. QED
      BY <2>5, <3>1, <3>2, <1>type, <1>queues DEF Destroy, KeepSend, sendVars, historyVars, ioVars, sessionVars, Pcs, FindPcs, PostPcs
  <2>6. CASE PushSessionIndex(t)
    BY <2>6, <1>type, <1>noJob DEF PushSessionIndex, KeepSend, sendVars, historyVars, ioVars, sessionVars, Pcs, FindPcs, PostPcs
  <2>7. QED
    BY <1>11, <2>1, <2>2, <2>3, <2>4, <2>5, <2>6 DEF ReleaseStep
<1>12. Rest
  BY <1>1, <1>2, <1>3, <1>4, <1>5, <1>6, <1>7, <1>8, <1>9, <1>10, <1>11
     DEF ThreadStep, GetQueuedCompletion, Continue
<1>13. QED
  BY <1>12, <1>count

\* What is in the queues was acquired for the session the slot has, and the
\* session does not change while something is queued.
LEMMA ThreadQueuedForThis ==
  ASSUME IInv, NEW t \in Threads, ThreadStep(t)
  PROVE  QueuedForThis'
<1> DEFINE Queued == Elements(sendQ) \cup Elements(sentQ)
<1>type. TypeOK /\ CallSupport(t) /\ QueuedForThis
  BY DEF IInv, Support
<1>taken. \A p \in Queued : p \in Packets /\ idOf[p] # 0
  <2>1. Queued \subseteq Packets
    <3>1. sendQ \in [1..Len(sendQ) -> Packets] /\ sentQ \in [1..Len(sentQ) -> Packets]
      BY <1>type, LenProperties DEF TypeOK
    <3>2. QED
      BY <3>1 DEF Elements
  <2>2. QED
    BY <2>1, HeldPacket
<1>same. ASSUME Queued' \subseteq Queued, unique' = unique, idOf' = idOf
         PROVE  QueuedForThis'
  BY <1>same, <1>type DEF QueuedForThis
<1> HIDE DEF Queued
<1> USE DEF At, Goto, Begin, TypeOK
<1>1. ASSUME InitializeRef(t) PROVE  QueuedForThis'
  BY <1>1, <1>same DEF InitializeRef, KeepSend, sendVars, historyVars, ioVars, sessionVars, Queued
<1>2. ASSUME NEW op \in Ops, NEW p \in Packets \cup {NoPacket}, NEW u \in 1..unique,
         Call(t, op, p, u)
      PROVE  QueuedForThis'
  BY <1>2, <1>same DEF Call, KeepSend, sendVars, historyVars, ioVars, sessionVars, Queued
<1>3. ASSUME NEW op \in Ops, NEW p \in Packets \cup {NoPacket}, NEW u \in 1..unique,
         PostPacket(t, op, p, u)
      PROVE  QueuedForThis'
  <2>1. p \notin Queued /\ Queued' = Queued /\ \A q \in Packets : q # p => idOf'[q] = idOf[q]
    BY <1>3, <1>taken, <1>type DEF PostPacket, Unused, Queued, sendVars
  <2>2. unique' = unique
    BY <1>3 DEF PostPacket, sessionVars
  <2>3. QED
    BY <2>1, <2>2, <1>taken, <1>type DEF QueuedForThis, Queued
<1>4. ASSUME RecvCompletion(t) \/ SendCompletion(t) PROVE  QueuedForThis'
  BY <1>4, <1>same DEF RecvCompletion, SendCompletion, KeepSend, sendVars, historyVars, ioVars, sessionVars, Queued
<1>5. ASSUME NEW j \in posts, TakePost(t, j) PROVE  QueuedForThis'
  BY <1>5, <1>same DEF TakePost, KeepSend, sendVars, historyVars, ioVars, sessionVars, Queued
<1>6. ASSUME InitializePublish(t) PROVE  QueuedForThis'
  <2>1. sendQ' = <<>> /\ sentQ' = <<>>
    BY <1>6 DEF InitializePublish, KeepSend, sendVars, IInv, ReleasedClean
  <2>2. QED
    BY <2>1, CountEmpty DEF QueuedForThis
<1>7. ASSUME FindStep(t) PROVE  QueuedForThis'
  <2>1. CASE AcquireDead(t)
    BY <2>1, <1>same DEF AcquireDead, KeepSend, sendVars, historyVars, ioVars, sessionVars, Queued, Refuse
  <2>2. CASE AcquireUnique(t)
    <3>1. Queued' = Queued /\ unique' = unique
      BY <2>2 DEF AcquireUnique, Queued, sendVars, sessionVars
    <3>2. \A q \in Packets : idOf'[q] = idOf[q] \/ idOf'[q] = unique
      BY <2>2, <1>type DEF AcquireUnique, Acquired, Refuse
    <3>3. QED
      BY <3>1, <3>2, <1>taken, <1>type DEF QueuedForThis, Queued
  <2>3. CASE AlreadyCanceled(t)
    BY <2>3, <1>same DEF AlreadyCanceled, KeepSend, sendVars, historyVars, ioVars, sessionVars, Queued
  <2>4. QED
    BY <1>7, <2>1, <2>2, <2>3 DEF FindStep
<1>8. ASSUME EnqueueStep(t) PROVE  QueuedForThis'
  <2>1. CASE EnqueueSendQ(t)
    BY <2>1, <1>same DEF EnqueueSendQ, KeepSend, sendVars, historyVars, ioVars, sessionVars, Queued
  <2>2. CASE Enqueue(t)
    <3>1. /\ sendQ' = Append(sendQ, job[t].packet) /\ sentQ' = sentQ /\ unique' = unique /\ idOf' = idOf
          /\ job[t].packet \in Packets /\ idOf[job[t].packet] = unique
      BY <2>2, <1>type DEF Enqueue, CallSupport, sessionVars, historyVars
    <3>2. Elements(sendQ') = Elements(sendQ) \cup {job[t].packet}
      BY <3>1, <1>type, CountAppend
    <3>3. QED
      BY <3>1, <3>2, <1>type DEF QueuedForThis
  <2>3. CASE PostSign(t)
    BY <2>3, <1>same DEF PostSign, KeepSend, sendVars, historyVars, ioVars, sessionVars, Queued
  <2>4. QED
    BY <1>8, <2>1, <2>2, <2>3 DEF EnqueueStep
<1>9. ASSUME PostStep(t) PROVE  QueuedForThis'
  <2>1. CASE LastFlag(t)
    BY <2>1, <1>same DEF LastFlag, KeepSend, sendVars, historyVars, ioVars, sessionVars, Queued
  <2>2. CASE LastCancelIO(t)
    BY <2>2, <1>same DEF LastCancelIO, KeepSend, sendVars, historyVars, ioVars, sessionVars, Queued, CancelIO, Aborted
  <2>3. CASE SpinForSendFlag(t)
    BY <2>3, <1>same DEF SpinForSendFlag, KeepSend, sendVars, historyVars, ioVars, sessionVars, Queued
  <2>4. CASE TrySendFlag(t)
    BY <2>4, <1>same DEF TrySendFlag, KeepSend, sendVars, historyVars, ioVars, sessionVars, Queued
  <2>5. CASE FreeSentPacket(t)
    BY <2>5, <1>same, CountEmpty DEF FreeSentPacket, Queued, sessionVars
  <2>6. CASE DequeueSendQ(t)
    <3>1. /\ sentQ' = Append(sentQ, Head(sendQ)) /\ sendQ' = Tail(sendQ) /\ sendQ # <<>>
          /\ unique' = unique /\ idOf' = idOf
      BY <2>6 DEF DequeueSendQ, sessionVars, historyVars
    <3>2. Head(sendQ) \in Packets /\ Elements(sendQ) = Elements(Tail(sendQ)) \cup {Head(sendQ)}
      BY <3>1, <1>type, CountHead
    <3>3. Elements(Append(sentQ, Head(sendQ))) = Elements(sentQ) \cup {Head(sendQ)}
      BY <3>2, <1>type, CountAppend
    <3>4. Queued' \subseteq Queued
      BY <3>1, <3>2, <3>3 DEF Queued
    <3>5. QED
      BY <3>1, <3>4, <1>same
  <2>7. CASE SendQEmpty(t)
    BY <2>7, <1>same DEF SendQEmpty, KeepSend, sendVars, historyVars, ioVars, sessionVars, Queued
  <2>8. CASE SetSendFlagFalse(t)
    BY <2>8, <1>same DEF SetSendFlagFalse, KeepSend, sendVars, historyVars, ioVars, sessionVars, Queued
  <2>9. CASE WSASend(t)
    BY <2>9, <1>same DEF WSASend, KeepSend, sendVars, historyVars, ioVars, sessionVars, Queued, AfterPending
  <2>10. CASE RecheckCanceled(t)
    BY <2>10, <1>same DEF RecheckCanceled, KeepSend, sendVars, historyVars, ioVars, sessionVars, Queued, AfterPending
  <2>11. CASE SendCancelIO(t)
    BY <2>11, <1>same DEF SendCancelIO, KeepSend, sendVars, historyVars, ioVars, sessionVars, Queued, CancelIO, Aborted
  <2>12. CASE SendFailed(t)
    BY <2>12, <1>same DEF SendFailed, KeepSend, sendVars, historyVars, ioVars, sessionVars, Queued
  <2>13. CASE SendFailedCancelIO(t)
    BY <2>13, <1>same DEF SendFailedCancelIO, KeepSend, sendVars, historyVars, ioVars, sessionVars, Queued, CancelIO, Aborted
  <2>14. CASE SubIOCount(t)
    BY <2>14, <1>same DEF SubIOCount, KeepSend, sendVars, historyVars, ioVars, sessionVars, Queued, DropRefs
  <2>15. QED
    BY <1>9, <2>1, <2>2, <2>3, <2>4, <2>5, <2>6, <2>7, <2>8, <2>9, <2>10, <2>11, <2>12, <2>13, <2>14 DEF PostStep
<1>10. ASSUME CompletionStep(t) PROVE  QueuedForThis'
  <2>1. CASE OnSendComplete(t)
    BY <2>1, <1>same DEF OnSendComplete, KeepSend, sendVars, historyVars, ioVars, sessionVars, Queued
  <2>2. CASE SentCanceled(t)
    BY <2>2, <1>same DEF SentCanceled, KeepSend, sendVars, historyVars, ioVars, sessionVars, Queued
  <2>3. CASE SentFlagFalse(t)
    BY <2>3, <1>same DEF SentFlagFalse, KeepSend, sendVars, historyVars, ioVars, sessionVars, Queued
  <2>4. CASE OperationAborted(t)
    BY <2>4, <1>same DEF OperationAborted, KeepSend, sendVars, historyVars, ioVars, sessionVars, Queued
  <2>5. QED
    BY <1>10, <2>1, <2>2, <2>3, <2>4 DEF CompletionStep
<1>11. ASSUME ReleaseStep(t) PROVE  QueuedForThis'
  <2>1. CASE DisconnectFlag(t)
    BY <2>1, <1>same DEF DisconnectFlag, KeepSend, sendVars, historyVars, ioVars, sessionVars, Queued
  <2>2. CASE DisconnectCancelIO(t)
    BY <2>2, <1>same DEF DisconnectCancelIO, KeepSend, sendVars, historyVars, ioVars, sessionVars, Queued, CancelIO, Aborted
  <2>3. CASE DecrementIOCount(t)
    BY <2>3, <1>same DEF DecrementIOCount, KeepSend, sendVars, historyVars, ioVars, sessionVars, Queued, DropRefs
  <2>4. CASE SetDeleteFlag(t)
    BY <2>4, <1>same DEF SetDeleteFlag, KeepSend, sendVars, historyVars, ioVars, sessionVars, Queued
  <2>5. CASE Destroy(t)
    BY <2>5, CountEmpty DEF Destroy, QueuedForThis
  <2>6. CASE PushSessionIndex(t)
    BY <2>6, <1>same DEF PushSessionIndex, KeepSend, sendVars, historyVars, ioVars, sessionVars, Queued
  <2>7. QED
    BY <1>11, <2>1, <2>2, <2>3, <2>4, <2>5, <2>6 DEF ReleaseStep
<1>12. QED
  BY <1>1, <1>2, <1>3, <1>4, <1>5, <1>6, <1>7, <1>8, <1>9, <1>10, <1>11
     DEF ThreadStep, GetQueuedCompletion, Continue

\* A packet is sent on the session it is queued for, and its session is settled
\* before it is queued.
LEMMA ThreadSentToItsOwn ==
  ASSUME IInv, NEW t \in Threads, ThreadStep(t)
  PROVE  SentToItsOwn'
<1>type. TypeOK /\ CallSupport(t) /\ QueuedForThis /\ SentToItsOwn
  BY DEF IInv, Support
<1>same. ASSUME sentOn' = sentOn, idOf' = idOf
         PROVE  SentToItsOwn'
  BY <1>same, <1>type DEF SentToItsOwn
<1> USE DEF At, Goto, Begin, TypeOK
<1>1. ASSUME InitializeRef(t) PROVE  SentToItsOwn'
  BY <1>1, <1>same DEF InitializeRef, KeepSend, historyVars
<1>2. ASSUME NEW op \in Ops, NEW p \in Packets \cup {NoPacket}, NEW u \in 1..unique,
         Call(t, op, p, u)
      PROVE  SentToItsOwn'
  BY <1>2, <1>same DEF Call, KeepSend, historyVars
<1>3. ASSUME NEW op \in Ops, NEW p \in Packets \cup {NoPacket}, NEW u \in 1..unique,
         PostPacket(t, op, p, u)
      PROVE  SentToItsOwn'
  BY <1>3, <1>type DEF PostPacket, Unused, SentToItsOwn
<1>4. ASSUME RecvCompletion(t) \/ SendCompletion(t) PROVE  SentToItsOwn'
  BY <1>4, <1>same DEF RecvCompletion, SendCompletion, KeepSend, historyVars
<1>5. ASSUME NEW j \in posts, TakePost(t, j) PROVE  SentToItsOwn'
  BY <1>5, <1>same DEF TakePost, KeepSend, historyVars
<1>6. ASSUME InitializePublish(t) PROVE  SentToItsOwn'
  BY <1>6, <1>same DEF InitializePublish, KeepSend, historyVars
<1>7. ASSUME FindStep(t) PROVE  SentToItsOwn'
  <2>1. CASE AcquireDead(t)
    BY <2>1, <1>same DEF AcquireDead, KeepSend, historyVars, Refuse
  <2>2. CASE AcquireUnique(t)
    <3>1. sentOn' = sentOn
      BY <2>2 DEF AcquireUnique
    <3>2. \A q \in Packets : idOf'[q] = idOf[q] \/ idOf[q] = 0
      BY <2>2, <1>type DEF AcquireUnique, Acquired, Refuse, CallSupport, FindPcs, CallOps, PostOps
    <3>3. QED
      BY <3>1, <3>2, <1>type DEF SentToItsOwn
  <2>3. CASE AlreadyCanceled(t)
    BY <2>3, <1>same DEF AlreadyCanceled, KeepSend, historyVars
  <2>4. QED
    BY <1>7, <2>1, <2>2, <2>3 DEF FindStep
<1>8. ASSUME EnqueueStep(t) PROVE  SentToItsOwn'
  BY <1>8, <1>same DEF EnqueueStep, EnqueueSendQ, Enqueue, PostSign, AfterEnqueue, KeepSend, historyVars
<1>9. ASSUME PostStep(t) PROVE  SentToItsOwn'
  <2>1. CASE LastFlag(t)
    BY <2>1, <1>same DEF LastFlag, KeepSend, historyVars
  <2>2. CASE LastCancelIO(t)
    BY <2>2, <1>same DEF LastCancelIO, KeepSend, historyVars, CancelIO, Aborted
  <2>3. CASE SpinForSendFlag(t)
    BY <2>3, <1>same DEF SpinForSendFlag, KeepSend, historyVars
  <2>4. CASE TrySendFlag(t)
    BY <2>4, <1>same DEF TrySendFlag, KeepSend, historyVars
  <2>5. CASE FreeSentPacket(t)
    BY <2>5, <1>same DEF FreeSentPacket, KeepSend, historyVars
  <2>6. CASE DequeueSendQ(t)
    BY <2>6, <1>same DEF DequeueSendQ, KeepSend, historyVars
  <2>7. CASE SendQEmpty(t)
    BY <2>7, <1>same DEF SendQEmpty, KeepSend, historyVars
  <2>8. CASE SetSendFlagFalse(t)
    BY <2>8, <1>same DEF SetSendFlagFalse, KeepSend, historyVars
  <2>9. CASE WSASend(t)
    BY <2>9, <1>type DEF WSASend, SentToItsOwn, QueuedForThis
  <2>10. CASE RecheckCanceled(t)
    BY <2>10, <1>same DEF RecheckCanceled, KeepSend, historyVars, AfterPending
  <2>11. CASE SendCancelIO(t)
    BY <2>11, <1>same DEF SendCancelIO, KeepSend, historyVars, CancelIO, Aborted
  <2>12. CASE SendFailed(t)
    BY <2>12, <1>same DEF SendFailed, KeepSend, historyVars
  <2>13. CASE SendFailedCancelIO(t)
    BY <2>13, <1>same DEF SendFailedCancelIO, KeepSend, historyVars, CancelIO, Aborted
  <2>14. CASE SubIOCount(t)
    BY <2>14, <1>same DEF SubIOCount, KeepSend, historyVars, DropRefs
  <2>15. QED
    BY <1>9, <2>1, <2>2, <2>3, <2>4, <2>5, <2>6, <2>7, <2>8, <2>9, <2>10, <2>11, <2>12, <2>13, <2>14 DEF PostStep
<1>10. ASSUME CompletionStep(t) PROVE  SentToItsOwn'
  BY <1>10, <1>same DEF CompletionStep, OnSendComplete, SentCanceled, SentFlagFalse, OperationAborted, KeepSend, historyVars
<1>11. ASSUME ReleaseStep(t) PROVE  SentToItsOwn'
  BY <1>11, <1>same DEF ReleaseStep, DisconnectFlag, DisconnectCancelIO, DecrementIOCount, SetDeleteFlag,
     Destroy, PushSessionIndex, KeepSend, historyVars
<1>12. QED
  BY <1>1, <1>2, <1>3, <1>4, <1>5, <1>6, <1>7, <1>8, <1>9, <1>10, <1>11
     DEF ThreadStep, GetQueuedCompletion, Continue

\* A session is released when nothing of it is in flight, and emptied then.
LEMMA ThreadReleasedClean ==
  ASSUME SendsFitMode, IInv, NEW t \in Threads, ThreadStep(t)
  PROVE  ReleasedClean'
<1> DEFINE Left == isFree \/ (\E r \in Threads : pc[r] \in {"push", "publish"})
           Empty == sendQ = <<>> /\ sentQ = <<>> /\ ~isSending
<1>stay. /\ TypeOK /\ ReleasedClean /\ SlotPlaced
         /\ \A r \in Threads \ {t} : pc'[r] = pc[r]
  BY OthersStay DEF IInv, Support
<1>flag. isDead' <=> IF InitializePublish(t) THEN FALSE
                     ELSE IF SetDeleteFlag(t) /\ IOcount = 0 THEN TRUE
                     ELSE isDead
  BY ThreadRefsExact
<1>left. Left => isDead
  BY <1>stay DEF SlotPlaced, Owners, OwnerPcs
<1>alive. pc[t] \in AlivePcs => ~isDead
  BY <1>stay DEF SlotPlaced
<1>io. ASSUME \/ sendIO' \in {sendIO, "none", Aborted(sendIO)} /\ recvIO' \in {recvIO, "none", Aborted(recvIO)}
              \/ pc[t] \in AlivePcs
       PROVE  isDead' => sendIO' = "none" /\ recvIO' = "none"
  <2>1. CASE InitializePublish(t)
    BY <2>1, <1>flag
  <2>2. CASE SetDeleteFlag(t) /\ IOcount = 0
    <3>1. sendIO = "none" /\ recvIO = "none" /\ ~InitializePublish(t)
      BY <2>2, ZeroMeansNobody DEF SetDeleteFlag, InitializePublish, At
    <3>2. QED
      BY <2>2, <3>1 DEF SetDeleteFlag, ioVars
  <2>3. CASE ~InitializePublish(t) /\ ~(SetDeleteFlag(t) /\ IOcount = 0)
    BY <2>3, <1>flag, <1>io, <1>alive, <1>stay DEF ReleasedClean, Aborted
  <2>4. QED
    BY <2>1, <2>2, <2>3
<1>most. ASSUME isFree' = isFree, pc'[t] \notin {"push", "publish"},
                UNCHANGED <<sendQ, sentQ, isSending>> \/ pc[t] \in AlivePcs
         PROVE  Left' => Empty'
  <2>1. Left' => Left
    BY <1>stay, <1>most
  <2>2. QED
    BY <2>1, <1>most, <1>left, <1>alive, <1>stay DEF ReleasedClean
<1>goal. ASSUME isDead' => sendIO' = "none" /\ recvIO' = "none", Left' => Empty'
         PROVE  ReleasedClean'
  BY <1>goal DEF ReleasedClean
<1>1. isDead' => sendIO' = "none" /\ recvIO' = "none"
  <2> DEFINE Calm == \/ /\ sendIO' \in {sendIO, "none", Aborted(sendIO)}
                        /\ recvIO' \in {recvIO, "none", Aborted(recvIO)}
                     \/ pc[t] \in AlivePcs
  <2> SUFFICES Calm \/ InitializePublish(t)
    BY <1>io, <1>flag
  <2> HIDE DEF Calm
  <2> USE DEF At, Calm
  <2>1. ASSUME InitializeRef(t) PROVE  Calm \/ InitializePublish(t)
    BY <2>1 DEF InitializeRef, KeepSend, sendVars, ioVars, CancelIO, AlivePcs, HoldTwo, PostPcs
  <2>2. ASSUME NEW op \in Ops, NEW p \in Packets \cup {NoPacket}, NEW u \in 1..unique,
         Call(t, op, p, u)
        PROVE  Calm \/ InitializePublish(t)
    BY <2>2 DEF Call, KeepSend, sendVars, ioVars, CancelIO, AlivePcs, HoldTwo, PostPcs
  <2>3. ASSUME NEW op \in Ops, NEW p \in Packets \cup {NoPacket}, NEW u \in 1..unique,
         PostPacket(t, op, p, u)
        PROVE  Calm \/ InitializePublish(t)
    BY <2>3 DEF PostPacket, KeepSend, sendVars, ioVars, CancelIO, AlivePcs, HoldTwo, PostPcs
  <2>4. ASSUME RecvCompletion(t) \/ SendCompletion(t) PROVE  Calm \/ InitializePublish(t)
    BY <2>4 DEF RecvCompletion, SendCompletion, KeepSend, sendVars, ioVars, CancelIO, AlivePcs, HoldTwo, PostPcs
  <2>5. ASSUME NEW j \in posts, TakePost(t, j) PROVE  Calm \/ InitializePublish(t)
    BY <2>5 DEF TakePost, KeepSend, sendVars, ioVars, CancelIO, AlivePcs, HoldTwo, PostPcs
  <2>6. ASSUME InitializePublish(t) PROVE  Calm \/ InitializePublish(t)
    BY <2>6 DEF InitializePublish, KeepSend, sendVars, ioVars, CancelIO, AlivePcs, HoldTwo, PostPcs
  <2>7. ASSUME FindStep(t) PROVE  Calm \/ InitializePublish(t)
    BY <2>7 DEF FindStep, AcquireDead, AcquireUnique, AlreadyCanceled, Refuse, Acquired, KeepSend, sendVars, ioVars, CancelIO, AlivePcs, HoldTwo, PostPcs
  <2>8. ASSUME EnqueueStep(t) PROVE  Calm \/ InitializePublish(t)
    BY <2>8 DEF EnqueueStep, EnqueueSendQ, Enqueue, PostSign, AfterEnqueue, KeepSend, sendVars, ioVars, CancelIO, AlivePcs, HoldTwo, PostPcs
  <2>9. ASSUME PostStep(t) PROVE  Calm \/ InitializePublish(t)
    BY <2>9 DEF PostStep, LastFlag, LastCancelIO, SpinForSendFlag, TrySendFlag, FreeSentPacket,
     DequeueSendQ, SendQEmpty, SetSendFlagFalse, WSASend, RecheckCanceled, SendCancelIO,
     SendFailed, SendFailedCancelIO, SubIOCount, KeepSend, sendVars, ioVars, CancelIO, AlivePcs, HoldTwo, PostPcs
  <2>10. ASSUME CompletionStep(t) PROVE  Calm \/ InitializePublish(t)
    BY <2>10 DEF CompletionStep, OnSendComplete, SentCanceled, SentFlagFalse, OperationAborted, KeepSend, sendVars, ioVars, CancelIO, AlivePcs, HoldTwo, PostPcs
  <2>11. ASSUME ReleaseStep(t) PROVE  Calm \/ InitializePublish(t)
    BY <2>11 DEF ReleaseStep, DisconnectFlag, DisconnectCancelIO, DecrementIOCount, SetDeleteFlag,
     Destroy, PushSessionIndex, KeepSend, sendVars, ioVars, CancelIO, AlivePcs, HoldTwo, PostPcs
  <2>12. QED
    BY <2>1, <2>2, <2>3, <2>4, <2>5, <2>6, <2>7, <2>8, <2>9, <2>10, <2>11
       DEF ThreadStep, GetQueuedCompletion, Continue
<1>2. Left' => Empty'
  <2> DEFINE Kept == /\ isFree' = isFree /\ pc'[t] \notin {"push", "publish"}
                     /\ UNCHANGED <<sendQ, sentQ, isSending>> \/ pc[t] \in AlivePcs
             Goal == Left' => Empty'
  <2>kept. Kept => Goal
    BY <1>most
  <2>type. TypeOK
    BY <1>stay
  <2> HIDE DEF Kept, Goal
  <2> USE DEF At, Goto, TypeOK, Kept
  <2>1. ASSUME InitializeRef(t) PROVE  Goal
    <3>1. isFree /\ UNCHANGED <<sendQ, sentQ, isSending>>
      BY <2>1 DEF InitializeRef, KeepSend, sendVars
    <3>2. QED
      BY <3>1, <1>stay DEF ReleasedClean, Goal
  <2>2. ASSUME NEW op \in Ops, NEW p \in Packets \cup {NoPacket}, NEW u \in 1..unique,
         Call(t, op, p, u)
        PROVE  Goal
    BY <2>2, <2>kept, <2>type DEF Call, KeepSend, sendVars, AlivePcs, HoldTwo, PostPcs
  <2>3. ASSUME NEW op \in Ops, NEW p \in Packets \cup {NoPacket}, NEW u \in 1..unique,
         PostPacket(t, op, p, u)
        PROVE  Goal
    BY <2>3, <2>kept, <2>type DEF PostPacket, KeepSend, sendVars, AlivePcs, HoldTwo, PostPcs
  <2>4. ASSUME RecvCompletion(t) \/ SendCompletion(t) PROVE  Goal
    BY <2>4, <2>kept, <2>type DEF RecvCompletion, SendCompletion, KeepSend, sendVars, AlivePcs, HoldTwo, PostPcs
  <2>5. ASSUME NEW j \in posts, TakePost(t, j) PROVE  Goal
    BY <2>5, <2>kept, <2>type DEF TakePost, KeepSend, sendVars, AlivePcs, HoldTwo, PostPcs
  <2>6. ASSUME InitializePublish(t) PROVE  Goal
    BY <2>6, <2>kept, <2>type DEF InitializePublish, KeepSend, sendVars, AlivePcs, HoldTwo, PostPcs
  <2>7. ASSUME FindStep(t) PROVE  Goal
    <3>1. CASE AcquireDead(t)
      BY <3>1, <2>kept, <2>type DEF AcquireDead, KeepSend, sendVars, AlivePcs, HoldTwo, PostPcs, Refuse
    <3>2. CASE AcquireUnique(t)
      BY <3>2, <2>kept, <2>type DEF AcquireUnique, KeepSend, sendVars, AlivePcs, HoldTwo, PostPcs, Refuse, Acquired
    <3>3. CASE AlreadyCanceled(t)
      BY <3>3, <2>kept, <2>type DEF AlreadyCanceled, KeepSend, sendVars, AlivePcs, HoldTwo, PostPcs
    <3>4. QED
      BY <2>7, <3>1, <3>2, <3>3 DEF FindStep
  <2>8. ASSUME EnqueueStep(t) PROVE  Goal
    <3>1. CASE EnqueueSendQ(t)
      BY <3>1, <2>kept, <2>type DEF EnqueueSendQ, KeepSend, sendVars, AlivePcs, HoldTwo, PostPcs
    <3>2. CASE Enqueue(t)
      BY <3>2, <2>kept, <2>type DEF Enqueue, KeepSend, sendVars, AlivePcs, HoldTwo, PostPcs, AfterEnqueue
    <3>3. CASE PostSign(t)
      BY <3>3, <2>kept, <2>type DEF PostSign, KeepSend, sendVars, AlivePcs, HoldTwo, PostPcs
    <3>4. QED
      BY <2>8, <3>1, <3>2, <3>3 DEF EnqueueStep
  <2>9. ASSUME PostStep(t) PROVE  Goal
    <3>1. CASE LastFlag(t)
      BY <3>1, <2>kept, <2>type DEF LastFlag, KeepSend, sendVars, AlivePcs, HoldTwo, PostPcs
    <3>2. CASE LastCancelIO(t)
      BY <3>2, <2>kept, <2>type DEF LastCancelIO, KeepSend, sendVars, AlivePcs, HoldTwo, PostPcs, CancelIO, Aborted
    <3>3. CASE SpinForSendFlag(t)
      BY <3>3, <2>kept, <2>type DEF SpinForSendFlag, KeepSend, sendVars, AlivePcs, HoldTwo, PostPcs
    <3>4. CASE TrySendFlag(t)
      BY <3>4, <2>kept, <2>type DEF TrySendFlag, KeepSend, sendVars, AlivePcs, HoldTwo, PostPcs
    <3>5. CASE FreeSentPacket(t)
      BY <3>5, <2>kept, <2>type DEF FreeSentPacket, KeepSend, sendVars, AlivePcs, HoldTwo, PostPcs
    <3>6. CASE DequeueSendQ(t)
      BY <3>6, <2>kept, <2>type DEF DequeueSendQ, KeepSend, sendVars, AlivePcs, HoldTwo, PostPcs
    <3>7. CASE SendQEmpty(t)
      BY <3>7, <2>kept, <2>type DEF SendQEmpty, KeepSend, sendVars, AlivePcs, HoldTwo, PostPcs
    <3>8. CASE SetSendFlagFalse(t)
      BY <3>8, <2>kept, <2>type DEF SetSendFlagFalse, KeepSend, sendVars, AlivePcs, HoldTwo, PostPcs
    <3>9. CASE WSASend(t)
      BY <3>9, <2>kept, <2>type DEF WSASend, KeepSend, sendVars, AlivePcs, HoldTwo, PostPcs, AfterPending
    <3>10. CASE RecheckCanceled(t)
      BY <3>10, <2>kept, <2>type DEF RecheckCanceled, KeepSend, sendVars, AlivePcs, HoldTwo, PostPcs, AfterPending
    <3>11. CASE SendCancelIO(t)
      BY <3>11, <2>kept, <2>type DEF SendCancelIO, KeepSend, sendVars, AlivePcs, HoldTwo, PostPcs, CancelIO, Aborted
    <3>12. CASE SendFailed(t)
      BY <3>12, <2>kept, <2>type DEF SendFailed, KeepSend, sendVars, AlivePcs, HoldTwo, PostPcs
    <3>13. CASE SendFailedCancelIO(t)
      BY <3>13, <2>kept, <2>type DEF SendFailedCancelIO, KeepSend, sendVars, AlivePcs, HoldTwo, PostPcs, CancelIO, Aborted
    <3>14. CASE SubIOCount(t)
      BY <3>14, <2>kept, <2>type DEF SubIOCount, KeepSend, sendVars, AlivePcs, HoldTwo, PostPcs, DropRefs
    <3>15. QED
      BY <2>9, <3>1, <3>2, <3>3, <3>4, <3>5, <3>6, <3>7, <3>8, <3>9, <3>10, <3>11, <3>12, <3>13, <3>14 DEF PostStep
  <2>10. ASSUME CompletionStep(t) PROVE  Goal
    <3>1. CASE OnSendComplete(t)
      BY <3>1, <2>kept, <2>type DEF OnSendComplete, KeepSend, sendVars, AlivePcs, HoldTwo, PostPcs
    <3>2. CASE SentCanceled(t)
      BY <3>2, <2>kept, <2>type DEF SentCanceled, KeepSend, sendVars, AlivePcs, HoldTwo, PostPcs
    <3>3. CASE SentFlagFalse(t)
      BY <3>3, <2>kept, <2>type DEF SentFlagFalse, KeepSend, sendVars, AlivePcs, HoldTwo, PostPcs
    <3>4. CASE OperationAborted(t)
      BY <3>4, <2>kept, <2>type DEF OperationAborted, KeepSend, sendVars, AlivePcs, HoldTwo, PostPcs
    <3>5. QED
      BY <2>10, <3>1, <3>2, <3>3, <3>4 DEF CompletionStep
  <2>11. ASSUME ReleaseStep(t) PROVE  Goal
    <3>1. CASE DisconnectFlag(t)
      BY <3>1, <2>kept, <2>type DEF DisconnectFlag, KeepSend, sendVars, AlivePcs, HoldTwo, PostPcs
    <3>2. CASE DisconnectCancelIO(t)
      BY <3>2, <2>kept, <2>type DEF DisconnectCancelIO, KeepSend, sendVars, AlivePcs, HoldTwo, PostPcs, CancelIO, Aborted
    <3>3. CASE DecrementIOCount(t)
      BY <3>3, <2>kept, <2>type DEF DecrementIOCount, KeepSend, sendVars, AlivePcs, HoldTwo, PostPcs, DropRefs
    <3>4. CASE SetDeleteFlag(t)
      BY <3>4, <2>kept, <2>type DEF SetDeleteFlag, KeepSend, sendVars, AlivePcs, HoldTwo, PostPcs
    <3>5. CASE Destroy(t)
      BY <3>5 DEF Destroy, Goal
    <3>6. CASE PushSessionIndex(t)
      <4>1. Empty /\ UNCHANGED <<sendQ, sentQ, isSending>>
        BY <3>6, <1>stay DEF PushSessionIndex, KeepSend, sendVars, ReleasedClean
      <4>2. QED
        BY <4>1 DEF Goal
    <3>7. QED
      BY <2>11, <3>1, <3>2, <3>3, <3>4, <3>5, <3>6 DEF ReleaseStep
  <2>12. Goal
    BY <2>1, <2>2, <2>3, <2>4, <2>5, <2>6, <2>7, <2>8, <2>9, <2>10, <2>11
       DEF ThreadStep, GetQueuedCompletion, Continue
  <2>13. QED
    BY <2>12 DEF Goal
<1>3. QED
  BY <1>1, <1>2, <1>goal

-----------------------------------------------------------------------------
(* The packets.                                                            *)

Places(p) ==
  Count(sendQ, p) + Count(sentQ, p) + Cardinality(Carriers(p)) + Cardinality(PostsOf(p))
Accounted(p) == Places(p) + freed[p] = IF idOf[p] = 0 THEN 0 ELSE 1

\* A step of t moves one packet at most, and every packet it moves or frees has
\* been in one place.
LEMMA ThreadAccounted ==
  ASSUME IInv, NEW t \in Threads, ThreadStep(t), NEW p \in Packets
  PROVE  Accounted(p)'
<1> DEFINE Carries == t \in Carriers(p)
<1>type. TypeOK /\ CallSupport(t) /\ (\A j \in posts : PostSupport(j)) /\ Accounted(p)
  BY DEF IInv, Support, PacketsAccounted, Accounted, Places
<1>held. /\ Count(sendQ, p) \in Nat /\ Count(sentQ, p) \in Nat /\ freed[p] \in 0..1
         /\ Cardinality(Carriers(p)) \in Nat
         /\ IsFiniteSet(PostsOf(p)) /\ Cardinality(PostsOf(p)) \in Nat
         /\ (p \in Elements(sendQ) \cup Elements(sentQ) \/ Carriers(p) # {} \/ PostsOf(p) # {})
              => freed[p] = 0 /\ idOf[p] # 0 /\ Places(p) = 1
         /\ Count(sendQ, p) = 0 <=> p \notin Elements(sendQ)
         /\ Count(sentQ, p) = 0 <=> p \notin Elements(sentQ)
  BY <1>type, HeldPacket, CountInQueue DEF Places, TypeOK
<1>carriers. /\ Cardinality(Carriers(p)') = Cardinality(Carriers(p)) + (IF Carries' THEN 1 ELSE 0)
                                                                     - (IF Carries THEN 1 ELSE 0)
             /\ (Carries' <=> Carries) => Carriers(p)' = Carriers(p)
  <2>1. \A r \in Threads \ {t} : r \in Carriers(p)' <=> r \in Carriers(p)
    BY <1>type, OthersStay DEF Carriers
  <2>2. Carriers(p) \subseteq Threads /\ Carriers(p)' \subseteq Threads
    BY DEF Carriers
  <2>3. Carriers(p) \subseteq Carriers(p)' \cup {t} /\ Carriers(p)' \subseteq Carriers(p) \cup {t}
    BY <2>1, <2>2
  <2>4. IsFiniteSet(Carriers(p))
    BY HeldPacket
  <2>5. Cardinality(Carriers(p)') = Cardinality(Carriers(p)) + (IF t \in Carriers(p)' THEN 1 ELSE 0)
                                                             - (IF t \in Carriers(p) THEN 1 ELSE 0)
    BY <2>3, <2>4, CardinalityOfNeighbours
  <2>6. QED
    BY <2>1, <2>2, <2>5
<1>carries. /\ Carries <=> /\ job[t].packet = p
                           /\ \/ pc[t] \in {"enqueue", "link"}
                              \/ pc[t] \in FindPcs /\ job[t].op \in PostOps
            /\ Carries' <=> /\ job'[t].packet = p
                            /\ \/ pc'[t] \in {"enqueue", "link"}
                               \/ pc'[t] \in FindPcs /\ job'[t].op \in PostOps
            /\ Carries => Carriers(p) # {}
  BY DEF Carriers
<1>places. Places(p) \in Nat
  BY <1>held DEF Places
<1>unused. idOf[p] = 0 => Places(p) = 0 /\ freed[p] = 0 /\ PostsOf(p) = {} /\ ~Carries
  BY <1>type, <1>held, <1>places, <1>carries DEF Accounted
<1> DEFINE Still == /\ sendQ' = sendQ /\ sentQ' = sentQ /\ freed'[p] = freed[p]
                    /\ PostsOf(p)' = PostsOf(p)
                    /\ Carries' <=> Carries
                    /\ idOf'[p] = idOf[p]
           Goal == Accounted(p)'
<1>still. Still => Goal
  BY <1>type, <1>carriers DEF Accounted, Places
\* what was carried is freed
<1>freed. ASSUME Carries, ~Carries', Free({p}), sendQ' = sendQ, sentQ' = sentQ,
                 PostsOf(p)' = PostsOf(p), idOf' = idOf
          PROVE  Goal
  <2>1. freed'[p] = freed[p] + 1
    BY <1>freed DEF Free
  <2>2. Cardinality(Carriers(p)') = Cardinality(Carriers(p)) - 1
    BY <1>freed, <1>carriers, <1>held
  <2>3. QED
    BY <1>freed, <2>1, <2>2, <1>type, <1>held DEF Accounted, Places
<1> HIDE DEF Carries, Goal, Still
<1> USE DEF At, Goto, Begin, TypeOK, Still
<1>1. ASSUME InitializeRef(t) PROVE  Goal
  BY <1>1, <1>still, <1>type, <1>carries DEF InitializeRef, KeepSend, sendVars, historyVars, ioVars, PostsOf, FindPcs
<1>2. ASSUME NEW op \in Ops, NEW p0 \in Packets \cup {NoPacket}, NEW u \in 1..unique,
         Call(t, op, p0, u)
      PROVE  Goal
  BY <1>2, <1>still, <1>type, <1>carries DEF Call, CallOps, PostOps, KeepSend, sendVars, historyVars, ioVars, PostsOf, FindPcs
<1>3. ASSUME NEW op \in Ops, NEW p0 \in Packets \cup {NoPacket}, NEW u \in 1..unique,
         PostPacket(t, op, p0, u)
      PROVE  Goal
  <2>same. sendQ' = sendQ /\ sentQ' = sentQ /\ freed' = freed /\ (Carries' <=> Carries)
    BY <1>3, <1>type, <1>carries DEF PostPacket, sendVars
  <2>1. CASE p = p0
    <3> DEFINE j == [op |-> op, packet |-> p0, unique |-> u]
    <3>1. idOf[p] = 0 /\ idOf'[p] # 0
      BY <1>3, <2>1, <1>type DEF PostPacket, Unused
    <3>2. PostsOf(p) = {} /\ Places(p) = 0
      BY <3>1, <1>unused
    <3>3. PostsOf(p)' = PostsOf(p) \cup {j} /\ j \notin PostsOf(p)
      BY <1>3, <2>1, <3>2 DEF PostPacket, PostsOf, PostOps
    <3>4. Cardinality(PostsOf(p)') = Cardinality(PostsOf(p)) + 1
      BY <3>3, <1>held, FS_AddElement
    <3>5. Cardinality(Carriers(p)') = Cardinality(Carriers(p))
      BY <2>same, <1>carriers
    <3>6. QED
      <4>1. Places(p)' = Places(p) + 1
        BY <2>same, <3>4, <3>5, <1>held DEF Places
      <4>2. freed'[p] = 0
        BY <2>same, <3>1, <1>unused
      <4>3. QED
        BY <3>1, <3>2, <4>1, <4>2 DEF Accounted, Goal
  <2>2. CASE p # p0
    <3>1. PostsOf(p)' = PostsOf(p) /\ idOf'[p] = idOf[p]
      BY <1>3, <2>2, <1>type DEF PostPacket, PostsOf
    <3>2. QED
      BY <2>same, <3>1, <1>still
  <2>3. QED
    BY <2>1, <2>2
<1>4. ASSUME RecvCompletion(t) \/ SendCompletion(t) PROVE  Goal
  BY <1>4, <1>still, <1>type, <1>carries DEF RecvCompletion, SendCompletion, KeepSend, sendVars, historyVars, ioVars, PostsOf, FindPcs
<1>5. ASSUME NEW j \in posts, TakePost(t, j) PROVE  Goal
  <2>same. sendQ' = sendQ /\ sentQ' = sentQ /\ freed' = freed /\ idOf' = idOf /\ ~Carries
    BY <1>5, <1>type, <1>carries DEF TakePost, KeepSend, sendVars, historyVars, FindPcs
  <2>1. CASE j.op = "SENDSIGN" \/ j.packet # p
    <3>1. PostsOf(p)' = PostsOf(p)
      BY <1>5, <2>1 DEF TakePost, PostsOf
    <3>2. ~Carries'
      BY <1>5, <2>1, <1>type, <1>carries DEF TakePost, FindPcs
    <3>3. QED
      BY <2>same, <3>1, <3>2, <1>still
  <2>2. CASE j.op # "SENDSIGN" /\ j.packet = p
    <3>1. PostsOf(p)' = PostsOf(p) \ {j} /\ j \in PostsOf(p)
      BY <1>5, <2>2 DEF TakePost, PostsOf
    <3>2. Cardinality(PostsOf(p)') = Cardinality(PostsOf(p)) - 1
      BY <3>1, <1>held, FS_RemoveElement
    <3>3. j.op \in PostOps
      BY <2>2, <1>type DEF PostSupport
    <3>4. Carries'
      BY <1>5, <2>2, <3>3, <1>type, <1>carries DEF TakePost, FindPcs
    <3>5. Cardinality(Carriers(p)') = Cardinality(Carriers(p)) + 1
      BY <2>same, <3>4, <1>carriers, <1>held
    <3>6. QED
      BY <2>same, <3>2, <3>5, <1>type, <1>held DEF Accounted, Places, Goal
  <2>3. QED
    BY <2>1, <2>2
<1>6. ASSUME InitializePublish(t) PROVE  Goal
  BY <1>6, <1>still, <1>type, <1>carries DEF InitializePublish, KeepSend, sendVars, historyVars, ioVars, PostsOf, FindPcs
<1>7. ASSUME FindStep(t) PROVE  Goal
  <2>1. CASE AcquireDead(t)
    <3>1. CASE Refuse(t)
      <4>1. CASE p = job[t].packet /\ job[t].op \in PostOps
        BY <2>1, <3>1, <4>1, <1>freed, <1>type, <1>carries DEF AcquireDead, Refuse, NoJob, ioVars, sendVars, PostsOf, FindPcs
      <4>2. CASE ~(p = job[t].packet /\ job[t].op \in PostOps)
        <5>1. freed'[p] = freed[p]
          BY <3>1, <4>2, <1>type, <1>held DEF Refuse, Free
        <5>2. QED
          BY <2>1, <3>1, <4>2, <5>1, <1>still, <1>type, <1>carries, ThreadsAssumption
             DEF AcquireDead, Refuse, NoJob, ioVars, sendVars, PostsOf, FindPcs
      <4>3. QED
        BY <4>1, <4>2
    <3>2. CASE ~isDead
      BY <2>1, <3>2, <1>still, <1>type, <1>carries DEF AcquireDead, ioVars, sendVars, PostsOf, FindPcs
    <3>3. QED
      BY <2>1, <3>1, <3>2 DEF AcquireDead
  <2>2. CASE AcquireUnique(t)
    <3>1. CASE Refuse(t)
      <4>1. CASE p = job[t].packet /\ job[t].op \in PostOps
        BY <2>2, <3>1, <4>1, <1>freed, <1>type, <1>carries DEF AcquireUnique, Refuse, NoJob, ioVars, sendVars, PostsOf, FindPcs
      <4>2. CASE ~(p = job[t].packet /\ job[t].op \in PostOps)
        <5>1. freed'[p] = freed[p]
          BY <3>1, <4>2, <1>type, <1>held DEF Refuse, Free
        <5>2. QED
          BY <2>2, <3>1, <4>2, <5>1, <1>still, <1>type, <1>carries, ThreadsAssumption
             DEF AcquireUnique, Refuse, NoJob, ioVars, sendVars, PostsOf, FindPcs
      <4>3. QED
        BY <4>1, <4>2
    <3>2. CASE unique = job[t].unique /\ job[t].op = "Disconnect"
      BY <2>2, <3>2, <1>still, <1>type, <1>carries DEF AcquireUnique, Acquired, ioVars, sendVars, PostsOf, FindPcs, PostOps
    <3>3. CASE unique = job[t].unique /\ job[t].op # "Disconnect"
      <4>1. /\ sendQ' = sendQ /\ sentQ' = sentQ /\ freed' = freed /\ PostsOf(p)' = PostsOf(p)
            /\ pc'[t] = "enqueue" /\ job' = job /\ idOf' = [idOf EXCEPT ![job[t].packet] = job[t].unique]
            /\ pc[t] = "unique?"
        BY <2>2, <3>3, <1>type DEF AcquireUnique, Acquired, ioVars, sendVars, PostsOf
      <4>2. CASE p # job[t].packet
        BY <4>1, <4>2, <1>still, <1>type, <1>carries
      <4>3. CASE p = job[t].packet /\ job[t].op \in PostOps
        <5>1. idOf'[p] = idOf[p] /\ Carries /\ Carries'
          BY <4>1, <4>3, <1>type, <1>carries DEF CallSupport, FindPcs
        <5>2. QED
          BY <4>1, <5>1, <1>still
      <4>4. CASE p = job[t].packet /\ job[t].op \notin PostOps
        <5>1. idOf[p] = 0 /\ idOf'[p] # 0 /\ Carries'
          BY <3>3, <4>1, <4>4, <1>type, <1>carries DEF CallSupport, FindPcs, CallOps
        <5>2. ~Carries /\ Places(p) = 0 /\ freed[p] = 0
          BY <5>1, <1>unused
        <5>3. Cardinality(Carriers(p)') = Cardinality(Carriers(p)) + 1
          BY <5>1, <5>2, <1>carriers, <1>held
        <5>4. QED
          BY <4>1, <5>1, <5>2, <5>3, <1>held DEF Accounted, Places, Goal
      <4>5. QED
        BY <4>2, <4>3, <4>4
    <3>4. QED
      BY <2>2, <3>1, <3>2, <3>3 DEF AcquireUnique
  <2>3. CASE AlreadyCanceled(t)
    BY <2>3, <1>still, <1>type, <1>carries DEF AlreadyCanceled, KeepSend, sendVars, historyVars, ioVars, PostsOf, FindPcs
  <2>4. QED
    BY <1>7, <2>1, <2>2, <2>3 DEF FindStep
<1>8. ASSUME EnqueueStep(t) PROVE  Goal
  <2>1. CASE EnqueueSendQ(t)
    <3>1. CASE canceled \/ Len(sendQ) >= MAX_SIZE
      <4>1. CASE p = job[t].packet
        BY <2>1, <3>1, <4>1, <1>freed, <1>type, <1>carries DEF EnqueueSendQ, ioVars, sendVars, PostsOf, FindPcs
      <4>2. CASE p # job[t].packet
        <5>1. freed'[p] = freed[p]
          BY <2>1, <3>1, <4>2, <1>type, <1>held DEF EnqueueSendQ, Free
        <5>2. QED
          BY <2>1, <3>1, <4>2, <5>1, <1>still, <1>type, <1>carries, ThreadsAssumption
             DEF EnqueueSendQ, NoJob, ioVars, sendVars, PostsOf, FindPcs
      <4>3. QED
        BY <4>1, <4>2
    <3>2. CASE ~(canceled \/ Len(sendQ) >= MAX_SIZE)
      BY <2>1, <3>2, <1>still, <1>type, <1>carries DEF EnqueueSendQ, ioVars, sendVars, PostsOf, FindPcs
    <3>3. QED
      BY <3>1, <3>2
  <2>2. CASE Enqueue(t)
    <3>1. /\ sendQ' = Append(sendQ, job[t].packet) /\ sentQ' = sentQ
          /\ freed' = freed /\ idOf' = idOf /\ PostsOf(p)' = PostsOf(p)
          /\ job[t].packet \in Packets /\ ~Carries'
          /\ Carries <=> p = job[t].packet
      BY <2>2, <1>type, <1>carries DEF Enqueue, AfterEnqueue, CallSupport, ioVars, historyVars, PostsOf, FindPcs
    <3>2. Count(sendQ', p) = Count(sendQ, p) + (IF job[t].packet = p THEN 1 ELSE 0)
      BY <3>1, <1>type, CountAppend
    <3>3. Cardinality(Carriers(p)') = Cardinality(Carriers(p)) - (IF job[t].packet = p THEN 1 ELSE 0)
      BY <3>1, <1>carriers, <1>held
    <3>4. QED
      BY <3>1, <3>2, <3>3, <1>type, <1>held DEF Accounted, Places, Goal
  <2>3. CASE PostSign(t)
    <3>1. PostsOf(p)' = PostsOf(p)
      <4> DEFINE j == [job[t] EXCEPT !.op = "SENDSIGN"]
      <4>1. j.op = "SENDSIGN" /\ (posts' = posts \/ posts' = posts \cup {j})
        BY <2>3, <1>type DEF PostSign, Jobs
      <4> HIDE DEF j
      <4>2. QED
        BY <4>1 DEF PostsOf
    <3>2. QED
      BY <2>3, <3>1, <1>still, <1>type, <1>carries DEF PostSign, KeepSend, sendVars, historyVars, FindPcs
  <2>4. QED
    BY <1>8, <2>1, <2>2, <2>3 DEF EnqueueStep
<1>9. ASSUME PostStep(t) PROVE  Goal
  <2>1. CASE LastFlag(t)
    BY <2>1, <1>still, <1>type, <1>carries DEF LastFlag, KeepSend, sendVars, historyVars, ioVars, PostsOf, FindPcs
  <2>2. CASE LastCancelIO(t)
    BY <2>2, <1>still, <1>type, <1>carries DEF LastCancelIO, KeepSend, sendVars, historyVars, ioVars, PostsOf, FindPcs
  <2>3. CASE SpinForSendFlag(t)
    BY <2>3, <1>still, <1>type, <1>carries DEF SpinForSendFlag, KeepSend, sendVars, historyVars, ioVars, PostsOf, FindPcs
  <2>4. CASE TrySendFlag(t)
    BY <2>4, <1>still, <1>type, <1>carries DEF TrySendFlag, KeepSend, sendVars, historyVars, ioVars, PostsOf, FindPcs
  <2>5. CASE FreeSentPacket(t)
    <3>1. /\ sentQ' = <<>> /\ sendQ' = sendQ /\ idOf' = idOf /\ PostsOf(p)' = PostsOf(p)
          /\ ~Carries /\ ~Carries'
      BY <2>5, <1>type, <1>carries DEF FreeSentPacket, ioVars, PostsOf, FindPcs
    <3>2. freed'[p] = freed[p] + (IF p \in Elements(sentQ) THEN 1 ELSE 0)
      BY <2>5 DEF FreeSentPacket, Free
    <3>3. Count(sentQ', p) = 0
      BY <3>1, CountEmpty
    <3>4. Cardinality(Carriers(p)') = Cardinality(Carriers(p))
      BY <3>1, <1>carriers
    <3>5. Count(sentQ, p) = IF p \in Elements(sentQ) THEN 1 ELSE 0
      BY <1>held DEF Places
    <3>6. QED
      BY <3>1, <3>2, <3>3, <3>4, <3>5, <1>type, <1>held DEF Accounted, Places, Goal
  <2>6. CASE DequeueSendQ(t)
    <3>1. /\ sentQ' = Append(sentQ, Head(sendQ)) /\ sendQ' = Tail(sendQ) /\ sendQ # <<>>
          /\ freed' = freed /\ idOf' = idOf /\ PostsOf(p)' = PostsOf(p)
          /\ Carries' <=> Carries
      BY <2>6, <1>carries DEF DequeueSendQ, ioVars, historyVars, PostsOf
    <3>2. /\ Head(sendQ) \in Packets
          /\ Count(sendQ, p) = Count(sendQ', p) + (IF Head(sendQ) = p THEN 1 ELSE 0)
      BY <3>1, <1>type, CountHead
    <3>3. Count(sentQ', p) = Count(sentQ, p) + (IF Head(sendQ) = p THEN 1 ELSE 0)
      BY <3>1, <3>2, <1>type, CountAppend
    <3>4. Count(sendQ', p) \in Nat
      BY <3>1, <1>type, CountHead, CountInQueue
    <3>5. Cardinality(Carriers(p)') = Cardinality(Carriers(p))
      BY <3>1, <1>carriers
    <3>6. QED
      BY <3>1, <3>2, <3>3, <3>4, <3>5, <1>type, <1>held, SMTT(30) DEF Accounted, Places, Goal
  <2>7. CASE SendQEmpty(t)
    BY <2>7, <1>still, <1>type, <1>carries DEF SendQEmpty, KeepSend, sendVars, historyVars, ioVars, PostsOf, FindPcs
  <2>8. CASE SetSendFlagFalse(t)
    BY <2>8, <1>still, <1>type, <1>carries DEF SetSendFlagFalse, KeepSend, sendVars, historyVars, ioVars, PostsOf, FindPcs
  <2>9. CASE WSASend(t)
    BY <2>9, <1>still, <1>type, <1>carries DEF WSASend, KeepSend, sendVars, historyVars, ioVars, PostsOf, FindPcs, AfterPending
  <2>10. CASE RecheckCanceled(t)
    BY <2>10, <1>still, <1>type, <1>carries DEF RecheckCanceled, KeepSend, sendVars, historyVars, ioVars, PostsOf, FindPcs, AfterPending
  <2>11. CASE SendCancelIO(t)
    BY <2>11, <1>still, <1>type, <1>carries DEF SendCancelIO, KeepSend, sendVars, historyVars, ioVars, PostsOf, FindPcs
  <2>12. CASE SendFailed(t)
    BY <2>12, <1>still, <1>type, <1>carries DEF SendFailed, KeepSend, sendVars, historyVars, ioVars, PostsOf, FindPcs
  <2>13. CASE SendFailedCancelIO(t)
    BY <2>13, <1>still, <1>type, <1>carries DEF SendFailedCancelIO, KeepSend, sendVars, historyVars, ioVars, PostsOf, FindPcs
  <2>14. CASE SubIOCount(t)
    BY <2>14, <1>still, <1>type, <1>carries DEF SubIOCount, KeepSend, sendVars, historyVars, ioVars, PostsOf, FindPcs, DropRefs
  <2>15. QED
    BY <1>9, <2>1, <2>2, <2>3, <2>4, <2>5, <2>6, <2>7, <2>8, <2>9, <2>10, <2>11, <2>12, <2>13, <2>14 DEF PostStep
<1>10. ASSUME CompletionStep(t) PROVE  Goal
  <2>1. CASE OnSendComplete(t)
    BY <2>1, <1>still, <1>type, <1>carries DEF OnSendComplete, KeepSend, sendVars, historyVars, ioVars, PostsOf, FindPcs
  <2>2. CASE SentCanceled(t)
    BY <2>2, <1>still, <1>type, <1>carries DEF SentCanceled, KeepSend, sendVars, historyVars, ioVars, PostsOf, FindPcs
  <2>3. CASE SentFlagFalse(t)
    BY <2>3, <1>still, <1>type, <1>carries DEF SentFlagFalse, KeepSend, sendVars, historyVars, ioVars, PostsOf, FindPcs
  <2>4. CASE OperationAborted(t)
    BY <2>4, <1>still, <1>type, <1>carries DEF OperationAborted, KeepSend, sendVars, historyVars, ioVars, PostsOf, FindPcs
  <2>5. QED
    BY <1>10, <2>1, <2>2, <2>3, <2>4 DEF CompletionStep
<1>11. ASSUME ReleaseStep(t) PROVE  Goal
  <2>1. CASE DisconnectFlag(t)
    BY <2>1, <1>still, <1>type, <1>carries DEF DisconnectFlag, KeepSend, sendVars, historyVars, ioVars, PostsOf, FindPcs
  <2>2. CASE DisconnectCancelIO(t)
    BY <2>2, <1>still, <1>type, <1>carries DEF DisconnectCancelIO, KeepSend, sendVars, historyVars, ioVars, PostsOf, FindPcs
  <2>3. CASE DecrementIOCount(t)
    BY <2>3, <1>still, <1>type, <1>carries DEF DecrementIOCount, KeepSend, sendVars, historyVars, ioVars, PostsOf, FindPcs, DropRefs
  <2>4. CASE SetDeleteFlag(t)
    BY <2>4, <1>still, <1>type, <1>carries DEF SetDeleteFlag, KeepSend, sendVars, historyVars, ioVars, PostsOf, FindPcs
  <2>5. CASE Destroy(t)
    <3>1. /\ sentQ' = <<>> /\ sendQ' = <<>> /\ idOf' = idOf /\ PostsOf(p)' = PostsOf(p)
          /\ ~Carries /\ ~Carries'
      BY <2>5, <1>type, <1>carries DEF Destroy, ioVars, PostsOf, FindPcs
    <3>2. freed'[p] = freed[p] + (IF p \in Elements(sentQ) \cup Elements(sendQ) THEN 1 ELSE 0)
      BY <2>5 DEF Destroy, Free
    <3>3. Count(sentQ', p) = 0 /\ Count(sendQ', p) = 0
      BY <3>1, CountEmpty
    <3>4. Cardinality(Carriers(p)') = Cardinality(Carriers(p))
      BY <3>1, <1>carriers
    <3>5. Count(sentQ, p) + Count(sendQ, p) = IF p \in Elements(sentQ) \cup Elements(sendQ) THEN 1 ELSE 0
      BY <1>held DEF Places
    <3>6. QED
      <4>1. Places(p)' = Places(p) - (IF p \in Elements(sentQ) \cup Elements(sendQ) THEN 1 ELSE 0)
        BY <3>1, <3>3, <3>4, <3>5, <1>held DEF Places
      <4>2. Places(p)' + freed'[p] = Places(p) + freed[p]
        BY <3>2, <4>1, <1>held, <1>places
      <4>3. QED
        BY <3>1, <4>2, <1>type DEF Accounted, Goal
  <2>6. CASE PushSessionIndex(t)
    BY <2>6, <1>still, <1>type, <1>carries DEF PushSessionIndex, KeepSend, sendVars, historyVars, ioVars, PostsOf, FindPcs
  <2>7. QED
    BY <1>11, <2>1, <2>2, <2>3, <2>4, <2>5, <2>6 DEF ReleaseStep
<1>12. Goal
  BY <1>1, <1>2, <1>3, <1>4, <1>5, <1>6, <1>7, <1>8, <1>9, <1>10, <1>11
     DEF ThreadStep, GetQueuedCompletion, Continue
<1>13. QED
  BY <1>12 DEF Goal

-----------------------------------------------------------------------------
(* The induction.                                                          *)

LEMMA ThreadKeepsInv ==
  ASSUME SendsFitMode, IInv, NEW t \in Threads, ThreadStep(t)
  PROVE  IInv'
<1>1. TypeOK'
  BY ThreadTypeOK
<1>2. RefsExact' /\ OneSender' /\ ReleasedClean'
  BY ThreadRefsExact, ThreadOneSender, ThreadReleasedClean
<1>3. CanceledBefore' /\ NeverQuits' /\ ModeKept'
  BY ThreadCanceledBefore, ThreadModeKept
<1>4. PacketsAccounted'
  BY ThreadAccounted DEF PacketsAccounted, Accounted, Places
<1>5. SentToItsOwn' /\ QueuedForThis'
  BY ThreadSentToItsOwn, ThreadQueuedForThis
<1>6. SlotPlaced' /\ OneCallEach'
  BY ThreadSlotPlaced, ThreadOneCallEach DEF IInv, Support
<1>7. \A r \in Threads : CallSupport(r)'
  <2>1. CallSupport(t)'
    BY MoverCallSupport DEF IInv, Support
  <2>2. QED
    BY <2>1, BystanderCallSupport
<1>8. \A j \in posts' : PostSupport(j)'
  BY ThreadPostSupport DEF IInv, Support
<1>9. Support'
  BY <1>3, <1>5, <1>6, <1>7, <1>8 DEF Support
<1>10. QED
  BY <1>1, <1>2, <1>3, <1>4, <1>5, <1>9 DEF IInv

\* What the kernel does ends an operation and keeps its references; a step that
\* changes nothing is a case of it.
LEMMA KernelKeepsInv ==
  ASSUME IInv,
         UNCHANGED <<IOcount, unique, canceled, isSending, sendQ, sentQ, posts, isFree,
                     pc, job, idOf, freed, sentOn>>,
         recvIO' = recvIO \/ KernelEndsRecv,
         sendIO' = sendIO \/ KernelEndsSend
  PROVE  IInv'
<1>1. /\ recvIO' = "none" <=> recvIO = "none"
      /\ sendIO' = "none" <=> sendIO = "none"
      /\ recvIO' = "aborted" => recvIO = "aborted"
      /\ sendIO' = "aborted" => sendIO = "aborted"
  BY DEF KernelEndsRecv, KernelEndsSend
<1>2. HeldBySend' = HeldBySend
  BY DEF KernelEndsSend, HeldBySend, IInv, Support, ModeKept
<1>3. TypeOK'
  BY DEF KernelEndsRecv, KernelEndsSend, IInv, TypeOK
<1>4. isDead' <=> isDead
  BY DEF isDead
<1>5. RefsHeld' = RefsHeld
  <2>1. \A t \in Threads : Held(t)' = Held(t)
    BY DEF Held, Refs
  <2>2. Signs' = Signs
    BY DEF Signs
  <2>3. QED
    BY <1>1, <1>2, <2>1, <2>2 DEF RefsHeld
<1>6. RefsExact'
  BY <1>4, <1>5 DEF IInv, RefsExact
<1>7. OneSender' /\ ReleasedClean'
  BY <1>1, <1>4 DEF IInv, OneSender, SendUsers, ReleasedClean
<1>8. CanceledBefore' /\ NeverQuits' /\ SentToItsOwn' /\ QueuedForThis'
  BY <1>1 DEF IInv, Support, CanceledBefore, NeverQuits, SentToItsOwn, QueuedForThis
<1>9. ModeKept'
  BY DEF KernelEndsSend, IInv, Support, ModeKept
<1>10. PacketsAccounted'
  <2>1. \A p \in Packets : Carriers(p)' = Carriers(p) /\ PostsOf(p)' = PostsOf(p)
    BY DEF Carriers, PostsOf
  <2>2. QED
    BY <2>1 DEF IInv, PacketsAccounted
<1>11. SlotPlaced'
  BY <1>4 DEF IInv, Support, SlotPlaced, Owners, Signs
<1>12. OneCallEach'
  BY DEF IInv, Support, OneCallEach
<1>13. \A t \in Threads : CallSupport(t)'
  BY DEF IInv, Support, CallSupport
<1>14. \A j \in posts' : PostSupport(j)'
  BY DEF IInv, Support, PostSupport
<1>15. QED
  BY <1>3, <1>6, <1>7, <1>8, <1>9, <1>10, <1>11, <1>12, <1>13, <1>14 DEF IInv, Support

\* The slot before the first accept.
LEMMA InitHasInv == Init => IInv
<1> SUFFICES ASSUME Init PROVE IInv
  OBVIOUS
<1>1. /\ IOcount = DELETE_FLAG_BIT /\ DELETE_FLAG_BIT \in Nat /\ DELETE_FLAG_BIT > 0
      /\ \A t \in Threads : pc[t] = "idle" /\ job[t] = NoJob
      /\ posts = {} /\ sendQ = <<>> /\ sentQ = <<>> /\ sendIO = "none" /\ recvIO = "none"
  BY ThreadsAssumption, FS_CardinalityType DEF Init
<1>2. TypeOK
  <2>1. NoJob \in Jobs /\ <<>> \in Seq(Packets)
    BY BoundsAssumption, EmptySeq DEF NoJob, Jobs
  <2>2. 0 \in 0..MaxStamp /\ "idle" \in Pcs /\ IOcount \in 0 .. 2 * DELETE_FLAG_BIT - 1
    BY <1>1, BoundsAssumption DEF Pcs
  <2>3. /\ pc \in [Threads -> Pcs] /\ job \in [Threads -> Jobs]
        /\ idOf \in [Packets -> 0..MaxStamp] /\ freed \in [Packets -> 0..1]
        /\ sentOn \in [Packets -> 0..MaxStamp]
    BY <2>1, <2>2 DEF Init
  <2>4. QED
    BY <1>1, <2>1, <2>2, <2>3 DEF Init, TypeOK
<1>3. isDead
  BY <1>1 DEF isDead
<1>4. RefsExact
  <2>1. \A t \in Threads : Held(t) = 0
    BY <1>1 DEF Held, HoldOne, HoldTwo, FindPcs, PostPcs
  <2>2. /\ {t \in Threads : Held(t) >= 1} = {} /\ {t \in Threads : Held(t) = 2} = {}
        /\ Signs = {}
    BY <1>1, <2>1 DEF Signs
  <2>3. HeldBySend = 0
    BY <1>1 DEF HeldBySend
  <2>4. Cardinality({}) = 0
    BY FS_EmptySet
  <2>5. RefsHeld = Cardinality({}) + Cardinality({}) + 2 * Cardinality({}) + 0 + 0
    BY <1>1, <2>2, <2>3 DEF RefsHeld
  <2>6. QED
    BY <1>1, <1>3, <2>4, <2>5 DEF RefsExact
<1>5. OneSender /\ NeverQuits /\ SentToItsOwn /\ CanceledBefore /\ ModeKept
  BY <1>1 DEF Init, OneSender, SendUsers, NeverQuits, SentToItsOwn, CanceledBefore, ModeKept
<1>6. PacketsAccounted
  <2>1. \A p \in Packets : Carriers(p) = {} /\ PostsOf(p) = {}
    BY <1>1 DEF Carriers, PostsOf, FindPcs
  <2>2. Cardinality({}) = 0 /\ \A p \in Packets : Count(<<>>, p) = 0
    BY FS_EmptySet, CountEmpty
  <2>3. \A p \in Packets : freed[p] = 0 /\ idOf[p] = 0
    BY DEF Init
  <2>4. SUFFICES ASSUME NEW p \in Packets
                 PROVE  Count(<<>>, p) + Count(<<>>, p) + Cardinality({}) + Cardinality({}) + 0 = 0
    BY <1>1, <2>1, <2>3 DEF PacketsAccounted
  <2>5. QED
    BY <2>2
<1>7. ReleasedClean
  BY <1>1 DEF Init, ReleasedClean
<1>8. SlotPlaced
  BY <1>1, <1>3 DEF Init, SlotPlaced, Owners, OwnerPcs, AlivePcs, HoldTwo, PostPcs, Signs
<1>9. OneCallEach
  BY <1>1 DEF OneCallEach, NoJob
<1>10. \A t \in Threads : CallSupport(t)
  BY <1>1 DEF CallSupport, FindPcs
<1>11. (\A j \in posts : PostSupport(j)) /\ QueuedForThis
  BY <1>1, CountEmpty DEF QueuedForThis
<1>12. QED
  BY <1>2, <1>4, <1>5, <1>6, <1>7, <1>8, <1>9, <1>10, <1>11 DEF IInv, Support

\* So does every step.
LEMMA NextKeepsInv ==
  ASSUME SendsFitMode, IInv, [Next]_vars
  PROVE  IInv'
<1>1. CASE UNCHANGED vars
  BY <1>1, KernelKeepsInv DEF vars, sessionVars, sendVars, ioVars, historyVars
<1>2. ASSUME NEW t \in Threads, ThreadStep(t)
      PROVE  IInv'
  BY <1>2, ThreadKeepsInv
<1>3. CASE KernelEndsRecv
  BY <1>3, KernelKeepsInv DEF KernelEndsRecv, KeepSend, sessionVars, sendVars, historyVars
<1>4. CASE KernelEndsSend
  BY <1>4, KernelKeepsInv DEF KernelEndsSend, KeepSend, sessionVars, sendVars, historyVars
<1>5. QED
  BY <1>1, <1>2, <1>3, <1>4 DEF Next, ThreadStep

\* A thread that still holds a reference does not find the bare delete flag.
LEMMA HeldIsCounted == IInv => NeverUnderZero
<1> SUFFICES ASSUME IInv, NEW t \in Threads, pc[t] \in {"dec", "sub2"}
             PROVE  IOcount # DELETE_FLAG_BIT
  BY DEF NeverUnderZero
<1>1. Held(t) >= 1
  BY DEF Held, HoldOne, HoldTwo, FindPcs, PostPcs
<1>2. /\ RefsHeld \in Nat /\ RefsHeld < DELETE_FLAG_BIT /\ Held(t) <= RefsHeld
      /\ Held(t) \in {0, 1, 2} /\ DELETE_FLAG_BIT \in Nat
  BY RefsBounded, HeldValues, ThreadsAssumption DEF IInv, Support
<1>3. IOcount = RefsHeld + (IF isDead THEN DELETE_FLAG_BIT ELSE 0)
  BY DEF IInv, RefsExact
<1>4. QED
  BY <1>1, <1>2, <1>3

\* The inductive invariant, for any number of threads, packets and sessions, of a
\* server whose sends end as its mode says.
THEOREM InductiveInvariant ==
  ASSUME SendsFitMode
  PROVE  Spec => []IInv
<1>1. Init => IInv
  BY InitHasInv
<1>2. IInv /\ [Next]_vars => IInv'
  BY NextKeepsInv
<1>3. QED
  BY <1>1, <1>2, PTL DEF Spec
-----------------------------------------------------------------------------
(* What it gives.                                                          *)

\* The 16-bit IOcount_ is, in every state, the references that threads, posted signs,
\* the send in the kernel and the receive hold, with the delete flag in a released
\* session; it wraps nowhere, and nobody takes it under zero (NetServer.cpp 366-942).
THEOREM References ==
  ASSUME SendsFitMode
  PROVE  Spec => []RefsAccounted
<1>1. IInv => RefsAccounted
  BY HeldIsCounted DEF IInv, RefsAccounted
<1>2. QED
  BY <1>1, InductiveInvariant, PTL

\* Whoever won the exchange of isSending_, or the kernel after it, is the only user of
\* sentQ_ and sendOverlapped_ (NetSession.cpp 136-202).
THEOREM SendExclusive ==
  ASSUME SendsFitMode
  PROVE  Spec => []OneSender
<1>1. IInv => OneSender
  BY DEF IInv
<1>2. QED
  BY <1>1, InductiveInvariant, PTL

\* ErrorQuit is not reached: isIOCanceled_ is set before any CancelIoEx, so whoever
\* takes an aborted completion finds it set (NetServer.cpp 834-942, 1266-1407).
THEOREM SendNeverQuits ==
  ASSUME SendsFitMode
  PROVE  Spec => []NeverQuits
<1>1. IInv => NeverQuits
  BY DEF IInv
<1>2. QED
  BY <1>1, InductiveInvariant, PTL

\* No packet leaks and none is freed twice, on any path of success, refusal, failure or
\* release (NetServer.cpp 1102-1227, NetSession.cpp 60-93, 317-325).
THEOREM PacketsFreedOnce ==
  ASSUME SendsFitMode
  PROVE  Spec => []PacketsAccounted
<1>1. IInv => PacketsAccounted
  BY DEF IInv
<1>2. QED
  BY <1>1, InductiveInvariant, PTL

\* A packet goes out on the connection of the session it was meant for, and a slot is
\* given to its next session without packet, send or isSending_ (NetSession.cpp 60-93).
THEOREM SlotsHandedOnClean ==
  ASSUME SendsFitMode
  PROVE  Spec => []NothingLeftOver
<1>1. IInv => NothingLeftOver
  BY DEF IInv, NothingLeftOver
<1>2. QED
  BY <1>1, InductiveInvariant, PTL
=============================================================================
