------------------------- MODULE SessionLifeProofs -------------------------
(***************************************************************************)
(* The safety properties of SessionLife, for any number of slots, threads  *)
(* and sessions. IInv is the inductive invariant; the heart of it is       *)
(* RefsExact, which is about cardinalities, so the first lemmas say how    *)
(* the references of a slot change when one thread moves.                  *)
(***************************************************************************)
EXTENDS SessionLife, FiniteSetTheorems, TLAPS

\* The 16-bit word: its size and the flag's place, and what a register makes of
\* an integer. The numbers themselves play no part in the proofs.
LEMMA WordSizes ==
  /\ DELETE_FLAG_BIT \in Nat \ {0}
  /\ WordSize \in Nat
  /\ WordSize = DELETE_FLAG_BIT + DELETE_FLAG_BIT
  BY DEF DELETE_FLAG_BIT, WordSize

\* A step of the 16-bit word stays one.
LEMMA WordType ==
  ASSUME NEW n \in Int
  PROVE  /\ Word(n) \in 0 .. WordSize - 1
         /\ n \in 0 .. WordSize - 1 => Word(n) = n
  BY WordSizes DEF Word

\* What InterlockedAnd16 of Initialize leaves: the word without its flag.
LEMMA MaskFlag ==
  ASSUME NEW n \in 0 .. WordSize - 1
  PROVE  /\ n % DELETE_FLAG_BIT \in 0 .. DELETE_FLAG_BIT - 1
         /\ n % DELETE_FLAG_BIT = IF n < DELETE_FLAG_BIT THEN n ELSE n - DELETE_FLAG_BIT
  BY WordSizes

\* The positions, one by one.
LEMMA PcsElements ==
  \A l \in {"idle", "set", "cancel", "dec",
            "pop", "init", "fields", "publish", "join",
            "dead?", "unique?", "canceled?",
            "inc", "post", "recheck", "recancel", "fail", "failcancel", "sub2",
            "recvd", "abort", "quit", "cas", "leave", "destroy", "push"} : l \in Pcs
  BY DEF Pcs, AcceptPcs, FindPcs, RecvPcs, WorkerPcs, ReleasePcs

-----------------------------------------------------------------------------
\* the references a thread holds at a position
Weight(l) == IF l \in HoldTwo THEN 2 ELSE IF l \in HoldOne THEN 1 ELSE 0

HeldBy(t, s) == IF sess[t] = s THEN Weight(pc[t]) ELSE 0

\* the reference of the receive
IOWeight(s) == IF recvIO[s] = "none" THEN 0 ELSE 1

-----------------------------------------------------------------------------
\* Two finite sets that differ in one element at most.
LEMMA CardinalityOfNeighbours ==
  ASSUME NEW S, IsFiniteSet(S), NEW T, NEW x,
         S \subseteq T \cup {x}, T \subseteq S \cup {x}
  PROVE  /\ IsFiniteSet(T)
         /\ Cardinality(S) \in Nat
         /\ Cardinality(T) \in Nat
         /\ Cardinality(T) = Cardinality(S) + (IF x \in T THEN 1 ELSE 0)
                                            - (IF x \in S THEN 1 ELSE 0)
<1>1. Cardinality(S) \in Nat
  BY FS_CardinalityType
<1>2. CASE x \in S /\ x \in T
  <2>1. S = T
    BY <1>2
  <2>2. QED
    BY <2>1, <1>1, <1>2
<1>3. CASE x \notin S /\ x \notin T
  <2>1. S = T
    BY <1>3
  <2>2. QED
    BY <2>1, <1>1, <1>3
<1>4. CASE x \in S /\ x \notin T
  <2>1. T = S \ {x}
    BY <1>4
  <2>2. IsFiniteSet(T) /\ Cardinality(T) = Cardinality(S) - 1
    BY <2>1, <1>4, FS_RemoveElement
  <2>3. Cardinality(T) \in Nat
    BY <2>2, FS_CardinalityType
  <2>4. QED
    BY <2>2, <2>3, <1>1, <1>4
<1>5. CASE x \notin S /\ x \in T
  <2>1. T = S \cup {x}
    BY <1>5
  <2>2. IsFiniteSet(T) /\ Cardinality(T) = Cardinality(S) + 1
    BY <2>1, <1>5, FS_AddElement
  <2>3. QED
    BY <2>2, <1>1, <1>5
<1>6. QED
  BY <1>2, <1>3, <1>4, <1>5

\* The threads at some positions of a slot are finitely many.
LEMMA OnFinite ==
  ASSUME NEW s, NEW P
  PROVE  /\ IsFiniteSet(On(s, P))
         /\ Cardinality(On(s, P)) \in Nat
         /\ Cardinality(On(s, P)) <= Cardinality(Threads)
<1>1. On(s, P) \subseteq Threads
  BY DEF On
<1>2. QED
  BY <1>1, ThreadsAssumption, FS_Subset, FS_CardinalityType

\* The references of a slot are a small number, and a slot without any has no
\* thread that holds one and no receive.
LEMMA RefsBounded ==
  ASSUME NEW s
  PROVE  /\ RefsHeld(s) \in Nat
         /\ RefsHeld(s) < DELETE_FLAG_BIT
         /\ \A t \in Threads : sess[t] = s => Weight(pc[t]) <= RefsHeld(s)
         /\ RefsHeld(s) = 0 =>
              /\ recvIO[s] = "none"
              /\ \A t \in Threads : sess[t] = s => Weight(pc[t]) = 0
<1> DEFINE A == On(s, HoldOne \cup HoldTwo)
           B == On(s, HoldTwo)
<1>1. /\ IsFiniteSet(A) /\ Cardinality(A) \in Nat
      /\ Cardinality(A) <= Cardinality(Threads)
  BY OnFinite
<1>2. /\ IsFiniteSet(B) /\ Cardinality(B) \in Nat
      /\ Cardinality(B) <= Cardinality(Threads)
  BY OnFinite
<1>3. Cardinality(Threads) \in Nat
  BY ThreadsAssumption, FS_CardinalityType
<1>4. RefsHeld(s) = Cardinality(A) + Cardinality(B) + IOWeight(s)
  BY DEF RefsHeld, IOWeight
<1>5. IOWeight(s) \in {0, 1} /\ (IOWeight(s) = 0 => recvIO[s] = "none")
  BY DEF IOWeight
<1>6. ASSUME NEW t \in Threads, sess[t] = s
      PROVE  Weight(pc[t]) <= Cardinality(A) + Cardinality(B) /\ Weight(pc[t]) \in Nat
  <2>1. pc[t] \in HoldOne \cup HoldTwo => Cardinality(A) >= 1
    <3>1. pc[t] \in HoldOne \cup HoldTwo => t \in A
      BY <1>6 DEF On
    <3>2. A # {} => Cardinality(A) # 0
      BY <1>1, FS_EmptySet
    <3>3. QED
      BY <3>1, <3>2, <1>1
  <2>2. pc[t] \in HoldTwo => Cardinality(B) >= 1
    <3>1. pc[t] \in HoldTwo => t \in B
      BY <1>6 DEF On
    <3>2. B # {} => Cardinality(B) # 0
      BY <1>2, FS_EmptySet
    <3>3. QED
      BY <3>1, <3>2, <1>2
  <2>3. QED
    BY <2>1, <2>2, <1>1, <1>2 DEF Weight
<1> HIDE DEF A, B
<1>7. QED
  BY <1>1, <1>2, <1>3, <1>4, <1>5, <1>6, ThreadsAssumption, WordSizes

\* When thread t moves and the others stay, the references of a slot change by
\* what t holds before and after, and by the receive.
LEMMA RefsChange ==
  ASSUME NEW s, NEW t \in Threads,
         \A r \in Threads \ {t} : pc'[r] = pc[r] /\ sess'[r] = sess[r]
  PROVE  /\ RefsHeld(s)' = RefsHeld(s) + HeldBy(t, s)' - HeldBy(t, s)
                                       + IOWeight(s)' - IOWeight(s)
         /\ RefsHeld(s)' \in Nat
         /\ RefsHeld(s)' < DELETE_FLAG_BIT
<1> DEFINE A == On(s, HoldOne \cup HoldTwo)
           B == On(s, HoldTwo)
<1>1. A \subseteq A' \cup {t} /\ A' \subseteq A \cup {t}
  BY DEF On
<1>2. B \subseteq B' \cup {t} /\ B' \subseteq B \cup {t}
  BY DEF On
<1>3. /\ t \in A <=> sess[t] = s /\ pc[t] \in HoldOne \cup HoldTwo
      /\ t \in B <=> sess[t] = s /\ pc[t] \in HoldTwo
      /\ t \in A' <=> sess'[t] = s /\ pc'[t] \in HoldOne \cup HoldTwo
      /\ t \in B' <=> sess'[t] = s /\ pc'[t] \in HoldTwo
  BY DEF On
<1>4. /\ IsFiniteSet(A) /\ IsFiniteSet(B)
      /\ Cardinality(A') <= Cardinality(Threads)
      /\ Cardinality(B') <= Cardinality(Threads)
  <2>1. A' \subseteq Threads /\ B' \subseteq Threads
    BY DEF On
  <2>2. QED
    BY <2>1, OnFinite, ThreadsAssumption, FS_Subset
<1>5. Cardinality(Threads) \in Nat
  BY ThreadsAssumption, FS_CardinalityType
<1> HIDE DEF A, B
<1>6. /\ Cardinality(A) \in Nat /\ Cardinality(A') \in Nat
      /\ Cardinality(A') = Cardinality(A) + (IF t \in A' THEN 1 ELSE 0)
                                          - (IF t \in A THEN 1 ELSE 0)
  BY <1>1, <1>4, CardinalityOfNeighbours
<1>7. /\ Cardinality(B) \in Nat /\ Cardinality(B') \in Nat
      /\ Cardinality(B') = Cardinality(B) + (IF t \in B' THEN 1 ELSE 0)
                                          - (IF t \in B THEN 1 ELSE 0)
  BY <1>2, <1>4, CardinalityOfNeighbours
<1>8. /\ RefsHeld(s) = Cardinality(A) + Cardinality(B) + IOWeight(s)
      /\ RefsHeld(s)' = Cardinality(A') + Cardinality(B') + IOWeight(s)'
  BY DEF RefsHeld, IOWeight, A, B
<1>9. IOWeight(s) \in {0, 1} /\ IOWeight(s)' \in {0, 1}
  BY DEF IOWeight
<1>10. QED
  BY <1>3, <1>4, <1>5, <1>6, <1>7, <1>8, <1>9, ThreadsAssumption, WordSizes
     DEF Weight, HeldBy

-----------------------------------------------------------------------------
ThreadStep(t) ==
  \/ Accept(t)
  \/ \E id \in issued : FindSession(t, id)
  \/ \E s \in Slots : GetQueuedCompletion(t, s)
  \/ Continue(t)

\* by how much a step of t changes the references of s
Delta(t, s) == HeldBy(t, s)' - HeldBy(t, s) + IOWeight(s)' - IOWeight(s)

\* A step of one thread leaves the others where they are.
LEMMA OthersStay ==
  ASSUME TypeOK, NEW t \in Threads, ThreadStep(t)
  PROVE  \A r \in Threads \ {t} : pc'[r] = pc[r] /\ sess'[r] = sess[r] /\ tgt'[r] = tgt[r]
<1>1. ASSUME Accept(t)
      PROVE  \A r \in Threads \ {t} : pc'[r] = pc[r] /\ sess'[r] = sess[r] /\ tgt'[r] = tgt[r]
  BY <1>1 DEF Accept, Goto, DropRefs, localVars, TypeOK
<1>2. ASSUME NEW id \in issued, FindSession(t, id)
      PROVE  \A r \in Threads \ {t} : pc'[r] = pc[r] /\ sess'[r] = sess[r] /\ tgt'[r] = tgt[r]
  BY <1>2 DEF FindSession, Goto, DropRefs, localVars, TypeOK
<1>3. ASSUME NEW i \in Slots, GetQueuedCompletion(t, i)
      PROVE  \A r \in Threads \ {t} : pc'[r] = pc[r] /\ sess'[r] = sess[r] /\ tgt'[r] = tgt[r]
  BY <1>3 DEF GetQueuedCompletion, Goto, DropRefs, localVars, TypeOK
<1>4. ASSUME SessionMax(t)
      PROVE  \A r \in Threads \ {t} : pc'[r] = pc[r] /\ sess'[r] = sess[r] /\ tgt'[r] = tgt[r]
  BY <1>4 DEF SessionMax, Goto, DropRefs, localVars, TypeOK
<1>5. ASSUME AllocSession(t)
      PROVE  \A r \in Threads \ {t} : pc'[r] = pc[r] /\ sess'[r] = sess[r] /\ tgt'[r] = tgt[r]
  BY <1>5 DEF AllocSession, Goto, DropRefs, localVars, TypeOK
<1>6. ASSUME InitializeRef(t)
      PROVE  \A r \in Threads \ {t} : pc'[r] = pc[r] /\ sess'[r] = sess[r] /\ tgt'[r] = tgt[r]
  BY <1>6 DEF InitializeRef, Goto, DropRefs, localVars, TypeOK
<1>7. ASSUME InitializeFields(t)
      PROVE  \A r \in Threads \ {t} : pc'[r] = pc[r] /\ sess'[r] = sess[r] /\ tgt'[r] = tgt[r]
  BY <1>7 DEF InitializeFields, Goto, DropRefs, localVars, TypeOK
<1>8. ASSUME InitializePublish(t)
      PROVE  \A r \in Threads \ {t} : pc'[r] = pc[r] /\ sess'[r] = sess[r] /\ tgt'[r] = tgt[r]
  BY <1>8 DEF InitializePublish, Goto, DropRefs, localVars, TypeOK
<1>9. ASSUME OnClientJoin(t)
      PROVE  \A r \in Threads \ {t} : pc'[r] = pc[r] /\ sess'[r] = sess[r] /\ tgt'[r] = tgt[r]
  BY <1>9 DEF OnClientJoin, Goto, DropRefs, localVars, TypeOK
<1>10. ASSUME RecvPost(t)
       PROVE  \A r \in Threads \ {t} : pc'[r] = pc[r] /\ sess'[r] = sess[r] /\ tgt'[r] = tgt[r]
  BY <1>10 DEF RecvPost, Goto, DropRefs, localVars, TypeOK
<1>11. ASSUME WSARecv(t)
       PROVE  \A r \in Threads \ {t} : pc'[r] = pc[r] /\ sess'[r] = sess[r] /\ tgt'[r] = tgt[r]
  BY <1>11 DEF WSARecv, Goto, DropRefs, localVars, TypeOK
<1>12. ASSUME RecheckCanceled(t)
       PROVE  \A r \in Threads \ {t} : pc'[r] = pc[r] /\ sess'[r] = sess[r] /\ tgt'[r] = tgt[r]
  BY <1>12 DEF RecheckCanceled, Goto, DropRefs, localVars, TypeOK
<1>13. ASSUME RecvCancelIO(t)
       PROVE  \A r \in Threads \ {t} : pc'[r] = pc[r] /\ sess'[r] = sess[r] /\ tgt'[r] = tgt[r]
  BY <1>13 DEF RecvCancelIO, Goto, DropRefs, localVars, TypeOK
<1>14. ASSUME RecvFailed(t)
       PROVE  \A r \in Threads \ {t} : pc'[r] = pc[r] /\ sess'[r] = sess[r] /\ tgt'[r] = tgt[r]
  BY <1>14 DEF RecvFailed, Goto, DropRefs, localVars, TypeOK
<1>15. ASSUME RecvFailedCancelIO(t)
       PROVE  \A r \in Threads \ {t} : pc'[r] = pc[r] /\ sess'[r] = sess[r] /\ tgt'[r] = tgt[r]
  BY <1>15 DEF RecvFailedCancelIO, Goto, DropRefs, localVars, TypeOK
<1>16. ASSUME SubIOCount(t)
       PROVE  \A r \in Threads \ {t} : pc'[r] = pc[r] /\ sess'[r] = sess[r] /\ tgt'[r] = tgt[r]
  BY <1>16 DEF SubIOCount, Goto, DropRefs, localVars, TypeOK
<1>17. ASSUME OnRecvComplete(t)
       PROVE  \A r \in Threads \ {t} : pc'[r] = pc[r] /\ sess'[r] = sess[r] /\ tgt'[r] = tgt[r]
  BY <1>17 DEF OnRecvComplete, Goto, DropRefs, localVars, TypeOK
<1>18. ASSUME OperationAborted(t)
       PROVE  \A r \in Threads \ {t} : pc'[r] = pc[r] /\ sess'[r] = sess[r] /\ tgt'[r] = tgt[r]
  BY <1>18 DEF OperationAborted, Goto, DropRefs, localVars, TypeOK
<1>19. ASSUME AcquireDead(t)
       PROVE  \A r \in Threads \ {t} : pc'[r] = pc[r] /\ sess'[r] = sess[r] /\ tgt'[r] = tgt[r]
  BY <1>19 DEF AcquireDead, Goto, DropRefs, localVars, TypeOK
<1>20. ASSUME AcquireUnique(t)
       PROVE  \A r \in Threads \ {t} : pc'[r] = pc[r] /\ sess'[r] = sess[r] /\ tgt'[r] = tgt[r]
  BY <1>20 DEF AcquireUnique, Goto, DropRefs, localVars, TypeOK
<1>21. ASSUME AlreadyCanceled(t)
       PROVE  \A r \in Threads \ {t} : pc'[r] = pc[r] /\ sess'[r] = sess[r] /\ tgt'[r] = tgt[r]
  BY <1>21 DEF AlreadyCanceled, Goto, DropRefs, localVars, TypeOK
<1>22. ASSUME DisconnectFlag(t)
       PROVE  \A r \in Threads \ {t} : pc'[r] = pc[r] /\ sess'[r] = sess[r] /\ tgt'[r] = tgt[r]
  BY <1>22 DEF DisconnectFlag, Goto, DropRefs, localVars, TypeOK
<1>23. ASSUME DisconnectCancelIO(t)
       PROVE  \A r \in Threads \ {t} : pc'[r] = pc[r] /\ sess'[r] = sess[r] /\ tgt'[r] = tgt[r]
  BY <1>23 DEF DisconnectCancelIO, Goto, DropRefs, localVars, TypeOK
<1>24. ASSUME DecrementIOCount(t)
       PROVE  \A r \in Threads \ {t} : pc'[r] = pc[r] /\ sess'[r] = sess[r] /\ tgt'[r] = tgt[r]
  BY <1>24 DEF DecrementIOCount, Goto, DropRefs, localVars, TypeOK
<1>25. ASSUME SetDeleteFlag(t)
       PROVE  \A r \in Threads \ {t} : pc'[r] = pc[r] /\ sess'[r] = sess[r] /\ tgt'[r] = tgt[r]
  BY <1>25 DEF SetDeleteFlag, Goto, DropRefs, localVars, TypeOK
<1>26. ASSUME OnClientLeave(t)
       PROVE  \A r \in Threads \ {t} : pc'[r] = pc[r] /\ sess'[r] = sess[r] /\ tgt'[r] = tgt[r]
  BY <1>26 DEF OnClientLeave, Goto, DropRefs, localVars, TypeOK
<1>27. ASSUME Destroy(t)
       PROVE  \A r \in Threads \ {t} : pc'[r] = pc[r] /\ sess'[r] = sess[r] /\ tgt'[r] = tgt[r]
  BY <1>27 DEF Destroy, Goto, DropRefs, localVars, TypeOK
<1>28. ASSUME PushSessionIndex(t)
       PROVE  \A r \in Threads \ {t} : pc'[r] = pc[r] /\ sess'[r] = sess[r] /\ tgt'[r] = tgt[r]
  BY <1>28 DEF PushSessionIndex, Goto, DropRefs, localVars, TypeOK
<1>29. QED
  BY <1>1, <1>2, <1>3, <1>4, <1>5, <1>6, <1>7, <1>8, <1>9, <1>10,
     <1>11, <1>12, <1>13, <1>14, <1>15, <1>16, <1>17, <1>18, <1>19, <1>20,
     <1>21, <1>22, <1>23, <1>24, <1>25, <1>26, <1>27, <1>28
     DEF ThreadStep, Continue, AllocStep, RecvStep, CompletionStep, DisconnectStep,
         ReleaseStep


\* The weight of a position is read off the sets HoldOne and HoldTwo.
LEMMA WeightOf ==
  /\ \A l \in {"idle", "pop", "init", "cas", "leave", "destroy", "push", "quit"} : Weight(l) = 0
  /\ \A l \in {"fields", "publish", "join", "inc", "recheck", "recancel", "recvd",
               "abort", "set", "cancel", "dec", "dead?", "unique?", "canceled?"} : Weight(l) = 1
  /\ \A l \in {"post", "fail", "failcancel", "sub2"} : Weight(l) = 2
  BY DEF Weight, HoldOne, HoldTwo, FindPcs

Counted(t, s) ==
  \/ IOcount'[s] = Word(IOcount[s] + Delta(t, s))
  \/ InitializePublish(t) /\ sess[t] = s
  \/ SetDeleteFlag(t) /\ sess[t] = s /\ IOcount[s] = 0

\* Every step changes IOcount_ by exactly what it changes the references by, but
\* for the two that set and clear the delete flag.
LEMMA Accounts ==
  ASSUME TypeOK, OneReceiver, Support, NEW t \in Threads, ThreadStep(t), NEW s \in Slots
  PROVE  Counted(t, s)
<1>1. ASSUME Accept(t)
      PROVE  Counted(t, s)
  BY <1>1, WeightOf, WordType DEF Accept, At, Goto, AddIOCount, DropRefs, CancelIO, Counted, Delta, HeldBy,
     IOWeight, TypeOK, OneReceiver, RecvUser, On, Completions, AfterDequeue, sessionVars, localVars, IDs
<1>2. ASSUME NEW id \in issued, FindSession(t, id)
      PROVE  Counted(t, s)
  BY <1>2, WeightOf, WordType DEF FindSession, At, Goto, AddIOCount, DropRefs, CancelIO, Counted, Delta, HeldBy,
     IOWeight, TypeOK, OneReceiver, RecvUser, On, Completions, AfterDequeue, sessionVars, localVars, IDs
<1>3. ASSUME NEW i \in Slots, GetQueuedCompletion(t, i)
      PROVE  Counted(t, s)
  BY <1>3, WeightOf, WordType DEF GetQueuedCompletion, At, Goto, AddIOCount, DropRefs, CancelIO, Counted, Delta, HeldBy,
     IOWeight, TypeOK, OneReceiver, RecvUser, On, Completions, AfterDequeue, sessionVars, localVars, IDs
<1>4. ASSUME SessionMax(t)
      PROVE  Counted(t, s)
  BY <1>4, WeightOf, WordType DEF SessionMax, At, Goto, AddIOCount, DropRefs, CancelIO, Counted, Delta, HeldBy,
     IOWeight, TypeOK, OneReceiver, RecvUser, On, Completions, AfterDequeue, sessionVars, localVars, IDs
<1>5. ASSUME AllocSession(t)
      PROVE  Counted(t, s)
  BY <1>5, WeightOf, WordType DEF AllocSession, At, Goto, AddIOCount, DropRefs, CancelIO, Counted, Delta, HeldBy,
     IOWeight, TypeOK, OneReceiver, RecvUser, On, Completions, AfterDequeue, sessionVars, localVars, IDs
<1>6. ASSUME InitializeRef(t)
      PROVE  Counted(t, s)
  BY <1>6, WeightOf, WordType DEF InitializeRef, At, Goto, AddIOCount, DropRefs, CancelIO, Counted, Delta, HeldBy,
     IOWeight, TypeOK, OneReceiver, RecvUser, On, Completions, AfterDequeue, sessionVars, localVars, IDs
<1>7. ASSUME InitializeFields(t)
      PROVE  Counted(t, s)
  BY <1>7, WeightOf, WordType DEF InitializeFields, At, Goto, AddIOCount, DropRefs, CancelIO, Counted, Delta, HeldBy,
     IOWeight, TypeOK, OneReceiver, RecvUser, On, Completions, AfterDequeue, sessionVars, localVars, IDs
<1>8. ASSUME InitializePublish(t)
      PROVE  Counted(t, s)
  BY <1>8, WeightOf, WordType DEF InitializePublish, At, Goto, AddIOCount, DropRefs, CancelIO, Counted, Delta, HeldBy,
     IOWeight, TypeOK, OneReceiver, RecvUser, On, Completions, AfterDequeue, sessionVars, localVars, IDs
<1>9. ASSUME OnClientJoin(t)
      PROVE  Counted(t, s)
  BY <1>9, WeightOf, WordType DEF OnClientJoin, At, Goto, AddIOCount, DropRefs, CancelIO, Counted, Delta, HeldBy,
     IOWeight, TypeOK, OneReceiver, RecvUser, On, Completions, AfterDequeue, sessionVars, localVars, IDs
<1>10. ASSUME RecvPost(t)
       PROVE  Counted(t, s)
  BY <1>10, WeightOf, WordType DEF RecvPost, At, Goto, AddIOCount, DropRefs, CancelIO, Counted, Delta, HeldBy,
     IOWeight, TypeOK, OneReceiver, RecvUser, On, Completions, AfterDequeue, sessionVars, localVars, IDs
<1>11. ASSUME WSARecv(t)
       PROVE  Counted(t, s)
  BY <1>11, WeightOf, WordType DEF WSARecv, At, Goto, AddIOCount, DropRefs, CancelIO, Counted, Delta, HeldBy,
     IOWeight, TypeOK, OneReceiver, RecvUser, On, Completions, AfterDequeue, sessionVars, localVars, IDs
<1>12. ASSUME RecheckCanceled(t)
       PROVE  Counted(t, s)
  BY <1>12, WeightOf, WordType DEF RecheckCanceled, At, Goto, AddIOCount, DropRefs, CancelIO, Counted, Delta, HeldBy,
     IOWeight, TypeOK, OneReceiver, RecvUser, On, Completions, AfterDequeue, sessionVars, localVars, IDs
<1>13. ASSUME RecvCancelIO(t)
       PROVE  Counted(t, s)
  BY <1>13, WeightOf, WordType DEF RecvCancelIO, At, Goto, AddIOCount, DropRefs, CancelIO, Counted, Delta, HeldBy,
     IOWeight, TypeOK, OneReceiver, RecvUser, On, Completions, AfterDequeue, sessionVars, localVars, IDs
<1>14. ASSUME RecvFailed(t)
       PROVE  Counted(t, s)
  BY <1>14, WeightOf, WordType DEF RecvFailed, At, Goto, AddIOCount, DropRefs, CancelIO, Counted, Delta, HeldBy,
     IOWeight, TypeOK, OneReceiver, RecvUser, On, Completions, AfterDequeue, sessionVars, localVars, IDs
<1>15. ASSUME RecvFailedCancelIO(t)
       PROVE  Counted(t, s)
  BY <1>15, WeightOf, WordType DEF RecvFailedCancelIO, At, Goto, AddIOCount, DropRefs, CancelIO, Counted, Delta, HeldBy,
     IOWeight, TypeOK, OneReceiver, RecvUser, On, Completions, AfterDequeue, sessionVars, localVars, IDs
<1>16. ASSUME SubIOCount(t)
       PROVE  Counted(t, s)
  BY <1>16, WeightOf, WordType DEF SubIOCount, At, Goto, AddIOCount, DropRefs, CancelIO, Counted, Delta, HeldBy,
     IOWeight, TypeOK, OneReceiver, RecvUser, On, Completions, AfterDequeue, sessionVars, localVars, IDs
<1>17. ASSUME OnRecvComplete(t)
       PROVE  Counted(t, s)
  BY <1>17, WeightOf, WordType DEF OnRecvComplete, At, Goto, AddIOCount, DropRefs, CancelIO, Counted, Delta, HeldBy,
     IOWeight, TypeOK, OneReceiver, RecvUser, On, Completions, AfterDequeue, sessionVars, localVars, IDs
<1>18. ASSUME OperationAborted(t)
       PROVE  Counted(t, s)
  BY <1>18, WeightOf, WordType DEF OperationAborted, Support, ThreadSupport, At, Goto, AddIOCount, DropRefs, CancelIO, Counted, Delta, HeldBy,
     IOWeight, TypeOK, OneReceiver, RecvUser, On, Completions, AfterDequeue, sessionVars, localVars, IDs
<1>19. ASSUME AcquireDead(t)
       PROVE  Counted(t, s)
  BY <1>19, WeightOf, WordType DEF AcquireDead, At, Goto, AddIOCount, DropRefs, CancelIO, Counted, Delta, HeldBy,
     IOWeight, TypeOK, OneReceiver, RecvUser, On, Completions, AfterDequeue, sessionVars, localVars, IDs
<1>20. ASSUME AcquireUnique(t)
       PROVE  Counted(t, s)
  BY <1>20, WeightOf, WordType DEF AcquireUnique, At, Goto, AddIOCount, DropRefs, CancelIO, Counted, Delta, HeldBy,
     IOWeight, TypeOK, OneReceiver, RecvUser, On, Completions, AfterDequeue, sessionVars, localVars, IDs
<1>21. ASSUME AlreadyCanceled(t)
       PROVE  Counted(t, s)
  BY <1>21, WeightOf, WordType DEF AlreadyCanceled, At, Goto, AddIOCount, DropRefs, CancelIO, Counted, Delta, HeldBy,
     IOWeight, TypeOK, OneReceiver, RecvUser, On, Completions, AfterDequeue, sessionVars, localVars, IDs
<1>22. ASSUME DisconnectFlag(t)
       PROVE  Counted(t, s)
  BY <1>22, WeightOf, WordType DEF DisconnectFlag, At, Goto, AddIOCount, DropRefs, CancelIO, Counted, Delta, HeldBy,
     IOWeight, TypeOK, OneReceiver, RecvUser, On, Completions, AfterDequeue, sessionVars, localVars, IDs
<1>23. ASSUME DisconnectCancelIO(t)
       PROVE  Counted(t, s)
  BY <1>23, WeightOf, WordType DEF DisconnectCancelIO, At, Goto, AddIOCount, DropRefs, CancelIO, Counted, Delta, HeldBy,
     IOWeight, TypeOK, OneReceiver, RecvUser, On, Completions, AfterDequeue, sessionVars, localVars, IDs
<1>24. ASSUME DecrementIOCount(t)
       PROVE  Counted(t, s)
  BY <1>24, WeightOf, WordType DEF DecrementIOCount, At, Goto, AddIOCount, DropRefs, CancelIO, Counted, Delta, HeldBy,
     IOWeight, TypeOK, OneReceiver, RecvUser, On, Completions, AfterDequeue, sessionVars, localVars, IDs
<1>25. ASSUME SetDeleteFlag(t)
       PROVE  Counted(t, s)
  BY <1>25, WeightOf, WordType DEF SetDeleteFlag, At, Goto, AddIOCount, DropRefs, CancelIO, Counted, Delta, HeldBy,
     IOWeight, TypeOK, OneReceiver, RecvUser, On, Completions, AfterDequeue, sessionVars, localVars, IDs
<1>26. ASSUME OnClientLeave(t)
       PROVE  Counted(t, s)
  BY <1>26, WeightOf, WordType DEF OnClientLeave, At, Goto, AddIOCount, DropRefs, CancelIO, Counted, Delta, HeldBy,
     IOWeight, TypeOK, OneReceiver, RecvUser, On, Completions, AfterDequeue, sessionVars, localVars, IDs
<1>27. ASSUME Destroy(t)
       PROVE  Counted(t, s)
  BY <1>27, WeightOf, WordType DEF Destroy, At, Goto, AddIOCount, DropRefs, CancelIO, Counted, Delta, HeldBy,
     IOWeight, TypeOK, OneReceiver, RecvUser, On, Completions, AfterDequeue, sessionVars, localVars, IDs
<1>28. ASSUME PushSessionIndex(t)
       PROVE  Counted(t, s)
  BY <1>28, WeightOf, WordType DEF PushSessionIndex, At, Goto, AddIOCount, DropRefs, CancelIO, Counted, Delta, HeldBy,
     IOWeight, TypeOK, OneReceiver, RecvUser, On, Completions, AfterDequeue, sessionVars, localVars, IDs
<1>29. QED
  BY <1>1, <1>2, <1>3, <1>4, <1>5, <1>6, <1>7, <1>8, <1>9, <1>10,
     <1>11, <1>12, <1>13, <1>14, <1>15, <1>16, <1>17, <1>18, <1>19, <1>20,
     <1>21, <1>22, <1>23, <1>24, <1>25, <1>26, <1>27, <1>28
     DEF ThreadStep, Continue, AllocStep, RecvStep, CompletionStep, DisconnectStep,
         ReleaseStep


\* Every step keeps the types.
LEMMA ThreadTypeOK ==
  ASSUME IInv, NEW t \in Threads, ThreadStep(t)
  PROVE  TypeOK'
<1> USE DEF IInv
<1>1. ASSUME Accept(t)
      PROVE  TypeOK'
  BY <1>1, PcsElements
     DEF Accept, Goto, At, TypeOK,
         sessionVars, arrayVars, localVars, historyVars
<1>2. ASSUME NEW id \in issued, FindSession(t, id)
      PROVE  TypeOK'
  BY <1>2, PcsElements, WordType, WordSizes
     DEF FindSession, Goto, At, AddIOCount, DropRefs, IDs, TypeOK,
         sessionVars, arrayVars, localVars, historyVars
<1>3. ASSUME NEW i \in Slots, GetQueuedCompletion(t, i)
      PROVE  TypeOK'
  BY <1>3, PcsElements
     DEF GetQueuedCompletion, Goto, At, Completions, CancelIO, AfterDequeue, TypeOK,
         sessionVars, arrayVars, localVars, historyVars
<1>4. ASSUME SessionMax(t)
      PROVE  TypeOK'
  BY <1>4, PcsElements
     DEF SessionMax, Goto, At, TypeOK,
         sessionVars, arrayVars, localVars, historyVars
<1>5. ASSUME AllocSession(t)
      PROVE  TypeOK'
  BY <1>5, PcsElements, StampAssumption
     DEF AllocSession, Goto, At, Support, ThreadSupport, SlotSupport, AcceptPcs, TypeOK,
         sessionVars, arrayVars, localVars, historyVars
<1>6. ASSUME InitializeRef(t)
      PROVE  TypeOK'
  BY <1>6, PcsElements, WordType, WordSizes
     DEF InitializeRef, Goto, At, AddIOCount, DropRefs, TypeOK,
         sessionVars, arrayVars, localVars, historyVars
<1>7. ASSUME InitializeFields(t)
      PROVE  TypeOK'
  BY <1>7, PcsElements, StampAssumption
     DEF InitializeFields, Goto, At, Support, ThreadSupport, SlotSupport, IDs, TypeOK,
         sessionVars, arrayVars, localVars, historyVars
<1>8. ASSUME InitializePublish(t)
      PROVE  TypeOK'
  BY <1>8, PcsElements, WordType, WordSizes, MaskFlag
     DEF InitializePublish, Goto, At, AddIOCount, DropRefs, TypeOK,
         sessionVars, arrayVars, localVars, historyVars
<1>9. ASSUME OnClientJoin(t)
      PROVE  TypeOK'
  <2>1. tgt[t] \in 1..MaxStamp
    <3>1. tgt[t] \in 0..MaxStamp /\ sess[t] \in Slots
      BY DEF TypeOK
    <3>2. ~isDead(sess[t]) /\ unique[sess[t]] = tgt[t]
      BY <1>9 DEF OnClientJoin, At, AcquiredIsOwn, Acquired
    <3>3. unique[sess[t]] # 0
      BY <3>1, <3>2 DEF Support, SlotSupport
    <3>4. QED
      BY <3>1, <3>2, <3>3
  <2>2. QED
    BY <1>9, <2>1, PcsElements
       DEF OnClientJoin, Goto, TypeOK, sessionVars, arrayVars, localVars
<1>10. ASSUME RecvPost(t)
       PROVE  TypeOK'
  BY <1>10, PcsElements, WordType, WordSizes
     DEF RecvPost, Goto, At, AddIOCount, DropRefs, TypeOK,
         sessionVars, arrayVars, localVars, historyVars
<1>11. ASSUME WSARecv(t)
       PROVE  TypeOK'
  BY <1>11, PcsElements
     DEF WSARecv, Goto, At, Completions, CancelIO, TypeOK,
         sessionVars, arrayVars, localVars, historyVars
<1>12. ASSUME RecheckCanceled(t)
       PROVE  TypeOK'
  BY <1>12, PcsElements
     DEF RecheckCanceled, Goto, At, TypeOK,
         sessionVars, arrayVars, localVars, historyVars
<1>13. ASSUME RecvCancelIO(t)
       PROVE  TypeOK'
  BY <1>13, PcsElements
     DEF RecvCancelIO, Goto, At, Completions, CancelIO, TypeOK,
         sessionVars, arrayVars, localVars, historyVars
<1>14. ASSUME RecvFailed(t)
       PROVE  TypeOK'
  BY <1>14, PcsElements
     DEF RecvFailed, Goto, At, TypeOK,
         sessionVars, arrayVars, localVars, historyVars
<1>15. ASSUME RecvFailedCancelIO(t)
       PROVE  TypeOK'
  BY <1>15, PcsElements
     DEF RecvFailedCancelIO, Goto, At, Completions, CancelIO, TypeOK,
         sessionVars, arrayVars, localVars, historyVars
<1>16. ASSUME SubIOCount(t)
       PROVE  TypeOK'
  BY <1>16, PcsElements, WordType, WordSizes
     DEF SubIOCount, Goto, At, AddIOCount, DropRefs, TypeOK,
         sessionVars, arrayVars, localVars, historyVars
<1>17. ASSUME OnRecvComplete(t)
       PROVE  TypeOK'
  BY <1>17, PcsElements
     DEF OnRecvComplete, Goto, At, TypeOK,
         sessionVars, arrayVars, localVars, historyVars
<1>18. ASSUME OperationAborted(t)
       PROVE  TypeOK'
  BY <1>18, PcsElements
     DEF OperationAborted, Goto, At, TypeOK,
         sessionVars, arrayVars, localVars, historyVars
<1>19. ASSUME AcquireDead(t)
       PROVE  TypeOK'
  BY <1>19, PcsElements
     DEF AcquireDead, Goto, At, TypeOK,
         sessionVars, arrayVars, localVars, historyVars
<1>20. ASSUME AcquireUnique(t)
       PROVE  TypeOK'
  BY <1>20, PcsElements
     DEF AcquireUnique, Goto, At, TypeOK,
         sessionVars, arrayVars, localVars, historyVars
<1>21. ASSUME AlreadyCanceled(t)
       PROVE  TypeOK'
  BY <1>21, PcsElements
     DEF AlreadyCanceled, Goto, At, TypeOK,
         sessionVars, arrayVars, localVars, historyVars
<1>22. ASSUME DisconnectFlag(t)
       PROVE  TypeOK'
  BY <1>22, PcsElements
     DEF DisconnectFlag, Goto, At, TypeOK,
         sessionVars, arrayVars, localVars, historyVars
<1>23. ASSUME DisconnectCancelIO(t)
       PROVE  TypeOK'
  BY <1>23, PcsElements
     DEF DisconnectCancelIO, Goto, At, Completions, CancelIO, TypeOK,
         sessionVars, arrayVars, localVars, historyVars
<1>24. ASSUME DecrementIOCount(t)
       PROVE  TypeOK'
  BY <1>24, PcsElements, WordType, WordSizes
     DEF DecrementIOCount, Goto, At, AddIOCount, DropRefs, TypeOK,
         sessionVars, arrayVars, localVars, historyVars
<1>25. ASSUME SetDeleteFlag(t)
       PROVE  TypeOK'
  BY <1>25, PcsElements, WordType, WordSizes
     DEF SetDeleteFlag, Goto, At, AddIOCount, DropRefs, TypeOK,
         sessionVars, arrayVars, localVars, historyVars
<1>26. ASSUME OnClientLeave(t)
       PROVE  TypeOK'
  BY <1>26, PcsElements, StampAssumption
     DEF OnClientLeave, Goto, At, LeaveOnceAfterJoin, TypeOK,
         sessionVars, arrayVars, localVars, historyVars
<1>27. ASSUME Destroy(t)
       PROVE  TypeOK'
  BY <1>27, PcsElements
     DEF Destroy, Goto, At, TypeOK,
         sessionVars, arrayVars, localVars, historyVars
<1>28. ASSUME PushSessionIndex(t)
       PROVE  TypeOK'
  BY <1>28, PcsElements
     DEF PushSessionIndex, Goto, At, TypeOK,
         sessionVars, arrayVars, localVars, historyVars
<1>29. QED
  BY <1>1, <1>2, <1>3, <1>4, <1>5, <1>6, <1>7, <1>8, <1>9, <1>10,
     <1>11, <1>12, <1>13, <1>14, <1>15, <1>16, <1>17, <1>18, <1>19, <1>20,
     <1>21, <1>22, <1>23, <1>24, <1>25, <1>26, <1>27, <1>28
     DEF ThreadStep, Continue, AllocStep, RecvStep, CompletionStep, DisconnectStep,
         ReleaseStep



\* What the count is for, in one session.
Exact(s) == IOcount[s] = RefsHeld(s) + (IF isDead(s) THEN DELETE_FLAG_BIT ELSE 0)

\* The count stays exact; the flag is set by the thread that wins the compare and
\* exchange, at a count of zero, and cleared by the one that publishes.
LEMMA ThreadRefsExact ==
  ASSUME IInv, NEW t \in Threads, ThreadStep(t), NEW s \in Slots
  PROVE  /\ Exact(s)'
         /\ isDead(s)' <=> IF InitializePublish(t) /\ sess[t] = s THEN FALSE
                           ELSE IF SetDeleteFlag(t) /\ sess[t] = s /\ IOcount[s] = 0 THEN TRUE
                           ELSE isDead(s)
<1>1. /\ IOcount[s] \in 0 .. WordSize - 1
      /\ Exact(s)
  BY DEF IInv, TypeOK, RefsExact, Exact
<1>2. RefsHeld(s) \in Nat /\ RefsHeld(s) < DELETE_FLAG_BIT
  BY RefsBounded
<1>3. \A r \in Threads \ {t} : pc'[r] = pc[r] /\ sess'[r] = sess[r]
  BY OthersStay DEF IInv
<1>4. /\ RefsHeld(s)' = RefsHeld(s) + Delta(t, s)
      /\ RefsHeld(s)' \in Nat
      /\ RefsHeld(s)' < DELETE_FLAG_BIT
  <2>1. /\ RefsHeld(s)' = RefsHeld(s) + HeldBy(t, s)' - HeldBy(t, s)
                                      + IOWeight(s)' - IOWeight(s)
        /\ RefsHeld(s)' \in Nat
        /\ RefsHeld(s)' < DELETE_FLAG_BIT
    BY <1>3, RefsChange
  <2>2. /\ HeldBy(t, s) \in Nat /\ HeldBy(t, s)' \in Nat
        /\ IOWeight(s) \in Nat /\ IOWeight(s)' \in Nat
    BY DEF HeldBy, Weight, IOWeight
  <2>3. QED
    BY <2>1, <2>2, <1>2 DEF Delta
<1>5. Delta(t, s) \in Int
  BY DEF Delta, HeldBy, Weight, IOWeight
<1>6. CASE InitializePublish(t) /\ sess[t] = s
  <2>1. isDead(s)
    BY <1>6 DEF IInv, SlotsPartition, OwnerPcs, On, InitializePublish, At
  <2>2. IOcount'[s] = IOcount[s] - DELETE_FLAG_BIT
    <3>1. IOcount \in [Slots -> 0 .. WordSize - 1]
      BY DEF IInv, TypeOK
    <3>2. IOcount' = [IOcount EXCEPT ![s] = IOcount[s] % DELETE_FLAG_BIT]
      BY <1>6 DEF InitializePublish
    <3>3. IOcount[s] % DELETE_FLAG_BIT = IOcount[s] - DELETE_FLAG_BIT
      BY <1>1, <2>1, MaskFlag, WordSizes DEF isDead
    <3>4. QED
      BY <3>1, <3>2, <3>3
  <2>3. Delta(t, s) = 0
    BY <1>6, WeightOf DEF InitializePublish, At, Goto, Delta, HeldBy, IOWeight, IInv, TypeOK, localVars
  <2>4. QED
    BY <1>1, <1>2, <1>4, <1>6, <2>1, <2>2, <2>3, WordSizes DEF Exact, isDead
<1>7. CASE SetDeleteFlag(t) /\ sess[t] = s /\ IOcount[s] = 0
  <2>1. IOcount'[s] = DELETE_FLAG_BIT
    BY <1>7 DEF SetDeleteFlag, IInv, TypeOK
  <2>2. Delta(t, s) = 0
    BY <1>7, WeightOf DEF SetDeleteFlag, At, Goto, Delta, HeldBy, IOWeight, IInv, TypeOK, localVars
  <2>3. ~(InitializePublish(t) /\ sess[t] = s)
    BY <1>7 DEF InitializePublish, SetDeleteFlag, At
  <2>4. QED
    BY <1>1, <1>2, <1>4, <1>7, <2>1, <2>2, <2>3, WordSizes DEF Exact, isDead
<1>8. CASE IOcount'[s] = Word(IOcount[s] + Delta(t, s))
  <2>1. IOcount[s] + Delta(t, s) \in 0 .. WordSize - 1
    BY <1>1, <1>2, <1>4, <1>5, WordSizes DEF Exact
  <2>2. IOcount'[s] = IOcount[s] + Delta(t, s)
    BY <1>8, <2>1, WordType, WordSizes
  <2>3. CASE InitializePublish(t) /\ sess[t] = s
    BY <1>6, <2>3
  <2>4. CASE SetDeleteFlag(t) /\ sess[t] = s /\ IOcount[s] = 0
    BY <1>7, <2>4
  <2>5. CASE ~(InitializePublish(t) /\ sess[t] = s) /\ ~(SetDeleteFlag(t) /\ sess[t] = s /\ IOcount[s] = 0)
    BY <1>1, <1>2, <1>4, <1>5, <2>2, <2>5, WordSizes DEF Exact, isDead
  <2>6. QED
    BY <2>3, <2>4, <2>5
<1>9. Counted(t, s)
  BY Accounts DEF IInv
<1>10. QED
  BY <1>6, <1>7, <1>8, <1>9 DEF Counted


\* The thread that wins the compare and exchange finds a live session nobody
\* holds a reference of.
LEMMA CasFrees ==
  ASSUME IInv, NEW t \in Threads, IOcount[sess[t]] = 0
  PROVE  /\ ~isDead(sess[t])
         /\ recvIO[sess[t]] = "none"
         /\ \A r \in Threads : sess[r] = sess[t] => Weight(pc[r]) = 0
<1>1. sess[t] \in Slots
  BY DEF IInv, TypeOK
<1>2. ~isDead(sess[t])
  BY WordSizes DEF isDead
<1>3. RefsHeld(sess[t]) = 0
  BY <1>1, <1>2, RefsBounded DEF IInv, RefsExact
<1>4. QED
  BY <1>2, <1>3, RefsBounded

\* The fields of a live session are nobody's to reset.
LEMMA LiveFields ==
  ASSUME IInv, NEW t \in Threads, ThreadStep(t), NEW s \in Slots, ~isDead(s)
  PROVE  unique'[s] = unique[s] /\ sockOpen'[s] = sockOpen[s] /\ (canceled[s] => canceled'[s])
<1> USE DEF IInv
<1>1. ASSUME Accept(t)
      PROVE  unique'[s] = unique[s] /\ sockOpen'[s] = sockOpen[s] /\ (canceled[s] => canceled'[s])
  BY <1>1 DEF Accept, TypeOK, sessionVars
<1>2. ASSUME NEW id \in issued, FindSession(t, id)
      PROVE  unique'[s] = unique[s] /\ sockOpen'[s] = sockOpen[s] /\ (canceled[s] => canceled'[s])
  BY <1>2 DEF FindSession, TypeOK, sessionVars
<1>3. ASSUME NEW i \in Slots, GetQueuedCompletion(t, i)
      PROVE  unique'[s] = unique[s] /\ sockOpen'[s] = sockOpen[s] /\ (canceled[s] => canceled'[s])
  BY <1>3 DEF GetQueuedCompletion, TypeOK, sessionVars
<1>4. ASSUME SessionMax(t)
      PROVE  unique'[s] = unique[s] /\ sockOpen'[s] = sockOpen[s] /\ (canceled[s] => canceled'[s])
  BY <1>4 DEF SessionMax, TypeOK, sessionVars
<1>5. ASSUME AllocSession(t)
      PROVE  unique'[s] = unique[s] /\ sockOpen'[s] = sockOpen[s] /\ (canceled[s] => canceled'[s])
  BY <1>5 DEF AllocSession, TypeOK, sessionVars
<1>6. ASSUME InitializeRef(t)
      PROVE  unique'[s] = unique[s] /\ sockOpen'[s] = sockOpen[s] /\ (canceled[s] => canceled'[s])
  BY <1>6 DEF InitializeRef, TypeOK, sessionVars
<1>7. ASSUME InitializeFields(t)
      PROVE  unique'[s] = unique[s] /\ sockOpen'[s] = sockOpen[s] /\ (canceled[s] => canceled'[s])
  <2>1. sess[t] \in Slots /\ t \in On(sess[t], OwnerPcs)
    BY <1>7 DEF InitializeFields, At, On, OwnerPcs, TypeOK
  <2>2. isDead(sess[t])
    BY <2>1 DEF SlotsPartition
  <2>3. s # sess[t]
    BY <2>2
  <2>4. QED
    BY <1>7, <2>3 DEF InitializeFields, TypeOK
<1>8. ASSUME InitializePublish(t)
      PROVE  unique'[s] = unique[s] /\ sockOpen'[s] = sockOpen[s] /\ (canceled[s] => canceled'[s])
  BY <1>8 DEF InitializePublish, TypeOK, sessionVars
<1>9. ASSUME OnClientJoin(t)
      PROVE  unique'[s] = unique[s] /\ sockOpen'[s] = sockOpen[s] /\ (canceled[s] => canceled'[s])
  BY <1>9 DEF OnClientJoin, TypeOK, sessionVars
<1>10. ASSUME RecvPost(t)
       PROVE  unique'[s] = unique[s] /\ sockOpen'[s] = sockOpen[s] /\ (canceled[s] => canceled'[s])
  BY <1>10 DEF RecvPost, TypeOK, sessionVars
<1>11. ASSUME WSARecv(t)
       PROVE  unique'[s] = unique[s] /\ sockOpen'[s] = sockOpen[s] /\ (canceled[s] => canceled'[s])
  BY <1>11 DEF WSARecv, TypeOK, sessionVars
<1>12. ASSUME RecheckCanceled(t)
       PROVE  unique'[s] = unique[s] /\ sockOpen'[s] = sockOpen[s] /\ (canceled[s] => canceled'[s])
  BY <1>12 DEF RecheckCanceled, TypeOK, sessionVars
<1>13. ASSUME RecvCancelIO(t)
       PROVE  unique'[s] = unique[s] /\ sockOpen'[s] = sockOpen[s] /\ (canceled[s] => canceled'[s])
  BY <1>13 DEF RecvCancelIO, TypeOK, sessionVars
<1>14. ASSUME RecvFailed(t)
       PROVE  unique'[s] = unique[s] /\ sockOpen'[s] = sockOpen[s] /\ (canceled[s] => canceled'[s])
  BY <1>14 DEF RecvFailed, TypeOK, sessionVars
<1>15. ASSUME RecvFailedCancelIO(t)
       PROVE  unique'[s] = unique[s] /\ sockOpen'[s] = sockOpen[s] /\ (canceled[s] => canceled'[s])
  BY <1>15 DEF RecvFailedCancelIO, TypeOK, sessionVars
<1>16. ASSUME SubIOCount(t)
       PROVE  unique'[s] = unique[s] /\ sockOpen'[s] = sockOpen[s] /\ (canceled[s] => canceled'[s])
  BY <1>16 DEF SubIOCount, TypeOK, sessionVars
<1>17. ASSUME OnRecvComplete(t)
       PROVE  unique'[s] = unique[s] /\ sockOpen'[s] = sockOpen[s] /\ (canceled[s] => canceled'[s])
  BY <1>17 DEF OnRecvComplete, TypeOK, sessionVars
<1>18. ASSUME OperationAborted(t)
       PROVE  unique'[s] = unique[s] /\ sockOpen'[s] = sockOpen[s] /\ (canceled[s] => canceled'[s])
  BY <1>18 DEF OperationAborted, TypeOK, sessionVars
<1>19. ASSUME AcquireDead(t)
       PROVE  unique'[s] = unique[s] /\ sockOpen'[s] = sockOpen[s] /\ (canceled[s] => canceled'[s])
  BY <1>19 DEF AcquireDead, TypeOK, sessionVars
<1>20. ASSUME AcquireUnique(t)
       PROVE  unique'[s] = unique[s] /\ sockOpen'[s] = sockOpen[s] /\ (canceled[s] => canceled'[s])
  BY <1>20 DEF AcquireUnique, TypeOK, sessionVars
<1>21. ASSUME AlreadyCanceled(t)
       PROVE  unique'[s] = unique[s] /\ sockOpen'[s] = sockOpen[s] /\ (canceled[s] => canceled'[s])
  BY <1>21 DEF AlreadyCanceled, TypeOK, sessionVars
<1>22. ASSUME DisconnectFlag(t)
       PROVE  unique'[s] = unique[s] /\ sockOpen'[s] = sockOpen[s] /\ (canceled[s] => canceled'[s])
  BY <1>22 DEF DisconnectFlag, TypeOK, sessionVars
<1>23. ASSUME DisconnectCancelIO(t)
       PROVE  unique'[s] = unique[s] /\ sockOpen'[s] = sockOpen[s] /\ (canceled[s] => canceled'[s])
  BY <1>23 DEF DisconnectCancelIO, TypeOK, sessionVars
<1>24. ASSUME DecrementIOCount(t)
       PROVE  unique'[s] = unique[s] /\ sockOpen'[s] = sockOpen[s] /\ (canceled[s] => canceled'[s])
  BY <1>24 DEF DecrementIOCount, TypeOK, sessionVars
<1>25. ASSUME SetDeleteFlag(t)
       PROVE  unique'[s] = unique[s] /\ sockOpen'[s] = sockOpen[s] /\ (canceled[s] => canceled'[s])
  BY <1>25 DEF SetDeleteFlag, TypeOK, sessionVars
<1>26. ASSUME OnClientLeave(t)
       PROVE  unique'[s] = unique[s] /\ sockOpen'[s] = sockOpen[s] /\ (canceled[s] => canceled'[s])
  BY <1>26 DEF OnClientLeave, TypeOK, sessionVars
<1>27. ASSUME Destroy(t)
       PROVE  unique'[s] = unique[s] /\ sockOpen'[s] = sockOpen[s] /\ (canceled[s] => canceled'[s])
  <2>1. sess[t] \in Slots /\ t \in On(sess[t], OwnerPcs)
    BY <1>27 DEF Destroy, At, On, OwnerPcs, TypeOK
  <2>2. isDead(sess[t])
    BY <2>1 DEF SlotsPartition
  <2>3. s # sess[t]
    BY <2>2
  <2>4. QED
    BY <1>27, <2>3 DEF Destroy, TypeOK
<1>28. ASSUME PushSessionIndex(t)
       PROVE  unique'[s] = unique[s] /\ sockOpen'[s] = sockOpen[s] /\ (canceled[s] => canceled'[s])
  BY <1>28 DEF PushSessionIndex, TypeOK, sessionVars
<1>29. QED
  BY <1>1, <1>2, <1>3, <1>4, <1>5, <1>6, <1>7, <1>8, <1>9, <1>10,
     <1>11, <1>12, <1>13, <1>14, <1>15, <1>16, <1>17, <1>18, <1>19, <1>20,
     <1>21, <1>22, <1>23, <1>24, <1>25, <1>26, <1>27, <1>28
     DEF ThreadStep, Continue, AllocStep, RecvStep, CompletionStep, DisconnectStep,
         ReleaseStep



\* A session somebody holds a reference of stays alive, and stays itself.
LEMMA LiveStays ==
  ASSUME IInv, NEW t \in Threads, ThreadStep(t), NEW s \in Slots, ~isDead(s),
         recvIO[s] # "none" \/ \E r \in Threads : sess[r] = s /\ Weight(pc[r]) # 0
  PROVE  ~isDead(s)' /\ unique'[s] = unique[s] /\ (canceled[s] => canceled'[s])
<1>1. ~(SetDeleteFlag(t) /\ sess[t] = s /\ IOcount[s] = 0)
  BY CasFrees
<1>2. QED
  BY <1>1, ThreadRefsExact, LiveFields

\* AcquiredIsOwn, for the thread that moved.
LEMMA MoverAcquired ==
  ASSUME IInv, NEW t \in Threads, ThreadStep(t)
  PROVE  (pc[t] \in Acquired => ~isDead(sess[t]) /\ unique[sess[t]] = tgt[t])'
<1> USE DEF IInv
<1>a. t \in Threads /\ sess[t] \in Slots
  BY DEF TypeOK
<1>b. \A s \in Slots : s = sess[t] /\ Weight(pc[t]) # 0 /\ ~isDead(s) =>
        ~isDead(s)' /\ unique'[s] = unique[s]
  BY LiveStays
<1>1. ASSUME Accept(t)
      PROVE  (pc[t] \in Acquired => ~isDead(sess[t]) /\ unique[sess[t]] = tgt[t])'
  BY <1>1, <1>a, <1>b, WeightOf DEF Accept, At, Goto, DropRefs, AcquiredIsOwn, Acquired, HoldTwo, localVars, TypeOK, AfterDequeue, isDead
<1>2. ASSUME NEW id \in issued, FindSession(t, id)
      PROVE  (pc[t] \in Acquired => ~isDead(sess[t]) /\ unique[sess[t]] = tgt[t])'
  BY <1>2, <1>a, <1>b, WeightOf DEF FindSession, At, Goto, DropRefs, AcquiredIsOwn, Acquired, HoldTwo, localVars, TypeOK, AfterDequeue, isDead
<1>3. ASSUME NEW i \in Slots, GetQueuedCompletion(t, i)
      PROVE  (pc[t] \in Acquired => ~isDead(sess[t]) /\ unique[sess[t]] = tgt[t])'
  BY <1>3, <1>a, LiveStays DEF GetQueuedCompletion, At, Goto, DeadHasNoIO, Completions, TypeOK, isDead
<1>4. ASSUME SessionMax(t)
      PROVE  (pc[t] \in Acquired => ~isDead(sess[t]) /\ unique[sess[t]] = tgt[t])'
  BY <1>4, <1>a, <1>b, WeightOf DEF SessionMax, At, Goto, DropRefs, AcquiredIsOwn, Acquired, HoldTwo, localVars, TypeOK, AfterDequeue, isDead
<1>5. ASSUME AllocSession(t)
      PROVE  (pc[t] \in Acquired => ~isDead(sess[t]) /\ unique[sess[t]] = tgt[t])'
  BY <1>5, <1>a, <1>b, WeightOf DEF AllocSession, At, Goto, DropRefs, AcquiredIsOwn, Acquired, HoldTwo, localVars, TypeOK, AfterDequeue, isDead
<1>6. ASSUME InitializeRef(t)
      PROVE  (pc[t] \in Acquired => ~isDead(sess[t]) /\ unique[sess[t]] = tgt[t])'
  BY <1>6, <1>a, <1>b, WeightOf DEF InitializeRef, At, Goto, DropRefs, AcquiredIsOwn, Acquired, HoldTwo, localVars, TypeOK, AfterDequeue, isDead
<1>7. ASSUME InitializeFields(t)
      PROVE  (pc[t] \in Acquired => ~isDead(sess[t]) /\ unique[sess[t]] = tgt[t])'
  BY <1>7, <1>a, <1>b, WeightOf DEF InitializeFields, At, Goto, DropRefs, AcquiredIsOwn, Acquired, HoldTwo, localVars, TypeOK, AfterDequeue, isDead
<1>8. ASSUME InitializePublish(t)
      PROVE  (pc[t] \in Acquired => ~isDead(sess[t]) /\ unique[sess[t]] = tgt[t])'
  BY <1>8, <1>a, ThreadRefsExact DEF InitializePublish, At, Goto, Support, ThreadSupport, localVars, TypeOK, isDead
<1>9. ASSUME OnClientJoin(t)
      PROVE  (pc[t] \in Acquired => ~isDead(sess[t]) /\ unique[sess[t]] = tgt[t])'
  BY <1>9, <1>a, <1>b, WeightOf DEF OnClientJoin, At, Goto, DropRefs, AcquiredIsOwn, Acquired, HoldTwo, localVars, TypeOK, AfterDequeue, isDead
<1>10. ASSUME RecvPost(t)
       PROVE  (pc[t] \in Acquired => ~isDead(sess[t]) /\ unique[sess[t]] = tgt[t])'
  BY <1>10, <1>a, <1>b, WeightOf DEF RecvPost, At, Goto, DropRefs, AcquiredIsOwn, Acquired, HoldTwo, localVars, TypeOK, AfterDequeue, isDead
<1>11. ASSUME WSARecv(t)
       PROVE  (pc[t] \in Acquired => ~isDead(sess[t]) /\ unique[sess[t]] = tgt[t])'
  BY <1>11, <1>a, <1>b, WeightOf DEF WSARecv, At, Goto, DropRefs, AcquiredIsOwn, Acquired, HoldTwo, localVars, TypeOK, AfterDequeue, isDead
<1>12. ASSUME RecheckCanceled(t)
       PROVE  (pc[t] \in Acquired => ~isDead(sess[t]) /\ unique[sess[t]] = tgt[t])'
  BY <1>12, <1>a, <1>b, WeightOf DEF RecheckCanceled, At, Goto, DropRefs, AcquiredIsOwn, Acquired, HoldTwo, localVars, TypeOK, AfterDequeue, isDead
<1>13. ASSUME RecvCancelIO(t)
       PROVE  (pc[t] \in Acquired => ~isDead(sess[t]) /\ unique[sess[t]] = tgt[t])'
  BY <1>13, <1>a, <1>b, WeightOf DEF RecvCancelIO, At, Goto, DropRefs, AcquiredIsOwn, Acquired, HoldTwo, localVars, TypeOK, AfterDequeue, isDead
<1>14. ASSUME RecvFailed(t)
       PROVE  (pc[t] \in Acquired => ~isDead(sess[t]) /\ unique[sess[t]] = tgt[t])'
  BY <1>14, <1>a, <1>b, WeightOf DEF RecvFailed, At, Goto, DropRefs, AcquiredIsOwn, Acquired, HoldTwo, localVars, TypeOK, AfterDequeue, isDead
<1>15. ASSUME RecvFailedCancelIO(t)
       PROVE  (pc[t] \in Acquired => ~isDead(sess[t]) /\ unique[sess[t]] = tgt[t])'
  BY <1>15, <1>a, <1>b, WeightOf DEF RecvFailedCancelIO, At, Goto, DropRefs, AcquiredIsOwn, Acquired, HoldTwo, localVars, TypeOK, AfterDequeue, isDead
<1>16. ASSUME SubIOCount(t)
       PROVE  (pc[t] \in Acquired => ~isDead(sess[t]) /\ unique[sess[t]] = tgt[t])'
  BY <1>16, <1>a, <1>b, WeightOf DEF SubIOCount, At, Goto, DropRefs, AcquiredIsOwn, Acquired, HoldTwo, localVars, TypeOK, AfterDequeue, isDead
<1>17. ASSUME OnRecvComplete(t)
       PROVE  (pc[t] \in Acquired => ~isDead(sess[t]) /\ unique[sess[t]] = tgt[t])'
  BY <1>17, <1>a, <1>b, WeightOf DEF OnRecvComplete, At, Goto, DropRefs, AcquiredIsOwn, Acquired, HoldTwo, localVars, TypeOK, AfterDequeue, isDead
<1>18. ASSUME OperationAborted(t)
       PROVE  (pc[t] \in Acquired => ~isDead(sess[t]) /\ unique[sess[t]] = tgt[t])'
  BY <1>18, <1>a, <1>b, WeightOf DEF OperationAborted, At, Goto, DropRefs, AcquiredIsOwn, Acquired, HoldTwo, localVars, TypeOK, AfterDequeue, isDead
<1>19. ASSUME AcquireDead(t)
       PROVE  (pc[t] \in Acquired => ~isDead(sess[t]) /\ unique[sess[t]] = tgt[t])'
  BY <1>19, <1>a, <1>b, WeightOf DEF AcquireDead, At, Goto, DropRefs, AcquiredIsOwn, Acquired, HoldTwo, localVars, TypeOK, AfterDequeue, isDead
<1>20. ASSUME AcquireUnique(t)
       PROVE  (pc[t] \in Acquired => ~isDead(sess[t]) /\ unique[sess[t]] = tgt[t])'
  BY <1>20, <1>a, <1>b, WeightOf DEF AcquireUnique, At, Goto, Support, ThreadSupport, Acquired, HoldTwo, localVars, TypeOK, isDead
<1>21. ASSUME AlreadyCanceled(t)
       PROVE  (pc[t] \in Acquired => ~isDead(sess[t]) /\ unique[sess[t]] = tgt[t])'
  BY <1>21, <1>a, <1>b, WeightOf DEF AlreadyCanceled, At, Goto, DropRefs, AcquiredIsOwn, Acquired, HoldTwo, localVars, TypeOK, AfterDequeue, isDead
<1>22. ASSUME DisconnectFlag(t)
       PROVE  (pc[t] \in Acquired => ~isDead(sess[t]) /\ unique[sess[t]] = tgt[t])'
  BY <1>22, <1>a, <1>b, WeightOf DEF DisconnectFlag, At, Goto, DropRefs, AcquiredIsOwn, Acquired, HoldTwo, localVars, TypeOK, AfterDequeue, isDead
<1>23. ASSUME DisconnectCancelIO(t)
       PROVE  (pc[t] \in Acquired => ~isDead(sess[t]) /\ unique[sess[t]] = tgt[t])'
  BY <1>23, <1>a, <1>b, WeightOf DEF DisconnectCancelIO, At, Goto, DropRefs, AcquiredIsOwn, Acquired, HoldTwo, localVars, TypeOK, AfterDequeue, isDead
<1>24. ASSUME DecrementIOCount(t)
       PROVE  (pc[t] \in Acquired => ~isDead(sess[t]) /\ unique[sess[t]] = tgt[t])'
  BY <1>24, <1>a, <1>b, WeightOf DEF DecrementIOCount, At, Goto, DropRefs, AcquiredIsOwn, Acquired, HoldTwo, localVars, TypeOK, AfterDequeue, isDead
<1>25. ASSUME SetDeleteFlag(t)
       PROVE  (pc[t] \in Acquired => ~isDead(sess[t]) /\ unique[sess[t]] = tgt[t])'
  BY <1>25, <1>a, <1>b, WeightOf DEF SetDeleteFlag, At, Goto, DropRefs, AcquiredIsOwn, Acquired, HoldTwo, localVars, TypeOK, AfterDequeue, isDead
<1>26. ASSUME OnClientLeave(t)
       PROVE  (pc[t] \in Acquired => ~isDead(sess[t]) /\ unique[sess[t]] = tgt[t])'
  BY <1>26, <1>a, <1>b, WeightOf DEF OnClientLeave, At, Goto, DropRefs, AcquiredIsOwn, Acquired, HoldTwo, localVars, TypeOK, AfterDequeue, isDead
<1>27. ASSUME Destroy(t)
       PROVE  (pc[t] \in Acquired => ~isDead(sess[t]) /\ unique[sess[t]] = tgt[t])'
  BY <1>27, <1>a, <1>b, WeightOf DEF Destroy, At, Goto, DropRefs, AcquiredIsOwn, Acquired, HoldTwo, localVars, TypeOK, AfterDequeue, isDead
<1>28. ASSUME PushSessionIndex(t)
       PROVE  (pc[t] \in Acquired => ~isDead(sess[t]) /\ unique[sess[t]] = tgt[t])'
  BY <1>28, <1>a, <1>b, WeightOf DEF PushSessionIndex, At, Goto, DropRefs, AcquiredIsOwn, Acquired, HoldTwo, localVars, TypeOK, AfterDequeue, isDead
<1>29. QED
  BY <1>1, <1>2, <1>3, <1>4, <1>5, <1>6, <1>7, <1>8, <1>9, <1>10,
     <1>11, <1>12, <1>13, <1>14, <1>15, <1>16, <1>17, <1>18, <1>19, <1>20,
     <1>21, <1>22, <1>23, <1>24, <1>25, <1>26, <1>27, <1>28
     DEF ThreadStep, Continue, AllocStep, RecvStep, CompletionStep, DisconnectStep,
         ReleaseStep



\* AcquiredIsOwn after a step of a thread: the mover by MoverAcquired, the others
\* because the session they hold stays what it was.
LEMMA ThreadAcquiredIsOwn ==
  ASSUME IInv, NEW t \in Threads, ThreadStep(t)
  PROVE  AcquiredIsOwn'
<1> SUFFICES ASSUME NEW r \in Threads, pc'[r] \in Acquired
             PROVE  (~isDead(sess[r]) /\ unique[sess[r]] = tgt[r])'
  BY DEF AcquiredIsOwn
<1>1. CASE r = t
  BY <1>1, MoverAcquired
<1>2. CASE r # t
  <2>1. pc'[r] = pc[r] /\ sess'[r] = sess[r] /\ tgt'[r] = tgt[r]
    BY <1>2, OthersStay DEF IInv
  <2>2. sess[r] \in Slots /\ ~isDead(sess[r]) /\ unique[sess[r]] = tgt[r]
    BY <2>1 DEF IInv, AcquiredIsOwn, TypeOK
  <2>3. Weight(pc[r]) # 0
    BY <2>1, WeightOf DEF Acquired, HoldTwo
  <2>4. \A s \in Slots : s = sess[r] => ~isDead(s)' /\ unique'[s] = unique[s]
    BY <2>2, <2>3, LiveStays
  <2>5. QED
    BY <2>1, <2>2, <2>4 DEF isDead
<1>3. QED
  BY <1>1, <1>2

\* Which threads are at some positions of a slot changes by the mover only.
LEMMA OnMoves ==
  ASSUME IInv, NEW t \in Threads, ThreadStep(t), NEW s, NEW P
  PROVE  /\ \A r \in Threads \ {t} : r \in On(s, P)' <=> r \in On(s, P)
         /\ t \in On(s, P) <=> sess[t] = s /\ pc[t] \in P
         /\ t \in On(s, P)' <=> sess'[t] = s /\ pc'[t] \in P
         /\ On(s, P) \subseteq Threads
         /\ On(s, P)' \subseteq Threads
  BY OthersStay DEF IInv, On

\* What a slot is, free, owned or alive.
Placed(s) ==
  /\ s \in freeIdx => On(s, OwnerPcs) = {}
  /\ \A t, r \in On(s, OwnerPcs) : t = r
  /\ isDead(s) <=> (s \in freeIdx \/ On(s, OwnerPcs) # {})

\* SlotsPartition after a step of a thread: who enters OwnerPcs took the index off
\* the stack or won the compare and exchange, who leaves pushes it or publishes.
LEMMA ThreadPlaced ==
  ASSUME IInv, NEW t \in Threads, ThreadStep(t), NEW s \in Slots
  PROVE  Placed(s)'
<1> USE DEF IInv
<1>a. Placed(s)
  BY DEF SlotsPartition, Placed
<1>b. /\ \A r \in Threads \ {t} : r \in On(s, OwnerPcs)' <=> r \in On(s, OwnerPcs)
      /\ t \in On(s, OwnerPcs) <=> sess[t] = s /\ pc[t] \in OwnerPcs
      /\ t \in On(s, OwnerPcs)' <=> sess'[t] = s /\ pc'[t] \in OwnerPcs
      /\ On(s, OwnerPcs) \subseteq Threads
      /\ On(s, OwnerPcs)' \subseteq Threads
  BY OnMoves
<1>c. isDead(s)' <=> IF InitializePublish(t) /\ sess[t] = s THEN FALSE
                     ELSE IF SetDeleteFlag(t) /\ sess[t] = s /\ IOcount[s] = 0 THEN TRUE
                     ELSE isDead(s)
  BY ThreadRefsExact
<1>1. ASSUME Accept(t)
      PROVE  Placed(s)'
  BY <1>1, <1>a, <1>b, <1>c DEF Accept, InitializePublish, SetDeleteFlag, At, Goto, DropRefs, localVars, arrayVars, Placed, OwnerPcs, AfterDequeue, Completions, TypeOK
<1>2. ASSUME NEW id \in issued, FindSession(t, id)
      PROVE  Placed(s)'
  BY <1>2, <1>a, <1>b, <1>c DEF FindSession, InitializePublish, SetDeleteFlag, At, Goto, DropRefs, localVars, arrayVars, Placed, OwnerPcs, AfterDequeue, Completions, TypeOK
<1>3. ASSUME NEW i \in Slots, GetQueuedCompletion(t, i)
      PROVE  Placed(s)'
  BY <1>3, <1>a, <1>b, <1>c DEF GetQueuedCompletion, InitializePublish, SetDeleteFlag, At, Goto, DropRefs, localVars, arrayVars, Placed, OwnerPcs, AfterDequeue, Completions, TypeOK
<1>4. ASSUME SessionMax(t)
      PROVE  Placed(s)'
  BY <1>4, <1>a, <1>b, <1>c DEF SessionMax, InitializePublish, SetDeleteFlag, At, Goto, DropRefs, localVars, arrayVars, Placed, OwnerPcs, AfterDequeue, Completions, TypeOK
<1>5. ASSUME AllocSession(t)
      PROVE  Placed(s)'
  BY <1>5, <1>a, <1>b, <1>c DEF AllocSession, InitializePublish, SetDeleteFlag, At, Goto, DropRefs, localVars, arrayVars, Placed, OwnerPcs, AfterDequeue, Completions, TypeOK
<1>6. ASSUME InitializeRef(t)
      PROVE  Placed(s)'
  BY <1>6, <1>a, <1>b, <1>c DEF InitializeRef, InitializePublish, SetDeleteFlag, At, Goto, DropRefs, localVars, arrayVars, Placed, OwnerPcs, AfterDequeue, Completions, TypeOK
<1>7. ASSUME InitializeFields(t)
      PROVE  Placed(s)'
  BY <1>7, <1>a, <1>b, <1>c DEF InitializeFields, InitializePublish, SetDeleteFlag, At, Goto, DropRefs, localVars, arrayVars, Placed, OwnerPcs, AfterDequeue, Completions, TypeOK
<1>8. ASSUME InitializePublish(t)
      PROVE  Placed(s)'
  BY <1>8, <1>a, <1>b, <1>c DEF InitializePublish, SetDeleteFlag, At, Goto, DropRefs, localVars, arrayVars, Placed, OwnerPcs, AfterDequeue, Completions, TypeOK
<1>9. ASSUME OnClientJoin(t)
      PROVE  Placed(s)'
  BY <1>9, <1>a, <1>b, <1>c DEF OnClientJoin, InitializePublish, SetDeleteFlag, At, Goto, DropRefs, localVars, arrayVars, Placed, OwnerPcs, AfterDequeue, Completions, TypeOK
<1>10. ASSUME RecvPost(t)
       PROVE  Placed(s)'
  BY <1>10, <1>a, <1>b, <1>c DEF RecvPost, InitializePublish, SetDeleteFlag, At, Goto, DropRefs, localVars, arrayVars, Placed, OwnerPcs, AfterDequeue, Completions, TypeOK
<1>11. ASSUME WSARecv(t)
       PROVE  Placed(s)'
  BY <1>11, <1>a, <1>b, <1>c DEF WSARecv, InitializePublish, SetDeleteFlag, At, Goto, DropRefs, localVars, arrayVars, Placed, OwnerPcs, AfterDequeue, Completions, TypeOK
<1>12. ASSUME RecheckCanceled(t)
       PROVE  Placed(s)'
  BY <1>12, <1>a, <1>b, <1>c DEF RecheckCanceled, InitializePublish, SetDeleteFlag, At, Goto, DropRefs, localVars, arrayVars, Placed, OwnerPcs, AfterDequeue, Completions, TypeOK
<1>13. ASSUME RecvCancelIO(t)
       PROVE  Placed(s)'
  BY <1>13, <1>a, <1>b, <1>c DEF RecvCancelIO, InitializePublish, SetDeleteFlag, At, Goto, DropRefs, localVars, arrayVars, Placed, OwnerPcs, AfterDequeue, Completions, TypeOK
<1>14. ASSUME RecvFailed(t)
       PROVE  Placed(s)'
  BY <1>14, <1>a, <1>b, <1>c DEF RecvFailed, InitializePublish, SetDeleteFlag, At, Goto, DropRefs, localVars, arrayVars, Placed, OwnerPcs, AfterDequeue, Completions, TypeOK
<1>15. ASSUME RecvFailedCancelIO(t)
       PROVE  Placed(s)'
  BY <1>15, <1>a, <1>b, <1>c DEF RecvFailedCancelIO, InitializePublish, SetDeleteFlag, At, Goto, DropRefs, localVars, arrayVars, Placed, OwnerPcs, AfterDequeue, Completions, TypeOK
<1>16. ASSUME SubIOCount(t)
       PROVE  Placed(s)'
  BY <1>16, <1>a, <1>b, <1>c DEF SubIOCount, InitializePublish, SetDeleteFlag, At, Goto, DropRefs, localVars, arrayVars, Placed, OwnerPcs, AfterDequeue, Completions, TypeOK
<1>17. ASSUME OnRecvComplete(t)
       PROVE  Placed(s)'
  BY <1>17, <1>a, <1>b, <1>c DEF OnRecvComplete, InitializePublish, SetDeleteFlag, At, Goto, DropRefs, localVars, arrayVars, Placed, OwnerPcs, AfterDequeue, Completions, TypeOK
<1>18. ASSUME OperationAborted(t)
       PROVE  Placed(s)'
  BY <1>18, <1>a, <1>b, <1>c DEF OperationAborted, InitializePublish, SetDeleteFlag, At, Goto, DropRefs, localVars, arrayVars, Placed, OwnerPcs, AfterDequeue, Completions, TypeOK
<1>19. ASSUME AcquireDead(t)
       PROVE  Placed(s)'
  BY <1>19, <1>a, <1>b, <1>c DEF AcquireDead, InitializePublish, SetDeleteFlag, At, Goto, DropRefs, localVars, arrayVars, Placed, OwnerPcs, AfterDequeue, Completions, TypeOK
<1>20. ASSUME AcquireUnique(t)
       PROVE  Placed(s)'
  BY <1>20, <1>a, <1>b, <1>c DEF AcquireUnique, InitializePublish, SetDeleteFlag, At, Goto, DropRefs, localVars, arrayVars, Placed, OwnerPcs, AfterDequeue, Completions, TypeOK
<1>21. ASSUME AlreadyCanceled(t)
       PROVE  Placed(s)'
  BY <1>21, <1>a, <1>b, <1>c DEF AlreadyCanceled, InitializePublish, SetDeleteFlag, At, Goto, DropRefs, localVars, arrayVars, Placed, OwnerPcs, AfterDequeue, Completions, TypeOK
<1>22. ASSUME DisconnectFlag(t)
       PROVE  Placed(s)'
  BY <1>22, <1>a, <1>b, <1>c DEF DisconnectFlag, InitializePublish, SetDeleteFlag, At, Goto, DropRefs, localVars, arrayVars, Placed, OwnerPcs, AfterDequeue, Completions, TypeOK
<1>23. ASSUME DisconnectCancelIO(t)
       PROVE  Placed(s)'
  BY <1>23, <1>a, <1>b, <1>c DEF DisconnectCancelIO, InitializePublish, SetDeleteFlag, At, Goto, DropRefs, localVars, arrayVars, Placed, OwnerPcs, AfterDequeue, Completions, TypeOK
<1>24. ASSUME DecrementIOCount(t)
       PROVE  Placed(s)'
  BY <1>24, <1>a, <1>b, <1>c DEF DecrementIOCount, InitializePublish, SetDeleteFlag, At, Goto, DropRefs, localVars, arrayVars, Placed, OwnerPcs, AfterDequeue, Completions, TypeOK
<1>25. ASSUME SetDeleteFlag(t)
       PROVE  Placed(s)'
  <2>1. /\ sess'[t] = sess[t] /\ pc[t] = "cas" /\ freeIdx' = freeIdx
        /\ pc'[t] = IF IOcount[sess[t]] = 0 THEN "leave" ELSE "idle"
    BY <1>25 DEF SetDeleteFlag, At, Goto, localVars, arrayVars, TypeOK
  <2>2. ~InitializePublish(t)
    BY <2>1 DEF InitializePublish, At
  <2>3. CASE sess[t] = s /\ IOcount[s] = 0
    <3>1. ~isDead(s) /\ isDead(s)'
      BY <1>25, <2>2, <2>3, <1>c, CasFrees
    <3>2. QED
      BY <2>1, <2>3, <3>1, <1>a, <1>b DEF Placed, OwnerPcs
  <2>4. CASE ~(sess[t] = s /\ IOcount[s] = 0)
    <3>1. isDead(s)' <=> isDead(s)
      BY <2>2, <2>4, <1>c
    <3>2. QED
      BY <2>1, <2>4, <3>1, <1>a, <1>b DEF Placed, OwnerPcs
  <2>5. QED
    BY <2>3, <2>4
<1>26. ASSUME OnClientLeave(t)
       PROVE  Placed(s)'
  BY <1>26, <1>a, <1>b, <1>c DEF OnClientLeave, InitializePublish, SetDeleteFlag, At, Goto, DropRefs, localVars, arrayVars, Placed, OwnerPcs, AfterDequeue, Completions, TypeOK
<1>27. ASSUME Destroy(t)
       PROVE  Placed(s)'
  BY <1>27, <1>a, <1>b, <1>c DEF Destroy, InitializePublish, SetDeleteFlag, At, Goto, DropRefs, localVars, arrayVars, Placed, OwnerPcs, AfterDequeue, Completions, TypeOK, Support, ThreadSupport
<1>28. ASSUME PushSessionIndex(t)
       PROVE  Placed(s)'
  BY <1>28, <1>a, <1>b, <1>c DEF PushSessionIndex, InitializePublish, SetDeleteFlag, At, Goto, DropRefs, localVars, arrayVars, Placed, OwnerPcs, AfterDequeue, Completions, TypeOK
<1>29. QED
  BY <1>1, <1>2, <1>3, <1>4, <1>5, <1>6, <1>7, <1>8, <1>9, <1>10,
     <1>11, <1>12, <1>13, <1>14, <1>15, <1>16, <1>17, <1>18, <1>19, <1>20,
     <1>21, <1>22, <1>23, <1>24, <1>25, <1>26, <1>27, <1>28
     DEF ThreadStep, Continue, AllocStep, RecvStep, CompletionStep, DisconnectStep,
         ReleaseStep



ReceiveStep(t, s) ==
  \/ recvIO'[s] \in {"none", recvIO[s]}
  \/ recvIO[s] = "posted" /\ recvIO'[s] = "aborted" /\ canceled[s]
  \/ WSARecv(t) /\ sess[t] = s /\ recvIO'[s] # "aborted"

\* What a thread may do to a receive: take its completion, abort it in a session
\* that is canceled, or post it.
LEMMA Receives ==
  ASSUME IInv, NEW t \in Threads, ThreadStep(t), NEW s \in Slots
  PROVE  ReceiveStep(t, s)
<1> USE DEF IInv
<1>1. ASSUME Accept(t)
      PROVE  ReceiveStep(t, s)
  BY <1>1 DEF Accept, At, Goto, ReceiveStep, TypeOK, sessionVars
<1>2. ASSUME NEW id \in issued, FindSession(t, id)
      PROVE  ReceiveStep(t, s)
  BY <1>2 DEF FindSession, At, Goto, ReceiveStep, TypeOK, sessionVars
<1>3. ASSUME NEW i \in Slots, GetQueuedCompletion(t, i)
      PROVE  ReceiveStep(t, s)
  BY <1>3 DEF GetQueuedCompletion, At, Goto, ReceiveStep, TypeOK, sessionVars
<1>4. ASSUME SessionMax(t)
      PROVE  ReceiveStep(t, s)
  BY <1>4 DEF SessionMax, At, Goto, ReceiveStep, TypeOK, sessionVars
<1>5. ASSUME AllocSession(t)
      PROVE  ReceiveStep(t, s)
  BY <1>5 DEF AllocSession, At, Goto, ReceiveStep, TypeOK, sessionVars
<1>6. ASSUME InitializeRef(t)
      PROVE  ReceiveStep(t, s)
  BY <1>6 DEF InitializeRef, At, Goto, ReceiveStep, TypeOK, sessionVars
<1>7. ASSUME InitializeFields(t)
      PROVE  ReceiveStep(t, s)
  BY <1>7 DEF InitializeFields, At, Goto, ReceiveStep, TypeOK, sessionVars
<1>8. ASSUME InitializePublish(t)
      PROVE  ReceiveStep(t, s)
  BY <1>8 DEF InitializePublish, At, Goto, ReceiveStep, TypeOK, sessionVars
<1>9. ASSUME OnClientJoin(t)
      PROVE  ReceiveStep(t, s)
  BY <1>9 DEF OnClientJoin, At, Goto, ReceiveStep, TypeOK, sessionVars
<1>10. ASSUME RecvPost(t)
       PROVE  ReceiveStep(t, s)
  BY <1>10 DEF RecvPost, At, Goto, ReceiveStep, TypeOK, sessionVars
<1>11. ASSUME WSARecv(t)
       PROVE  ReceiveStep(t, s)
  BY <1>11 DEF WSARecv, At, Goto, ReceiveStep, TypeOK, sessionVars
<1>12. ASSUME RecheckCanceled(t)
       PROVE  ReceiveStep(t, s)
  BY <1>12 DEF RecheckCanceled, At, Goto, ReceiveStep, TypeOK, sessionVars, Support, ThreadSupport, CancelIO
<1>13. ASSUME RecvCancelIO(t)
       PROVE  ReceiveStep(t, s)
  BY <1>13 DEF RecvCancelIO, At, Goto, ReceiveStep, TypeOK, sessionVars, Support, ThreadSupport, CancelIO
<1>14. ASSUME RecvFailed(t)
       PROVE  ReceiveStep(t, s)
  BY <1>14 DEF RecvFailed, At, Goto, ReceiveStep, TypeOK, sessionVars
<1>15. ASSUME RecvFailedCancelIO(t)
       PROVE  ReceiveStep(t, s)
  BY <1>15 DEF RecvFailedCancelIO, At, Goto, ReceiveStep, TypeOK, sessionVars, Support, ThreadSupport, CancelIO
<1>16. ASSUME SubIOCount(t)
       PROVE  ReceiveStep(t, s)
  BY <1>16 DEF SubIOCount, At, Goto, ReceiveStep, TypeOK, sessionVars
<1>17. ASSUME OnRecvComplete(t)
       PROVE  ReceiveStep(t, s)
  BY <1>17 DEF OnRecvComplete, At, Goto, ReceiveStep, TypeOK, sessionVars
<1>18. ASSUME OperationAborted(t)
       PROVE  ReceiveStep(t, s)
  BY <1>18 DEF OperationAborted, At, Goto, ReceiveStep, TypeOK, sessionVars
<1>19. ASSUME AcquireDead(t)
       PROVE  ReceiveStep(t, s)
  BY <1>19 DEF AcquireDead, At, Goto, ReceiveStep, TypeOK, sessionVars
<1>20. ASSUME AcquireUnique(t)
       PROVE  ReceiveStep(t, s)
  BY <1>20 DEF AcquireUnique, At, Goto, ReceiveStep, TypeOK, sessionVars
<1>21. ASSUME AlreadyCanceled(t)
       PROVE  ReceiveStep(t, s)
  BY <1>21 DEF AlreadyCanceled, At, Goto, ReceiveStep, TypeOK, sessionVars, Support, ThreadSupport, CancelIO
<1>22. ASSUME DisconnectFlag(t)
       PROVE  ReceiveStep(t, s)
  BY <1>22 DEF DisconnectFlag, At, Goto, ReceiveStep, TypeOK, sessionVars
<1>23. ASSUME DisconnectCancelIO(t)
       PROVE  ReceiveStep(t, s)
  BY <1>23 DEF DisconnectCancelIO, At, Goto, ReceiveStep, TypeOK, sessionVars, Support, ThreadSupport, CancelIO
<1>24. ASSUME DecrementIOCount(t)
       PROVE  ReceiveStep(t, s)
  BY <1>24 DEF DecrementIOCount, At, Goto, ReceiveStep, TypeOK, sessionVars
<1>25. ASSUME SetDeleteFlag(t)
       PROVE  ReceiveStep(t, s)
  BY <1>25 DEF SetDeleteFlag, At, Goto, ReceiveStep, TypeOK, sessionVars
<1>26. ASSUME OnClientLeave(t)
       PROVE  ReceiveStep(t, s)
  BY <1>26 DEF OnClientLeave, At, Goto, ReceiveStep, TypeOK, sessionVars
<1>27. ASSUME Destroy(t)
       PROVE  ReceiveStep(t, s)
  BY <1>27 DEF Destroy, At, Goto, ReceiveStep, TypeOK, sessionVars
<1>28. ASSUME PushSessionIndex(t)
       PROVE  ReceiveStep(t, s)
  BY <1>28 DEF PushSessionIndex, At, Goto, ReceiveStep, TypeOK, sessionVars
<1>29. QED
  BY <1>1, <1>2, <1>3, <1>4, <1>5, <1>6, <1>7, <1>8, <1>9, <1>10,
     <1>11, <1>12, <1>13, <1>14, <1>15, <1>16, <1>17, <1>18, <1>19, <1>20,
     <1>21, <1>22, <1>23, <1>24, <1>25, <1>26, <1>27, <1>28
     DEF ThreadStep, Continue, AllocStep, RecvStep, CompletionStep, DisconnectStep,
         ReleaseStep



\* DeadHasNoIO after a step of a thread.
LEMMA ThreadDeadHasNoIO ==
  ASSUME IInv, NEW t \in Threads, ThreadStep(t)
  PROVE  DeadHasNoIO'
<1> SUFFICES ASSUME NEW s \in Slots
             PROVE  (isDead(s)' => recvIO'[s] = "none") /\ (~isDead(s)' => sockOpen'[s])
  BY DEF DeadHasNoIO
<1>1. (isDead(s) => recvIO[s] = "none") /\ (~isDead(s) => sockOpen[s])
  BY DEF IInv, DeadHasNoIO
<1>2. isDead(s)' <=> IF InitializePublish(t) /\ sess[t] = s THEN FALSE
                     ELSE IF SetDeleteFlag(t) /\ sess[t] = s /\ IOcount[s] = 0 THEN TRUE
                     ELSE isDead(s)
  BY ThreadRefsExact
<1>3. ReceiveStep(t, s)
  BY Receives
<1>4. WSARecv(t) /\ sess[t] = s => ~isDead(s) /\ pc[t] = "post"
  BY DEF WSARecv, At, IInv, AcquiredIsOwn, Acquired, HoldTwo
<1>5. isDead(s)' => recvIO'[s] = "none"
  <2>1. CASE SetDeleteFlag(t) /\ sess[t] = s /\ IOcount[s] = 0
    <3>1. recvIO[s] = "none"
      BY <2>1, CasFrees
    <3>2. recvIO' = recvIO
      BY <2>1 DEF SetDeleteFlag
    <3>3. QED
      BY <3>1, <3>2
  <2>2. CASE ~(SetDeleteFlag(t) /\ sess[t] = s /\ IOcount[s] = 0) /\ isDead(s)'
    <3>1. isDead(s)
      BY <1>2, <2>2
    <3>2. QED
      BY <3>1, <1>1, <1>3, <1>4 DEF ReceiveStep
  <2>3. QED
    BY <2>1, <2>2
<1>6. ~isDead(s)' => sockOpen'[s]
  <2>1. CASE InitializePublish(t) /\ sess[t] = s
    BY <2>1 DEF InitializePublish, At, IInv, Support, ThreadSupport
  <2>2. CASE ~(InitializePublish(t) /\ sess[t] = s) /\ ~isDead(s)'
    <3>1. ~isDead(s)
      BY <1>2, <2>2
    <3>2. QED
      BY <3>1, <1>1, LiveFields
  <2>3. QED
    BY <2>1, <2>2
<1>7. QED
  BY <1>5, <1>6

\* One user, or the kernel, of the receive buffer of a slot.
SingleReceiver(s) ==
  /\ \A t, r \in On(s, RecvUser) : t = r
  /\ recvIO[s] # "none" => On(s, RecvUser) = {}

\* OneReceiver after a step of a thread.
LEMMA ThreadSingleReceiver ==
  ASSUME IInv, NEW t \in Threads, ThreadStep(t), NEW s \in Slots
  PROVE  SingleReceiver(s)'
<1> USE DEF IInv
<1>a. SingleReceiver(s)
  BY DEF OneReceiver, SingleReceiver
<1>b. /\ \A r \in Threads \ {t} : r \in On(s, RecvUser)' <=> r \in On(s, RecvUser)
      /\ t \in On(s, RecvUser) <=> sess[t] = s /\ pc[t] \in RecvUser
      /\ t \in On(s, RecvUser)' <=> sess'[t] = s /\ pc'[t] \in RecvUser
      /\ On(s, RecvUser) \subseteq Threads
      /\ On(s, RecvUser)' \subseteq Threads
  BY OnMoves
<1>1. ASSUME Accept(t)
      PROVE  SingleReceiver(s)'
  BY <1>1, <1>a, <1>b DEF Accept, At, Goto, DropRefs, localVars, sessionVars, SingleReceiver, RecvUser, AfterDequeue, Completions, TypeOK
<1>2. ASSUME NEW id \in issued, FindSession(t, id)
      PROVE  SingleReceiver(s)'
  BY <1>2, <1>a, <1>b DEF FindSession, At, Goto, DropRefs, localVars, sessionVars, SingleReceiver, RecvUser, AfterDequeue, Completions, TypeOK
<1>3. ASSUME NEW i \in Slots, GetQueuedCompletion(t, i)
      PROVE  SingleReceiver(s)'
  BY <1>3, <1>a, <1>b DEF GetQueuedCompletion, At, Goto, DropRefs, localVars, sessionVars, SingleReceiver, RecvUser, AfterDequeue, Completions, TypeOK
<1>4. ASSUME SessionMax(t)
      PROVE  SingleReceiver(s)'
  BY <1>4, <1>a, <1>b DEF SessionMax, At, Goto, DropRefs, localVars, sessionVars, SingleReceiver, RecvUser, AfterDequeue, Completions, TypeOK
<1>5. ASSUME AllocSession(t)
      PROVE  SingleReceiver(s)'
  BY <1>5, <1>a, <1>b DEF AllocSession, At, Goto, DropRefs, localVars, sessionVars, SingleReceiver, RecvUser, AfterDequeue, Completions, TypeOK
<1>6. ASSUME InitializeRef(t)
      PROVE  SingleReceiver(s)'
  <2>1. sess[t] \in Slots /\ t \in On(sess[t], OwnerPcs)
    BY <1>6 DEF InitializeRef, At, On, OwnerPcs, TypeOK
  <2>2. isDead(sess[t]) /\ \A r \in On(sess[t], OwnerPcs) : r = t
    BY <2>1 DEF SlotsPartition
  <2>3. \A r \in On(sess[t], RecvUser) : r = t
    <3> SUFFICES ASSUME NEW r \in On(sess[t], RecvUser)
                 PROVE  r = t
      OBVIOUS
    <3>1. r \in Threads /\ sess[r] = sess[t] /\ pc[r] \in RecvUser
      BY DEF On
    <3>2. CASE pc[r] \in OwnerPcs
      BY <2>2, <3>1, <3>2 DEF On
    <3>3. CASE pc[r] \notin OwnerPcs
      BY <2>2, <3>1, <3>3 DEF RecvUser, OwnerPcs, AcquiredIsOwn, Acquired, HoldTwo
    <3>4. QED
      BY <3>2, <3>3
  <2>4. recvIO[sess[t]] = "none"
    BY <2>1, <2>2 DEF DeadHasNoIO
  <2>5. sess' = sess /\ recvIO' = recvIO /\ pc'[t] = "fields"
    BY <1>6 DEF InitializeRef, Goto, localVars, TypeOK
  <2>6. QED
    BY <2>3, <2>4, <2>5, <1>a, <1>b DEF SingleReceiver
<1>7. ASSUME InitializeFields(t)
      PROVE  SingleReceiver(s)'
  BY <1>7, <1>a, <1>b DEF InitializeFields, At, Goto, DropRefs, localVars, sessionVars, SingleReceiver, RecvUser, AfterDequeue, Completions, TypeOK
<1>8. ASSUME InitializePublish(t)
      PROVE  SingleReceiver(s)'
  BY <1>8, <1>a, <1>b DEF InitializePublish, At, Goto, DropRefs, localVars, sessionVars, SingleReceiver, RecvUser, AfterDequeue, Completions, TypeOK
<1>9. ASSUME OnClientJoin(t)
      PROVE  SingleReceiver(s)'
  BY <1>9, <1>a, <1>b DEF OnClientJoin, At, Goto, DropRefs, localVars, sessionVars, SingleReceiver, RecvUser, AfterDequeue, Completions, TypeOK
<1>10. ASSUME RecvPost(t)
       PROVE  SingleReceiver(s)'
  BY <1>10, <1>a, <1>b DEF RecvPost, At, Goto, DropRefs, localVars, sessionVars, SingleReceiver, RecvUser, AfterDequeue, Completions, TypeOK
<1>11. ASSUME WSARecv(t)
       PROVE  SingleReceiver(s)'
  BY <1>11, <1>a, <1>b DEF WSARecv, At, Goto, DropRefs, localVars, sessionVars, SingleReceiver, RecvUser, AfterDequeue, Completions, TypeOK
<1>12. ASSUME RecheckCanceled(t)
       PROVE  SingleReceiver(s)'
  BY <1>12, <1>a, <1>b DEF RecheckCanceled, At, Goto, DropRefs, localVars, sessionVars, SingleReceiver, RecvUser, AfterDequeue, Completions, TypeOK, CancelIO
<1>13. ASSUME RecvCancelIO(t)
       PROVE  SingleReceiver(s)'
  BY <1>13, <1>a, <1>b DEF RecvCancelIO, At, Goto, DropRefs, localVars, sessionVars, SingleReceiver, RecvUser, AfterDequeue, Completions, TypeOK, CancelIO
<1>14. ASSUME RecvFailed(t)
       PROVE  SingleReceiver(s)'
  BY <1>14, <1>a, <1>b DEF RecvFailed, At, Goto, DropRefs, localVars, sessionVars, SingleReceiver, RecvUser, AfterDequeue, Completions, TypeOK
<1>15. ASSUME RecvFailedCancelIO(t)
       PROVE  SingleReceiver(s)'
  BY <1>15, <1>a, <1>b DEF RecvFailedCancelIO, At, Goto, DropRefs, localVars, sessionVars, SingleReceiver, RecvUser, AfterDequeue, Completions, TypeOK, CancelIO
<1>16. ASSUME SubIOCount(t)
       PROVE  SingleReceiver(s)'
  BY <1>16, <1>a, <1>b DEF SubIOCount, At, Goto, DropRefs, localVars, sessionVars, SingleReceiver, RecvUser, AfterDequeue, Completions, TypeOK
<1>17. ASSUME OnRecvComplete(t)
       PROVE  SingleReceiver(s)'
  BY <1>17, <1>a, <1>b DEF OnRecvComplete, At, Goto, DropRefs, localVars, sessionVars, SingleReceiver, RecvUser, AfterDequeue, Completions, TypeOK
<1>18. ASSUME OperationAborted(t)
       PROVE  SingleReceiver(s)'
  BY <1>18, <1>a, <1>b DEF OperationAborted, At, Goto, DropRefs, localVars, sessionVars, SingleReceiver, RecvUser, AfterDequeue, Completions, TypeOK
<1>19. ASSUME AcquireDead(t)
       PROVE  SingleReceiver(s)'
  BY <1>19, <1>a, <1>b DEF AcquireDead, At, Goto, DropRefs, localVars, sessionVars, SingleReceiver, RecvUser, AfterDequeue, Completions, TypeOK
<1>20. ASSUME AcquireUnique(t)
       PROVE  SingleReceiver(s)'
  BY <1>20, <1>a, <1>b DEF AcquireUnique, At, Goto, DropRefs, localVars, sessionVars, SingleReceiver, RecvUser, AfterDequeue, Completions, TypeOK
<1>21. ASSUME AlreadyCanceled(t)
       PROVE  SingleReceiver(s)'
  BY <1>21, <1>a, <1>b DEF AlreadyCanceled, At, Goto, DropRefs, localVars, sessionVars, SingleReceiver, RecvUser, AfterDequeue, Completions, TypeOK, CancelIO
<1>22. ASSUME DisconnectFlag(t)
       PROVE  SingleReceiver(s)'
  BY <1>22, <1>a, <1>b DEF DisconnectFlag, At, Goto, DropRefs, localVars, sessionVars, SingleReceiver, RecvUser, AfterDequeue, Completions, TypeOK
<1>23. ASSUME DisconnectCancelIO(t)
       PROVE  SingleReceiver(s)'
  BY <1>23, <1>a, <1>b DEF DisconnectCancelIO, At, Goto, DropRefs, localVars, sessionVars, SingleReceiver, RecvUser, AfterDequeue, Completions, TypeOK, CancelIO
<1>24. ASSUME DecrementIOCount(t)
       PROVE  SingleReceiver(s)'
  BY <1>24, <1>a, <1>b DEF DecrementIOCount, At, Goto, DropRefs, localVars, sessionVars, SingleReceiver, RecvUser, AfterDequeue, Completions, TypeOK
<1>25. ASSUME SetDeleteFlag(t)
       PROVE  SingleReceiver(s)'
  BY <1>25, <1>a, <1>b DEF SetDeleteFlag, At, Goto, DropRefs, localVars, sessionVars, SingleReceiver, RecvUser, AfterDequeue, Completions, TypeOK
<1>26. ASSUME OnClientLeave(t)
       PROVE  SingleReceiver(s)'
  BY <1>26, <1>a, <1>b DEF OnClientLeave, At, Goto, DropRefs, localVars, sessionVars, SingleReceiver, RecvUser, AfterDequeue, Completions, TypeOK
<1>27. ASSUME Destroy(t)
       PROVE  SingleReceiver(s)'
  BY <1>27, <1>a, <1>b DEF Destroy, At, Goto, DropRefs, localVars, sessionVars, SingleReceiver, RecvUser, AfterDequeue, Completions, TypeOK
<1>28. ASSUME PushSessionIndex(t)
       PROVE  SingleReceiver(s)'
  BY <1>28, <1>a, <1>b DEF PushSessionIndex, At, Goto, DropRefs, localVars, sessionVars, SingleReceiver, RecvUser, AfterDequeue, Completions, TypeOK
<1>29. QED
  BY <1>1, <1>2, <1>3, <1>4, <1>5, <1>6, <1>7, <1>8, <1>9, <1>10,
     <1>11, <1>12, <1>13, <1>14, <1>15, <1>16, <1>17, <1>18, <1>19, <1>20,
     <1>21, <1>22, <1>23, <1>24, <1>25, <1>26, <1>27, <1>28
     DEF ThreadStep, Continue, AllocStep, RecvStep, CompletionStep, DisconnectStep,
         ReleaseStep


\* The mover does not quit.
LEMMA MoverGoesOn ==
  ASSUME IInv, NEW t \in Threads, ThreadStep(t)
  PROVE  pc'[t] # "quit"
<1> USE DEF IInv
<1>a. pc[t] # "quit"
  BY DEF NeverQuits
<1>1. ASSUME Accept(t)
      PROVE  pc'[t] # "quit"
  BY <1>1, <1>a DEF Accept, At, Goto, DropRefs, AfterDequeue, Completions, TypeOK
<1>2. ASSUME NEW id \in issued, FindSession(t, id)
      PROVE  pc'[t] # "quit"
  BY <1>2, <1>a DEF FindSession, At, Goto, DropRefs, AfterDequeue, Completions, TypeOK
<1>3. ASSUME NEW i \in Slots, GetQueuedCompletion(t, i)
      PROVE  pc'[t] # "quit"
  BY <1>3, <1>a DEF GetQueuedCompletion, At, Goto, DropRefs, AfterDequeue, Completions, TypeOK
<1>4. ASSUME SessionMax(t)
      PROVE  pc'[t] # "quit"
  BY <1>4, <1>a DEF SessionMax, At, Goto, DropRefs, AfterDequeue, Completions, TypeOK
<1>5. ASSUME AllocSession(t)
      PROVE  pc'[t] # "quit"
  BY <1>5, <1>a DEF AllocSession, At, Goto, DropRefs, AfterDequeue, Completions, TypeOK
<1>6. ASSUME InitializeRef(t)
      PROVE  pc'[t] # "quit"
  BY <1>6, <1>a DEF InitializeRef, At, Goto, DropRefs, AfterDequeue, Completions, TypeOK
<1>7. ASSUME InitializeFields(t)
      PROVE  pc'[t] # "quit"
  BY <1>7, <1>a DEF InitializeFields, At, Goto, DropRefs, AfterDequeue, Completions, TypeOK
<1>8. ASSUME InitializePublish(t)
      PROVE  pc'[t] # "quit"
  BY <1>8, <1>a DEF InitializePublish, At, Goto, DropRefs, AfterDequeue, Completions, TypeOK
<1>9. ASSUME OnClientJoin(t)
      PROVE  pc'[t] # "quit"
  BY <1>9, <1>a DEF OnClientJoin, At, Goto, DropRefs, AfterDequeue, Completions, TypeOK
<1>10. ASSUME RecvPost(t)
       PROVE  pc'[t] # "quit"
  BY <1>10, <1>a DEF RecvPost, At, Goto, DropRefs, AfterDequeue, Completions, TypeOK
<1>11. ASSUME WSARecv(t)
       PROVE  pc'[t] # "quit"
  BY <1>11, <1>a DEF WSARecv, At, Goto, DropRefs, AfterDequeue, Completions, TypeOK
<1>12. ASSUME RecheckCanceled(t)
       PROVE  pc'[t] # "quit"
  BY <1>12, <1>a DEF RecheckCanceled, At, Goto, DropRefs, AfterDequeue, Completions, TypeOK
<1>13. ASSUME RecvCancelIO(t)
       PROVE  pc'[t] # "quit"
  BY <1>13, <1>a DEF RecvCancelIO, At, Goto, DropRefs, AfterDequeue, Completions, TypeOK
<1>14. ASSUME RecvFailed(t)
       PROVE  pc'[t] # "quit"
  BY <1>14, <1>a DEF RecvFailed, At, Goto, DropRefs, AfterDequeue, Completions, TypeOK
<1>15. ASSUME RecvFailedCancelIO(t)
       PROVE  pc'[t] # "quit"
  BY <1>15, <1>a DEF RecvFailedCancelIO, At, Goto, DropRefs, AfterDequeue, Completions, TypeOK
<1>16. ASSUME SubIOCount(t)
       PROVE  pc'[t] # "quit"
  BY <1>16, <1>a DEF SubIOCount, At, Goto, DropRefs, AfterDequeue, Completions, TypeOK
<1>17. ASSUME OnRecvComplete(t)
       PROVE  pc'[t] # "quit"
  BY <1>17, <1>a DEF OnRecvComplete, At, Goto, DropRefs, AfterDequeue, Completions, TypeOK
<1>18. ASSUME OperationAborted(t)
       PROVE  pc'[t] # "quit"
  BY <1>18, <1>a DEF OperationAborted, At, Goto, DropRefs, AfterDequeue, Completions, TypeOK, Support, ThreadSupport
<1>19. ASSUME AcquireDead(t)
       PROVE  pc'[t] # "quit"
  BY <1>19, <1>a DEF AcquireDead, At, Goto, DropRefs, AfterDequeue, Completions, TypeOK
<1>20. ASSUME AcquireUnique(t)
       PROVE  pc'[t] # "quit"
  BY <1>20, <1>a DEF AcquireUnique, At, Goto, DropRefs, AfterDequeue, Completions, TypeOK
<1>21. ASSUME AlreadyCanceled(t)
       PROVE  pc'[t] # "quit"
  BY <1>21, <1>a DEF AlreadyCanceled, At, Goto, DropRefs, AfterDequeue, Completions, TypeOK
<1>22. ASSUME DisconnectFlag(t)
       PROVE  pc'[t] # "quit"
  BY <1>22, <1>a DEF DisconnectFlag, At, Goto, DropRefs, AfterDequeue, Completions, TypeOK
<1>23. ASSUME DisconnectCancelIO(t)
       PROVE  pc'[t] # "quit"
  BY <1>23, <1>a DEF DisconnectCancelIO, At, Goto, DropRefs, AfterDequeue, Completions, TypeOK
<1>24. ASSUME DecrementIOCount(t)
       PROVE  pc'[t] # "quit"
  BY <1>24, <1>a DEF DecrementIOCount, At, Goto, DropRefs, AfterDequeue, Completions, TypeOK
<1>25. ASSUME SetDeleteFlag(t)
       PROVE  pc'[t] # "quit"
  BY <1>25, <1>a DEF SetDeleteFlag, At, Goto, DropRefs, AfterDequeue, Completions, TypeOK
<1>26. ASSUME OnClientLeave(t)
       PROVE  pc'[t] # "quit"
  BY <1>26, <1>a DEF OnClientLeave, At, Goto, DropRefs, AfterDequeue, Completions, TypeOK
<1>27. ASSUME Destroy(t)
       PROVE  pc'[t] # "quit"
  BY <1>27, <1>a DEF Destroy, At, Goto, DropRefs, AfterDequeue, Completions, TypeOK, Support, ThreadSupport
<1>28. ASSUME PushSessionIndex(t)
       PROVE  pc'[t] # "quit"
  BY <1>28, <1>a DEF PushSessionIndex, At, Goto, DropRefs, AfterDequeue, Completions, TypeOK
<1>29. QED
  BY <1>1, <1>2, <1>3, <1>4, <1>5, <1>6, <1>7, <1>8, <1>9, <1>10,
     <1>11, <1>12, <1>13, <1>14, <1>15, <1>16, <1>17, <1>18, <1>19, <1>20,
     <1>21, <1>22, <1>23, <1>24, <1>25, <1>26, <1>27, <1>28
     DEF ThreadStep, Continue, AllocStep, RecvStep, CompletionStep, DisconnectStep,
         ReleaseStep



\* NeverQuits after a step of a thread.
LEMMA ThreadNeverQuits ==
  ASSUME IInv, NEW t \in Threads, ThreadStep(t)
  PROVE  NeverQuits'
<1>1. ASSUME NEW s \in Slots, recvIO'[s] = "aborted"
      PROVE  canceled'[s]
  <2>1. recvIO[s] # "none" /\ canceled[s]
    BY <1>1, Receives DEF ReceiveStep, IInv, NeverQuits
  <2>2. ~isDead(s)
    BY <2>1 DEF IInv, DeadHasNoIO
  <2>3. QED
    BY <2>1, <2>2, LiveFields
<1>2. ASSUME NEW r \in Threads
      PROVE  pc'[r] # "quit"
  <2>1. CASE r = t
    BY <2>1, MoverGoesOn
  <2>2. CASE r # t
    BY <2>2, OthersStay DEF IInv, NeverQuits
  <2>3. QED
    BY <2>1, <2>2
<1>3. QED
  BY <1>1, <1>2 DEF NeverQuits


\* Which step changes what, seen from the outside.
Changed(t) ==
  /\ joined' = joined \/ OnClientJoin(t)
  /\ left' = left \/ OnClientLeave(t)
  /\ unique' = unique \/ InitializeFields(t)
  /\ sockOpen' = sockOpen \/ InitializeFields(t) \/ Destroy(t)
  /\ stamp' = stamp \/ AllocSession(t)

\* Which action writes unique, joined, left, stamp.
LEMMA Changes ==
  ASSUME NEW t \in Threads, ThreadStep(t)
  PROVE  Changed(t)
<1>1. ASSUME Accept(t)
      PROVE  Changed(t)
  BY <1>1 DEF Accept, Changed, sessionVars, arrayVars, historyVars
<1>2. ASSUME NEW id \in issued, FindSession(t, id)
      PROVE  Changed(t)
  BY <1>2 DEF FindSession, Changed, sessionVars, arrayVars, historyVars
<1>3. ASSUME NEW i \in Slots, GetQueuedCompletion(t, i)
      PROVE  Changed(t)
  BY <1>3 DEF GetQueuedCompletion, Changed, sessionVars, arrayVars, historyVars
<1>4. ASSUME SessionMax(t)
      PROVE  Changed(t)
  BY <1>4 DEF SessionMax, Changed, sessionVars, arrayVars, historyVars
<1>5. ASSUME AllocSession(t)
      PROVE  Changed(t)
  BY <1>5 DEF AllocSession, Changed, sessionVars, arrayVars, historyVars
<1>6. ASSUME InitializeRef(t)
      PROVE  Changed(t)
  BY <1>6 DEF InitializeRef, Changed, sessionVars, arrayVars, historyVars
<1>7. ASSUME InitializeFields(t)
      PROVE  Changed(t)
  BY <1>7 DEF InitializeFields, Changed, sessionVars, arrayVars, historyVars
<1>8. ASSUME InitializePublish(t)
      PROVE  Changed(t)
  BY <1>8 DEF InitializePublish, Changed, sessionVars, arrayVars, historyVars
<1>9. ASSUME OnClientJoin(t)
      PROVE  Changed(t)
  BY <1>9 DEF OnClientJoin, Changed, sessionVars, arrayVars, historyVars
<1>10. ASSUME RecvPost(t)
       PROVE  Changed(t)
  BY <1>10 DEF RecvPost, Changed, sessionVars, arrayVars, historyVars
<1>11. ASSUME WSARecv(t)
       PROVE  Changed(t)
  BY <1>11 DEF WSARecv, Changed, sessionVars, arrayVars, historyVars
<1>12. ASSUME RecheckCanceled(t)
       PROVE  Changed(t)
  BY <1>12 DEF RecheckCanceled, Changed, sessionVars, arrayVars, historyVars
<1>13. ASSUME RecvCancelIO(t)
       PROVE  Changed(t)
  BY <1>13 DEF RecvCancelIO, Changed, sessionVars, arrayVars, historyVars
<1>14. ASSUME RecvFailed(t)
       PROVE  Changed(t)
  BY <1>14 DEF RecvFailed, Changed, sessionVars, arrayVars, historyVars
<1>15. ASSUME RecvFailedCancelIO(t)
       PROVE  Changed(t)
  BY <1>15 DEF RecvFailedCancelIO, Changed, sessionVars, arrayVars, historyVars
<1>16. ASSUME SubIOCount(t)
       PROVE  Changed(t)
  BY <1>16 DEF SubIOCount, Changed, sessionVars, arrayVars, historyVars
<1>17. ASSUME OnRecvComplete(t)
       PROVE  Changed(t)
  BY <1>17 DEF OnRecvComplete, Changed, sessionVars, arrayVars, historyVars
<1>18. ASSUME OperationAborted(t)
       PROVE  Changed(t)
  BY <1>18 DEF OperationAborted, Changed, sessionVars, arrayVars, historyVars
<1>19. ASSUME AcquireDead(t)
       PROVE  Changed(t)
  BY <1>19 DEF AcquireDead, Changed, sessionVars, arrayVars, historyVars
<1>20. ASSUME AcquireUnique(t)
       PROVE  Changed(t)
  BY <1>20 DEF AcquireUnique, Changed, sessionVars, arrayVars, historyVars
<1>21. ASSUME AlreadyCanceled(t)
       PROVE  Changed(t)
  BY <1>21 DEF AlreadyCanceled, Changed, sessionVars, arrayVars, historyVars
<1>22. ASSUME DisconnectFlag(t)
       PROVE  Changed(t)
  BY <1>22 DEF DisconnectFlag, Changed, sessionVars, arrayVars, historyVars
<1>23. ASSUME DisconnectCancelIO(t)
       PROVE  Changed(t)
  BY <1>23 DEF DisconnectCancelIO, Changed, sessionVars, arrayVars, historyVars
<1>24. ASSUME DecrementIOCount(t)
       PROVE  Changed(t)
  BY <1>24 DEF DecrementIOCount, Changed, sessionVars, arrayVars, historyVars
<1>25. ASSUME SetDeleteFlag(t)
       PROVE  Changed(t)
  BY <1>25 DEF SetDeleteFlag, Changed, sessionVars, arrayVars, historyVars
<1>26. ASSUME OnClientLeave(t)
       PROVE  Changed(t)
  BY <1>26 DEF OnClientLeave, Changed, sessionVars, arrayVars, historyVars
<1>27. ASSUME Destroy(t)
       PROVE  Changed(t)
  BY <1>27 DEF Destroy, Changed, sessionVars, arrayVars, historyVars
<1>28. ASSUME PushSessionIndex(t)
       PROVE  Changed(t)
  BY <1>28 DEF PushSessionIndex, Changed, sessionVars, arrayVars, historyVars
<1>29. QED
  BY <1>1, <1>2, <1>3, <1>4, <1>5, <1>6, <1>7, <1>8, <1>9, <1>10,
     <1>11, <1>12, <1>13, <1>14, <1>15, <1>16, <1>17, <1>18, <1>19, <1>20,
     <1>21, <1>22, <1>23, <1>24, <1>25, <1>26, <1>27, <1>28
     DEF ThreadStep, Continue, AllocStep, RecvStep, CompletionStep, DisconnectStep,
         ReleaseStep



\* Two threads in one slot that is neither free nor alive are the same thread.
LEMMA OneOwner ==
  ASSUME IInv, NEW t \in Threads, NEW r \in Threads,
         pc[t] \in OwnerPcs, pc[r] \in OwnerPcs, sess[t] = sess[r]
  PROVE  t = r /\ isDead(sess[t])
<1>1. sess[t] \in Slots /\ t \in On(sess[t], OwnerPcs) /\ r \in On(sess[t], OwnerPcs)
  BY DEF IInv, TypeOK, On
<1>2. QED
  BY <1>1 DEF IInv, SlotsPartition

\* The set-up of a session is the accept thread's alone.
LEMMA OneAcceptor ==
  ASSUME IInv, NEW t \in Threads, NEW r \in Threads,
         pc[t] \in AcceptPcs, pc[r] \in AcceptPcs
  PROVE  t = r
  BY DEF IInv, Support, ThreadSupport


\* Only the winner of the compare and exchange gets to OnClientLeave.
LEMMA EnterLeave ==
  ASSUME IInv, NEW t \in Threads, ThreadStep(t), pc'[t] = "leave"
  PROVE  SetDeleteFlag(t) /\ IOcount[sess[t]] = 0
<1> USE DEF IInv
<1>1. ASSUME Accept(t)
      PROVE  SetDeleteFlag(t) /\ IOcount[sess[t]] = 0
  BY <1>1 DEF Accept, At, Goto, DropRefs, AfterDequeue, Completions, TypeOK
<1>2. ASSUME NEW id \in issued, FindSession(t, id)
      PROVE  SetDeleteFlag(t) /\ IOcount[sess[t]] = 0
  BY <1>2 DEF FindSession, At, Goto, DropRefs, AfterDequeue, Completions, TypeOK
<1>3. ASSUME NEW i \in Slots, GetQueuedCompletion(t, i)
      PROVE  SetDeleteFlag(t) /\ IOcount[sess[t]] = 0
  BY <1>3 DEF GetQueuedCompletion, At, Goto, DropRefs, AfterDequeue, Completions, TypeOK
<1>4. ASSUME SessionMax(t)
      PROVE  SetDeleteFlag(t) /\ IOcount[sess[t]] = 0
  BY <1>4 DEF SessionMax, At, Goto, DropRefs, AfterDequeue, Completions, TypeOK
<1>5. ASSUME AllocSession(t)
      PROVE  SetDeleteFlag(t) /\ IOcount[sess[t]] = 0
  BY <1>5 DEF AllocSession, At, Goto, DropRefs, AfterDequeue, Completions, TypeOK
<1>6. ASSUME InitializeRef(t)
      PROVE  SetDeleteFlag(t) /\ IOcount[sess[t]] = 0
  BY <1>6 DEF InitializeRef, At, Goto, DropRefs, AfterDequeue, Completions, TypeOK
<1>7. ASSUME InitializeFields(t)
      PROVE  SetDeleteFlag(t) /\ IOcount[sess[t]] = 0
  BY <1>7 DEF InitializeFields, At, Goto, DropRefs, AfterDequeue, Completions, TypeOK
<1>8. ASSUME InitializePublish(t)
      PROVE  SetDeleteFlag(t) /\ IOcount[sess[t]] = 0
  BY <1>8 DEF InitializePublish, At, Goto, DropRefs, AfterDequeue, Completions, TypeOK
<1>9. ASSUME OnClientJoin(t)
      PROVE  SetDeleteFlag(t) /\ IOcount[sess[t]] = 0
  BY <1>9 DEF OnClientJoin, At, Goto, DropRefs, AfterDequeue, Completions, TypeOK
<1>10. ASSUME RecvPost(t)
       PROVE  SetDeleteFlag(t) /\ IOcount[sess[t]] = 0
  BY <1>10 DEF RecvPost, At, Goto, DropRefs, AfterDequeue, Completions, TypeOK
<1>11. ASSUME WSARecv(t)
       PROVE  SetDeleteFlag(t) /\ IOcount[sess[t]] = 0
  BY <1>11 DEF WSARecv, At, Goto, DropRefs, AfterDequeue, Completions, TypeOK
<1>12. ASSUME RecheckCanceled(t)
       PROVE  SetDeleteFlag(t) /\ IOcount[sess[t]] = 0
  BY <1>12 DEF RecheckCanceled, At, Goto, DropRefs, AfterDequeue, Completions, TypeOK
<1>13. ASSUME RecvCancelIO(t)
       PROVE  SetDeleteFlag(t) /\ IOcount[sess[t]] = 0
  BY <1>13 DEF RecvCancelIO, At, Goto, DropRefs, AfterDequeue, Completions, TypeOK
<1>14. ASSUME RecvFailed(t)
       PROVE  SetDeleteFlag(t) /\ IOcount[sess[t]] = 0
  BY <1>14 DEF RecvFailed, At, Goto, DropRefs, AfterDequeue, Completions, TypeOK
<1>15. ASSUME RecvFailedCancelIO(t)
       PROVE  SetDeleteFlag(t) /\ IOcount[sess[t]] = 0
  BY <1>15 DEF RecvFailedCancelIO, At, Goto, DropRefs, AfterDequeue, Completions, TypeOK
<1>16. ASSUME SubIOCount(t)
       PROVE  SetDeleteFlag(t) /\ IOcount[sess[t]] = 0
  BY <1>16 DEF SubIOCount, At, Goto, DropRefs, AfterDequeue, Completions, TypeOK
<1>17. ASSUME OnRecvComplete(t)
       PROVE  SetDeleteFlag(t) /\ IOcount[sess[t]] = 0
  BY <1>17 DEF OnRecvComplete, At, Goto, DropRefs, AfterDequeue, Completions, TypeOK
<1>18. ASSUME OperationAborted(t)
       PROVE  SetDeleteFlag(t) /\ IOcount[sess[t]] = 0
  BY <1>18 DEF OperationAborted, At, Goto, DropRefs, AfterDequeue, Completions, TypeOK
<1>19. ASSUME AcquireDead(t)
       PROVE  SetDeleteFlag(t) /\ IOcount[sess[t]] = 0
  BY <1>19 DEF AcquireDead, At, Goto, DropRefs, AfterDequeue, Completions, TypeOK
<1>20. ASSUME AcquireUnique(t)
       PROVE  SetDeleteFlag(t) /\ IOcount[sess[t]] = 0
  BY <1>20 DEF AcquireUnique, At, Goto, DropRefs, AfterDequeue, Completions, TypeOK
<1>21. ASSUME AlreadyCanceled(t)
       PROVE  SetDeleteFlag(t) /\ IOcount[sess[t]] = 0
  BY <1>21 DEF AlreadyCanceled, At, Goto, DropRefs, AfterDequeue, Completions, TypeOK
<1>22. ASSUME DisconnectFlag(t)
       PROVE  SetDeleteFlag(t) /\ IOcount[sess[t]] = 0
  BY <1>22 DEF DisconnectFlag, At, Goto, DropRefs, AfterDequeue, Completions, TypeOK
<1>23. ASSUME DisconnectCancelIO(t)
       PROVE  SetDeleteFlag(t) /\ IOcount[sess[t]] = 0
  BY <1>23 DEF DisconnectCancelIO, At, Goto, DropRefs, AfterDequeue, Completions, TypeOK
<1>24. ASSUME DecrementIOCount(t)
       PROVE  SetDeleteFlag(t) /\ IOcount[sess[t]] = 0
  BY <1>24 DEF DecrementIOCount, At, Goto, DropRefs, AfterDequeue, Completions, TypeOK
<1>25. ASSUME SetDeleteFlag(t)
       PROVE  SetDeleteFlag(t) /\ IOcount[sess[t]] = 0
  BY <1>25 DEF SetDeleteFlag, At, Goto, DropRefs, AfterDequeue, Completions, TypeOK
<1>26. ASSUME OnClientLeave(t)
       PROVE  SetDeleteFlag(t) /\ IOcount[sess[t]] = 0
  BY <1>26 DEF OnClientLeave, At, Goto, DropRefs, AfterDequeue, Completions, TypeOK
<1>27. ASSUME Destroy(t)
       PROVE  SetDeleteFlag(t) /\ IOcount[sess[t]] = 0
  BY <1>27 DEF Destroy, At, Goto, DropRefs, AfterDequeue, Completions, TypeOK
<1>28. ASSUME PushSessionIndex(t)
       PROVE  SetDeleteFlag(t) /\ IOcount[sess[t]] = 0
  BY <1>28 DEF PushSessionIndex, At, Goto, DropRefs, AfterDequeue, Completions, TypeOK
<1>29. QED
  BY <1>1, <1>2, <1>3, <1>4, <1>5, <1>6, <1>7, <1>8, <1>9, <1>10,
     <1>11, <1>12, <1>13, <1>14, <1>15, <1>16, <1>17, <1>18, <1>19, <1>20,
     <1>21, <1>22, <1>23, <1>24, <1>25, <1>26, <1>27, <1>28
     DEF ThreadStep, Continue, AllocStep, RecvStep, CompletionStep, DisconnectStep,
         ReleaseStep



\* LeaveOnceAfterJoin after a step of a thread.
LEMMA ThreadLeaveOnce ==
  ASSUME IInv, NEW t \in Threads, ThreadStep(t)
  PROVE  LeaveOnceAfterJoin'
<1>1. Changed(t)
  BY Changes
<1>2. ASSUME NEW r \in Threads, r # t, pc'[r] = "leave"
      PROVE  unique'[sess'[r]] \in joined' \ left'
  <2>1. pc[r] = "leave" /\ sess'[r] = sess[r] /\ sess[r] \in Slots /\ pc[r] \in OwnerPcs
    BY <1>2, OthersStay DEF IInv, TypeOK, OwnerPcs
  <2>2. unique[sess[r]] \in joined \ left
    BY <2>1 DEF IInv, LeaveOnceAfterJoin
  <2>3. unique'[sess[r]] = unique[sess[r]]
    <3>1. CASE InitializeFields(t)
      <4>1. sess[t] # sess[r]
        BY <3>1, <2>1, <1>2, OneOwner DEF InitializeFields, At, OwnerPcs
      <4>2. QED
        BY <3>1, <4>1, <2>1 DEF InitializeFields, IInv, TypeOK
    <3>2. QED
      BY <3>1, <1>1 DEF Changed
  <2>4. unique[sess[r]] \in joined'
    BY <2>2, <1>1 DEF Changed, OnClientJoin
  <2>5. unique[sess[r]] \notin left'
    <3>1. CASE OnClientLeave(t)
      <4>1. sess[t] # sess[r] /\ sess[t] \in Slots
        BY <3>1, <2>1, <1>2, OneOwner DEF OnClientLeave, At, OwnerPcs, IInv, TypeOK
      <4>2. unique[sess[r]] # 0
        BY <2>2 DEF IInv, Support, SlotSupport
      <4>3. unique[sess[r]] # unique[sess[t]]
        BY <2>1, <4>1, <4>2 DEF IInv, Support, SlotSupport
      <4>4. QED
        BY <3>1, <4>3, <2>2 DEF OnClientLeave
    <3>2. QED
      BY <3>1, <2>2, <1>1 DEF Changed
  <2>6. QED
    BY <2>1, <2>3, <2>4, <2>5
<1>3. ASSUME pc'[t] = "leave"
      PROVE  unique'[sess'[t]] \in joined' \ left'
  <2>1. SetDeleteFlag(t) /\ IOcount[sess[t]] = 0
    BY <1>3, EnterLeave
  <2>2. /\ ~isDead(sess[t])
        /\ \A r \in Threads : sess[r] = sess[t] => Weight(pc[r]) = 0
    BY <2>1, CasFrees
  <2>3. sess[t] \in Slots
    BY DEF IInv, TypeOK
  <2>4. On(sess[t], {"join"}) = {}
    BY <2>2, WeightOf DEF On
  <2>5. unique[sess[t]] \in joined \ left
    BY <2>2, <2>3, <2>4 DEF IInv, Support, SlotSupport
  <2>6. QED
    BY <2>1, <2>5 DEF SetDeleteFlag, localVars, historyVars
<1>4. left' \subseteq joined'
  <2>1. left \subseteq joined /\ (OnClientLeave(t) => unique[sess[t]] \in joined)
    BY DEF IInv, LeaveOnceAfterJoin, OnClientLeave, At
  <2>2. joined \subseteq joined'
    BY <1>1 DEF Changed, OnClientJoin
  <2>3. QED
    BY <2>1, <2>2, <1>1 DEF Changed, OnClientLeave
<1>5. QED
  BY <1>2, <1>3, <1>4 DEF LeaveOnceAfterJoin


\* Support, for a thread that stood still while t moved.
LEMMA BystanderSupport ==
  ASSUME IInv, NEW t \in Threads, ThreadStep(t), NEW r \in Threads, r # t
  PROVE  ThreadSupport(r)'
<1>1. /\ pc'[r] = pc[r] /\ sess'[r] = sess[r] /\ tgt'[r] = tgt[r]
      /\ sess[r] \in Slots
      /\ ThreadSupport(r)
  BY OthersStay DEF IInv, TypeOK, Support
<1>2. Changed(t)
  BY Changes
<1>3. ASSUME Weight(pc[r]) # 0, ~isDead(sess[r])
      PROVE  \A s \in Slots : s = sess[r] => ~isDead(s)' /\ (canceled[s] => canceled'[s])
  BY <1>1, <1>3, LiveStays
<1>4. pc[r] = "unique?" => \A s \in Slots : s = sess[r] => ~isDead(s)'
  BY <1>1, <1>3, WeightOf DEF ThreadSupport
<1>5. pc[r] \in {"cancel", "recancel", "failcancel", "abort"} => canceled'[sess[r]]
  <2> SUFFICES ASSUME pc[r] \in {"cancel", "recancel", "failcancel", "abort"}
               PROVE  canceled'[sess[r]]
    OBVIOUS
  <2>1. Weight(pc[r]) # 0
    BY WeightOf
  <2>2. ~isDead(sess[r])
    BY DEF IInv, AcquiredIsOwn, Acquired, HoldTwo
  <2>3. QED
    BY <2>1, <2>2, <1>1, <1>3 DEF ThreadSupport
<1>6. pc[r] \in {"publish", "leave", "destroy"} => sockOpen'[sess[r]]
  <2> SUFFICES ASSUME pc[r] \in {"publish", "leave", "destroy"}
               PROVE  sockOpen'[sess[r]]
    OBVIOUS
  <2>1. sockOpen[sess[r]]
    BY <1>1 DEF ThreadSupport
  <2>2. InitializeFields(t) \/ Destroy(t) => sess[t] # sess[r]
    BY OneOwner DEF InitializeFields, Destroy, At, OwnerPcs
  <2>3. CASE InitializeFields(t)
    BY <2>1, <2>2, <2>3, <1>1 DEF InitializeFields, IInv, TypeOK
  <2>4. CASE Destroy(t)
    BY <2>1, <2>2, <2>4, <1>1 DEF Destroy, IInv, TypeOK
  <2>5. QED
    BY <2>1, <2>3, <2>4, <1>2 DEF Changed
<1>7. pc[r] \in AcceptPcs =>
        ~InitializeFields(t) /\ ~OnClientJoin(t) /\ ~AllocSession(t)
  BY OneAcceptor DEF InitializeFields, OnClientJoin, AllocSession, At, AcceptPcs
<1>8. pc[r] \in AcceptPcs => unique' = unique /\ joined' = joined /\ stamp' = stamp
  BY <1>2, <1>7 DEF Changed
<1>9. {"init", "fields", "publish"} \subseteq AcceptPcs
  BY DEF AcceptPcs
<1>10. QED
  BY <1>1, <1>4, <1>5, <1>6, <1>8, <1>9 DEF ThreadSupport, isDead

\* Support, for the thread that moved.
LEMMA MoverSupport ==
  ASSUME IInv, NEW t \in Threads, ThreadStep(t)
  PROVE  ThreadSupport(t)'
<1> USE DEF IInv
<1>a. /\ IOcount \in [Slots -> 0 .. WordSize - 1]
      /\ unique \in [Slots -> 0..MaxStamp]
      /\ canceled \in [Slots -> BOOLEAN]
      /\ sockOpen \in [Slots -> BOOLEAN]
      /\ stamp \in 1 .. MaxStamp + 1
      /\ pc \in [Threads -> Pcs] /\ sess \in [Threads -> Slots]
      /\ tgt \in [Threads -> 0..MaxStamp]
      /\ sess[t] \in Slots
  BY DEF TypeOK
<1>b. ThreadSupport(t)
  BY DEF Support
<1>1. ASSUME Accept(t)
      PROVE  ThreadSupport(t)'
  BY <1>1, <1>a, <1>b DEF Accept, At, Goto, DropRefs, localVars, AcceptPcs, ThreadSupport, sessionVars, arrayVars, historyVars
<1>2. ASSUME NEW id \in issued, FindSession(t, id)
      PROVE  ThreadSupport(t)'
  BY <1>2, <1>a, <1>b DEF FindSession, At, Goto, DropRefs, localVars, AcceptPcs, ThreadSupport
<1>3. ASSUME NEW i \in Slots, GetQueuedCompletion(t, i)
      PROVE  ThreadSupport(t)'
  BY <1>3, <1>a, <1>b DEF GetQueuedCompletion, At, Goto, DropRefs, localVars, AcceptPcs, ThreadSupport, AfterDequeue, Completions, NeverQuits
<1>4. ASSUME SessionMax(t)
      PROVE  ThreadSupport(t)'
  BY <1>4, <1>a, <1>b DEF SessionMax, At, Goto, DropRefs, localVars, AcceptPcs, ThreadSupport, sessionVars, arrayVars, historyVars
<1>5. ASSUME AllocSession(t)
      PROVE  ThreadSupport(t)'
  <2>1. /\ pc[t] = "pop" /\ pc'[t] = "init" /\ tgt'[t] = stamp /\ stamp' = stamp + 1
        /\ unique' = unique /\ joined' = joined
    BY <1>5, <1>a DEF AllocSession, At, Goto, sessionVars, historyVars
  <2>2. \A s \in Slots : unique[s] # stamp
    BY <1>a DEF Support, SlotSupport
  <2>3. stamp \in 1 .. stamp /\ stamp \notin joined
    BY <1>a DEF Support
  <2>4. QED
    BY <2>1, <2>2, <2>3, <1>a, <1>b DEF ThreadSupport, AcceptPcs
<1>6. ASSUME InitializeRef(t)
      PROVE  ThreadSupport(t)'
  BY <1>6, <1>a, <1>b DEF InitializeRef, At, Goto, DropRefs, localVars, AcceptPcs, ThreadSupport, sessionVars, arrayVars, historyVars
<1>7. ASSUME InitializeFields(t)
      PROVE  ThreadSupport(t)'
  <2>1. /\ pc[t] = "fields" /\ pc'[t] = "publish" /\ sess'[t] = sess[t] /\ tgt'[t] = tgt[t]
        /\ unique'[sess[t]] = tgt[t] /\ sockOpen'[sess[t]]
        /\ joined' = joined /\ stamp' = stamp
    BY <1>7, <1>a DEF InitializeFields, At, Goto, localVars, arrayVars
  <2>2. QED
    BY <2>1, <1>a, <1>b DEF ThreadSupport, AcceptPcs
<1>8. ASSUME InitializePublish(t)
      PROVE  ThreadSupport(t)'
  BY <1>8, <1>a, <1>b DEF InitializePublish, At, Goto, DropRefs, localVars, AcceptPcs, ThreadSupport, sessionVars, arrayVars, historyVars
<1>9. ASSUME OnClientJoin(t)
      PROVE  ThreadSupport(t)'
  BY <1>9, <1>a, <1>b DEF OnClientJoin, At, Goto, DropRefs, localVars, AcceptPcs, ThreadSupport, sessionVars, arrayVars, historyVars
<1>10. ASSUME RecvPost(t)
       PROVE  ThreadSupport(t)'
  BY <1>10, <1>a, <1>b DEF RecvPost, At, Goto, DropRefs, localVars, AcceptPcs, ThreadSupport
<1>11. ASSUME WSARecv(t)
       PROVE  ThreadSupport(t)'
  BY <1>11, <1>a, <1>b DEF WSARecv, At, Goto, DropRefs, localVars, AcceptPcs, ThreadSupport
<1>12. ASSUME RecheckCanceled(t)
       PROVE  ThreadSupport(t)'
  BY <1>12, <1>a, <1>b DEF RecheckCanceled, At, Goto, DropRefs, localVars, AcceptPcs, ThreadSupport, sessionVars
<1>13. ASSUME RecvCancelIO(t)
       PROVE  ThreadSupport(t)'
  BY <1>13, <1>a, <1>b DEF RecvCancelIO, At, Goto, DropRefs, localVars, AcceptPcs, ThreadSupport, sessionVars
<1>14. ASSUME RecvFailed(t)
       PROVE  ThreadSupport(t)'
  BY <1>14, <1>a, <1>b DEF RecvFailed, At, Goto, DropRefs, localVars, AcceptPcs, ThreadSupport, sessionVars
<1>15. ASSUME RecvFailedCancelIO(t)
       PROVE  ThreadSupport(t)'
  BY <1>15, <1>a, <1>b DEF RecvFailedCancelIO, At, Goto, DropRefs, localVars, AcceptPcs, ThreadSupport, sessionVars
<1>16. ASSUME SubIOCount(t)
       PROVE  ThreadSupport(t)'
  BY <1>16, <1>a, <1>b DEF SubIOCount, At, Goto, DropRefs, localVars, AcceptPcs, ThreadSupport
<1>17. ASSUME OnRecvComplete(t)
       PROVE  ThreadSupport(t)'
  BY <1>17, <1>a, <1>b DEF OnRecvComplete, At, Goto, DropRefs, localVars, AcceptPcs, ThreadSupport
<1>18. ASSUME OperationAborted(t)
       PROVE  ThreadSupport(t)'
  BY <1>18, <1>a, <1>b DEF OperationAborted, At, Goto, DropRefs, localVars, AcceptPcs, ThreadSupport
<1>19. ASSUME AcquireDead(t)
       PROVE  ThreadSupport(t)'
  <2>1. pc[t] = "dead?" /\ sess'[t] = sess[t] /\ IOcount' = IOcount
        /\ pc'[t] = IF isDead(sess[t]) THEN "dec" ELSE "unique?"
    BY <1>19, <1>a DEF AcquireDead, At, Goto, localVars, sessionVars
  <2>2. QED
    BY <2>1, <1>a DEF ThreadSupport, AcceptPcs, isDead
<1>20. ASSUME AcquireUnique(t)
       PROVE  ThreadSupport(t)'
  BY <1>20, <1>a, <1>b DEF AcquireUnique, At, Goto, DropRefs, localVars, AcceptPcs, ThreadSupport
<1>21. ASSUME AlreadyCanceled(t)
       PROVE  ThreadSupport(t)'
  BY <1>21, <1>a, <1>b DEF AlreadyCanceled, At, Goto, DropRefs, localVars, AcceptPcs, ThreadSupport
<1>22. ASSUME DisconnectFlag(t)
       PROVE  ThreadSupport(t)'
  BY <1>22, <1>a, <1>b DEF DisconnectFlag, At, Goto, DropRefs, localVars, AcceptPcs, ThreadSupport, sessionVars
<1>23. ASSUME DisconnectCancelIO(t)
       PROVE  ThreadSupport(t)'
  BY <1>23, <1>a, <1>b DEF DisconnectCancelIO, At, Goto, DropRefs, localVars, AcceptPcs, ThreadSupport, sessionVars
<1>24. ASSUME DecrementIOCount(t)
       PROVE  ThreadSupport(t)'
  BY <1>24, <1>a, <1>b DEF DecrementIOCount, At, Goto, DropRefs, localVars, AcceptPcs, ThreadSupport
<1>25. ASSUME SetDeleteFlag(t)
       PROVE  ThreadSupport(t)'
  <2>1. /\ pc[t] = "cas" /\ sess'[t] = sess[t] /\ sockOpen' = sockOpen
        /\ pc'[t] = IF IOcount[sess[t]] = 0 THEN "leave" ELSE "idle"
    BY <1>25, <1>a DEF SetDeleteFlag, At, Goto, localVars
  <2>2. IOcount[sess[t]] = 0 => sockOpen[sess[t]]
    BY CasFrees, <1>a DEF DeadHasNoIO
  <2>3. QED
    BY <2>1, <2>2, <1>a, <1>b DEF ThreadSupport, AcceptPcs
<1>26. ASSUME OnClientLeave(t)
       PROVE  ThreadSupport(t)'
  BY <1>26, <1>a, <1>b DEF OnClientLeave, At, Goto, DropRefs, localVars, AcceptPcs, ThreadSupport, sessionVars, arrayVars, historyVars
<1>27. ASSUME Destroy(t)
       PROVE  ThreadSupport(t)'
  BY <1>27, <1>a, <1>b DEF Destroy, At, Goto, DropRefs, localVars, AcceptPcs, ThreadSupport, sessionVars, arrayVars, historyVars
<1>28. ASSUME PushSessionIndex(t)
       PROVE  ThreadSupport(t)'
  BY <1>28, <1>a, <1>b DEF PushSessionIndex, At, Goto, DropRefs, localVars, AcceptPcs, ThreadSupport
<1>29. QED
  BY <1>1, <1>2, <1>3, <1>4, <1>5, <1>6, <1>7, <1>8, <1>9, <1>10,
     <1>11, <1>12, <1>13, <1>14, <1>15, <1>16, <1>17, <1>18, <1>19, <1>20,
     <1>21, <1>22, <1>23, <1>24, <1>25, <1>26, <1>27, <1>28
     DEF ThreadStep, Continue, AllocStep, RecvStep, CompletionStep, DisconnectStep,
         ReleaseStep




\* The position "join" is left by OnClientJoin only.
LEMMA FromJoin ==
  ASSUME NEW t \in Threads, ThreadStep(t), pc[t] = "join"
  PROVE  OnClientJoin(t)
<1>1. ASSUME Accept(t)
      PROVE  OnClientJoin(t)
  BY <1>1 DEF Accept, At
<1>2. ASSUME NEW id \in issued, FindSession(t, id)
      PROVE  OnClientJoin(t)
  BY <1>2 DEF FindSession, At
<1>3. ASSUME NEW i \in Slots, GetQueuedCompletion(t, i)
      PROVE  OnClientJoin(t)
  BY <1>3 DEF GetQueuedCompletion, At
<1>4. ASSUME SessionMax(t)
      PROVE  OnClientJoin(t)
  BY <1>4 DEF SessionMax, At
<1>5. ASSUME AllocSession(t)
      PROVE  OnClientJoin(t)
  BY <1>5 DEF AllocSession, At
<1>6. ASSUME InitializeRef(t)
      PROVE  OnClientJoin(t)
  BY <1>6 DEF InitializeRef, At
<1>7. ASSUME InitializeFields(t)
      PROVE  OnClientJoin(t)
  BY <1>7 DEF InitializeFields, At
<1>8. ASSUME InitializePublish(t)
      PROVE  OnClientJoin(t)
  BY <1>8 DEF InitializePublish, At
<1>9. ASSUME OnClientJoin(t)
      PROVE  OnClientJoin(t)
  BY <1>9
<1>10. ASSUME RecvPost(t)
       PROVE  OnClientJoin(t)
  BY <1>10 DEF RecvPost, At
<1>11. ASSUME WSARecv(t)
       PROVE  OnClientJoin(t)
  BY <1>11 DEF WSARecv, At
<1>12. ASSUME RecheckCanceled(t)
       PROVE  OnClientJoin(t)
  BY <1>12 DEF RecheckCanceled, At
<1>13. ASSUME RecvCancelIO(t)
       PROVE  OnClientJoin(t)
  BY <1>13 DEF RecvCancelIO, At
<1>14. ASSUME RecvFailed(t)
       PROVE  OnClientJoin(t)
  BY <1>14 DEF RecvFailed, At
<1>15. ASSUME RecvFailedCancelIO(t)
       PROVE  OnClientJoin(t)
  BY <1>15 DEF RecvFailedCancelIO, At
<1>16. ASSUME SubIOCount(t)
       PROVE  OnClientJoin(t)
  BY <1>16 DEF SubIOCount, At
<1>17. ASSUME OnRecvComplete(t)
       PROVE  OnClientJoin(t)
  BY <1>17 DEF OnRecvComplete, At
<1>18. ASSUME OperationAborted(t)
       PROVE  OnClientJoin(t)
  BY <1>18 DEF OperationAborted, At
<1>19. ASSUME AcquireDead(t)
       PROVE  OnClientJoin(t)
  BY <1>19 DEF AcquireDead, At
<1>20. ASSUME AcquireUnique(t)
       PROVE  OnClientJoin(t)
  BY <1>20 DEF AcquireUnique, At
<1>21. ASSUME AlreadyCanceled(t)
       PROVE  OnClientJoin(t)
  BY <1>21 DEF AlreadyCanceled, At
<1>22. ASSUME DisconnectFlag(t)
       PROVE  OnClientJoin(t)
  BY <1>22 DEF DisconnectFlag, At
<1>23. ASSUME DisconnectCancelIO(t)
       PROVE  OnClientJoin(t)
  BY <1>23 DEF DisconnectCancelIO, At
<1>24. ASSUME DecrementIOCount(t)
       PROVE  OnClientJoin(t)
  BY <1>24 DEF DecrementIOCount, At
<1>25. ASSUME SetDeleteFlag(t)
       PROVE  OnClientJoin(t)
  BY <1>25 DEF SetDeleteFlag, At
<1>26. ASSUME OnClientLeave(t)
       PROVE  OnClientJoin(t)
  BY <1>26 DEF OnClientLeave, At
<1>27. ASSUME Destroy(t)
       PROVE  OnClientJoin(t)
  BY <1>27 DEF Destroy, At
<1>28. ASSUME PushSessionIndex(t)
       PROVE  OnClientJoin(t)
  BY <1>28 DEF PushSessionIndex, At
<1>29. QED
  BY <1>1, <1>2, <1>3, <1>4, <1>5, <1>6, <1>7, <1>8, <1>9, <1>10,
     <1>11, <1>12, <1>13, <1>14, <1>15, <1>16, <1>17, <1>18, <1>19, <1>20,
     <1>21, <1>22, <1>23, <1>24, <1>25, <1>26, <1>27, <1>28
     DEF ThreadStep, Continue, AllocStep, RecvStep, CompletionStep, DisconnectStep,
         ReleaseStep



\* Support, for every slot, after a step of a thread.
LEMMA ThreadSlotSupport ==
  ASSUME IInv, NEW t \in Threads, ThreadStep(t), NEW s \in Slots
  PROVE  SlotSupport(s)'
<1>1. /\ SlotSupport(s)
      /\ \A r \in Slots : unique[r] \in Nat /\ unique[r] < stamp
      /\ stamp \in Nat /\ sess[t] \in Slots
      /\ unique \in [Slots -> 0..MaxStamp]
  BY DEF IInv, Support, SlotSupport, TypeOK
<1>2. Changed(t)
  BY Changes
<1>3. CASE InitializeFields(t)
  <2>1. /\ pc[t] = "fields" /\ stamp' = stamp /\ left' = left /\ joined' = joined
        /\ \A r \in Slots : unique'[r] = IF r = sess[t] THEN tgt[t] ELSE unique[r]
        /\ IOcount' = IOcount
    BY <1>1, <1>3 DEF InitializeFields, At, arrayVars
  <2>2. /\ tgt[t] \in 1 .. stamp - 1
        /\ \A r \in Slots : unique[r] # tgt[t]
    BY <2>1 DEF IInv, Support, ThreadSupport
  <2>3. isDead(sess[t])
    BY <2>1, OneOwner DEF OwnerPcs
  <2>4. \A r \in Threads : r \in On(s, {"join"}) => r \in On(s, {"join"})'
    <3>1. pc[t] # "join"
      BY <2>1
    <3>2. QED
      BY <3>1, OnMoves
  <2>5. unique'[s] < stamp' /\ \A r \in Slots : unique'[s] = unique'[r] => s = r \/ unique'[s] = 0
    BY <2>1, <2>2, <1>1 DEF IInv, Support, SlotSupport
  <2>6. On(s, {"join"}) # {} => (On(s, {"join"}) # {})'
    BY <2>4 DEF On
  <2>7. ~isDead(s)' => /\ unique'[s] \notin left' \cup {0}
                       /\ unique'[s] \in joined' \/ (On(s, {"join"}) # {})'
    BY <2>1, <2>3, <2>6, <1>1 DEF SlotSupport, isDead
  <2>8. QED
    BY <2>5, <2>7 DEF SlotSupport
<1>4. CASE unique' = unique
  <2>1. stamp' \in Nat /\ stamp' >= stamp
    BY <1>1, <1>2 DEF Changed, AllocSession
  <2>2. unique'[s] < stamp' /\ \A r \in Slots : unique'[s] = unique'[r] => s = r \/ unique'[s] = 0
    BY <1>1, <1>4, <2>1 DEF SlotSupport
  <2>3. ASSUME isDead(s), ~isDead(s)'
        PROVE  /\ unique'[s] \notin left' \cup {0}
               /\ unique'[s] \in joined' \/ (On(s, {"join"}) # {})'
    <3>1. InitializePublish(t) /\ sess[t] = s
      BY <2>3, ThreadRefsExact
    <3>2. unique[s] = tgt[t] /\ tgt[t] \in (1 .. stamp - 1) \ joined
      BY <3>1 DEF InitializePublish, At, IInv, Support, ThreadSupport
    <3>3. t \in On(s, {"join"})'
      BY <3>1, OnMoves DEF InitializePublish, Goto, localVars, IInv, TypeOK
    <3>4. left' = left /\ left \subseteq joined
      BY <3>1 DEF InitializePublish, historyVars, IInv, LeaveOnceAfterJoin
    <3>5. QED
      BY <3>2, <3>3, <3>4, <1>4
  <2>4. ASSUME ~isDead(s)
        PROVE  /\ unique'[s] \notin left' \cup {0}
               /\ unique'[s] \in joined' \/ (On(s, {"join"}) # {})'
    <3>1. /\ unique[s] \notin left \cup {0}
          /\ unique[s] \in joined \/ On(s, {"join"}) # {}
      BY <2>4, <1>1 DEF SlotSupport
    <3>2. unique[s] \notin left'
      <4>1. CASE OnClientLeave(t)
        <5>1. isDead(sess[t])
          BY <4>1, OneOwner DEF OnClientLeave, At, OwnerPcs
        <5>2. unique[s] # unique[sess[t]]
          BY <5>1, <2>4, <3>1, <1>1 DEF SlotSupport
        <5>3. QED
          BY <4>1, <5>2, <3>1 DEF OnClientLeave
      <4>2. QED
        BY <4>1, <3>1, <1>2 DEF Changed
    <3>3. unique[s] \in joined' \/ (On(s, {"join"}) # {})'
      <4>1. joined \subseteq joined'
        BY <1>2 DEF Changed, OnClientJoin
      <4>2. ASSUME NEW r \in On(s, {"join"})
            PROVE  unique[s] \in joined' \/ r \in On(s, {"join"})'
        <5>1. r \in Threads /\ sess[r] = s /\ pc[r] = "join"
          BY <4>2 DEF On
        <5>2. CASE r # t
          BY <4>2, <5>1, <5>2, OnMoves
        <5>3. CASE r = t
          <6>1. OnClientJoin(t)
            BY <5>1, <5>3, FromJoin
          <6>2. unique[s] = tgt[t]
            BY <5>1, <5>3 DEF IInv, AcquiredIsOwn, Acquired
          <6>3. QED
            BY <6>1, <6>2 DEF OnClientJoin
        <5>4. QED
          BY <5>2, <5>3
      <4>3. QED
        BY <3>1, <4>1, <4>2
    <3>4. QED
      BY <3>1, <3>2, <3>3, <1>4
  <2>5. QED
    BY <2>2, <2>3, <2>4 DEF SlotSupport
<1>5. QED
  BY <1>2, <1>3, <1>4 DEF Changed

\* An interval of stamps grows with its bound.
LEMMA RangesGrow ==
  ASSUME NEW m \in Nat, NEW n \in Nat, n >= m
  PROVE  1 .. m - 1 \subseteq 1 .. n - 1
OBVIOUS

\* Only stamps that were handed out have joined.
LEMMA ThreadJoinedOK ==
  ASSUME IInv, NEW t \in Threads, ThreadStep(t)
  PROVE  joined' \subseteq 1 .. stamp' - 1
<1>1. /\ joined \subseteq 1 .. stamp - 1
      /\ stamp \in Nat /\ sess[t] \in Slots
      /\ Changed(t)
  BY Changes DEF IInv, Support, TypeOK
<1>2. stamp \in Nat
  BY <1>1
<1>3. stamp' \in Nat /\ stamp' >= stamp
  BY <1>1 DEF Changed, AllocSession
<1>4. 1 .. stamp - 1 \subseteq 1 .. stamp' - 1
  BY <1>3, <1>2, RangesGrow
<1>5. CASE OnClientJoin(t)
  <2>1. ~isDead(sess[t]) /\ unique[sess[t]] = tgt[t]
    BY <1>5 DEF OnClientJoin, At, IInv, AcquiredIsOwn, Acquired
  <2>2. tgt[t] \in 1 .. stamp - 1
    BY <2>1, <1>1 DEF IInv, Support, SlotSupport, TypeOK
  <2>3. joined' = joined \cup {tgt[t]}
    BY <1>5 DEF OnClientJoin
  <2>4. QED
    BY <2>2, <2>3, <1>1, <1>4
<1>6. CASE joined' = joined
  BY <1>6, <1>1, <1>4
<1>7. QED
  BY <1>1, <1>5, <1>6 DEF Changed

-----------------------------------------------------------------------------
\* A step of a thread keeps the invariant.
LEMMA ThreadKeepsInv ==
  ASSUME IInv, NEW t \in Threads, ThreadStep(t)
  PROVE  IInv'
<1>1. TypeOK'
  BY ThreadTypeOK
<1>2. RefsExact'
  BY ThreadRefsExact DEF RefsExact, Exact
<1>3. AcquiredIsOwn'
  BY ThreadAcquiredIsOwn
<1>4. SlotsPartition'
  BY ThreadPlaced DEF SlotsPartition, Placed
<1>5. DeadHasNoIO' /\ NeverQuits' /\ LeaveOnceAfterJoin'
  BY ThreadDeadHasNoIO, ThreadNeverQuits, ThreadLeaveOnce
<1>6. OneReceiver'
  BY ThreadSingleReceiver DEF OneReceiver, SingleReceiver
<1>7. Support'
  <2>1. \A r \in Threads : ThreadSupport(r)'
    BY MoverSupport, BystanderSupport
  <2>2. QED
    BY <2>1, ThreadSlotSupport, ThreadJoinedOK DEF Support
<1>8. QED
  BY <1>1, <1>2, <1>3, <1>4, <1>5, <1>6, <1>7 DEF IInv

\* So does the kernel, which only ends receives that are in flight.
LEMMA KernelKeepsInv ==
  ASSUME IInv, NEW s \in Slots, KernelCompletes(s)
  PROVE  IInv'
<1>1. /\ \A r \in Slots \ {s} : recvIO'[r] = recvIO[r]
      /\ recvIO[s] = "posted" /\ recvIO'[s] \in {"data", "fin", "reset"}
      /\ recvIO' \in [Slots -> {"none", "posted"} \cup Completions]
      /\ UNCHANGED <<IOcount, unique, canceled, sockOpen, arrayVars, pc, localVars, historyVars>>
  BY DEF KernelCompletes, IInv, TypeOK, Completions
<1>2. \A r \in Slots : recvIO'[r] = "none" <=> recvIO[r] = "none"
  BY <1>1
<1>3. \A r \in Slots : recvIO'[r] = "aborted" => recvIO[r] = "aborted"
  BY <1>1
<1>4. TypeOK'
  BY <1>1 DEF IInv, TypeOK, arrayVars, localVars, historyVars
<1>5. \A r, P : On(r, P)' = On(r, P)
  BY <1>1 DEF On, localVars
<1>6. \A r \in Slots : isDead(r)' <=> isDead(r)
  BY <1>1 DEF isDead
<1>7. RefsExact'
  <2>1. \A r \in Slots : RefsHeld(r)' = RefsHeld(r)
    BY <1>2, <1>5 DEF RefsHeld
  <2>2. QED
    BY <2>1, <1>1, <1>6 DEF IInv, RefsExact
<1>8. AcquiredIsOwn'
  BY <1>1 DEF IInv, AcquiredIsOwn, isDead, localVars
<1>9. SlotsPartition'
  BY <1>1, <1>5, <1>6 DEF IInv, SlotsPartition, arrayVars
<1>10. DeadHasNoIO' /\ NeverQuits'
  BY <1>1, <1>2, <1>3, <1>6 DEF IInv, DeadHasNoIO, NeverQuits
<1>11. OneReceiver'
  BY <1>2, <1>5 DEF IInv, OneReceiver
<1>12. LeaveOnceAfterJoin'
  BY <1>1 DEF IInv, LeaveOnceAfterJoin, localVars, historyVars
<1>13. Support'
  <2>1. \A r \in Threads : ThreadSupport(r)'
    BY <1>1 DEF IInv, Support, ThreadSupport, isDead, localVars, arrayVars, historyVars
  <2>2. \A r \in Slots : SlotSupport(r)'
    BY <1>1, <1>5, <1>6 DEF IInv, Support, SlotSupport, arrayVars, historyVars
  <2>3. QED
    BY <1>1, <2>1, <2>2 DEF IInv, Support, arrayVars, historyVars
<1>14. QED
  BY <1>4, <1>7, <1>8, <1>9, <1>10, <1>11, <1>12, <1>13 DEF IInv

\* The server before its first accept.
LEMMA InitHasInv == Init => IInv
<1> SUFFICES ASSUME Init PROVE IInv
  OBVIOUS
<1> USE WordSizes
<1>1. TypeOK
  BY SlotsAssumption, StampAssumption, PcsElements DEF Init, TypeOK
<1>2. \A s \in Slots : isDead(s)
  BY DEF Init, isDead
<1>3. \A s \in Slots : \A P : "idle" \notin P => On(s, P) = {}
  BY DEF Init, On
<1>4. RefsExact
  <2>1. "idle" \notin HoldOne \cup HoldTwo /\ "idle" \notin HoldTwo
    BY DEF HoldOne, HoldTwo, FindPcs
  <2>2. ASSUME NEW s \in Slots PROVE RefsHeld(s) = 0
    <3>1. On(s, HoldOne \cup HoldTwo) = {} /\ On(s, HoldTwo) = {}
      BY <2>1, <1>3
    <3>2. recvIO[s] = "none"
      BY DEF Init
    <3>3. Cardinality({}) = 0
      BY FS_EmptySet
    <3>4. RefsHeld(s) = Cardinality({}) + Cardinality({}) + 0
      BY <3>1, <3>2 DEF RefsHeld
    <3>5. QED
      BY <3>3, <3>4
  <2>3. \A s \in Slots : IOcount[s] = DELETE_FLAG_BIT
    BY DEF Init
  <2>4. QED
    BY <1>2, <2>2, <2>3 DEF RefsExact
<1>5. AcquiredIsOwn /\ NeverQuits /\ LeaveOnceAfterJoin
  BY DEF Init, AcquiredIsOwn, Acquired, HoldTwo, NeverQuits, LeaveOnceAfterJoin
<1>6. SlotsPartition
  BY <1>2, <1>3 DEF SlotsPartition, OwnerPcs, Init
<1>7. DeadHasNoIO
  BY <1>2 DEF DeadHasNoIO, Init
<1>8. OneReceiver
  BY <1>3 DEF OneReceiver, RecvUser, Init
<1>9. Support
  BY <1>2 DEF Init, Support, ThreadSupport, SlotSupport, AcceptPcs
<1>10. QED
  BY <1>1, <1>4, <1>5, <1>6, <1>7, <1>8, <1>9 DEF IInv

\* A step that changes nothing.
LEMMA StutterKeepsInv ==
  ASSUME IInv, UNCHANGED vars
  PROVE  IInv'
<1>1. UNCHANGED <<IOcount, unique, canceled, sockOpen, recvIO, freeIdx, stamp,
                  pc, sess, tgt, issued, joined, left>>
  BY DEF vars, sessionVars, arrayVars, localVars, historyVars
<1>2. \A s, P : On(s, P)' = On(s, P)
  BY <1>1 DEF On
<1>3. \A s : (isDead(s)' <=> isDead(s)) /\ RefsHeld(s)' = RefsHeld(s)
  BY <1>1, <1>2 DEF isDead, RefsHeld
<1>4. TypeOK' /\ DeadHasNoIO' /\ AcquiredIsOwn' /\ NeverQuits' /\ LeaveOnceAfterJoin'
  BY <1>1 DEF IInv, TypeOK, DeadHasNoIO, AcquiredIsOwn, NeverQuits, LeaveOnceAfterJoin, isDead
<1>5. RefsExact' /\ SlotsPartition' /\ OneReceiver'
  BY <1>1, <1>2, <1>3 DEF IInv, RefsExact, SlotsPartition, OneReceiver
<1>6. \A r \in Threads : ThreadSupport(r)'
  BY <1>1 DEF IInv, Support, ThreadSupport, isDead
<1>7. \A r \in Slots : SlotSupport(r)'
  BY <1>1, <1>2, <1>3 DEF IInv, Support, SlotSupport
<1>8. QED
  BY <1>1, <1>4, <1>5, <1>6, <1>7 DEF IInv, Support

\* The inductive invariant, for any number of slots, threads and sessions.
THEOREM InductiveInvariant == Spec => []IInv
<1>1. Init => IInv
  BY InitHasInv
<1>2. IInv /\ [Next]_vars => IInv'
  <2> SUFFICES ASSUME IInv, [Next]_vars
               PROVE  IInv'
    OBVIOUS
  <2>1. CASE UNCHANGED vars
    BY <2>1, StutterKeepsInv
  <2>2. ASSUME NEW t \in Threads, ThreadStep(t)
        PROVE  IInv'
    BY <2>2, ThreadKeepsInv
  <2>3. ASSUME NEW s \in Slots, KernelCompletes(s)
        PROVE  IInv'
    BY <2>3, KernelKeepsInv
  <2>4. QED
    BY <2>1, <2>2, <2>3 DEF Next, ThreadStep
<1>3. QED
  BY <1>1, <1>2, PTL DEF Spec

\* TypeOK: every variable keeps its type; IOcount_ stays a 16-bit word.
THEOREM TypeCorrect == Spec => []TypeOK
<1>1. IInv => TypeOK
  BY DEF IInv
<1>2. QED
  BY <1>1, InductiveInvariant, PTL

\* IOcount_ is the references held plus the delete flag, on every path of RecvPost,
\* the completions, FindSession and ReleaseSession: it never goes under zero and
\* never runs into the flag.
THEOREM ReferenceCount == Spec => []RefsExact
<1>1. IInv => RefsExact
  BY DEF IInv
<1>2. QED
  BY <1>1, InductiveInvariant, PTL

\* Whoever got past AcquireSession, or has a completion in hand, works on a live
\* session that is its own; no old ID reaches the next session in the slot.
THEOREM AcquiredSession == Spec => []AcquiredIsOwn
<1>1. IInv => AcquiredIsOwn
  BY DEF IInv
<1>2. QED
  BY <1>1, InductiveInvariant, PTL

\* Slots are free, owned once or alive, and no released slot has a receive in the
\* kernel: the index stack and the session array agree at every moment.
THEOREM SlotsConsistent == Spec => [](SlotsPartition /\ DeadHasNoIO)
<1>1. IInv => SlotsPartition /\ DeadHasNoIO
  BY DEF IInv
<1>2. QED
  BY <1>1, InductiveInvariant, PTL

\* The receive buffer of a session has one user at a time: the thread that posts it,
\* the kernel, or the worker that has its completion.
THEOREM ReceiveExclusive == Spec => []OneReceiver
<1>1. IInv => OneReceiver
  BY DEF IInv
<1>2. QED
  BY <1>1, InductiveInvariant, PTL

\* The ErrorQuit calls of the abort path are not reached: a receive is aborted only in
\* a session that is canceled.
THEOREM SessionNeverQuits == Spec => []NeverQuits
<1>1. IInv => NeverQuits
  BY DEF IInv
<1>2. QED
  BY <1>1, InductiveInvariant, PTL

\* OnClientLeave is called at most once per session, after its OnClientJoin.
THEOREM LeaveOnce == Spec => []LeaveOnceAfterJoin
<1>1. IInv => LeaveOnceAfterJoin
  BY DEF IInv
<1>2. QED
  BY <1>1, InductiveInvariant, PTL
=============================================================================
