---------------------------- MODULE PipesProofs ----------------------------
(***************************************************************************)
(* The safety properties of Pipes, for any number of sessions, pipes and   *)
(* callers, where MovePipe(ID) is called once for a session (OneEntry).    *)
(* IInv is the inductive invariant: where the user of a session is says    *)
(* what the fields of both hold and who works on them.                     *)
(***************************************************************************)
EXTENDS Pipes, FiniteSetTheorems, FunctionTheorems, SequenceTheorems, TLAPS

-----------------------------------------------------------------------------
(* Users and queues.                                                       *)

LEMMA UserFacts ==
  ASSUME OneEntry
  PROVE  /\ \A u \in Users : SessionOf(u) \in Sessions /\ u = TheUser(SessionOf(u))
         /\ \A s \in Sessions : TheUser(s) \in Users /\ SessionOf(TheUser(s)) = s
BY DEF OneEntry, Users, SessionOf, TheUser

\* What is queued of a set is no more than the set, if nothing is queued twice.
LEMMA DistinctFits ==
  ASSUME NEW S, IsFiniteSet(S), NEW q \in Seq(S), Distinct(q)
  PROVE  /\ ElementsOf(q) \subseteq S
         /\ Len(q) = Cardinality(ElementsOf(q))
         /\ Len(q) <= Cardinality(S)
<1>1. ElementsOf(q) \subseteq S /\ DOMAIN q = 1..Len(q) /\ Len(q) \in Nat
  BY DEF ElementsOf
<1>2. q \in Bijection(1..Len(q), ElementsOf(q))
  BY <1>1 DEF Distinct, ElementsOf, Bijection, Injection, Surjection, IsInjective
<1>3. IsFiniteSet(1..Len(q)) /\ Cardinality(1..Len(q)) = Len(q)
  BY <1>1, FS_Interval
<1>4. Cardinality(ElementsOf(q)) = Len(q)
  BY <1>2, <1>3, FS_Bijection DEF ExistsBijection
<1>5. Cardinality(ElementsOf(q)) <= Cardinality(S)
  BY <1>1, FS_Subset
<1>6. QED
  BY <1>1, <1>4, <1>5

Queues(S) == [Pipes -> Seq(S)]

\* what a queue holds once x is put at the end of that of p, and once the first is taken
Queued(new, q, p, x) ==
  /\ \A r \in Pipes : ElementsOf(new[r])
       = IF r = p THEN ElementsOf(q[p]) \cup {x} ELSE ElementsOf(q[r])
  /\ \A r \in Pipes : Distinct(new[r])
Dequeued(new, q, p) ==
  /\ \A r \in Pipes : ElementsOf(new[r])
       = IF r = p THEN ElementsOf(q[p]) \ {Head(q[p])} ELSE ElementsOf(q[r])
  /\ \A r \in Pipes : Distinct(new[r])

\* A request that does not wait yet finds room.
LEMMA PutFacts ==
  ASSUME NEW S, IsFiniteSet(S), Cardinality(S) <= JOBQ_MAX_SIZE,
         NEW q \in Queues(S), NEW p \in Pipes, NEW x \in S,
         \A r \in Pipes : Distinct(q[r]), x \notin ElementsOf(q[p])
  PROVE  Put(q, p, x) \in Queues(S) /\ Queued(Put(q, p, x), q, p, x)
<1> USE DEF Queues
<1> DEFINE rest == S \ {x}
<1>1. IsFiniteSet(rest) /\ Cardinality(rest) = Cardinality(S) - 1 /\ Cardinality(S) \in Nat
  BY FS_RemoveElement, FS_CardinalityType
<1>2. q[p] \in Seq(S) /\ DOMAIN q[p] = 1..Len(q[p]) /\ Len(q[p]) \in Nat
  OBVIOUS
<1>3. ElementsOf(q[p]) \subseteq rest /\ Len(q[p]) = Cardinality(ElementsOf(q[p]))
  BY <1>2, DistinctFits
<1>4. Cardinality(ElementsOf(q[p])) <= Cardinality(rest)
  BY <1>1, <1>3, FS_Subset
<1>5. Len(q[p]) < JOBQ_MAX_SIZE
  BY <1>1, <1>3, <1>4, RoomAssumption
<1>6. Put(q, p, x) = [q EXCEPT ![p] = Append(q[p], x)]
  BY <1>5 DEF Put
<1>7. /\ Append(q[p], x) \in Seq(S) /\ DOMAIN Append(q[p], x) = 1..(Len(q[p]) + 1)
      /\ \A i \in 1..Len(q[p]) : Append(q[p], x)[i] = q[p][i]
      /\ Append(q[p], x)[Len(q[p]) + 1] = x
  BY <1>2
<1>8. ElementsOf(Append(q[p], x)) = ElementsOf(q[p]) \cup {x}
  BY <1>2, <1>7 DEF ElementsOf
<1>9. Distinct(Append(q[p], x))
  BY <1>2, <1>7 DEF Distinct, ElementsOf
<1>10. QED
  BY <1>6, <1>7, <1>8, <1>9 DEF Queued

LEMMA RestFacts ==
  ASSUME NEW S, NEW q \in Queues(S), NEW p \in Pipes, q[p] # <<>>,
         \A r \in Pipes : Distinct(q[r])
  PROVE  /\ Rest(q, p) \in Queues(S) /\ Dequeued(Rest(q, p), q, p)
         /\ Head(q[p]) \in S /\ Head(q[p]) \in ElementsOf(q[p])
<1> USE DEF Queues
<1>1. /\ q[p] \in Seq(S) /\ Len(q[p]) \in Nat \ {0} /\ DOMAIN q[p] = 1..Len(q[p])
      /\ Head(q[p]) = q[p][1]
  BY EmptySeq
<1>2. /\ Tail(q[p]) \in Seq(S) /\ DOMAIN Tail(q[p]) = 1..(Len(q[p]) - 1)
      /\ \A i \in 1..(Len(q[p]) - 1) : Tail(q[p])[i] = q[p][i + 1]
  BY <1>1, HeadTailProperties
<1>3. ElementsOf(Tail(q[p])) = ElementsOf(q[p]) \ {Head(q[p])}
  <2>1. ASSUME NEW y \in ElementsOf(Tail(q[p]))
        PROVE  y \in ElementsOf(q[p]) /\ y # Head(q[p])
    <3>1. PICK i \in 1..(Len(q[p]) - 1) : y = q[p][i + 1]
      BY <1>2 DEF ElementsOf
    <3>2. i + 1 \in DOMAIN q[p] /\ 1 \in DOMAIN q[p] /\ i + 1 # 1
      BY <1>1
    <3>3. QED
      BY <1>1, <3>1, <3>2 DEF Distinct, ElementsOf
  <2>2. ASSUME NEW y \in ElementsOf(q[p]), y # Head(q[p])
        PROVE  y \in ElementsOf(Tail(q[p]))
    <3>1. PICK i \in 1..Len(q[p]) : y = q[p][i]
      BY <1>1 DEF ElementsOf
    <3>2. i # 1 /\ i - 1 \in 1..(Len(q[p]) - 1) /\ (i - 1) + 1 = i
      BY <1>1, <2>2, <3>1
    <3>3. Tail(q[p])[i - 1] = y
      BY <1>2, <3>1, <3>2
    <3>4. QED
      BY <1>2, <3>2, <3>3 DEF ElementsOf
  <2>3. QED
    BY <2>1, <2>2
<1>4. Distinct(Tail(q[p]))
  BY <1>1, <1>2 DEF Distinct
<1>5. Head(q[p]) \in S /\ Head(q[p]) \in ElementsOf(q[p])
  BY <1>1 DEF ElementsOf
<1>6. Rest(q, p) = [q EXCEPT ![p] = Tail(q[p])]
  BY DEF Rest
<1>7. QED
  BY <1>2, <1>3, <1>4, <1>5, <1>6 DEF Dequeued

-----------------------------------------------------------------------------
(* What holds a reference of a session.                                    *)

CallersOf(s) == {t \in Callers : who[t] = s}
PipesOf(s) == {p \in Pipes : pc[p] \in MovePcs \cup {"enter", "endmove", "drop"} /\ who[p] = s}
JoinsOf(s) == {p \in Pipes : s \in ElementsOf(joinQ[p])}
UsersOf(s) ==
  {u \in Users : SessionOf(u) = s
     /\ \E p \in Pipes : u \in ElementsOf(moveInQ[p]) \cup ElementsOf(moveOutQ[p])}

LEMMA UsersFinite ==
  ASSUME OneEntry
  PROVE  IsFiniteSet(Users) /\ Cardinality(Users) <= JOBQ_MAX_SIZE
<1>1. IsFiniteSet(1..1) /\ Cardinality(1..1) = 1
  <2>1. 1..1 = {1}
    OBVIOUS
  <2>2. QED
    BY <2>1, FS_Singleton
<1>2. Cardinality(Sessions) \in Nat
  BY FS_CardinalityType, RoomAssumption
<1>3. QED
  BY <1>1, <1>2, FS_Product, RoomAssumption DEF Users, OneEntry

\* the same for a queue of sessions and for one of users
LEMMA PutSession ==
  ASSUME NEW q \in Queues(Sessions), NEW p \in Pipes, NEW x \in Sessions,
         \A r \in Pipes : Distinct(q[r]), x \notin ElementsOf(q[p])
  PROVE  Put(q, p, x) \in Queues(Sessions) /\ Queued(Put(q, p, x), q, p, x)
<1>1. IsFiniteSet(Sessions) /\ Cardinality(Sessions) <= JOBQ_MAX_SIZE
  BY RoomAssumption
<1>2. QED
  BY <1>1, PutFacts

LEMMA PutUser ==
  ASSUME OneEntry, NEW q \in Queues(Users), NEW p \in Pipes, NEW x \in Users,
         \A r \in Pipes : Distinct(q[r]), x \notin ElementsOf(q[p])
  PROVE  Put(q, p, x) \in Queues(Users) /\ Queued(Put(q, p, x), q, p, x)
<1>1. IsFiniteSet(Users) /\ Cardinality(Users) <= JOBQ_MAX_SIZE
  BY UsersFinite
<1>2. QED
  BY <1>1, PutFacts

\* how such a set grows and shrinks
LEMMA Counting ==
  ASSUME OneEntry, NEW A, A \subseteq Callers \/ A \subseteq Pipes \/ A \subseteq Users
  PROVE  /\ Cardinality(A) \in Nat
         /\ \A x : x \notin A => Cardinality(A \cup {x}) = Cardinality(A) + 1
         /\ \A x \in A : Cardinality(A \ {x}) = Cardinality(A) - 1 /\ Cardinality(A) >= 1
         /\ (\A x : x \notin A) => Cardinality(A) = 0
<1>1. IsFiniteSet(A)
  BY UsersFinite, ThreadsAssumption, FS_Subset
<1>2. Cardinality(A) \in Nat /\ (Cardinality(A) = 0 <=> A = {})
  BY <1>1, FS_CardinalityType, FS_EmptySet
<1>3. \A x : x \notin A => Cardinality(A \cup {x}) = Cardinality(A) + 1
  BY <1>1, FS_AddElement
<1>4. \A x \in A : Cardinality(A \ {x}) = Cardinality(A) - 1
  BY <1>1, FS_RemoveElement
<1>5. QED
  BY <1>2, <1>3, <1>4

LEMMA MovesIs ==
  ASSUME NEW s
  PROVE  Moves(s) = Cardinality(CallersOf(s)) + Cardinality(PipesOf(s))
                      + Cardinality(JoinsOf(s)) + Cardinality(UsersOf(s))
BY DEF Moves, CallersOf, PipesOf, JoinsOf, UsersOf

\* Most steps leave every reference where it is.
LEMMA RefsSame ==
  ASSUME RefsExact, refs' = refs, receiving' = receiving,
         \A s \in Sessions : /\ CallersOf(s)' = CallersOf(s) /\ PipesOf(s)' = PipesOf(s)
                             /\ JoinsOf(s)' = JoinsOf(s) /\ UsersOf(s)' = UsersOf(s)
  PROVE  RefsExact'
BY MovesIs DEF RefsExact, Moves, CallersOf, PipesOf, JoinsOf, UsersOf

-----------------------------------------------------------------------------
(* Who works on a session works on it alone.                               *)

OnIt(t, s) == who[t] = s \/ user[t] = TheUser(s)

LEMMA Alone ==
  ASSUME OneEntry, IInv
  PROVE  /\ \A p \in Pipes, s \in Sessions : OnIt(p, s) => TheUser(s) \in userMap[p]
         /\ \A p, r \in Pipes, u \in Users : u \in userMap[p] /\ u \in userMap[r] => p = r
         /\ \A p, r \in Pipes, s \in Sessions : OnIt(p, s) /\ OnIt(r, s) => p = r
         /\ \A c \in Callers, p \in Pipes, s \in Sessions : OnIt(c, s) => ~OnIt(p, s)
         /\ \A c, d \in Callers, s \in Sessions : OnIt(c, s) /\ OnIt(d, s) => c = d
<1> USE UserFacts, PipesAssumption
<1>1. ASSUME NEW p \in Pipes, NEW s \in Sessions, OnIt(p, s)
      PROVE  TheUser(s) \in userMap[p]
  <2>f. PipeSupport(p) /\ who[p] \in Sessions \cup {None} /\ user[p] \in Users \cup {None}
    BY DEF IInv, Fields, Threads
  <2> USE <1>1, <2>f DEF PipeSupport, OnIt
  <2>1. CASE pc[p] \in {"join", "in", "out", "leave", "message"}
    BY <2>1
  <2>2. CASE pc[p] \in MovePcs
    BY <2>2
  <2>3. CASE pc[p] \in {"enter", "endmove", "drop"}
    BY <2>3
  <2>4. CASE pc[p] = "enduser"
    BY <2>4
  <2>5. QED
    BY <2>1, <2>2, <2>3, <2>4 DEF PipePcs
<1>2. ASSUME NEW p \in Pipes, NEW r \in Pipes, NEW u \in Users, u \in userMap[p], u \in userMap[r]
      PROVE  p = r
  BY <1>2 DEF IInv, QueueSupport
<1>3. ASSUME NEW c \in Callers, NEW s \in Sessions, OnIt(c, s)
      PROVE  who[c] = s /\ pc[c] # "idle" /\ made[s] = 0
  BY <1>3 DEF IInv, CallerSupport, OnIt
<1>4. ASSUME NEW c \in Callers, NEW p \in Pipes, NEW s \in Sessions, OnIt(c, s), OnIt(p, s)
      PROVE  FALSE
  <2>1. TheUser(s) \in userMap[p] /\ SessionOf(TheUser(s)) = s
    BY <1>1, <1>4
  <2>2. made[s] = 1
    BY <2>1 DEF IInv, QueueSupport
  <2>3. QED
    BY <1>3, <1>4, <2>2
<1>5. ASSUME NEW c \in Callers, NEW d \in Callers, NEW s \in Sessions, OnIt(c, s), OnIt(d, s)
      PROVE  c = d
  BY <1>3, <1>5 DEF IInv, CallerSupport
<1>6. QED
  BY <1>1, <1>2, <1>4, <1>5

\* What a thread knows stays true while its session and user stay as they are.
SameThread(t) ==
  pc'[t] = pc[t] /\ who'[t] = who[t] /\ code'[t] = code[t] /\ user'[t] = user[t] /\ to'[t] = to[t]
SameSession(s) ==
  /\ asked'[s] = asked[s] /\ made'[s] = made[s]
  /\ cur'[s] = cur[s] /\ dest'[s] = dest[s] /\ moving'[s] = moving[s]
  /\ uMoving'[TheUser(s)] = uMoving[TheUser(s)]

LEMMA CallerBystander ==
  ASSUME NEW r \in Callers, CallerSupport(r), SameThread(r),
         pc[r] # "idle" =>
           /\ SameSession(who[r]) /\ status'[who[r]] = status[who[r]]
           /\ \A c \in Callers : who'[c] = who[r] => who[c] = who[r]
           /\ \A p \in Pipes : who[r] \in ElementsOf(joinQ'[p]) => who[r] \in ElementsOf(joinQ[p])
  PROVE  CallerSupport(r)'
BY DEF CallerSupport, SameThread, SameSession

Undisturbed(r, s) ==
  /\ SameSession(s) /\ (who[r] = s => status'[s] = status[s])
  /\ TheUser(s) \in userMap[r] => TheUser(s) \in userMap'[r]
  /\ TheUser(s) \in ElementsOf(moveOutQ'[r]) => TheUser(s) \in ElementsOf(moveOutQ[r])

LEMMA PipeBystander ==
  ASSUME OneEntry, Fields, NEW r \in Pipes, PipeSupport(r), SameThread(r),
         \A s \in Sessions : OnIt(r, s) =>
           /\ SameSession(s) /\ (who[r] = s => status'[s] = status[s])
           /\ TheUser(s) \in userMap[r] => TheUser(s) \in userMap'[r]
           /\ TheUser(s) \in ElementsOf(moveOutQ'[r]) => TheUser(s) \in ElementsOf(moveOutQ[r])
  PROVE  PipeSupport(r)'
<1>0. \A s \in Sessions : OnIt(r, s) => Undisturbed(r, s)
  BY DEF Undisturbed
<1>u. pc[r] \in MovePcs => who[r] \in Sessions /\ Undisturbed(r, who[r])
  BY <1>0 DEF PipeSupport, OnIt
<1> USE UserFacts, PipesAssumption DEF PipeSupport, SameThread, SameSession, Fields, OnIt
<1>1. CASE pc[r] \in {"join", "in", "out", "leave", "message"}
  BY <1>1 DEF MovePcs
<1>2. CASE pc[r] \in MovePcs
  <2>1. /\ who[r] \in Sessions /\ user[r] = TheUser(who[r]) /\ SessionOf(user[r]) = who[r]
        /\ user[r] \in userMap[r]
    BY <1>2
  <2>2. /\ SameSession(who[r]) /\ status'[who[r]] = status[who[r]] /\ user[r] \in userMap'[r]
        /\ user[r] \in ElementsOf(moveOutQ'[r]) => user[r] \in ElementsOf(moveOutQ[r])
    BY <1>u, <1>2, <2>1 DEF Undisturbed
  <2>3. pc'[r] = pc[r] /\ pc[r] \notin {"join", "in", "out", "leave", "message", "enter", "endmove", "drop", "enduser"}
    BY <1>2 DEF MovePcs
  <2>4. QED
    BY <1>2, <2>1, <2>2, <2>3
<1>3. CASE pc[r] \in {"enter", "endmove", "drop"}
  <2>1. who[r] \in Sessions /\ OnIt(r, who[r]) /\ TheUser(who[r]) \in userMap[r]
    BY <1>3
  <2>2. SameSession(who[r]) /\ status'[who[r]] = status[who[r]] /\ TheUser(who[r]) \in userMap'[r]
    BY <2>1
  <2>3. QED
    BY <1>3, <2>1, <2>2 DEF MovePcs
<1>4. CASE pc[r] = "enduser"
  <2>1. user[r] \in Users /\ SessionOf(user[r]) \in Sessions /\ user[r] = TheUser(SessionOf(user[r]))
    BY <1>4
  <2>2. QED
    BY <1>4, <2>1 DEF MovePcs
<1>5. QED
  BY <1>1, <1>2, <1>3, <1>4 DEF PipePcs

-----------------------------------------------------------------------------
(* The steps of a move, up to its request.                                 *)

LEMMA TestKeepsInv ==
  ASSUME OneEntry, IInv, NEW t \in Threads, isMovingPipe(t)
  PROVE  IInv'
<1> USE ThreadsAssumption, PipesAssumption DEF At, Goto, isMovingPipe, sessionVars, moveVars, userVars, pipeVars
<1>f. Fields /\ pc \in [Threads -> Pcs] /\ t \in Callers \cup Pipes
  BY DEF IInv, Fields, Threads
<1>1. Fields'
  BY <1>f DEF Fields, Pcs, MovePcs
<1>2. RefsExact'
  BY <1>f, RefsSame DEF IInv, MovePcs, CallersOf, PipesOf, JoinsOf, UsersOf, Threads
<1>stay. \A r \in Threads \ {t} : SameThread(r)
  BY <1>f DEF SameThread
<1>3. ASSUME NEW r \in Callers PROVE  CallerSupport(r)'
  <2>1. CASE r # t
    BY <1>stay, <2>1, CallerBystander DEF IInv, SameSession, Threads
  <2>2. CASE r = t
    <3>1. CallerSupport(t) /\ pc[t] = "moving?"
      BY <2>2 DEF IInv
    <3>2. ~AlreadyMoving(t) /\ ~SamePipeCode(t)
      BY <3>1 DEF CallerSupport, AlreadyMoving, SamePipeCode, SessionSupport, IInv
    <3>3. pc' = [pc EXCEPT ![t] = "start"]
      BY <3>2
    <3>4. QED
      BY <1>f, <2>2, <3>1, <3>3 DEF CallerSupport, MovePcs
  <2>3. QED
    BY <2>1, <2>2
<1>4. ASSUME NEW r \in Pipes PROVE  PipeSupport(r)'
  <2>1. CASE r # t
    BY <1>stay, <2>1, PipeBystander DEF IInv, SameSession, Threads
  <2>2. CASE r = t
    <3>1. who[t] \in Sessions /\ user[t] = TheUser(who[t]) /\ user[t] \in Users /\ SessionOf(user[t]) = who[t]
          /\ user[t] # None /\ user[t] \in userMap[t] /\ status[who[t]] = "on" /\ cur[who[t]] = t
          /\ uPipe[user[t]] = t /\ made[who[t]] = 1
      BY <2>2, UserFacts DEF IInv, PipeSupport, MovePcs, QueueSupport
    <3>2. CASE AlreadyMoving(t) \/ SamePipeCode(t)
      BY <1>f, <2>2, <3>1, <3>2 DEF PipeSupport, MovePcs, PipePcs
    <3>3. CASE ~AlreadyMoving(t) /\ ~SamePipeCode(t)
      <4>1. ~uMoving[user[t]] /\ code[t] # CodeOf[t]
        BY <3>1, <3>3 DEF AlreadyMoving, SamePipeCode
      <4>2. \A p \in Pipes : user[t] \notin ElementsOf(moveOutQ[p]) \cup ElementsOf(moveInQ[p])
        BY <4>1 DEF IInv, QueueSupport
      <4>3. ~MoveInHand(who[t])
        <5>1. \A p \in Pipes : who[t] \notin ElementsOf(joinQ[p])
          BY <3>1 DEF IInv, QueueSupport
        <5>2. ASSUME NEW x \in Threads, pc[x] \in {"findpipe", "request", "enter", "endmove"}, who[x] = who[t]
              PROVE  FALSE
          <6>1. x = t
            BY <3>1, <5>2, <2>2, Alone DEF OnIt, Threads
          <6>2. QED
            BY <5>2, <6>1
        <5>3. QED
          BY <3>1, <4>2, <5>1, <5>2 DEF MoveInHand
      <4>4. ~moving[who[t]] /\ dest[who[t]] = None
        BY <3>1, <4>3 DEF IInv, SessionSupport
      <4>5. QED
        BY <1>f, <2>2, <3>1, <3>3, <4>1, <4>2, <4>4 DEF PipeSupport, MovePcs, PipePcs
    <3>4. QED
      BY <3>2, <3>3
  <2>3. QED
    BY <2>1, <2>2
<1>5. ASSUME NEW r \in Pipes PROVE  QueueSupport(r)'
  BY <1>f DEF IInv, QueueSupport, Threads
<1>6. ASSUME NEW s \in Sessions PROVE  SessionSupport(s)'
  BY <1>f DEF IInv, SessionSupport, MoveInHand, Threads
<1>7. QED
  BY <1>1, <1>2, <1>3, <1>4, <1>5, <1>6 DEF IInv

\* What a thread in the middle of a move knows.
LEMMA MoverFacts ==
  ASSUME OneEntry, IInv, NEW t \in Threads, pc[t] \in MovePcs
  PROVE  /\ who[t] \in Sessions /\ status[who[t]] = "on" /\ OnIt(t, who[t])
         /\ t \in Callers => user[t] = None /\ made[who[t]] = 0 /\ cur[who[t]] = None
         /\ t \in Pipes => /\ user[t] = TheUser(who[t]) /\ user[t] \in Users
                           /\ SessionOf(user[t]) = who[t] /\ user[t] # None
                           /\ user[t] \in userMap[t] /\ uPipe[user[t]] = t
                           /\ cur[who[t]] = t /\ made[who[t]] = 1
<1>1. CASE t \in Callers
  <2>1. CallerSupport(t) /\ (who[t] \in Sessions => SessionSupport(who[t]))
    BY <1>1 DEF IInv
  <2>2. QED
    BY <1>1, <2>1, ThreadsAssumption DEF CallerSupport, SessionSupport, MovePcs, OnIt
<1>2. CASE t \in Pipes
  <2>1. PipeSupport(t)
    BY <1>2 DEF IInv
  <2>2. who[t] \in Sessions /\ status[who[t]] = "on" /\ user[t] = TheUser(who[t])
        /\ user[t] \in userMap[t] /\ cur[who[t]] = t
    BY <2>1 DEF PipeSupport
  <2>3. user[t] \in Users /\ SessionOf(user[t]) = who[t] /\ user[t] # None
    BY <2>2, UserFacts, PipesAssumption
  <2>4. uPipe[user[t]] = t /\ made[who[t]] = 1
    BY <1>2, <2>2, <2>3 DEF IInv, QueueSupport
  <2>5. QED
    BY <1>2, <2>2, <2>3, <2>4, ThreadsAssumption DEF OnIt
<1>3. QED
  BY <1>1, <1>2 DEF Threads

LEMMA OthersElsewhere ==
  ASSUME OneEntry, IInv, NEW t \in Threads, NEW r \in Threads, r # t,
         NEW s \in Sessions, OnIt(t, s)
  PROVE  ~OnIt(r, s)
BY Alone DEF Threads

LEMMA StartKeepsInv ==
  ASSUME OneEntry, IInv, NEW t \in Threads, PipeMoveStart(t)
  PROVE  IInv'
<1> USE ThreadsAssumption, PipesAssumption DEF At, Goto, PipeMoveStart, sessionVars, pipeVars
<1>f. Fields /\ pc \in [Threads -> Pcs] /\ t \in Callers \cup Pipes /\ pc[t] = "start"
  BY DEF IInv, Fields, Threads
<1>m. /\ who[t] \in Sessions /\ status[who[t]] = "on" /\ OnIt(t, who[t])
      /\ t \in Callers => user[t] = None /\ made[who[t]] = 0 /\ cur[who[t]] = None
      /\ t \in Pipes => /\ user[t] = TheUser(who[t]) /\ user[t] \in Users
                        /\ SessionOf(user[t]) = who[t] /\ user[t] # None
                        /\ user[t] \in userMap[t] /\ cur[who[t]] = t /\ made[who[t]] = 1
  BY <1>f, MoverFacts DEF MovePcs
<1>1. Fields'
  BY <1>f, <1>m DEF Fields, Pcs, MovePcs
<1>2. RefsExact'
  BY <1>f, RefsSame DEF IInv, MovePcs, CallersOf, PipesOf, JoinsOf, UsersOf, Threads
<1>stay. \A r \in Threads \ {t} : SameThread(r)
  BY <1>f DEF SameThread
<1>same. \A s \in Sessions \ {who[t]} : SameSession(s)
  BY <1>f, <1>m, UserFacts DEF SameSession, Fields
<1>3. ASSUME NEW r \in Callers PROVE  CallerSupport(r)'
  <2>1. CASE r # t
    <3>1. CallerSupport(r) /\ SameThread(r) /\ (pc[r] # "idle" => who[r] \in Sessions /\ who[r] # who[t])
      BY <1>stay, <2>1, <1>m, OthersElsewhere DEF IInv, Threads, CallerSupport, OnIt
    <3>2. QED
      BY <3>1, <1>same, CallerBystander
  <2>2. CASE r = t
    <3>1. CallerSupport(t) /\ pc'[t] = "findpipe" /\ moving'[who[t]] = TRUE
      BY <1>f, <1>m, <2>2 DEF IInv, Fields
    <3>2. QED
      BY <1>f, <1>m, <2>2, <3>1 DEF CallerSupport, MovePcs
  <2>3. QED
    BY <2>1, <2>2
<1>4. ASSUME NEW r \in Pipes PROVE  PipeSupport(r)'
  <2>1. CASE r # t
    <3>1. PipeSupport(r) /\ SameThread(r) /\ (\A s \in Sessions : OnIt(r, s) => s # who[t])
      BY <1>stay, <2>1, <1>m, OthersElsewhere DEF IInv, Threads
    <3>2. QED
      BY <3>1, <1>f, <1>same, PipeBystander
  <2>2. CASE r = t
    BY <1>f, <1>m, <2>2 DEF IInv, PipeSupport, MovePcs, PipePcs, Fields
  <2>3. QED
    BY <2>1, <2>2
<1>5. ASSUME NEW r \in Pipes PROVE  QueueSupport(r)'
  BY <1>f, <1>m DEF IInv, QueueSupport, Threads, Fields
<1>6. ASSUME NEW s \in Sessions PROVE  SessionSupport(s)'
  <2>1. CASE s # who[t]
    <3>1. SessionSupport(s) /\ SameSession(s)
      BY <1>same, <2>1 DEF IInv
    <3>2. MoveInHand(s) => MoveInHand(s)'
      BY <1>f, <2>1 DEF MoveInHand
    <3>3. QED
      BY <3>1, <3>2 DEF SessionSupport, SameSession
  <2>2. CASE s = who[t]
    <3>1. MoveInHand(s)'
      BY <1>f, <2>2 DEF MoveInHand
    <3>2. made[s] = 0 => uMoving' = uMoving
      BY <1>f, <1>m, <2>2
    <3>3. QED
      BY <1>f, <1>m, <2>2, <3>1, <3>2 DEF IInv, SessionSupport
  <2>3. QED
    BY <2>1, <2>2
<1>7. QED
  BY <1>1, <1>2, <1>3, <1>4, <1>5, <1>6 DEF IInv

LEMMA FindPipeKeepsInv ==
  ASSUME OneEntry, IInv, NEW t \in Threads, FindPipe(t)
  PROVE  IInv'
<1> USE ThreadsAssumption, PipesAssumption DEF At, Goto, sessionVars, pipeVars, userVars
<1>f. Fields /\ pc \in [Threads -> Pcs] /\ t \in Callers \cup Pipes /\ pc[t] = "findpipe"
  BY DEF IInv, Fields, Threads, FindPipe
<1>m. /\ who[t] \in Sessions /\ status[who[t]] = "on" /\ OnIt(t, who[t])
      /\ t \in Callers => user[t] = None /\ made[who[t]] = 0 /\ cur[who[t]] = None
      /\ t \in Pipes => /\ user[t] = TheUser(who[t]) /\ user[t] \in Users
                        /\ SessionOf(user[t]) = who[t] /\ user[t] # None
                        /\ user[t] \in userMap[t] /\ cur[who[t]] = t /\ made[who[t]] = 1
  BY <1>f, MoverFacts DEF MovePcs
<1> PICK p \in Pipes : /\ CodeOf[p] = code[t]
                       /\ to' = [to EXCEPT ![t] = p]
                       /\ dest' = [dest EXCEPT ![who[t]] = p]
  BY DEF FindPipe
<1>u. /\ pc' = [pc EXCEPT ![t] = "request"]
      /\ UNCHANGED <<status, refs, receiving, cur, moving, made, uPipe, uMoving,
                     userMap, joinQ, leaveQ, moveInQ, moveOutQ, who, code, user, asked>>
  BY DEF FindPipe
<1>1. Fields'
  BY <1>f, <1>m, <1>u DEF Fields, Pcs, MovePcs
<1>2. RefsExact'
  BY <1>f, <1>u, RefsSame DEF IInv, MovePcs, CallersOf, PipesOf, JoinsOf, UsersOf, Threads
<1>stay. \A r \in Threads \ {t} : SameThread(r)
  BY <1>f, <1>u DEF SameThread, Fields
<1>same. \A s \in Sessions \ {who[t]} : SameSession(s)
  BY <1>f, <1>m, <1>u, UserFacts DEF SameSession, Fields
<1>3. ASSUME NEW r \in Callers PROVE  CallerSupport(r)'
  <2>1. CASE r # t
    <3>1. CallerSupport(r) /\ SameThread(r) /\ (pc[r] # "idle" => who[r] \in Sessions /\ who[r] # who[t])
      BY <1>stay, <2>1, <1>m, OthersElsewhere DEF IInv, Threads, CallerSupport, OnIt
    <3>2. QED
      BY <3>1, <1>same, <1>u, CallerBystander
  <2>2. CASE r = t
    BY <1>f, <1>m, <1>u, <2>2 DEF IInv, CallerSupport, MovePcs, Fields
  <2>3. QED
    BY <2>1, <2>2
<1>4. ASSUME NEW r \in Pipes PROVE  PipeSupport(r)'
  <2>1. CASE r # t
    <3>1. PipeSupport(r) /\ SameThread(r) /\ (\A s \in Sessions : OnIt(r, s) => s # who[t])
      BY <1>stay, <2>1, <1>m, OthersElsewhere DEF IInv, Threads
    <3>2. QED
      BY <3>1, <1>f, <1>same, <1>u, PipeBystander
  <2>2. CASE r = t
    BY <1>f, <1>m, <1>u, <2>2 DEF IInv, PipeSupport, MovePcs, PipePcs, Fields
  <2>3. QED
    BY <2>1, <2>2
<1>5. ASSUME NEW r \in Pipes PROVE  QueueSupport(r)'
  <2>1. QueueSupport(r)
    BY DEF IInv
  <2>2. /\ who[t] \notin ElementsOf(joinQ[r])
        /\ \A u \in ElementsOf(moveInQ[r]) \cup ElementsOf(moveOutQ[r]) : SessionOf(u) # who[t]
    <3>1. CASE t \in Callers
      BY <1>f, <1>m, <2>1, <3>1 DEF IInv, CallerSupport, QueueSupport
    <3>2. CASE t \in Pipes
      <4>1. user[t] \notin ElementsOf(moveOutQ[t])
        BY <1>f, <3>2 DEF IInv, PipeSupport
      <4>2. user[t] \notin ElementsOf(moveOutQ[r])
        BY <1>m, <2>1, <3>2, <4>1, Alone DEF QueueSupport
      <4>3. ElementsOf(moveInQ[r]) \cup ElementsOf(moveOutQ[r]) \subseteq Users
        BY <1>f DEF Fields, ElementsOf
      <4>4. user[t] \notin ElementsOf(moveInQ[r])
        BY <1>m, <2>1, <3>2 DEF QueueSupport
      <4>5. who[t] \notin ElementsOf(joinQ[r])
        BY <1>m, <2>1, <3>2 DEF QueueSupport
      <4>6. QED
        BY <1>m, <3>2, <4>2, <4>3, <4>4, <4>5, UserFacts
    <3>3. QED
      BY <1>f, <3>1, <3>2
  <2>3. \A s \in Sessions \ {who[t]} : dest'[s] = dest[s]
    BY <1>f DEF Fields
  <2>4. ElementsOf(joinQ[r]) \subseteq Sessions /\ ElementsOf(moveInQ[r]) \cup ElementsOf(moveOutQ[r]) \subseteq Users
    BY <1>f DEF Fields, ElementsOf
  <2>5. QED
    BY <1>f, <1>u, <2>1, <2>2, <2>3, <2>4, UserFacts DEF QueueSupport, Threads
<1>6. ASSUME NEW s \in Sessions PROVE  SessionSupport(s)'
  <2>1. CASE s # who[t]
    BY <1>f, <1>u, <1>same, <2>1 DEF IInv, SessionSupport, MoveInHand, Threads, SameSession
  <2>2. CASE s = who[t]
    <3>1. MoveInHand(s)'
      BY <1>f, <1>u, <2>2 DEF MoveInHand
    <3>2. QED
      BY <1>f, <1>u, <1>m, <2>2, <3>1 DEF IInv, SessionSupport
  <2>3. QED
    BY <2>1, <2>2
<1>7. QED
  BY <1>1, <1>2, <1>3, <1>4, <1>5, <1>6 DEF IInv

LEMMA EnterKeepsInv ==
  ASSUME OneEntry, IInv, NEW t \in Threads, RequestEnter(t)
  PROVE  IInv'
<1> USE ThreadsAssumption, PipesAssumption DEF At, Goto, sessionVars, moveVars, userVars
<1>f. Fields /\ t \in Callers \cup Pipes /\ pc[t] = "request" /\ user[t] = None
  BY DEF IInv, Fields, Threads, RequestEnter
<1>m. /\ who[t] \in Sessions /\ status[who[t]] = "on" /\ OnIt(t, who[t])
      /\ t \in Callers /\ t \notin Pipes /\ made[who[t]] = 0
  BY <1>f, MoverFacts DEF MovePcs
<1>c. CallerSupport(t) /\ to[t] \in Pipes /\ dest[who[t]] = to[t] /\ moving[who[t]] /\ asked[who[t]] = 1
      /\ (\A p \in Pipes : who[t] \notin ElementsOf(joinQ[p]))
  BY <1>f, <1>m DEF IInv, CallerSupport
<1>u. /\ pc' = [pc EXCEPT ![t] = "idle"] /\ who' = [who EXCEPT ![t] = None]
      /\ code' = [code EXCEPT ![t] = None] /\ user' = [user EXCEPT ![t] = None]
      /\ to' = [to EXCEPT ![t] = None]
      /\ joinQ' = Put(joinQ, to[t], who[t])
      /\ UNCHANGED <<status, refs, receiving, cur, dest, moving, made, uPipe, uMoving,
                     userMap, leaveQ, moveInQ, moveOutQ, asked>>
  BY <1>m DEF RequestEnter, Return
<1>q. /\ joinQ' \in [Pipes -> Seq(Sessions)]
      /\ \A r \in Pipes : ElementsOf(joinQ'[r])
           = IF r = to[t] THEN ElementsOf(joinQ[r]) \cup {who[t]} ELSE ElementsOf(joinQ[r])
      /\ \A r \in Pipes : Distinct(joinQ'[r])
  <2>1. joinQ \in Queues(Sessions) /\ \A r \in Pipes : Distinct(joinQ[r])
    BY <1>f DEF Fields, IInv, QueueSupport, Queues
  <2>2. Put(joinQ, to[t], who[t]) \in Queues(Sessions) /\ Queued(Put(joinQ, to[t], who[t]), joinQ, to[t], who[t])
    BY <2>1, <1>m, <1>c, PutSession
  <2>3. QED
    BY <2>2, <1>u DEF Queues, Queued
<1>1. Fields'
  BY <1>f, <1>m, <1>u, <1>q DEF Fields, Pcs
<1>stay. \A r \in Threads \ {t} : SameThread(r)
  BY <1>f, <1>u DEF SameThread, Fields
<1>same. \A s \in Sessions : SameSession(s)
  BY <1>u DEF SameSession
<1>2. RefsExact'
  <2> SUFFICES ASSUME NEW s \in Sessions
               PROVE  refs'[s] = Moves(s)' + (IF receiving'[s] THEN 1 ELSE 0)
    BY DEF RefsExact
  <2>1. PipesOf(s)' = PipesOf(s) /\ UsersOf(s)' = UsersOf(s)
    BY <1>f, <1>m, <1>u, <1>stay DEF PipesOf, UsersOf, SameThread, Threads
  <2>2. CASE s # who[t]
    <3>1. CallersOf(s)' = CallersOf(s)
      BY <2>2, <1>f, <1>m, <1>u, <1>stay DEF CallersOf, SameThread, Threads, Fields
    <3>2. JoinsOf(s)' = JoinsOf(s)
      BY <2>2, <1>q DEF JoinsOf
    <3>3. QED
      BY <2>1, <3>1, <3>2, <1>u DEF IInv, RefsExact, Moves, CallersOf, PipesOf, JoinsOf, UsersOf
  <2>3. CASE s = who[t]
    <3>1. CallersOf(s)' = CallersOf(s) \ {t} /\ t \in CallersOf(s)
      BY <2>3, <1>f, <1>m, <1>u, <1>stay DEF CallersOf, SameThread, Threads, Fields
    <3>2. JoinsOf(s)' = JoinsOf(s) \cup {to[t]} /\ to[t] \notin JoinsOf(s)
      BY <2>3, <1>c, <1>q DEF JoinsOf
    <3>3. Cardinality(CallersOf(s)') = Cardinality(CallersOf(s)) - 1 /\ Cardinality(CallersOf(s)) \in Nat
      BY <3>1, Counting DEF CallersOf
    <3>4. Cardinality(JoinsOf(s)') = Cardinality(JoinsOf(s)) + 1 /\ Cardinality(JoinsOf(s)) \in Nat
      BY <3>2, Counting, ZenonT(40) DEF JoinsOf
    <3>5. Cardinality(PipesOf(s)) \in Nat /\ Cardinality(UsersOf(s)) \in Nat
      BY Counting DEF PipesOf, UsersOf
    <3>6. Moves(s) = Cardinality(CallersOf(s)) + Cardinality(PipesOf(s))
                       + Cardinality(JoinsOf(s)) + Cardinality(UsersOf(s))
      BY MovesIs
    <3>7. Moves(s)' = Cardinality(CallersOf(s)') + Cardinality(PipesOf(s)')
                        + Cardinality(JoinsOf(s)') + Cardinality(UsersOf(s)')
      BY DEF Moves, CallersOf, PipesOf, JoinsOf, UsersOf
    <3>8. Moves(s)' = Moves(s)
      BY <2>1, <3>3, <3>4, <3>5, <3>6, <3>7
    <3>9. QED
      BY <3>8, <1>u DEF IInv, RefsExact
  <2>4. QED
    BY <2>2, <2>3
<1>3. ASSUME NEW r \in Callers PROVE  CallerSupport(r)'
  <2>1. CASE r # t
    <3>1. CallerSupport(r) /\ SameThread(r) /\ (pc[r] # "idle" => who[r] \in Sessions /\ who[r] # who[t])
      BY <1>stay, <2>1, <1>m, OthersElsewhere DEF IInv, Threads, CallerSupport, OnIt
    <3>2. pc[r] # "idle" => \A c \in Callers : who'[c] = who[r] => who[c] = who[r]
      BY <3>1, <1>f, <1>u DEF Fields, Threads
    <3>3. QED
      BY <3>1, <3>2, <1>same, <1>u, <1>q, CallerBystander
  <2>2. CASE r = t
    BY <1>f, <1>m, <1>u, <2>2 DEF CallerSupport, Fields
  <2>3. QED
    BY <2>1, <2>2
<1>4. ASSUME NEW r \in Pipes PROVE  PipeSupport(r)'
  BY <1>f, <1>m, <1>stay, <1>same, <1>u, PipeBystander DEF IInv, Threads
<1>5. ASSUME NEW r \in Pipes PROVE  QueueSupport(r)'
  <2>1. QueueSupport(r)
    BY DEF IInv
  <2>2. \A s \in ElementsOf(joinQ'[r]) :
          status[s] = "on" /\ asked[s] = 1 /\ made[s] = 0 /\ moving[s] /\ dest[s] = r
    <3> TAKE s \in ElementsOf(joinQ'[r])
    <3>1. s \in ElementsOf(joinQ[r]) \/ (s = who[t] /\ r = to[t])
      BY <1>q
    <3>2. CASE s \in ElementsOf(joinQ[r])
      BY <3>2, <2>1 DEF QueueSupport
    <3>3. CASE s = who[t] /\ r = to[t]
      BY <3>3, <1>m, <1>c
    <3>4. QED
      BY <3>1, <3>2, <3>3
  <2>3. QED
    BY <1>f, <1>m, <1>u, <1>q, <2>1, <2>2 DEF QueueSupport, Threads, Fields
<1>6. ASSUME NEW s \in Sessions PROVE  SessionSupport(s)'
  <2>1. MoveInHand(s) => MoveInHand(s)'
    <3>1. CASE s = who[t]
      BY <3>1, <1>c, <1>q DEF MoveInHand
    <3>2. CASE s # who[t]
      BY <3>2, <1>f, <1>stay, <1>u, <1>q, ZenonT(40), ZenonT(40) DEF MoveInHand, SameThread
    <3>3. QED
      BY <3>1, <3>2
  <2>2. QED
    BY <1>u, <2>1 DEF IInv, SessionSupport
<1>7. QED
  BY <1>1, <1>2, <1>3, <1>4, <1>5, <1>6 DEF IInv

LEMMA MoveOutAskedKeepsInv ==
  ASSUME OneEntry, IInv, NEW t \in Threads, RequestMoveOut(t)
  PROVE  IInv'
<1> USE ThreadsAssumption, PipesAssumption DEF At, Goto, sessionVars, moveVars, userVars
<1>f. Fields /\ t \in Callers \cup Pipes /\ pc[t] = "request" /\ user[t] # None
  BY DEF IInv, Fields, Threads, RequestMoveOut
<1>m. /\ who[t] \in Sessions /\ status[who[t]] = "on" /\ OnIt(t, who[t])
      /\ t \notin Callers /\ t \in Pipes
      /\ user[t] = TheUser(who[t]) /\ user[t] \in Users /\ SessionOf(user[t]) = who[t]
      /\ user[t] \in userMap[t] /\ uPipe[user[t]] = t /\ cur[who[t]] = t /\ made[who[t]] = 1
  BY <1>f, MoverFacts DEF MovePcs
<1>c. /\ code[t] # CodeOf[t] /\ user[t] \notin ElementsOf(moveOutQ[t])
      /\ moving[who[t]] /\ uMoving[user[t]]
      /\ to[t] \in Pipes /\ dest[who[t]] = to[t] /\ CodeOf[to[t]] = code[t]
  BY <1>f, <1>m DEF IInv, PipeSupport
<1>u. /\ pc' = [pc EXCEPT ![t] = "message"] /\ who' = [who EXCEPT ![t] = None]
      /\ code' = [code EXCEPT ![t] = None] /\ user' = [user EXCEPT ![t] = None]
      /\ to' = [to EXCEPT ![t] = None]
      /\ moveOutQ' = Put(moveOutQ, t, user[t])
      /\ UNCHANGED <<status, refs, receiving, cur, dest, moving, made, uPipe, uMoving,
                     userMap, leaveQ, moveInQ, joinQ, asked>>
  BY <1>m DEF RequestMoveOut, Return
<1>q. /\ moveOutQ' \in [Pipes -> Seq(Users)]
      /\ \A r \in Pipes : ElementsOf(moveOutQ'[r])
           = IF r = t THEN ElementsOf(moveOutQ[r]) \cup {user[t]} ELSE ElementsOf(moveOutQ[r])
      /\ \A r \in Pipes : Distinct(moveOutQ'[r])
  <2>1. moveOutQ \in Queues(Users) /\ \A r \in Pipes : Distinct(moveOutQ[r])
    BY <1>f DEF Fields, IInv, QueueSupport, Queues
  <2>2. Put(moveOutQ, t, user[t]) \in Queues(Users) /\ Queued(Put(moveOutQ, t, user[t]), moveOutQ, t, user[t])
    BY <2>1, <1>m, <1>c, PutUser
  <2>3. QED
    BY <2>2, <1>u DEF Queues, Queued
<1>n. \A r \in Pipes : user[t] \notin ElementsOf(moveOutQ[r]) \cup ElementsOf(moveInQ[r])
  BY <1>m, <1>c, Alone DEF IInv, QueueSupport
<1>1. Fields'
  BY <1>f, <1>m, <1>u, <1>q DEF Fields, Pcs, PipePcs
<1>stay. \A r \in Threads \ {t} : SameThread(r)
  BY <1>f, <1>u DEF SameThread, Fields
<1>same. \A s \in Sessions : SameSession(s)
  BY <1>u DEF SameSession
<1>2. RefsExact'
  <2> SUFFICES ASSUME NEW s \in Sessions
               PROVE  refs'[s] = Moves(s)' + (IF receiving'[s] THEN 1 ELSE 0)
    BY DEF RefsExact
  <2>1. CallersOf(s)' = CallersOf(s) /\ JoinsOf(s)' = JoinsOf(s)
    BY <1>f, <1>m, <1>u, <1>stay DEF CallersOf, JoinsOf, SameThread, Threads
  <2>2. CASE s # who[t]
    <3>1. PipesOf(s)' = PipesOf(s)
      BY <2>2, <1>f, <1>m, <1>u, <1>stay DEF PipesOf, SameThread, Threads, Fields
    <3>2. UsersOf(s)' = UsersOf(s)
      <4>1. ASSUME NEW u \in Users, SessionOf(u) = s, NEW r \in Pipes
            PROVE  u \in ElementsOf(moveOutQ'[r]) <=> u \in ElementsOf(moveOutQ[r])
        BY <4>1, <2>2, <1>m, <1>q
      <4>2. moveInQ' = moveInQ
        BY <1>u
      <4>3. QED
        BY <4>1, <4>2 DEF UsersOf
    <3>3. QED
      BY <2>1, <3>1, <3>2, <1>u DEF IInv, RefsExact, Moves, CallersOf, PipesOf, JoinsOf, UsersOf
  <2>3. CASE s = who[t]
    <3>1. PipesOf(s)' = PipesOf(s) \ {t} /\ t \in PipesOf(s)
      BY <2>3, <1>f, <1>m, <1>u, <1>stay DEF PipesOf, SameThread, Threads, Fields, MovePcs
    <3>2. UsersOf(s)' = UsersOf(s) \cup {user[t]} /\ user[t] \notin UsersOf(s)
      <4>1. user[t] \in Users /\ SessionOf(user[t]) = s /\ moveInQ' = moveInQ
        BY <2>3, <1>m, <1>u
      <4>2. user[t] \in UsersOf(s)' /\ user[t] \notin UsersOf(s)
        BY <4>1, <1>m, <1>n, <1>q DEF UsersOf
      <4>3. ASSUME NEW u \in Users, u # user[t], NEW r \in Pipes
            PROVE  u \in ElementsOf(moveOutQ'[r]) <=> u \in ElementsOf(moveOutQ[r])
        BY <4>3, <1>q
      <4>4. \A u \in Users \ {user[t]} : u \in UsersOf(s)' <=> u \in UsersOf(s)
        BY <4>1, <4>3 DEF UsersOf
      <4>5. UsersOf(s)' \subseteq Users /\ UsersOf(s) \subseteq Users
        BY DEF UsersOf
      <4>6. QED
        BY <4>2, <4>4, <4>5
    <3>3. Cardinality(PipesOf(s)') = Cardinality(PipesOf(s)) - 1 /\ Cardinality(PipesOf(s)) \in Nat
      BY <3>1, Counting DEF PipesOf
    <3>4. Cardinality(UsersOf(s)') = Cardinality(UsersOf(s)) + 1 /\ Cardinality(UsersOf(s)) \in Nat
      BY <3>2, Counting DEF UsersOf
    <3>5. Cardinality(CallersOf(s)) \in Nat /\ Cardinality(JoinsOf(s)) \in Nat
      BY Counting DEF CallersOf, JoinsOf
    <3>6. Moves(s) = Cardinality(CallersOf(s)) + Cardinality(PipesOf(s))
                       + Cardinality(JoinsOf(s)) + Cardinality(UsersOf(s))
      BY MovesIs
    <3>7. Moves(s)' = Cardinality(CallersOf(s)') + Cardinality(PipesOf(s)')
                        + Cardinality(JoinsOf(s)') + Cardinality(UsersOf(s)')
      BY DEF Moves, CallersOf, PipesOf, JoinsOf, UsersOf
    <3>8. Moves(s)' = Moves(s)
      BY <2>1, <3>3, <3>4, <3>5, <3>6, <3>7
    <3>9. QED
      BY <3>8, <1>u DEF IInv, RefsExact
  <2>4. QED
    BY <2>2, <2>3
<1>3. ASSUME NEW r \in Callers PROVE  CallerSupport(r)'
  <2>1. CallerSupport(r) /\ SameThread(r) /\ r # t
    BY <1>stay, <1>m DEF IInv, Threads
  <2>2. \A c \in Callers : who'[c] = who[c]
    BY <1>f, <1>m, <1>u DEF Fields, Threads
  <2>3. pc[r] # "idle" => who[r] \in Sessions
    BY <2>1 DEF CallerSupport
  <2>4. QED
    BY <2>1, <2>2, <2>3, <1>same, <1>u, CallerBystander
<1>4. ASSUME NEW r \in Pipes PROVE  PipeSupport(r)'
  <2>1. CASE r # t
    BY <2>1, <1>f, <1>m, <1>stay, <1>same, <1>u, <1>q, PipeBystander DEF IInv, Threads
  <2>2. CASE r = t
    BY <1>f, <1>m, <1>u, <2>2 DEF PipeSupport, Fields, MovePcs, PipePcs, Threads
  <2>3. QED
    BY <2>1, <2>2
<1>5. ASSUME NEW r \in Pipes PROVE  QueueSupport(r)'
  <2>1. QueueSupport(r)
    BY DEF IInv
  <2>2. \A u \in ElementsOf(moveOutQ'[r]) :
          /\ u \in userMap[r] /\ status[SessionOf(u)] = "on"
          /\ moving[SessionOf(u)] /\ uMoving[u] /\ cur[SessionOf(u)] = r
          /\ dest[SessionOf(u)] \in Pipes /\ CodeOf[dest[SessionOf(u)]] # CodeOf[r]
    <3> TAKE u \in ElementsOf(moveOutQ'[r])
    <3>1. u \in ElementsOf(moveOutQ[r]) \/ (u = user[t] /\ r = t)
      BY <1>q
    <3>2. CASE u \in ElementsOf(moveOutQ[r])
      BY <3>2, <2>1 DEF QueueSupport
    <3>3. CASE u = user[t] /\ r = t
      BY <3>3, <1>m, <1>c
    <3>4. QED
      BY <3>1, <3>2, <3>3
  <2>3. \A u \in ElementsOf(moveInQ[r]) : \A p \in Pipes : u \notin userMap[p]
    BY <2>1 DEF QueueSupport
  <2>4. pc'[r] = "enter" <=> pc[r] = "enter"
    BY <1>f, <1>u DEF Fields, Threads
  <2>5. pc[r] = "enter" => who'[r] = who[r]
    BY <1>f, <1>u DEF Fields, Threads
  <2>6. QED
    BY <1>f, <1>m, <1>u, <1>q, <2>1, <2>2, <2>3, <2>4, <2>5 DEF QueueSupport
<1>6. ASSUME NEW s \in Sessions PROVE  SessionSupport(s)'
  <2>1. MoveInHand(s) => MoveInHand(s)'
    <3>1. CASE s = who[t]
      BY <3>1, <1>m, <1>c, <1>q DEF MoveInHand
    <3>2. CASE s # who[t]
      BY <3>2, <1>f, <1>m, <1>stay, <1>u, <1>q DEF MoveInHand, SameThread
    <3>3. QED
      BY <3>1, <3>2
  <2>2. QED
    BY <1>u, <2>1 DEF IInv, SessionSupport
<1>7. QED
  BY <1>1, <1>2, <1>3, <1>4, <1>5, <1>6 DEF IInv
-----------------------------------------------------------------------------
(* The steps of a pipe inside its frame.                                   *)

LEMMA PhaseKeepsInv ==
  ASSUME OneEntry, IInv, NEW p \in Pipes, NextPhase(p)
  PROVE  IInv'
<1> DEFINE Phases == {"join", "in", "out", "leave", "message"}
<1> USE ThreadsAssumption, PipesAssumption
<1>f. Fields /\ p \in Threads /\ p \notin Callers /\ pc \in [Threads -> Pcs]
  BY DEF IInv, Fields, Threads
<1>p. pc[p] \in Phases /\ \E l \in Phases : pc' = [pc EXCEPT ![p] = l]
  BY DEF NextPhase, JoinEmpty, MoveInEmpty, MoveOutEmpty, LeaveEmpty, EndFrame, At, Goto
<1>u. UNCHANGED <<status, refs, receiving, cur, dest, moving, made, uPipe, uMoving,
                  userMap, joinQ, leaveQ, moveInQ, moveOutQ, who, code, user, to, asked>>
  BY DEF NextPhase, sessionVars, moveVars, userVars, pipeVars
<1>w. who[p] = None /\ user[p] = None
  BY <1>p DEF IInv, PipeSupport
<1>1. Fields'
  BY <1>f, <1>p, <1>u DEF Fields, Pcs, PipePcs
<1>stay. \A r \in Threads \ {p} : SameThread(r)
  BY <1>f, <1>p, <1>u DEF SameThread
<1>2. RefsExact'
  BY <1>f, <1>p, <1>u, RefsSame DEF IInv, MovePcs, CallersOf, PipesOf, JoinsOf, UsersOf, Threads
<1>3. ASSUME NEW r \in Callers PROVE  CallerSupport(r)'
  BY <1>f, <1>stay, <1>u, CallerBystander DEF IInv, SameSession, Threads
<1>4. ASSUME NEW r \in Pipes PROVE  PipeSupport(r)'
  <2>1. CASE r # p
    BY <1>f, <1>stay, <1>u, <2>1, PipeBystander DEF IInv, SameSession, Threads
  <2>2. CASE r = p
    BY <1>f, <1>p, <1>u, <1>w, <2>2 DEF PipeSupport, MovePcs, PipePcs
  <2>3. QED
    BY <2>1, <2>2
<1>5. ASSUME NEW r \in Pipes PROVE  QueueSupport(r)'
  BY <1>f, <1>p, <1>u DEF IInv, QueueSupport, Threads
<1>6. ASSUME NEW s \in Sessions PROVE  SessionSupport(s)'
  <2>1. MoveInHand(s) => MoveInHand(s)'
    BY <1>f, <1>p, <1>u DEF MoveInHand
  <2>2. QED
    BY <1>u, <2>1 DEF IInv, SessionSupport
<1>7. QED
  BY <1>1, <1>2, <1>3, <1>4, <1>5, <1>6 DEF IInv

LEMMA EnteredKeepsInv ==
  ASSUME OneEntry, IInv, NEW p \in Pipes, AfterPipeEnter(p)
  PROVE  IInv'
<1> USE ThreadsAssumption, PipesAssumption
<1>f. Fields /\ p \in Threads /\ p \notin Callers /\ pc[p] = "enter"
  BY DEF IInv, Fields, Threads, AfterPipeEnter, At
<1>m. /\ who[p] \in Sessions /\ user[p] \in {None, TheUser(who[p])} /\ OnIt(p, who[p])
      /\ TheUser(who[p]) \in userMap[p] /\ TheUser(who[p]) \in Users
      /\ uMoving[TheUser(who[p])] <=> user[p] # None
      /\ status[who[p]] = "on" /\ moving[who[p]] /\ dest[who[p]] = p /\ cur[who[p]] # p
  BY <1>f, UserFacts DEF IInv, PipeSupport, OnIt
<1>u. /\ pc' = [pc EXCEPT ![p] = "endmove"]
      /\ cur' = [cur EXCEPT ![who[p]] = p] /\ dest' = [dest EXCEPT ![who[p]] = None]
      /\ UNCHANGED <<status, refs, receiving, moving, made, uPipe, uMoving,
                     userMap, joinQ, leaveQ, moveInQ, moveOutQ, who, code, user, to, asked>>
  BY <1>m DEF AfterPipeEnter, Goto, sessionVars, userVars, pipeVars
<1>1. Fields'
  BY <1>f, <1>m, <1>u DEF Fields, Pcs, PipePcs
<1>stay. \A r \in Threads \ {p} : SameThread(r)
  BY <1>f, <1>u DEF SameThread, Fields
<1>same. \A s \in Sessions \ {who[p]} : SameSession(s)
  BY <1>f, <1>m, <1>u DEF SameSession, Fields
<1>2. RefsExact'
  BY <1>f, <1>u, RefsSame DEF IInv, Fields, MovePcs, CallersOf, PipesOf, JoinsOf, UsersOf, Threads
<1>3. ASSUME NEW r \in Callers PROVE  CallerSupport(r)'
  <2>1. CallerSupport(r) /\ SameThread(r) /\ (pc[r] # "idle" => who[r] \in Sessions /\ who[r] # who[p])
    BY <1>f, <1>stay, <1>m, OthersElsewhere DEF IInv, Threads, CallerSupport, OnIt
  <2>2. QED
    BY <2>1, <1>same, <1>u, CallerBystander
<1>4. ASSUME NEW r \in Pipes PROVE  PipeSupport(r)'
  <2>1. CASE r # p
    <3>1. PipeSupport(r) /\ SameThread(r) /\ (\A s \in Sessions : OnIt(r, s) => s # who[p])
      BY <1>f, <1>stay, <2>1, <1>m, OthersElsewhere DEF IInv, Threads
    <3>2. QED
      BY <3>1, <1>f, <1>same, <1>u, PipeBystander
  <2>2. CASE r = p
    BY <1>f, <1>m, <1>u, <2>2 DEF PipeSupport, MovePcs, PipePcs, Fields
  <2>3. QED
    BY <2>1, <2>2
<1>5. ASSUME NEW r \in Pipes PROVE  QueueSupport(r)'
  <2>1. QueueSupport(r) /\ QueueSupport(p)
    BY DEF IInv
  <2>2. made[who[p]] = 1 /\ uPipe[TheUser(who[p])] = p /\ SessionOf(TheUser(who[p])) = who[p]
    BY <1>m, <2>1, UserFacts DEF QueueSupport
  <2>3. who[p] \notin ElementsOf(joinQ[r]) /\ who[p] \notin ElementsOf(leaveQ[r])
    BY <1>m, <2>1, <2>2 DEF QueueSupport
  <2>4. TheUser(who[p]) \notin ElementsOf(moveInQ[r]) \cup ElementsOf(moveOutQ[r])
    BY <1>m, <2>1, <2>2 DEF QueueSupport
  <2>5. /\ ElementsOf(joinQ[r]) \cup ElementsOf(leaveQ[r]) \subseteq Sessions
        /\ ElementsOf(moveInQ[r]) \cup ElementsOf(moveOutQ[r]) \subseteq Users
        /\ userMap[r] \subseteq Users
    BY <1>f DEF Fields, ElementsOf
  <2>6. \A u \in ElementsOf(moveInQ[r]) \cup ElementsOf(moveOutQ[r]) : SessionOf(u) # who[p] /\ SessionOf(u) \in Sessions
    BY <2>4, <2>5, UserFacts
  <2>7. \A s \in Sessions \ {who[p]} : cur'[s] = cur[s] /\ dest'[s] = dest[s]
    BY <1>same DEF SameSession
  <2>8. \A u \in userMap[r] : \/ SessionOf(u) = who[p] /\ r = p
                              \/ SessionOf(u) \in Sessions \ {who[p]}
    BY <2>1, <2>2, <2>5, UserFacts DEF QueueSupport
  <2>9. cur'[who[p]] = p
    BY <1>f, <1>m, <1>u DEF Fields
  <2>10. pc'[r] = "enter" => r # p
    BY <1>f, <1>u DEF Fields
  <2>11. r # p => pc'[r] = pc[r] /\ who'[r] = who[r]
    BY <1>f, <1>u DEF Fields, Threads
  <2>12. \A u \in userMap[r] :
          cur'[SessionOf(u)] = r \/ (pc'[r] = "enter" /\ who'[r] = SessionOf(u))
    BY <1>f, <2>1, <2>7, <2>8, <2>9, <2>11 DEF QueueSupport
  <2>13. QED
    BY <1>u, <2>1, <2>3, <2>5, <2>6, <2>7, <2>12 DEF QueueSupport
<1>6. ASSUME NEW s \in Sessions PROVE  SessionSupport(s)'
  <2>1. CASE s # who[p]
    <3>1. SessionSupport(s) /\ SameSession(s)
      BY <1>same, <2>1 DEF IInv
    <3>2. MoveInHand(s) => MoveInHand(s)'
      BY <1>f, <1>u, <1>stay, <2>1 DEF MoveInHand, SameThread
    <3>3. QED
      BY <1>u, <3>1, <3>2 DEF SessionSupport, SameSession
  <2>2. CASE s = who[p]
    <3>1. MoveInHand(s)'
      BY <1>f, <1>u, <2>2 DEF MoveInHand, Fields
    <3>2. made[s] = 1 /\ cur'[s] = p
      BY <1>f, <1>m, <1>u, <2>2, UserFacts DEF IInv, QueueSupport, Fields
    <3>3. QED
      BY <1>f, <1>u, <1>m, <2>2, <3>1, <3>2 DEF IInv, SessionSupport
  <2>3. QED
    BY <2>1, <2>2
<1>7. QED
  BY <1>1, <1>2, <1>3, <1>4, <1>5, <1>6 DEF IInv

LEMMA MoveEndKeepsInv ==
  ASSUME OneEntry, IInv, NEW p \in Pipes, PipeMoveEnd(p)
  PROVE  IInv'
<1> USE ThreadsAssumption, PipesAssumption
<1>f. Fields /\ p \in Threads /\ p \notin Callers /\ pc[p] = "endmove"
  BY DEF IInv, Fields, Threads, PipeMoveEnd, At
<1>m. /\ who[p] \in Sessions /\ user[p] \in {None, TheUser(who[p])} /\ OnIt(p, who[p])
      /\ TheUser(who[p]) \in userMap[p] /\ TheUser(who[p]) \in Users
      /\ SessionOf(TheUser(who[p])) = who[p]
      /\ status[who[p]] = "on" /\ dest[who[p]] = None /\ cur[who[p]] = p
  BY <1>f, UserFacts DEF IInv, PipeSupport, OnIt
<1>u. /\ pc' = [pc EXCEPT ![p] = "drop"] /\ moving' = [moving EXCEPT ![who[p]] = FALSE]
      /\ UNCHANGED <<status, refs, receiving, cur, dest, made, uPipe, uMoving,
                     userMap, joinQ, leaveQ, moveInQ, moveOutQ, who, code, user, to, asked>>
  BY DEF PipeMoveEnd, Goto, sessionVars, userVars, pipeVars
<1>1. Fields'
  BY <1>f, <1>m, <1>u DEF Fields, Pcs, PipePcs
<1>stay. \A r \in Threads \ {p} : SameThread(r)
  BY <1>f, <1>u DEF SameThread, Fields
<1>same. \A s \in Sessions \ {who[p]} : SameSession(s)
  BY <1>f, <1>m, <1>u DEF SameSession, Fields
<1>2. RefsExact'
  BY <1>f, <1>u, RefsSame DEF IInv, Fields, MovePcs, CallersOf, PipesOf, JoinsOf, UsersOf, Threads
<1>3. ASSUME NEW r \in Callers PROVE  CallerSupport(r)'
  <2>1. CallerSupport(r) /\ SameThread(r) /\ (pc[r] # "idle" => who[r] \in Sessions /\ who[r] # who[p])
    BY <1>f, <1>stay, <1>m, OthersElsewhere DEF IInv, Threads, CallerSupport, OnIt
  <2>2. QED
    BY <2>1, <1>same, <1>u, CallerBystander
<1>4. ASSUME NEW r \in Pipes PROVE  PipeSupport(r)'
  <2>1. CASE r # p
    <3>1. PipeSupport(r) /\ SameThread(r) /\ (\A s \in Sessions : OnIt(r, s) => s # who[p])
      BY <1>f, <1>stay, <2>1, <1>m, OthersElsewhere DEF IInv, Threads
    <3>2. QED
      BY <3>1, <1>f, <1>same, <1>u, PipeBystander
  <2>2. CASE r = p
    <3>1. PipeSupport(p)
      BY DEF IInv
    <3>2. QED
      BY <1>f, <1>m, <1>u, <2>2, <3>1 DEF PipeSupport, MovePcs, PipePcs, Fields
  <2>3. QED
    BY <2>1, <2>2
<1>5. ASSUME NEW r \in Pipes PROVE  QueueSupport(r)'
  <2>1. QueueSupport(r) /\ QueueSupport(p)
    BY DEF IInv
  <2>2. who[p] \notin ElementsOf(joinQ[r])
    BY <1>m, <2>1 DEF QueueSupport
  <2>3. /\ ElementsOf(joinQ[r]) \subseteq Sessions
        /\ ElementsOf(moveInQ[r]) \cup ElementsOf(moveOutQ[r]) \subseteq Users
    BY <1>f DEF Fields, ElementsOf
  <2>4. TheUser(who[p]) \notin ElementsOf(moveInQ[r]) \cup ElementsOf(moveOutQ[r])
    BY <1>m, <2>1 DEF QueueSupport
  <2>5. \A u \in ElementsOf(moveInQ[r]) \cup ElementsOf(moveOutQ[r]) : SessionOf(u) # who[p]
    BY <2>3, <2>4, UserFacts
  <2>6. \A s \in Sessions \ {who[p]} : moving'[s] = moving[s]
    BY <1>same DEF SameSession
  <2>7. pc'[r] = "enter" <=> pc[r] = "enter"
    BY <1>f, <1>u DEF Fields, Threads
  <2>8. QED
    BY <1>u, <2>1, <2>2, <2>3, <2>5, <2>6, <2>7, UserFacts DEF QueueSupport
<1>6. ASSUME NEW s \in Sessions PROVE  SessionSupport(s)'
  <2>1. CASE s # who[p]
    <3>1. SessionSupport(s) /\ SameSession(s)
      BY <1>same, <2>1 DEF IInv
    <3>2. MoveInHand(s) => MoveInHand(s)'
      BY <1>f, <1>u, <1>stay, <2>1 DEF MoveInHand, SameThread
    <3>3. QED
      BY <1>u, <3>1, <3>2 DEF SessionSupport, SameSession
  <2>2. CASE s = who[p]
    <3>1. moving'[s] = FALSE
      BY <1>f, <1>m, <1>u, <2>2 DEF Fields
    <3>2. QED
      BY <1>f, <1>u, <1>m, <2>2, <3>1 DEF IInv, SessionSupport
  <2>3. QED
    BY <2>1, <2>2
<1>7. QED
  BY <1>1, <1>2, <1>3, <1>4, <1>5, <1>6 DEF IInv

LEMMA UserEndKeepsInv ==
  ASSUME OneEntry, IInv, NEW p \in Pipes, UserMoveEnd(p)
  PROVE  IInv'
<1> USE ThreadsAssumption, PipesAssumption
<1> DEFINE s0 == SessionOf(user[p])
<1>f. Fields /\ p \in Threads /\ p \notin Callers /\ pc[p] = "enduser"
  BY DEF IInv, Fields, Threads, UserMoveEnd, At
<1>m. /\ who[p] = None /\ user[p] \in Users /\ user[p] \in userMap[p]
      /\ s0 \in Sessions /\ user[p] = TheUser(s0) /\ OnIt(p, s0)
      /\ ~moving[s0] /\ dest[s0] = None /\ cur[s0] = p
  BY <1>f, UserFacts DEF IInv, PipeSupport, OnIt, Fields
<1>u. /\ pc' = [pc EXCEPT ![p] = "in"] /\ uMoving' = [uMoving EXCEPT ![user[p]] = FALSE]
      /\ user' = [user EXCEPT ![p] = None]
      /\ UNCHANGED <<status, refs, receiving, cur, dest, moving, made, uPipe,
                     userMap, joinQ, leaveQ, moveInQ, moveOutQ, who, code, to, asked>>
  BY DEF UserMoveEnd, Goto, sessionVars, moveVars, pipeVars
<1> HIDE DEF s0
<1>1. Fields'
  BY <1>f, <1>m, <1>u DEF Fields, Pcs, PipePcs
<1>stay. \A r \in Threads \ {p} : SameThread(r)
  BY <1>f, <1>u DEF SameThread, Fields
<1>same. ASSUME NEW s \in Sessions \ {s0} PROVE  SameSession(s)
  <2>1. TheUser(s) \in Users /\ TheUser(s) # user[p]
    BY <1>m, UserFacts
  <2>2. uMoving'[TheUser(s)] = uMoving[TheUser(s)]
    BY <1>f, <1>u, <2>1 DEF Fields
  <2>3. QED
    BY <1>u, <2>2 DEF SameSession
<1>2. RefsExact'
  BY <1>f, <1>u, RefsSame DEF IInv, Fields, MovePcs, CallersOf, PipesOf, JoinsOf, UsersOf, Threads
<1>3. ASSUME NEW r \in Callers PROVE  CallerSupport(r)'
  <2>1. CallerSupport(r) /\ SameThread(r) /\ (pc[r] # "idle" => who[r] \in Sessions /\ who[r] # s0)
    BY <1>f, <1>stay, <1>m, OthersElsewhere DEF IInv, Threads, CallerSupport, OnIt
  <2>2. QED
    BY <2>1, <1>same, <1>u, CallerBystander
<1>4. ASSUME NEW r \in Pipes PROVE  PipeSupport(r)'
  <2>1. CASE r # p
    <3>1. PipeSupport(r) /\ SameThread(r) /\ (\A s \in Sessions : OnIt(r, s) => s # s0)
      BY <1>f, <1>stay, <2>1, <1>m, OthersElsewhere DEF IInv, Threads
    <3>2. QED
      BY <3>1, <1>f, <1>same, <1>u, PipeBystander
  <2>2. CASE r = p
    BY <1>f, <1>m, <1>u, <2>2 DEF PipeSupport, MovePcs, PipePcs, Fields
  <2>3. QED
    BY <2>1, <2>2
<1>5. ASSUME NEW r \in Pipes PROVE  QueueSupport(r)'
  <2>1. QueueSupport(r) /\ QueueSupport(p)
    BY DEF IInv
  <2>2. user[p] \notin ElementsOf(moveInQ[r]) \cup ElementsOf(moveOutQ[r])
    BY <1>m, <2>1 DEF QueueSupport, s0
  <2>3. ElementsOf(moveInQ[r]) \cup ElementsOf(moveOutQ[r]) \subseteq Users
    BY <1>f DEF Fields, ElementsOf
  <2>4. \A u \in ElementsOf(moveInQ[r]) \cup ElementsOf(moveOutQ[r]) : uMoving'[u] = uMoving[u]
    BY <1>f, <1>u, <2>2, <2>3 DEF Fields
  <2>5. pc'[r] = "enter" <=> pc[r] = "enter"
    BY <1>f, <1>u DEF Fields, Threads
  <2>6. \A u \in ElementsOf(moveInQ[r]) :
          /\ made[SessionOf(u)] = 1 /\ status[SessionOf(u)] = "on"
          /\ moving[SessionOf(u)] /\ uMoving'[u] /\ dest[SessionOf(u)] = r
          /\ \A q \in Pipes : u \notin userMap[q]
          /\ uPipe[u] \in Pipes /\ CodeOf[r] # CodeOf[uPipe[u]] /\ cur[SessionOf(u)] = uPipe[u]
    BY <2>1, <2>4 DEF QueueSupport
  <2>7. \A u \in ElementsOf(moveOutQ[r]) :
          /\ u \in userMap[r] /\ status[SessionOf(u)] = "on"
          /\ moving[SessionOf(u)] /\ uMoving'[u] /\ cur[SessionOf(u)] = r
          /\ dest[SessionOf(u)] \in Pipes /\ CodeOf[dest[SessionOf(u)]] # CodeOf[r]
    BY <2>1, <2>4 DEF QueueSupport
  <2>8. QED
    BY <1>u, <2>1, <2>5, <2>6, <2>7 DEF QueueSupport
<1>6. ASSUME NEW s \in Sessions PROVE  SessionSupport(s)'
  <2>1. MoveInHand(s) => MoveInHand(s)'
    BY <1>f, <1>u, <1>stay DEF MoveInHand, SameThread
  <2>2. SessionSupport(s) /\ (~uMoving[TheUser(s)] => ~uMoving'[TheUser(s)])
    BY <1>f, <1>u, UserFacts DEF IInv, Fields
  <2>3. QED
    BY <1>u, <2>1, <2>2 DEF SessionSupport
<1>7. QED
  BY <1>1, <1>2, <1>3, <1>4, <1>5, <1>6 DEF IInv

-----------------------------------------------------------------------------
(* Sessions come, and moves begin.                                         *)

LEMMA AllocKeepsInv ==
  ASSUME OneEntry, IInv, NEW s0 \in Sessions, AllocSession(s0)
  PROVE  IInv'
<1> USE ThreadsAssumption, PipesAssumption
<1>f. Fields /\ status[s0] = "off" /\ refs[s0] = 0
  BY DEF IInv, Fields, AllocSession, SessionSupport
<1>u. /\ status' = [status EXCEPT ![s0] = "on"] /\ refs' = [refs EXCEPT ![s0] = 1]
      /\ receiving' = [receiving EXCEPT ![s0] = TRUE]
      /\ UNCHANGED <<cur, dest, moving, made, uPipe, uMoving, userMap, joinQ, leaveQ, moveInQ,
                     moveOutQ, pc, who, code, user, to, asked>>
  BY DEF AllocSession, moveVars, userVars, pipeVars, threadVars
<1>1. Fields'
  BY <1>f, <1>u DEF Fields
<1>2. RefsExact'
  <2>1. Moves(s0) = 0
    <3>1. /\ Cardinality(CallersOf(s0)) \in Nat /\ Cardinality(PipesOf(s0)) \in Nat
          /\ Cardinality(JoinsOf(s0)) \in Nat /\ Cardinality(UsersOf(s0)) \in Nat
      BY Counting DEF CallersOf, PipesOf, JoinsOf, UsersOf
    <3>2. 0 = Moves(s0) + (IF receiving[s0] THEN 1 ELSE 0)
      BY <1>f DEF IInv, RefsExact
    <3>3. QED
      BY <3>1, <3>2, MovesIs
  <2>2. \A s \in Sessions : Moves(s)' = Moves(s)
    BY <1>u DEF Moves
  <2>3. QED
    BY <1>f, <1>u, <2>1, <2>2 DEF IInv, RefsExact, Fields
<1>stay. \A r \in Threads : SameThread(r)
  BY <1>u DEF SameThread
<1>same. \A s \in Sessions : SameSession(s) /\ (status[s] = "on" => status'[s] = "on")
  BY <1>f, <1>u DEF SameSession, Fields
<1>3. ASSUME NEW r \in Callers PROVE  CallerSupport(r)'
  <2>1. CallerSupport(r) /\ (pc[r] # "idle" => who[r] \in Sessions /\ status[who[r]] = "on")
    BY DEF IInv, CallerSupport
  <2>2. QED
    BY <2>1, <1>stay, <1>same, <1>u, CallerBystander DEF Threads
<1>4. ASSUME NEW r \in Pipes PROVE  PipeSupport(r)'
  <2>1. PipeSupport(r) /\ (who[r] \in Sessions => status[who[r]] = "on")
    BY DEF IInv, PipeSupport, PipePcs
  <2>2. QED
    BY <2>1, <1>f, <1>stay, <1>same, <1>u, PipeBystander DEF Threads
<1>5. ASSUME NEW r \in Pipes PROVE  QueueSupport(r)'
  <2>1. QueueSupport(r)
    BY DEF IInv
  <2>2. /\ ElementsOf(joinQ[r]) \cup ElementsOf(leaveQ[r]) \subseteq Sessions
        /\ ElementsOf(moveInQ[r]) \cup ElementsOf(moveOutQ[r]) \cup userMap[r] \subseteq Users
    BY <1>f DEF Fields, ElementsOf
  <2>3. \A s \in Sessions : status[s] # "off" => status'[s] = status[s]
    BY <1>f, <1>u DEF Fields
  <2>4. QED
    BY <1>u, <2>1, <2>2, <2>3, UserFacts DEF QueueSupport
<1>6. ASSUME NEW s \in Sessions PROVE  SessionSupport(s)'
  <2>1. MoveInHand(s)' <=> MoveInHand(s)
    BY <1>u DEF MoveInHand
  <2>2. SessionSupport(s)
    BY DEF IInv
  <2>3. CASE s = s0
    <3>1. status'[s] = "on" /\ refs'[s] = 1
      BY <1>f, <1>u, <2>3 DEF Fields
    <3>2. QED
      BY <1>f, <1>u, <2>1, <2>2, <2>3, <3>1 DEF SessionSupport
  <2>4. CASE s # s0
    <3>1. status'[s] = status[s] /\ refs'[s] = refs[s]
      BY <1>f, <1>u, <2>4 DEF Fields
    <3>2. QED
      BY <1>u, <2>1, <2>2, <3>1 DEF SessionSupport
  <2>5. QED
    BY <2>3, <2>4
<1>7. QED
  BY <1>1, <1>2, <1>3, <1>4, <1>5, <1>6 DEF IInv

\* A session that was never asked to move has no user, and nobody works on it.
LEMMA Untouched ==
  ASSUME OneEntry, IInv, NEW s \in Sessions, asked[s] = 0
  PROVE  /\ made[s] = 0 /\ cur[s] = None /\ dest[s] = None /\ ~moving[s] /\ ~uMoving[TheUser(s)]
         /\ \A r \in Threads : ~OnIt(r, s)
         /\ \A p \in Pipes : s \notin ElementsOf(joinQ[p])
         /\ ~MoveInHand(s)
<1>1. made[s] = 0 /\ cur[s] = None /\ ~uMoving[TheUser(s)]
  BY DEF IInv, SessionSupport
<1>2. ASSUME NEW p \in Pipes
      PROVE  /\ s \notin ElementsOf(joinQ[p])
             /\ TheUser(s) \notin userMap[p] \cup ElementsOf(moveInQ[p]) \cup ElementsOf(moveOutQ[p])
  <2>1. QueueSupport(p) /\ SessionOf(TheUser(s)) = s
    BY UserFacts DEF IInv
  <2>2. QED
    BY <1>1, <2>1 DEF QueueSupport
<1>3. ASSUME NEW r \in Threads PROVE  ~OnIt(r, s)
  <2>1. CASE r \in Callers
    BY <2>1, PipesAssumption, UserFacts DEF IInv, CallerSupport, OnIt
  <2>2. CASE r \in Pipes
    BY <2>2, <1>2, Alone
  <2>3. QED
    BY <2>1, <2>2 DEF Threads
<1>4. ~MoveInHand(s)
  BY <1>2, <1>3 DEF MoveInHand, OnIt
<1>5. QED
  BY <1>1, <1>2, <1>3, <1>4 DEF IInv, SessionSupport

\* The counts of a session that nobody's step touches
LEMMA MovesSame ==
  ASSUME NEW s \in Sessions,
         CallersOf(s)' = CallersOf(s), PipesOf(s)' = PipesOf(s),
         JoinsOf(s)' = JoinsOf(s), UsersOf(s)' = UsersOf(s)
  PROVE  Moves(s)' = Moves(s)
BY DEF Moves, CallersOf, PipesOf, JoinsOf, UsersOf

LEMMA Counts ==
  ASSUME OneEntry, NEW s
  PROVE  /\ Cardinality(CallersOf(s)) \in Nat /\ Cardinality(PipesOf(s)) \in Nat
         /\ Cardinality(JoinsOf(s)) \in Nat /\ Cardinality(UsersOf(s)) \in Nat
         /\ Moves(s) = Cardinality(CallersOf(s)) + Cardinality(PipesOf(s))
                         + Cardinality(JoinsOf(s)) + Cardinality(UsersOf(s))
BY Counting, MovesIs DEF CallersOf, PipesOf, JoinsOf, UsersOf

LEMMA CountsPrime ==
  ASSUME OneEntry, NEW s
  PROVE  Moves(s)' = Cardinality(CallersOf(s)') + Cardinality(PipesOf(s)')
                       + Cardinality(JoinsOf(s)') + Cardinality(UsersOf(s)')
BY DEF Moves, CallersOf, PipesOf, JoinsOf, UsersOf

LEMMA MovePipeKeepsInv ==
  ASSUME OneEntry, IInv, NEW t \in Callers, NEW s0 \in Sessions, NEW c \in Codes,
         MovePipe(t, s0, c)
  PROVE  IInv'
<1> USE ThreadsAssumption, PipesAssumption
<1>f. /\ Fields /\ t \in Threads /\ t \notin Pipes /\ pc[t] = "idle" /\ asked[s0] = 0
      /\ status[s0] = "on" /\ who[t] = None /\ user[t] = None
  BY DEF IInv, Fields, Threads, MovePipe, FindForMove, At, CallerSupport, OneEntry
<1>n. /\ made[s0] = 0 /\ cur[s0] = None /\ dest[s0] = None /\ ~moving[s0]
      /\ \A r \in Threads : ~OnIt(r, s0)
      /\ \A p \in Pipes : s0 \notin ElementsOf(joinQ[p])
  BY <1>f, Untouched
<1>u. /\ pc' = [pc EXCEPT ![t] = "moving?"] /\ who' = [who EXCEPT ![t] = s0]
      /\ code' = [code EXCEPT ![t] = c] /\ user' = [user EXCEPT ![t] = None]
      /\ asked' = [asked EXCEPT ![s0] = 1] /\ refs' = [refs EXCEPT ![s0] = refs[s0] + 1]
      /\ UNCHANGED <<status, receiving, cur, dest, moving, made, uPipe, uMoving, userMap, joinQ,
                     leaveQ, moveInQ, moveOutQ, to>>
  BY <1>f DEF MovePipe, FindForMove, Goto, moveVars, userVars, pipeVars
<1>1. Fields'
  BY <1>f, <1>u DEF Fields, Pcs, MovePcs, OneEntry
<1>stay. \A r \in Threads \ {t} : SameThread(r)
  BY <1>f, <1>u DEF SameThread, Fields
<1>same. \A s \in Sessions \ {s0} : SameSession(s)
  BY <1>f, <1>u DEF SameSession, Fields
<1>2. RefsExact'
  <2> SUFFICES ASSUME NEW s \in Sessions
               PROVE  refs'[s] = Moves(s)' + (IF receiving'[s] THEN 1 ELSE 0)
    BY DEF RefsExact
  <2>1. PipesOf(s)' = PipesOf(s) /\ JoinsOf(s)' = JoinsOf(s) /\ UsersOf(s)' = UsersOf(s)
    BY <1>f, <1>u, <1>stay DEF PipesOf, JoinsOf, UsersOf, SameThread, Threads
  <2>2. refs[s] = Moves(s) + (IF receiving[s] THEN 1 ELSE 0)
    BY DEF IInv, RefsExact
  <2>3. CASE s # s0
    <3>1. CallersOf(s)' = CallersOf(s)
      BY <2>3, <1>f, <1>u DEF CallersOf, Threads, Fields
    <3>2. QED
      BY <2>1, <2>2, <2>3, <3>1, <1>f, <1>u, MovesSame DEF Fields
  <2>4. CASE s = s0
    <3>1. CallersOf(s)' = CallersOf(s) \cup {t} /\ t \notin CallersOf(s)
      BY <2>4, <1>f, <1>u DEF CallersOf, Threads, Fields
    <3>2. Cardinality(CallersOf(s)') = Cardinality(CallersOf(s)) + 1
      BY <3>1, Counting DEF CallersOf
    <3>3. Moves(s)' = Moves(s) + 1
      BY <2>1, <3>2, Counts, CountsPrime
    <3>4. refs'[s] = refs[s] + 1
      BY <2>4, <1>f, <1>u DEF Fields
    <3>5. Moves(s) \in Nat
      BY Counts
    <3>6. QED
      BY <2>2, <3>3, <3>4, <3>5, <1>u
  <2>5. QED
    BY <2>3, <2>4
<1>3. ASSUME NEW r \in Callers PROVE  CallerSupport(r)'
  <2>1. CASE r # t
    <3>1. CallerSupport(r) /\ SameThread(r) /\ (pc[r] # "idle" => who[r] \in Sessions /\ who[r] # s0)
      BY <1>stay, <2>1, <1>n DEF IInv, Threads, CallerSupport, OnIt
    <3>2. pc[r] # "idle" => \A d \in Callers : who'[d] = who[r] => who[d] = who[r]
      BY <3>1, <1>f, <1>u DEF Fields, Threads
    <3>3. QED
      BY <3>1, <3>2, <1>same, <1>u, CallerBystander
  <2>2. CASE r = t
    <3>1. pc'[t] = "moving?" /\ who'[t] = s0 /\ user'[t] = None /\ asked'[s0] = 1
      BY <1>f, <1>u DEF Fields
    <3>2. \A d \in Callers : who'[d] = s0 => d = t
      BY <1>f, <1>u, <1>n DEF Fields, Threads, OnIt
    <3>3. QED
      BY <1>f, <1>n, <1>u, <2>2, <3>1, <3>2 DEF CallerSupport, MovePcs
  <2>3. QED
    BY <2>1, <2>2
<1>4. ASSUME NEW r \in Pipes PROVE  PipeSupport(r)'
  <2>1. PipeSupport(r) /\ SameThread(r) /\ (\A s \in Sessions : OnIt(r, s) => s # s0)
    BY <1>f, <1>stay, <1>n DEF IInv, Threads
  <2>2. QED
    BY <2>1, <1>f, <1>same, <1>u, PipeBystander
<1>5. ASSUME NEW r \in Pipes PROVE  QueueSupport(r)'
  <2>1. QueueSupport(r) /\ SameThread(r)
    BY <1>f, <1>stay DEF IInv, Threads
  <2>2. \A s \in ElementsOf(joinQ[r]) : asked'[s] = asked[s]
    BY <1>f, <1>n, <1>u DEF Fields, ElementsOf
  <2>3. QED
    BY <1>u, <2>1, <2>2 DEF QueueSupport, SameThread
<1>6. ASSUME NEW s \in Sessions PROVE  SessionSupport(s)'
  <2>1. MoveInHand(s) => MoveInHand(s)'
    BY <1>f, <1>u, <1>stay DEF MoveInHand, SameThread
  <2>2. SessionSupport(s)
    BY DEF IInv
  <2>3. CASE s # s0
    <3>1. refs'[s] = refs[s] /\ asked'[s] = asked[s]
      BY <1>f, <1>u, <2>3 DEF Fields
    <3>2. QED
      BY <1>u, <2>1, <2>2, <3>1 DEF SessionSupport
  <2>4. CASE s = s0
    <3>1. refs'[s] # 0 /\ asked'[s] = 1
      BY <1>f, <1>u, <2>4 DEF Fields
    <3>2. QED
      BY <1>f, <1>u, <2>1, <2>2, <2>4, <3>1 DEF SessionSupport
  <2>5. QED
    BY <2>3, <2>4
<1>7. QED
  BY <1>1, <1>2, <1>3, <1>4, <1>5, <1>6 DEF IInv

LEMMA MoveUserKeepsInv ==
  ASSUME OneEntry, IInv, NEW t \in Pipes, NEW u \in Users, NEW c \in Codes, MoveUser(t, u, c)
  PROVE  IInv'
<1> USE ThreadsAssumption, PipesAssumption
<1> DEFINE s0 == SessionOf(u)
<1>f. /\ Fields /\ t \in Threads /\ t \notin Callers /\ pc[t] = "message" /\ u \in userMap[t]
      /\ status[s0] = "on" /\ who[t] = None /\ user[t] = None
      /\ s0 \in Sessions /\ u = TheUser(s0)
  BY UserFacts DEF IInv, Threads, MoveUser, FindForMove, At, PipeSupport
<1>n. cur[s0] = t
  BY <1>f DEF IInv, QueueSupport
<1>u. /\ pc' = [pc EXCEPT ![t] = "moving?"] /\ who' = [who EXCEPT ![t] = s0]
      /\ code' = [code EXCEPT ![t] = c] /\ user' = [user EXCEPT ![t] = u]
      /\ refs' = [refs EXCEPT ![s0] = refs[s0] + 1]
      /\ UNCHANGED <<status, receiving, cur, dest, moving, made, uPipe, uMoving, userMap, joinQ,
                     leaveQ, moveInQ, moveOutQ, to, asked>>
  BY <1>f DEF MoveUser, FindForMove, Goto, moveVars, userVars, pipeVars
<1> HIDE DEF s0
<1>1. Fields'
  BY <1>f, <1>u DEF Fields, Pcs, MovePcs, OneEntry
<1>stay. \A r \in Threads \ {t} : SameThread(r)
  BY <1>f, <1>u DEF SameThread, Fields
<1>same. \A s \in Sessions : SameSession(s)
  BY <1>u DEF SameSession
<1>2. RefsExact'
  <2> SUFFICES ASSUME NEW s \in Sessions
               PROVE  refs'[s] = Moves(s)' + (IF receiving'[s] THEN 1 ELSE 0)
    BY DEF RefsExact
  <2>1. CallersOf(s)' = CallersOf(s) /\ JoinsOf(s)' = JoinsOf(s) /\ UsersOf(s)' = UsersOf(s)
    BY <1>f, <1>u, <1>stay DEF CallersOf, JoinsOf, UsersOf, SameThread, Threads
  <2>2. refs[s] = Moves(s) + (IF receiving[s] THEN 1 ELSE 0)
    BY DEF IInv, RefsExact
  <2>3. CASE s # s0
    <3>1. PipesOf(s)' = PipesOf(s)
      BY <2>3, <1>f, <1>u DEF PipesOf, Threads, Fields
    <3>2. QED
      BY <2>1, <2>2, <2>3, <3>1, <1>f, <1>u, MovesSame DEF Fields
  <2>4. CASE s = s0
    <3>1. PipesOf(s)' = PipesOf(s) \cup {t} /\ t \notin PipesOf(s)
      BY <2>4, <1>f, <1>u DEF PipesOf, Threads, Fields, MovePcs
    <3>2. Cardinality(PipesOf(s)') = Cardinality(PipesOf(s)) + 1
      BY <3>1, Counting DEF PipesOf
    <3>3. Moves(s)' = Moves(s) + 1
      BY <2>1, <3>2, Counts, CountsPrime
    <3>4. refs'[s] = refs[s] + 1
      BY <2>4, <1>f, <1>u DEF Fields
    <3>5. Moves(s) \in Nat
      BY Counts
    <3>6. QED
      BY <2>2, <3>3, <3>4, <3>5, <1>u
  <2>5. QED
    BY <2>3, <2>4
<1>3. ASSUME NEW r \in Callers PROVE  CallerSupport(r)'
  <2>1. CallerSupport(r) /\ SameThread(r) /\ (pc[r] # "idle" => who[r] \in Sessions)
    BY <1>f, <1>stay DEF IInv, Threads, CallerSupport
  <2>2. \A d \in Callers : who'[d] = who[d]
    BY <1>f, <1>u DEF Fields, Threads
  <2>3. QED
    BY <2>1, <2>2, <1>same, <1>u, CallerBystander
<1>4. ASSUME NEW r \in Pipes PROVE  PipeSupport(r)'
  <2>1. CASE r # t
    <3>1. PipeSupport(r) /\ SameThread(r)
      BY <1>f, <1>stay, <2>1 DEF IInv, Threads
    <3>2. QED
      BY <3>1, <1>f, <1>same, <1>u, PipeBystander
  <2>2. CASE r = t
    BY <1>f, <1>n, <1>u, <2>2 DEF PipeSupport, MovePcs, PipePcs, Fields
  <2>3. QED
    BY <2>1, <2>2
<1>5. ASSUME NEW r \in Pipes PROVE  QueueSupport(r)'
  <2>1. QueueSupport(r)
    BY DEF IInv
  <2>2. /\ pc'[r] = "enter" <=> pc[r] = "enter"
        /\ pc[r] = "enter" => who'[r] = who[r]
    BY <1>f, <1>u DEF Fields, Threads
  <2>3. QED
    BY <1>u, <2>1, <2>2 DEF QueueSupport
<1>6. ASSUME NEW s \in Sessions PROVE  SessionSupport(s)'
  <2>1. MoveInHand(s) => MoveInHand(s)'
    BY <1>f, <1>u, <1>stay DEF MoveInHand, SameThread
  <2>2. SessionSupport(s)
    BY DEF IInv
  <2>3. refs'[s] = 0 <=> refs[s] = 0
    <3>1. CASE s = s0
      <4>1. refs[s] \in Nat /\ refs[s] # 0 /\ refs'[s] = refs[s] + 1
        BY <1>f, <1>u, <2>2, <3>1 DEF SessionSupport, Fields
      <4>2. QED
        BY <4>1
    <3>2. CASE s # s0
      BY <1>f, <1>u, <3>2 DEF Fields
    <3>3. QED
      BY <3>1, <3>2
  <2>4. QED
    BY <1>u, <2>1, <2>2, <2>3 DEF SessionSupport
<1>7. QED
  BY <1>1, <1>2, <1>3, <1>4, <1>5, <1>6 DEF IInv

-----------------------------------------------------------------------------
(* Users enter a pipe.                                                     *)

LEMMA JoinKeepsInv ==
  ASSUME OneEntry, IInv, NEW p \in Pipes, Join(p)
  PROVE  IInv'
<1> USE ThreadsAssumption, PipesAssumption
<1> DEFINE s0 == Head(joinQ[p])
<1> DEFINE u0 == TheUser(s0)
<1>f. /\ Fields /\ p \in Threads /\ p \notin Callers /\ pc[p] = "join" /\ joinQ[p] # <<>>
      /\ who[p] = None /\ user[p] = None
  BY DEF IInv, Threads, Join, At, PipeSupport
<1>q. /\ s0 \in Sessions /\ s0 \in ElementsOf(joinQ[p])
      /\ Rest(joinQ, p) \in Queues(Sessions) /\ Dequeued(Rest(joinQ, p), joinQ, p)
  <2>1. joinQ \in Queues(Sessions) /\ \A r \in Pipes : Distinct(joinQ[r])
    BY <1>f DEF Fields, IInv, QueueSupport, Queues
  <2>2. QED
    BY <2>1, <1>f, RestFacts
<1>m. /\ status[s0] = "on" /\ asked[s0] = 1 /\ made[s0] = 0 /\ moving[s0] /\ dest[s0] = p
      /\ cur[s0] = None /\ ~uMoving[u0]
      /\ u0 \in Users /\ SessionOf(u0) = s0 /\ u0 = <<s0, made[s0] + 1>>
  BY <1>q, UserFacts DEF IInv, QueueSupport, SessionSupport, TheUser
<1>n. /\ \A r \in Pipes : u0 \notin userMap[r]
      /\ \A r \in Pipes : u0 \notin ElementsOf(moveInQ[r]) \cup ElementsOf(moveOutQ[r])
      /\ \A r \in Pipes \ {p} : s0 \notin ElementsOf(joinQ[r])
  BY <1>m DEF IInv, QueueSupport
<1>e. /\ \A r \in Pipes : ~OnIt(r, s0)
      /\ \A c \in Callers : who[c] # s0
  <2>1. ASSUME NEW c \in Callers PROVE  who[c] # s0
    BY <1>q DEF IInv, CallerSupport
  <2>2. QED
    BY <1>n, <1>q, <2>1, Alone
<1>i. ~InMap(p, SessionOf(u0))
  <2>1. \A v \in userMap[p] : v \in Users
    BY <1>f DEF Fields
  <2>2. QED
    BY <1>m, <1>n, <2>1, UserFacts DEF InMap
<1>u. /\ pc' = [pc EXCEPT ![p] = "enter"] /\ who' = [who EXCEPT ![p] = s0]
      /\ made' = [made EXCEPT ![s0] = 1] /\ uPipe' = [uPipe EXCEPT ![u0] = p]
      /\ userMap' = [userMap EXCEPT ![p] = userMap[p] \cup {u0}]
      /\ joinQ' = Rest(joinQ, p)
      /\ UNCHANGED <<status, refs, receiving, cur, dest, moving, uMoving, leaveQ, moveInQ,
                     moveOutQ, code, user, to, asked>>
  <2> DEFINE u1 == <<s0, made[s0] + 1>>
  <2>1. u1 = u0 /\ made[s0] + 1 = 1
    BY <1>m
  <2>2. /\ made' = [made EXCEPT ![s0] = made[s0] + 1] /\ uPipe' = [uPipe EXCEPT ![u1] = p]
        /\ Insert(p, u1)
        /\ joinQ' = Rest(joinQ, p)
        /\ UNCHANGED <<status, refs, receiving, cur, dest, moving, uMoving, leaveQ, moveInQ,
                       moveOutQ, code, user, to, asked>>
    BY DEF Join, sessionVars, moveVars
  <2>3. Insert(p, u0)
    BY <2>1, <2>2
  <2>4. /\ pc' = [pc EXCEPT ![p] = "enter"] /\ who' = [who EXCEPT ![p] = s0]
        /\ userMap' = [userMap EXCEPT ![p] = userMap[p] \cup {u0}]
    BY <2>3, <1>i, <1>m DEF Insert, Goto
  <2>5. QED
    BY <2>1, <2>2, <2>4
<1> HIDE DEF s0, u0
<1>j. /\ joinQ' \in [Pipes -> Seq(Sessions)]
      /\ \A r \in Pipes : ElementsOf(joinQ'[r]) = ElementsOf(joinQ[r]) \ {s0}
      /\ \A r \in Pipes : Distinct(joinQ'[r])
  BY <1>q, <1>u, <1>n DEF Queues, Dequeued, s0
<1>v. /\ userMap'[p] = userMap[p] \cup {u0} /\ \A r \in Pipes \ {p} : userMap'[r] = userMap[r]
      /\ uPipe'[u0] = p /\ \A v \in Users \ {u0} : uPipe'[v] = uPipe[v]
      /\ made'[s0] = 1 /\ \A s \in Sessions \ {s0} : made'[s] = made[s]
  BY <1>f, <1>m, <1>q, <1>u DEF Fields
<1>1. Fields'
  <2>1. pc' \in [Threads -> Pcs] /\ who' \in [Threads -> Sessions \cup {None}]
    BY <1>f, <1>q, <1>u DEF Fields, Pcs, PipePcs
  <2>2. made' \in [Sessions -> 0..MaxIDMoves]
    <3>1. made \in [Sessions -> 0..MaxIDMoves] /\ 1 \in 0..MaxIDMoves
      BY <1>f DEF Fields, OneEntry
    <3>2. made' = [made EXCEPT ![s0] = 1]
      BY <1>u
    <3>3. QED
      BY <3>1, <3>2
  <2>3. uPipe' \in [Users -> Pipes \cup {None}] /\ userMap' \in [Pipes -> SUBSET Users]
    <3>1. u0 \in Users
      BY <1>m
    <3>2. QED
      BY <1>f, <1>u, <3>1 DEF Fields
  <2>4. QED
    BY <1>f, <1>u, <1>j, <2>1, <2>2, <2>3 DEF Fields
<1>stay. \A r \in Threads \ {p} : SameThread(r)
  BY <1>f, <1>u DEF SameThread, Fields
<1>same. \A s \in Sessions \ {s0} : SameSession(s)
  BY <1>u, <1>v DEF SameSession
<1>2. RefsExact'
  <2> SUFFICES ASSUME NEW s \in Sessions
               PROVE  refs'[s] = Moves(s)' + (IF receiving'[s] THEN 1 ELSE 0)
    BY DEF RefsExact
  <2>1. CallersOf(s)' = CallersOf(s) /\ UsersOf(s)' = UsersOf(s)
    BY <1>f, <1>u, <1>stay DEF CallersOf, UsersOf, SameThread, Threads
  <2>2. refs[s] = Moves(s) + (IF receiving[s] THEN 1 ELSE 0)
    BY DEF IInv, RefsExact
  <2>3. CASE s # s0
    <3>1. PipesOf(s)' = PipesOf(s)
      BY <2>3, <1>f, <1>u, PipesAssumption DEF PipesOf, Threads, Fields
    <3>2. JoinsOf(s)' = JoinsOf(s)
      BY <2>3, <1>j DEF JoinsOf
    <3>3. QED
      BY <2>1, <2>2, <3>1, <3>2, <1>u, MovesSame
  <2>4. CASE s = s0
    <3>1. PipesOf(s)' = PipesOf(s) \cup {p} /\ p \notin PipesOf(s)
      BY <2>4, <1>f, <1>u DEF PipesOf, Threads, Fields, MovePcs
    <3>2. JoinsOf(s)' = JoinsOf(s) \ {p} /\ p \in JoinsOf(s)
      BY <2>4, <1>j, <1>n, <1>q DEF JoinsOf
    <3>3. Cardinality(PipesOf(s)') = Cardinality(PipesOf(s)) + 1
      BY <3>1, Counting DEF PipesOf
    <3>4. Cardinality(JoinsOf(s)') = Cardinality(JoinsOf(s)) - 1
      BY <3>2, Counting DEF JoinsOf
    <3>5. Moves(s)' = Moves(s)
      BY <2>1, <3>3, <3>4, Counts, CountsPrime
    <3>6. QED
      BY <2>2, <3>5, <1>u
  <2>5. QED
    BY <2>3, <2>4
<1>3. ASSUME NEW r \in Callers PROVE  CallerSupport(r)'
  <2>1. CallerSupport(r) /\ SameThread(r) /\ (pc[r] # "idle" => who[r] \in Sessions /\ who[r] # s0)
    BY <1>f, <1>stay, <1>e DEF IInv, Threads, CallerSupport
  <2>2. \A d \in Callers : who'[d] = who[d]
    BY <1>f, <1>u DEF Fields, Threads
  <2>3. QED
    BY <2>1, <2>2, <1>same, <1>u, <1>j, CallerBystander
<1>4. ASSUME NEW r \in Pipes PROVE  PipeSupport(r)'
  <2>1. CASE r # p
    <3>1. PipeSupport(r) /\ SameThread(r) /\ (\A s \in Sessions : OnIt(r, s) => s # s0)
      BY <1>f, <1>stay, <2>1, <1>e DEF IInv, Threads
    <3>2. QED
      BY <3>1, <2>1, <1>f, <1>same, <1>u, <1>v, PipeBystander
  <2>2. CASE r = p
    <3>1. pc'[p] = "enter" /\ who'[p] = s0 /\ user'[p] = None
      BY <1>f, <1>u DEF Fields
    <3>2. u0 \in userMap'[p] /\ u0 = TheUser(s0)
      BY <1>v DEF u0
    <3>3. QED
      BY <1>f, <1>m, <1>q, <1>u, <2>2, <3>1, <3>2 DEF PipeSupport, MovePcs, PipePcs
  <2>3. QED
    BY <2>1, <2>2
<1>5. ASSUME NEW r \in Pipes PROVE  QueueSupport(r)'
  <2>1. QueueSupport(r)
    BY DEF IInv
  <2>2. /\ ElementsOf(joinQ[r]) \cup ElementsOf(leaveQ[r]) \subseteq Sessions
        /\ ElementsOf(moveInQ[r]) \cup ElementsOf(moveOutQ[r]) \cup userMap[r] \subseteq Users
    BY <1>f DEF Fields, ElementsOf
  <2>3. \A v \in Users : v # u0 => SessionOf(v) # s0 /\ SessionOf(v) \in Sessions
    BY UserFacts DEF u0
  <2>4. \A s \in ElementsOf(joinQ'[r]) :
          status[s] = "on" /\ asked[s] = 1 /\ made'[s] = 0 /\ moving[s] /\ dest[s] = r
    BY <1>j, <1>v, <2>1, <2>2 DEF QueueSupport
  <2>5. \A u \in ElementsOf(moveInQ[r]) :
          /\ made'[SessionOf(u)] = 1 /\ status[SessionOf(u)] = "on"
          /\ moving[SessionOf(u)] /\ uMoving[u] /\ dest[SessionOf(u)] = r
          /\ \A q \in Pipes : u \notin userMap'[q]
          /\ uPipe'[u] \in Pipes /\ CodeOf[r] # CodeOf[uPipe'[u]] /\ cur[SessionOf(u)] = uPipe'[u]
    BY <1>n, <1>v, <2>1, <2>2, <2>3 DEF QueueSupport
  <2>6. \A u \in ElementsOf(moveOutQ[r]) :
          /\ u \in userMap'[r] /\ status[SessionOf(u)] = "on"
          /\ moving[SessionOf(u)] /\ uMoving[u] /\ cur[SessionOf(u)] = r
          /\ dest[SessionOf(u)] \in Pipes /\ CodeOf[dest[SessionOf(u)]] # CodeOf[r]
    BY <1>v, <2>1 DEF QueueSupport
  <2>7. (pc'[r] = "enter" /\ who'[r] = s0) \/ r # p
    BY <1>f, <1>u DEF Fields
  <2>8. r # p => pc'[r] = pc[r] /\ who'[r] = who[r]
    BY <1>f, <1>u DEF Fields, Threads
  <2>9. \A u \in userMap'[r] :
          /\ made'[SessionOf(u)] = 1 /\ uPipe'[u] = r
          /\ status[SessionOf(u)] \in {"on", "released"}
          /\ cur[SessionOf(u)] = r \/ (pc'[r] = "enter" /\ who'[r] = SessionOf(u))
    <3>1. ASSUME NEW u \in userMap'[r], u = u0 PROVE  r = p
      BY <3>1, <1>n, <1>v
    <3>2. ASSUME NEW u \in userMap'[r], u # u0
          PROVE  /\ u \in userMap[r] /\ u \in Users
                 /\ made'[SessionOf(u)] = made[SessionOf(u)] /\ uPipe'[u] = uPipe[u]
      BY <3>2, <1>v, <2>2, <2>3
    <3>3. ASSUME NEW u \in userMap'[r], u # u0
          PROVE  cur[SessionOf(u)] = r \/ (pc'[r] = "enter" /\ who'[r] = SessionOf(u))
      BY <3>2, <3>3, <2>1, <2>8, <1>f DEF QueueSupport
    <3>4. QED
      BY <3>1, <3>2, <3>3, <1>m, <1>v, <2>1, <2>7 DEF QueueSupport
  <2>10. QED
    BY <1>u, <1>j, <2>1, <2>4, <2>5, <2>6, <2>9 DEF QueueSupport
<1>6. ASSUME NEW s \in Sessions PROVE  SessionSupport(s)'
  <2>1. SessionSupport(s)
    BY DEF IInv
  <2>2. CASE s # s0
    <3>1. MoveInHand(s) => MoveInHand(s)'
      BY <1>f, <1>u, <1>stay, <1>j, <2>2 DEF MoveInHand, SameThread
    <3>2. made'[s] = made[s] /\ \A r \in Pipes : userMap[r] \subseteq userMap'[r]
      BY <1>v, <2>2
    <3>3. cur[s] \in Pipes \cup {None}
      BY <1>f DEF Fields
    <3>4. QED
      BY <1>u, <2>1, <3>1, <3>2, <3>3 DEF SessionSupport
  <2>3. CASE s = s0
    <3>1. MoveInHand(s)'
      BY <1>f, <1>u, <2>3 DEF MoveInHand, Fields
    <3>2. made'[s] = 1 /\ TheUser(s) \in userMap'[p]
      BY <1>v, <2>3 DEF u0
    <3>3. QED
      BY <1>u, <1>m, <2>1, <2>3, <3>1, <3>2 DEF SessionSupport
  <2>4. QED
    BY <2>2, <2>3
<1>7. QED
  BY <1>1, <1>2, <1>3, <1>4, <1>5, <1>6 DEF IInv

LEMMA MoveInKeepsInv ==
  ASSUME OneEntry, IInv, NEW p \in Pipes, MoveIn(p)
  PROVE  IInv'
<1> USE ThreadsAssumption, PipesAssumption
<1> DEFINE u0 == Head(moveInQ[p])
<1> DEFINE s0 == SessionOf(u0)
<1>f. /\ Fields /\ p \in Threads /\ p \notin Callers /\ pc[p] = "in" /\ moveInQ[p] # <<>>
      /\ who[p] = None /\ user[p] = None
  BY DEF IInv, Threads, MoveIn, At, PipeSupport
<1>q. /\ u0 \in Users /\ u0 \in ElementsOf(moveInQ[p])
      /\ Rest(moveInQ, p) \in Queues(Users) /\ Dequeued(Rest(moveInQ, p), moveInQ, p)
  <2>1. moveInQ \in Queues(Users) /\ \A r \in Pipes : Distinct(moveInQ[r])
    BY <1>f DEF Fields, IInv, QueueSupport, Queues
  <2>2. QED
    BY <2>1, <1>f, RestFacts
<1>m. /\ s0 \in Sessions /\ u0 = TheUser(s0)
      /\ status[s0] = "on" /\ made[s0] = 1 /\ moving[s0] /\ uMoving[u0] /\ dest[s0] = p
      /\ \A r \in Pipes : u0 \notin userMap[r]
      /\ cur[s0] # p
  BY <1>q, UserFacts DEF IInv, QueueSupport
<1>n. /\ \A r \in Pipes : u0 \notin ElementsOf(moveOutQ[r])
      /\ \A r \in Pipes \ {p} : u0 \notin ElementsOf(moveInQ[r])
  BY <1>m DEF IInv, QueueSupport
<1>e. /\ \A r \in Pipes : ~OnIt(r, s0)
      /\ \A c \in Callers : who[c] # s0
  <2>1. ASSUME NEW c \in Callers PROVE  who[c] # s0
    BY <1>m DEF IInv, CallerSupport
  <2>2. QED
    BY <1>m, <2>1, Alone
<1>i. ~InMap(p, SessionOf(u0))
  <2>1. \A v \in userMap[p] : v \in Users
    BY <1>f DEF Fields
  <2>2. QED
    BY <1>m, <2>1, UserFacts DEF InMap
<1>u. /\ pc' = [pc EXCEPT ![p] = "enter"] /\ who' = [who EXCEPT ![p] = s0]
      /\ user' = [user EXCEPT ![p] = u0] /\ uPipe' = [uPipe EXCEPT ![u0] = p]
      /\ userMap' = [userMap EXCEPT ![p] = userMap[p] \cup {u0}]
      /\ moveInQ' = Rest(moveInQ, p)
      /\ UNCHANGED <<status, refs, receiving, cur, dest, moving, made, uMoving, leaveQ, joinQ,
                     moveOutQ, code, to, asked>>
  BY <1>i DEF MoveIn, Insert, Goto, sessionVars, moveVars
<1> HIDE DEF s0, u0
<1>j. /\ moveInQ' \in [Pipes -> Seq(Users)]
      /\ \A r \in Pipes : ElementsOf(moveInQ'[r]) = ElementsOf(moveInQ[r]) \ {u0}
      /\ \A r \in Pipes : Distinct(moveInQ'[r])
  BY <1>q, <1>u, <1>n DEF Queues, Dequeued, u0
<1>v. /\ userMap'[p] = userMap[p] \cup {u0} /\ \A r \in Pipes \ {p} : userMap'[r] = userMap[r]
      /\ uPipe'[u0] = p /\ \A v \in Users \ {u0} : uPipe'[v] = uPipe[v]
  BY <1>f, <1>m, <1>q, <1>u DEF Fields
<1>1. Fields'
  <2>1. /\ pc' \in [Threads -> Pcs] /\ who' \in [Threads -> Sessions \cup {None}]
        /\ user' \in [Threads -> Users \cup {None}]
    BY <1>f, <1>m, <1>q, <1>u DEF Fields, Pcs, PipePcs
  <2>2. uPipe' \in [Users -> Pipes \cup {None}] /\ userMap' \in [Pipes -> SUBSET Users]
    BY <1>f, <1>q, <1>u DEF Fields
  <2>3. QED
    BY <1>f, <1>u, <1>j, <2>1, <2>2 DEF Fields
<1>stay. \A r \in Threads \ {p} : SameThread(r)
  BY <1>f, <1>u DEF SameThread, Fields
<1>same. \A s \in Sessions : SameSession(s)
  BY <1>u DEF SameSession
<1>2. RefsExact'
  <2> SUFFICES ASSUME NEW s \in Sessions
               PROVE  refs'[s] = Moves(s)' + (IF receiving'[s] THEN 1 ELSE 0)
    BY DEF RefsExact
  <2>1. CallersOf(s)' = CallersOf(s) /\ JoinsOf(s)' = JoinsOf(s)
    BY <1>f, <1>u, <1>stay DEF CallersOf, JoinsOf, SameThread, Threads
  <2>2. refs[s] = Moves(s) + (IF receiving[s] THEN 1 ELSE 0)
    BY DEF IInv, RefsExact
  <2>3. CASE s # s0
    <3>1. PipesOf(s)' = PipesOf(s)
      BY <2>3, <1>f, <1>u DEF PipesOf, Threads, Fields
    <3>2. UsersOf(s)' = UsersOf(s)
      BY <2>3, <1>j, <1>u DEF UsersOf, s0
    <3>3. QED
      BY <2>1, <2>2, <3>1, <3>2, <1>u, MovesSame
  <2>4. CASE s = s0
    <3>1. PipesOf(s)' = PipesOf(s) \cup {p} /\ p \notin PipesOf(s)
      BY <2>4, <1>f, <1>u DEF PipesOf, Threads, Fields, MovePcs
    <3>2. UsersOf(s)' = UsersOf(s) \ {u0} /\ u0 \in UsersOf(s)
      BY <2>4, <1>j, <1>n, <1>q, <1>u DEF UsersOf, s0
    <3>3. Cardinality(PipesOf(s)') = Cardinality(PipesOf(s)) + 1
      BY <3>1, Counting DEF PipesOf
    <3>4. Cardinality(UsersOf(s)') = Cardinality(UsersOf(s)) - 1
      BY <3>2, Counting DEF UsersOf
    <3>5. Moves(s)' = Moves(s)
      BY <2>1, <3>3, <3>4, Counts, CountsPrime
    <3>6. QED
      BY <2>2, <3>5, <1>u
  <2>5. QED
    BY <2>3, <2>4
<1>3. ASSUME NEW r \in Callers PROVE  CallerSupport(r)'
  <2>1. CallerSupport(r) /\ SameThread(r) /\ (pc[r] # "idle" => who[r] \in Sessions)
    BY <1>f, <1>stay DEF IInv, Threads, CallerSupport
  <2>2. \A d \in Callers : who'[d] = who[d]
    BY <1>f, <1>u DEF Fields, Threads
  <2>3. QED
    BY <2>1, <2>2, <1>same, <1>u, CallerBystander
<1>4. ASSUME NEW r \in Pipes PROVE  PipeSupport(r)'
  <2>1. CASE r # p
    <3>1. PipeSupport(r) /\ SameThread(r)
      BY <1>f, <1>stay, <2>1 DEF IInv, Threads
    <3>2. QED
      BY <3>1, <2>1, <1>f, <1>same, <1>u, <1>v, PipeBystander
  <2>2. CASE r = p
    <3>1. pc'[p] = "enter" /\ who'[p] = s0 /\ user'[p] = u0 /\ u0 # None
      BY <1>f, <1>q, <1>u DEF Fields
    <3>2. u0 \in userMap'[p] /\ u0 = TheUser(s0)
      BY <1>v, <1>m
    <3>3. QED
      BY <1>f, <1>m, <1>q, <1>u, <2>2, <3>1, <3>2 DEF PipeSupport, MovePcs, PipePcs
  <2>3. QED
    BY <2>1, <2>2
<1>5. ASSUME NEW r \in Pipes PROVE  QueueSupport(r)'
  <2>1. QueueSupport(r)
    BY DEF IInv
  <2>2. ElementsOf(moveInQ[r]) \cup ElementsOf(moveOutQ[r]) \cup userMap[r] \subseteq Users
    BY <1>f DEF Fields, ElementsOf
  <2>5. \A u \in ElementsOf(moveInQ'[r]) :
          /\ made[SessionOf(u)] = 1 /\ status[SessionOf(u)] = "on"
          /\ moving[SessionOf(u)] /\ uMoving[u] /\ dest[SessionOf(u)] = r
          /\ \A q \in Pipes : u \notin userMap'[q]
          /\ uPipe'[u] \in Pipes /\ CodeOf[r] # CodeOf[uPipe'[u]] /\ cur[SessionOf(u)] = uPipe'[u]
    <3> SUFFICES ASSUME NEW u \in ElementsOf(moveInQ'[r])
                 PROVE  /\ made[SessionOf(u)] = 1 /\ status[SessionOf(u)] = "on"
                        /\ moving[SessionOf(u)] /\ uMoving[u] /\ dest[SessionOf(u)] = r
                        /\ \A q \in Pipes : u \notin userMap'[q]
                        /\ uPipe'[u] \in Pipes /\ CodeOf[r] # CodeOf[uPipe'[u]]
                        /\ cur[SessionOf(u)] = uPipe'[u]
      OBVIOUS
    <3>1. u \in ElementsOf(moveInQ[r]) /\ u \in Users /\ u # u0 /\ uPipe'[u] = uPipe[u]
      BY <1>j, <1>v, <2>2
    <3>2. \A q \in Pipes : u \notin userMap[q]
      BY <3>1, <2>1 DEF QueueSupport
    <3>3. \A q \in Pipes : u \notin userMap'[q]
      BY <1>v, <3>1, <3>2
    <3>4. QED
      BY <3>1, <3>3, <2>1 DEF QueueSupport
  <2>6. \A u \in ElementsOf(moveOutQ[r]) :
          /\ u \in userMap'[r] /\ status[SessionOf(u)] = "on"
          /\ moving[SessionOf(u)] /\ uMoving[u] /\ cur[SessionOf(u)] = r
          /\ dest[SessionOf(u)] \in Pipes /\ CodeOf[dest[SessionOf(u)]] # CodeOf[r]
    BY <1>v, <2>1 DEF QueueSupport
  <2>7. (pc'[r] = "enter" /\ who'[r] = s0) \/ r # p
    BY <1>f, <1>u DEF Fields
  <2>8. r # p => pc'[r] = pc[r] /\ who'[r] = who[r]
    BY <1>f, <1>u DEF Fields, Threads
  <2>9. \A u \in userMap'[r] :
          /\ made[SessionOf(u)] = 1 /\ uPipe'[u] = r
          /\ status[SessionOf(u)] \in {"on", "released"}
          /\ cur[SessionOf(u)] = r \/ (pc'[r] = "enter" /\ who'[r] = SessionOf(u))
    <3>1. ASSUME NEW u \in userMap'[r], u = u0 PROVE  r = p
      BY <3>1, <1>m, <1>v
    <3>2. ASSUME NEW u \in userMap'[r], u # u0
          PROVE  u \in userMap[r] /\ u \in Users /\ uPipe'[u] = uPipe[u]
      BY <3>2, <1>v, <2>2
    <3>3. ASSUME NEW u \in userMap'[r], u # u0
          PROVE  cur[SessionOf(u)] = r \/ (pc'[r] = "enter" /\ who'[r] = SessionOf(u))
      BY <3>2, <3>3, <2>1, <2>8, <1>f DEF QueueSupport
    <3>4. QED
      BY <3>1, <3>2, <3>3, <1>m, <1>v, <2>1, <2>7 DEF QueueSupport, s0
  <2>10. QED
    BY <1>u, <1>j, <2>1, <2>5, <2>6, <2>9 DEF QueueSupport
<1>6. ASSUME NEW s \in Sessions PROVE  SessionSupport(s)'
  <2>1. SessionSupport(s) /\ cur[s] \in Pipes \cup {None}
    BY <1>f DEF IInv, Fields
  <2>g. \A r \in Pipes : userMap[r] \subseteq userMap'[r]
    BY <1>v
  <2>2. CASE s # s0
    <3>1. TheUser(s) # u0
      BY <1>q, <2>2, UserFacts DEF s0
    <3>2. MoveInHand(s) => MoveInHand(s)'
      BY <1>f, <1>u, <1>stay, <1>j, <3>1 DEF MoveInHand, SameThread
    <3>3. made[s] = 1 /\ status[s] # "gone" =>
            \E r \in Pipes : TheUser(s) \in userMap'[r] \cup ElementsOf(moveInQ'[r])
      BY <1>j, <2>1, <2>g, <3>1 DEF SessionSupport
    <3>4. QED
      BY <1>u, <2>1, <2>g, <3>2, <3>3 DEF SessionSupport
  <2>3. CASE s = s0
    <3>1. MoveInHand(s)'
      BY <1>f, <1>u, <2>3 DEF MoveInHand, Fields
    <3>2. TheUser(s) \in userMap'[p]
      BY <1>v, <1>m, <2>3
    <3>3. QED
      BY <1>u, <1>m, <2>1, <2>3, <3>1, <3>2 DEF SessionSupport
  <2>4. QED
    BY <2>2, <2>3
<1>7. QED
  BY <1>1, <1>2, <1>3, <1>4, <1>5, <1>6 DEF IInv

-----------------------------------------------------------------------------
(* Users leave a pipe.                                                     *)

LEMMA MoveOutKeepsInv ==
  ASSUME OneEntry, IInv, NEW p \in Pipes, MoveOut(p)
  PROVE  IInv'
<1> USE ThreadsAssumption, PipesAssumption
<1> DEFINE u0 == Head(moveOutQ[p])
<1> DEFINE s0 == SessionOf(u0)
<1> DEFINE d0 == dest[s0]
<1>f. /\ Fields /\ p \in Threads /\ p \notin Callers /\ pc[p] = "out" /\ moveOutQ[p] # <<>>
      /\ who[p] = None /\ user[p] = None
  BY DEF IInv, Threads, MoveOut, At, PipeSupport
<1>q. /\ u0 \in Users /\ u0 \in ElementsOf(moveOutQ[p])
      /\ Rest(moveOutQ, p) \in Queues(Users) /\ Dequeued(Rest(moveOutQ, p), moveOutQ, p)
  <2>1. moveOutQ \in Queues(Users) /\ \A r \in Pipes : Distinct(moveOutQ[r])
    BY <1>f DEF Fields, IInv, QueueSupport, Queues
  <2>2. QED
    BY <2>1, <1>f, RestFacts
<1>m. /\ s0 \in Sessions /\ u0 = TheUser(s0)
      /\ u0 \in userMap[p] /\ uPipe[u0] = p /\ made[s0] = 1
      /\ status[s0] = "on" /\ moving[s0] /\ uMoving[u0] /\ cur[s0] = p
      /\ d0 \in Pipes /\ CodeOf[d0] # CodeOf[p]
  BY <1>q, UserFacts DEF IInv, QueueSupport
<1>n. /\ \A r \in Pipes : u0 \notin ElementsOf(moveInQ[r])
      /\ \A r \in Pipes \ {p} : u0 \notin ElementsOf(moveOutQ[r]) /\ u0 \notin userMap[r]
  BY <1>m, Alone DEF IInv, QueueSupport
<1>e. \A r \in Pipes : ~OnIt(r, s0)
  <2>1. ~OnIt(p, s0)
    BY <1>f, <1>m, <1>q DEF OnIt
  <2>2. QED
    BY <1>m, <1>n, <2>1, Alone
<1>p. /\ Put(moveInQ, d0, u0) \in Queues(Users)
      /\ Queued(Put(moveInQ, d0, u0), moveInQ, d0, u0)
  <2>1. moveInQ \in Queues(Users) /\ \A r \in Pipes : Distinct(moveInQ[r])
    BY <1>f DEF Fields, IInv, QueueSupport, Queues
  <2>2. QED
    BY <1>m, <1>n, <1>q, <2>1, PutUser
<1>u. /\ userMap' = [userMap EXCEPT ![p] = {v \in userMap[p] : SessionOf(v) # s0}]
      /\ moveOutQ' = Rest(moveOutQ, p) /\ moveInQ' = Put(moveInQ, d0, u0)
      /\ UNCHANGED <<status, refs, receiving, cur, dest, moving, made, uPipe, uMoving, leaveQ,
                     joinQ, pc, who, code, user, to, asked>>
  <2>1. InMap(p, s0) /\ d0 # None
    BY <1>m DEF InMap
  <2>2. QED
    BY <2>1 DEF MoveOut, sessionVars, moveVars, userVars
<1> HIDE DEF s0, u0, d0
<1>j. /\ moveInQ' \in [Pipes -> Seq(Users)] /\ moveOutQ' \in [Pipes -> Seq(Users)]
      /\ \A r \in Pipes : ElementsOf(moveOutQ'[r]) = ElementsOf(moveOutQ[r]) \ {u0}
      /\ \A r \in Pipes : ElementsOf(moveInQ'[r])
           = IF r = d0 THEN ElementsOf(moveInQ[r]) \cup {u0} ELSE ElementsOf(moveInQ[r])
      /\ \A r \in Pipes : Distinct(moveInQ'[r]) /\ Distinct(moveOutQ'[r])
  <2>1. /\ moveOutQ' \in [Pipes -> Seq(Users)] /\ \A r \in Pipes : Distinct(moveOutQ'[r])
        /\ \A r \in Pipes : ElementsOf(moveOutQ'[r]) = ElementsOf(moveOutQ[r]) \ {u0}
    BY <1>q, <1>u, <1>n DEF Queues, Dequeued, u0
  <2>2. /\ moveInQ' \in [Pipes -> Seq(Users)] /\ \A r \in Pipes : Distinct(moveInQ'[r])
        /\ \A r \in Pipes : ElementsOf(moveInQ'[r])
             = IF r = d0 THEN ElementsOf(moveInQ[r]) \cup {u0} ELSE ElementsOf(moveInQ[r])
    BY <1>p, <1>u DEF Queues, Queued
  <2>3. QED
    BY <2>1, <2>2
<1>v. \A r \in Pipes : userMap'[r] = userMap[r] \ {u0}
  <2>1. {v \in userMap[p] : SessionOf(v) # s0} = userMap[p] \ {u0}
    <3>1. \A v \in userMap[p] : v \in Users
      BY <1>f DEF Fields
    <3>2. \A v \in Users : SessionOf(v) # s0 <=> v # u0
      BY <1>m, <1>q, UserFacts DEF s0
    <3>3. QED
      BY <3>1, <3>2
  <2>2. QED
    BY <1>f, <1>n, <1>u, <2>1 DEF Fields
<1>1. Fields'
  <2>1. userMap' \in [Pipes -> SUBSET Users]
    BY <1>f, <1>u DEF Fields
  <2>2. QED
    BY <1>f, <1>u, <1>j, <2>1 DEF Fields
<1>stay. \A r \in Threads : SameThread(r)
  BY <1>u DEF SameThread
<1>same. \A s \in Sessions : SameSession(s)
  BY <1>u DEF SameSession
<1>2. RefsExact'
  <2>1. ASSUME NEW s \in Sessions
        PROVE  /\ CallersOf(s)' = CallersOf(s) /\ PipesOf(s)' = PipesOf(s)
               /\ JoinsOf(s)' = JoinsOf(s) /\ UsersOf(s)' = UsersOf(s)
    <3>1. ASSUME NEW u \in Users
          PROVE  (\E r \in Pipes : u \in ElementsOf(moveInQ'[r]) \cup ElementsOf(moveOutQ'[r]))
                   <=> (\E r \in Pipes : u \in ElementsOf(moveInQ[r]) \cup ElementsOf(moveOutQ[r]))
      <4>1. CASE u = u0
        <5>1. d0 \in Pipes /\ u0 \in ElementsOf(moveOutQ[p])
          BY <1>m, <1>q
        <5>2. u0 \in ElementsOf(moveInQ'[d0])
          BY <5>1, <1>j
        <5>3. QED
          BY <4>1, <5>1, <5>2
      <4>2. CASE u # u0
        <5>1. \A r \in Pipes : /\ u \in ElementsOf(moveInQ'[r]) <=> u \in ElementsOf(moveInQ[r])
                               /\ u \in ElementsOf(moveOutQ'[r]) <=> u \in ElementsOf(moveOutQ[r])
          <6> TAKE r \in Pipes
          <6>1. ElementsOf(moveOutQ'[r]) = ElementsOf(moveOutQ[r]) \ {u0}
            BY <1>j
          <6>2. \/ ElementsOf(moveInQ'[r]) = ElementsOf(moveInQ[r]) \cup {u0}
                \/ ElementsOf(moveInQ'[r]) = ElementsOf(moveInQ[r])
            BY <1>j
          <6>3. QED
            BY <4>2, <6>1, <6>2
        <5>2. QED
          BY <5>1
      <4>3. QED
        BY <4>1, <4>2
    <3>2. UsersOf(s)' = UsersOf(s)
      BY <3>1 DEF UsersOf
    <3>3. QED
      BY <1>u, <3>2 DEF CallersOf, PipesOf, JoinsOf
  <2>2. QED
    BY <1>u, <2>1, RefsSame DEF IInv
<1>3. ASSUME NEW r \in Callers PROVE  CallerSupport(r)'
  <2>1. CallerSupport(r) /\ SameThread(r) /\ (pc[r] # "idle" => who[r] \in Sessions)
    BY <1>f, <1>stay DEF IInv, Threads, CallerSupport
  <2>2. QED
    BY <2>1, <1>same, <1>u, CallerBystander
<1>4. ASSUME NEW r \in Pipes PROVE  PipeSupport(r)'
  <2>1. PipeSupport(r) /\ SameThread(r)
    BY <1>f, <1>stay DEF IInv, Threads
  <2>2. ASSUME NEW s \in Sessions, OnIt(r, s) PROVE  TheUser(s) # u0
    BY <2>2, <1>e, <1>m, UserFacts
  <2>3. QED
    BY <2>1, <2>2, <1>f, <1>same, <1>u, <1>v, <1>j, PipeBystander
<1>5. ASSUME NEW r \in Pipes PROVE  QueueSupport(r)'
  <2>1. QueueSupport(r)
    BY DEF IInv
  <2>2. ASSUME NEW u \in ElementsOf(moveInQ'[r])
        PROVE  /\ made[SessionOf(u)] = 1 /\ status[SessionOf(u)] = "on"
               /\ moving[SessionOf(u)] /\ uMoving[u] /\ dest[SessionOf(u)] = r
               /\ \A q \in Pipes : u \notin userMap'[q]
               /\ uPipe[u] \in Pipes /\ CodeOf[r] # CodeOf[uPipe[u]] /\ cur[SessionOf(u)] = uPipe[u]
    <3>1. CASE u = u0
      <4>1. r = d0
        BY <3>1, <1>j, <1>n
      <4>2. QED
        BY <3>1, <4>1, <1>m, <1>v DEF s0, d0
    <3>2. CASE u # u0
      <4>1. u \in ElementsOf(moveInQ[r])
        BY <3>2, <1>j
      <4>2. QED
        BY <4>1, <1>v, <2>1 DEF QueueSupport
    <3>3. QED
      BY <3>1, <3>2
  <2>3. \A u \in ElementsOf(moveOutQ'[r]) :
          /\ u \in userMap'[r] /\ status[SessionOf(u)] = "on"
          /\ moving[SessionOf(u)] /\ uMoving[u] /\ cur[SessionOf(u)] = r
          /\ dest[SessionOf(u)] \in Pipes /\ CodeOf[dest[SessionOf(u)]] # CodeOf[r]
    BY <1>j, <1>v, <2>1 DEF QueueSupport
  <2>4. \A u \in userMap'[r] : u \in userMap[r]
    BY <1>v
  <2>5. QED
    BY <1>u, <1>j, <2>1, <2>2, <2>3, <2>4 DEF QueueSupport
<1>6. ASSUME NEW s \in Sessions PROVE  SessionSupport(s)'
  <2>1. SessionSupport(s)
    BY DEF IInv
  <2>2. CASE s # s0
    <3>1. TheUser(s) # u0
      BY <1>m, <1>q, <2>2, UserFacts
    <3>2. MoveInHand(s) => MoveInHand(s)'
      <4>1. \A r \in Pipes :
              /\ TheUser(s) \in ElementsOf(moveInQ[r]) => TheUser(s) \in ElementsOf(moveInQ'[r])
              /\ TheUser(s) \in ElementsOf(moveOutQ[r]) => TheUser(s) \in ElementsOf(moveOutQ'[r])
        BY <1>j, <3>1
      <4>2. QED
        BY <1>u, <4>1 DEF MoveInHand
    <3>3. made[s] = 1 /\ status[s] # "gone" =>
            \E r \in Pipes : TheUser(s) \in userMap'[r] \cup ElementsOf(moveInQ'[r])
      BY <1>j, <1>v, <2>1, <3>1, ZenonT(40), ZenonT(40) DEF SessionSupport
    <3>4. status[s] = "released" => cur[s] # None /\ s \in ElementsOf(leaveQ[cur[s]])
                                      /\ TheUser(s) \in userMap'[cur[s]]
      <4>1. cur[s] \in Pipes \cup {None}
        BY <1>f DEF Fields
      <4>2. QED
        BY <4>1, <1>v, <2>1, <3>1 DEF SessionSupport
    <3>5. QED
      BY <1>u, <2>1, <3>2, <3>3, <3>4 DEF SessionSupport
  <2>3. CASE s = s0
    <3>1. MoveInHand(s)' /\ TheUser(s) \in ElementsOf(moveInQ'[d0])
      BY <1>j, <1>m, <2>3 DEF MoveInHand
    <3>2. QED
      BY <1>u, <1>m, <2>1, <2>3, <3>1 DEF SessionSupport
  <2>4. QED
    BY <2>2, <2>3
<1>7. QED
  BY <1>1, <1>2, <1>3, <1>4, <1>5, <1>6 DEF IInv

\* A session nobody holds a reference of is in nobody's hands.
LEMMA NoRefs ==
  ASSUME OneEntry, IInv, NEW s \in Sessions, Moves(s) = 0
  PROVE  /\ CallersOf(s) = {} /\ PipesOf(s) = {} /\ JoinsOf(s) = {} /\ UsersOf(s) = {}
         /\ ~MoveInHand(s) /\ ~moving[s] /\ dest[s] = None
         /\ \A r \in Pipes : OnIt(r, s) => pc[r] = "enduser"
<1> USE PipesAssumption
<1>1. CallersOf(s) = {} /\ PipesOf(s) = {} /\ JoinsOf(s) = {} /\ UsersOf(s) = {}
  <2>1. /\ Cardinality(CallersOf(s)) = 0 /\ Cardinality(PipesOf(s)) = 0
        /\ Cardinality(JoinsOf(s)) = 0 /\ Cardinality(UsersOf(s)) = 0
    <3> DEFINE a == Cardinality(CallersOf(s))
    <3> DEFINE b == Cardinality(PipesOf(s))
    <3> DEFINE c == Cardinality(JoinsOf(s))
    <3> DEFINE d == Cardinality(UsersOf(s))
    <3>1. a \in Nat /\ b \in Nat /\ c \in Nat /\ d \in Nat /\ Moves(s) = a + b + c + d
      BY Counts
    <3> HIDE DEF a, b, c, d
    <3>2. a = 0 /\ b = 0 /\ c = 0 /\ d = 0
      BY <3>1
    <3>3. QED
      BY <3>2 DEF a, b, c, d
  <2>2. \A A : (A \subseteq Callers \/ A \subseteq Pipes \/ A \subseteq Users) /\ Cardinality(A) = 0
               => A = {}
    <3> SUFFICES ASSUME NEW A, A \subseteq Callers \/ A \subseteq Pipes \/ A \subseteq Users,
                        Cardinality(A) = 0, NEW x \in A
                 PROVE  FALSE
      OBVIOUS
    <3>1. Cardinality(A) >= 1
      BY Counting
    <3>2. QED
      BY <3>1
  <2>3. CallersOf(s) \subseteq Callers /\ PipesOf(s) \subseteq Pipes
        /\ JoinsOf(s) \subseteq Pipes /\ UsersOf(s) \subseteq Users
    BY DEF CallersOf, PipesOf, JoinsOf, UsersOf
  <2>4. QED
    BY <2>1, <2>2, <2>3
<1>2. ~MoveInHand(s)
  <2>1. TheUser(s) \in Users /\ SessionOf(TheUser(s)) = s
    BY UserFacts
  <2>2. QED
    BY <1>1, <2>1 DEF MoveInHand, CallersOf, PipesOf, JoinsOf, UsersOf, Threads, MovePcs
<1>3. ASSUME NEW r \in Pipes, OnIt(r, s) PROVE  pc[r] = "enduser"
  <2>1. PipeSupport(r) /\ (who[r] = s => pc[r] \notin MovePcs \cup {"enter", "endmove", "drop"})
    BY <1>1 DEF IInv, PipesOf
  <2>2. CASE who[r] = s
    BY <2>1, <2>2 DEF PipeSupport, PipePcs
  <2>3. CASE user[r] = TheUser(s) /\ who[r] # s
    BY <2>1, <2>3, UserFacts DEF PipeSupport, PipePcs
  <2>4. QED
    BY <1>3, <2>2, <2>3 DEF OnIt
<1>4. QED
  BY <1>1, <1>2, <1>3 DEF IInv, SessionSupport

LEMMA LeaveKeepsInv ==
  ASSUME OneEntry, IInv, NEW p \in Pipes, Leave(p)
  PROVE  IInv'
<1> USE ThreadsAssumption, PipesAssumption
<1> DEFINE s0 == Head(leaveQ[p])
<1> DEFINE u0 == TheUser(s0)
<1>f. /\ Fields /\ p \in Threads /\ p \notin Callers /\ pc[p] = "leave" /\ leaveQ[p] # <<>>
      /\ who[p] = None /\ user[p] = None
  BY DEF IInv, Threads, Leave, At, PipeSupport
<1>q. /\ s0 \in Sessions /\ s0 \in ElementsOf(leaveQ[p])
      /\ Rest(leaveQ, p) \in Queues(Sessions) /\ Dequeued(Rest(leaveQ, p), leaveQ, p)
  <2>1. leaveQ \in Queues(Sessions) /\ \A r \in Pipes : Distinct(leaveQ[r])
    BY <1>f DEF Fields, IInv, QueueSupport, Queues
  <2>2. QED
    BY <2>1, <1>f, RestFacts
<1>m. /\ status[s0] = "released" /\ cur[s0] = p /\ refs[s0] = 0
      /\ u0 \in Users /\ SessionOf(u0) = s0 /\ u0 \in userMap[p] /\ made[s0] = 1
  <2>1. status[s0] = "released" /\ cur[s0] = p
    BY <1>q DEF IInv, QueueSupport
  <2>2. refs[s0] = 0 /\ u0 \in userMap[p]
    BY <1>q, <2>1 DEF IInv, SessionSupport
  <2>3. u0 \in Users /\ SessionOf(u0) = s0
    BY <1>q, UserFacts
  <2>4. QED
    BY <2>1, <2>2, <2>3 DEF IInv, QueueSupport
<1>z. Moves(s0) = 0
  <2>1. Moves(s0) \in Nat
    BY <1>q, Counts
  <2>2. 0 = Moves(s0) + (IF receiving[s0] THEN 1 ELSE 0)
    BY <1>q, <1>m DEF IInv, RefsExact
  <2>3. QED
    BY <2>1, <2>2
<1>n. /\ \A c \in Callers : who[c] # s0
      /\ \A r \in Pipes : ~OnIt(r, s0)
      /\ \A r \in Pipes : s0 \notin ElementsOf(joinQ[r])
      /\ \A r \in Pipes : u0 \notin ElementsOf(moveInQ[r]) \cup ElementsOf(moveOutQ[r])
      /\ \A r \in Pipes \ {p} : s0 \notin ElementsOf(leaveQ[r]) /\ u0 \notin userMap[r]
      /\ ~moving[s0] /\ dest[s0] = None
  <2>1. /\ CallersOf(s0) = {} /\ JoinsOf(s0) = {} /\ UsersOf(s0) = {}
        /\ ~moving[s0] /\ dest[s0] = None
    BY <1>q, <1>z, NoRefs
  <2>2. \A r \in Pipes : ~OnIt(r, s0)
    <3>1. ~OnIt(p, s0)
      BY <1>f, <1>m, <1>q DEF OnIt
    <3>2. QED
      BY <1>m, <1>q, <3>1, Alone
  <2>3. \A r \in Pipes \ {p} : s0 \notin ElementsOf(leaveQ[r]) /\ u0 \notin userMap[r]
    BY <1>m, Alone DEF IInv, QueueSupport
  <2>4. QED
    BY <1>m, <2>1, <2>2, <2>3 DEF CallersOf, JoinsOf, UsersOf
<1>u. /\ userMap' = [userMap EXCEPT ![p] = {v \in userMap[p] : SessionOf(v) # s0}]
      /\ leaveQ' = Rest(leaveQ, p) /\ status' = [status EXCEPT ![s0] = "gone"]
      /\ cur' = [cur EXCEPT ![s0] = None] /\ dest' = [dest EXCEPT ![s0] = None]
      /\ moving' = [moving EXCEPT ![s0] = FALSE]
      /\ UNCHANGED <<refs, receiving, made, uPipe, uMoving, joinQ, moveInQ, moveOutQ,
                     pc, who, code, user, to, asked>>
  <2>1. InMap(p, s0)
    BY <1>m DEF InMap
  <2>2. QED
    BY <2>1 DEF Leave, userVars
<1> HIDE DEF s0, u0
<1>j. /\ leaveQ' \in [Pipes -> Seq(Sessions)]
      /\ \A r \in Pipes : ElementsOf(leaveQ'[r]) = ElementsOf(leaveQ[r]) \ {s0}
      /\ \A r \in Pipes : Distinct(leaveQ'[r])
  BY <1>q, <1>u, <1>n DEF Queues, Dequeued, s0
<1>v. \A r \in Pipes : userMap'[r] = userMap[r] \ {u0}
  <2>1. {v \in userMap[p] : SessionOf(v) # s0} = userMap[p] \ {u0}
    <3>1. \A v \in userMap[p] : v \in Users
      BY <1>f DEF Fields
    <3>2. \A v \in Users : SessionOf(v) # s0 <=> v # u0
      BY <1>m, <1>q, UserFacts DEF u0
    <3>3. QED
      BY <3>1, <3>2
  <2>2. QED
    BY <1>f, <1>n, <1>u, <2>1 DEF Fields
<1>w. /\ \A s \in Sessions \ {s0} : /\ status'[s] = status[s] /\ cur'[s] = cur[s]
                                    /\ dest'[s] = dest[s] /\ moving'[s] = moving[s]
      /\ status'[s0] = "gone" /\ cur'[s0] = None /\ dest'[s0] = None /\ moving'[s0] = FALSE
  BY <1>f, <1>q, <1>u DEF Fields
<1>1. Fields'
  <2>1. userMap' \in [Pipes -> SUBSET Users]
    BY <1>f, <1>u DEF Fields
  <2>2. /\ status' \in [Sessions -> {"off", "on", "released", "gone"}]
        /\ cur' \in [Sessions -> Pipes \cup {None}] /\ dest' \in [Sessions -> Pipes \cup {None}]
        /\ moving' \in [Sessions -> BOOLEAN]
    BY <1>f, <1>u DEF Fields
  <2>3. QED
    BY <1>f, <1>u, <1>j, <2>1, <2>2 DEF Fields
<1>stay. \A r \in Threads : SameThread(r)
  BY <1>u DEF SameThread
<1>same. \A s \in Sessions \ {s0} : SameSession(s)
  BY <1>u, <1>w DEF SameSession
<1>2. RefsExact'
  BY <1>u, RefsSame DEF IInv, CallersOf, PipesOf, JoinsOf, UsersOf
<1>3. ASSUME NEW r \in Callers PROVE  CallerSupport(r)'
  <2>1. CallerSupport(r) /\ SameThread(r) /\ (pc[r] # "idle" => who[r] \in Sessions /\ who[r] # s0)
    BY <1>f, <1>stay, <1>n DEF IInv, Threads, CallerSupport
  <2>2. QED
    BY <2>1, <1>same, <1>w, <1>u, CallerBystander
<1>4. ASSUME NEW r \in Pipes PROVE  PipeSupport(r)'
  <2>1. PipeSupport(r) /\ SameThread(r)
    BY <1>f, <1>stay DEF IInv, Threads
  <2>2. ASSUME NEW s \in Sessions, OnIt(r, s) PROVE  s # s0 /\ TheUser(s) # u0
    BY <2>2, <1>n, <1>m, UserFacts
  <2>3. QED
    BY <2>1, <2>2, <1>f, <1>same, <1>u, <1>v, <1>w, PipeBystander
<1>5. ASSUME NEW r \in Pipes PROVE  QueueSupport(r)'
  <2>1. QueueSupport(r)
    BY DEF IInv
  <2>2. /\ ElementsOf(joinQ[r]) \cup ElementsOf(leaveQ[r]) \subseteq Sessions
        /\ ElementsOf(moveInQ[r]) \cup ElementsOf(moveOutQ[r]) \cup userMap[r] \subseteq Users
    BY <1>f DEF Fields, ElementsOf
  <2>3. \A v \in Users : v # u0 => SessionOf(v) \in Sessions \ {s0}
    BY UserFacts DEF u0
  <2>4. \A s \in ElementsOf(joinQ[r]) :
          status'[s] = "on" /\ asked[s] = 1 /\ made[s] = 0 /\ moving'[s] /\ dest'[s] = r
    BY <1>n, <1>w, <2>1, <2>2 DEF QueueSupport
  <2>5. \A s \in ElementsOf(leaveQ'[r]) : status'[s] = "released" /\ cur'[s] = r
    BY <1>j, <1>w, <2>1, <2>2 DEF QueueSupport
  <2>6. \A u \in ElementsOf(moveInQ[r]) :
          /\ made[SessionOf(u)] = 1 /\ status'[SessionOf(u)] = "on"
          /\ moving'[SessionOf(u)] /\ uMoving[u] /\ dest'[SessionOf(u)] = r
          /\ \A q \in Pipes : u \notin userMap'[q]
          /\ uPipe[u] \in Pipes /\ CodeOf[r] # CodeOf[uPipe[u]] /\ cur'[SessionOf(u)] = uPipe[u]
    BY <1>n, <1>v, <1>w, <2>1, <2>2, <2>3 DEF QueueSupport
  <2>7. \A u \in ElementsOf(moveOutQ[r]) :
          /\ u \in userMap'[r] /\ status'[SessionOf(u)] = "on"
          /\ moving'[SessionOf(u)] /\ uMoving[u] /\ cur'[SessionOf(u)] = r
          /\ dest'[SessionOf(u)] \in Pipes /\ CodeOf[dest'[SessionOf(u)]] # CodeOf[r]
    BY <1>n, <1>v, <1>w, <2>1, <2>2, <2>3 DEF QueueSupport
  <2>8. \A u \in userMap'[r] :
          /\ made[SessionOf(u)] = 1 /\ uPipe[u] = r
          /\ status'[SessionOf(u)] \in {"on", "released"}
          /\ cur'[SessionOf(u)] = r \/ (pc[r] = "enter" /\ who[r] = SessionOf(u))
    BY <1>v, <1>w, <2>1, <2>2, <2>3 DEF QueueSupport
  <2>9. QED
    BY <1>u, <1>j, <2>1, <2>4, <2>5, <2>6, <2>7, <2>8 DEF QueueSupport
<1>6. ASSUME NEW s \in Sessions PROVE  SessionSupport(s)'
  <2>1. SessionSupport(s) /\ cur[s] \in Pipes \cup {None}
    BY <1>f DEF IInv, Fields
  <2>2. CASE s # s0
    <3>1. TheUser(s) # u0
      BY <1>m, <2>2, UserFacts
    <3>2. MoveInHand(s) => MoveInHand(s)'
      BY <1>u DEF MoveInHand
    <3>3. made[s] = 1 /\ status[s] # "gone" =>
            \E r \in Pipes : TheUser(s) \in userMap'[r] \cup ElementsOf(moveInQ[r])
      BY <1>v, <2>1, <3>1 DEF SessionSupport
    <3>4. status[s] = "released" => cur[s] # None /\ s \in ElementsOf(leaveQ'[cur[s]])
                                      /\ TheUser(s) \in userMap'[cur[s]]
      BY <1>j, <1>v, <2>1, <2>2, <3>1 DEF SessionSupport
    <3>5. QED
      BY <1>u, <1>w, <2>1, <2>2, <3>2, <3>3, <3>4 DEF SessionSupport
  <2>3. CASE s = s0
    BY <1>u, <1>m, <1>w, <2>1, <2>3 DEF SessionSupport
  <2>4. QED
    BY <2>2, <2>3
<1>7. QED
  BY <1>1, <1>2, <1>3, <1>4, <1>5, <1>6 DEF IInv

-----------------------------------------------------------------------------
(* References are dropped.                                                 *)

\* what DropRef does to a session that is not released yet
Dropped(s) ==
  /\ refs' = [refs EXCEPT ![s] = refs[s] - 1]
  /\ status' = [status EXCEPT ![s] = IF refs[s] # 1 THEN "on"
                                     ELSE IF cur[s] # None THEN "released" ELSE "gone"]
  /\ leaveQ' \in [Pipes -> Seq(Sessions)]
  /\ \A r \in Pipes : ElementsOf(leaveQ'[r])
       = IF refs[s] = 1 /\ r = cur[s] THEN ElementsOf(leaveQ[r]) \cup {s} ELSE ElementsOf(leaveQ[r])
  /\ \A r \in Pipes : Distinct(leaveQ'[r])

\* the last reference of a session is that of its receive, or of a pipe in H
LastRef(s, H) ==
  refs[s] = 1 =>
    CallersOf(s) = {} /\ JoinsOf(s) = {} /\ UsersOf(s) = {} /\ PipesOf(s) \subseteq H

LEMMA DropDoes ==
  ASSUME OneEntry, IInv, NEW s \in Sessions, status[s] = "on", DropRef(s)
  PROVE  Dropped(s)
<1>f. Fields /\ refs' = [refs EXCEPT ![s] = refs[s] - 1]
  BY DEF IInv, DropRef
<1>1. CASE refs[s] # 1
  <2>1. status' = status /\ leaveQ' = leaveQ
    BY <1>1 DEF DropRef
  <2>2. \A r \in Pipes : Distinct(leaveQ[r])
    BY DEF IInv, QueueSupport
  <2>3. status = [status EXCEPT ![s] = "on"]
    BY <1>f DEF Fields
  <2>4. QED
    BY <1>f, <1>1, <2>1, <2>2, <2>3 DEF Dropped, Fields
<1>2. CASE refs[s] = 1 /\ cur[s] = None
  <2>1. status' = [status EXCEPT ![s] = "gone"] /\ leaveQ' = leaveQ
    BY <1>2 DEF DropRef
  <2>2. \A r \in Pipes : Distinct(leaveQ[r]) /\ r # cur[s]
    BY <1>2, PipesAssumption DEF IInv, QueueSupport
  <2>3. QED
    BY <1>f, <1>2, <2>1, <2>2 DEF Dropped, Fields
<1>3. CASE refs[s] = 1 /\ cur[s] # None
  <2>1. status' = [status EXCEPT ![s] = "released"] /\ leaveQ' = Put(leaveQ, cur[s], s)
    BY <1>3 DEF DropRef
  <2>2. /\ cur[s] \in Pipes /\ leaveQ \in Queues(Sessions)
        /\ \A r \in Pipes : Distinct(leaveQ[r])
        /\ s \notin ElementsOf(leaveQ[cur[s]])
    BY <1>f, <1>3 DEF IInv, QueueSupport, Fields, Queues
  <2>3. Put(leaveQ, cur[s], s) \in Queues(Sessions) /\ Queued(Put(leaveQ, cur[s], s), leaveQ, cur[s], s)
    BY <2>2, PutSession
  <2>4. QED
    BY <1>f, <1>3, <2>1, <2>3 DEF Dropped, Queued, Queues
<1>4. QED
  BY <1>1, <1>2, <1>3

\* One of the four that hold references has the only one.
LEMMA OneHolder ==
  ASSUME OneEntry, IInv, NEW s \in Sessions, NEW t \in PipesOf(s)
  PROVE  LastRef(s, {t})
<1> SUFFICES ASSUME refs[s] = 1
             PROVE  CallersOf(s) = {} /\ JoinsOf(s) = {} /\ UsersOf(s) = {} /\ PipesOf(s) \subseteq {t}
  BY DEF LastRef
<1> DEFINE a == Cardinality(CallersOf(s))
<1> DEFINE b == Cardinality(PipesOf(s))
<1> DEFINE b1 == Cardinality(PipesOf(s) \ {t})
<1> DEFINE c == Cardinality(JoinsOf(s))
<1> DEFINE d == Cardinality(UsersOf(s))
<1>1. a \in Nat /\ b \in Nat /\ c \in Nat /\ d \in Nat /\ Moves(s) = a + b + c + d
  BY Counts
<1>2. b1 \in Nat /\ b1 = b - 1
  BY Counting DEF PipesOf
<1>3. 1 = Moves(s) + (IF receiving[s] THEN 1 ELSE 0)
  BY DEF IInv, RefsExact
<1>4. CallersOf(s) \subseteq Callers /\ PipesOf(s) \ {t} \subseteq Pipes
      /\ JoinsOf(s) \subseteq Pipes /\ UsersOf(s) \subseteq Users
  BY DEF CallersOf, PipesOf, JoinsOf, UsersOf
<1>5. \A A : (A \subseteq Callers \/ A \subseteq Pipes \/ A \subseteq Users) /\ Cardinality(A) = 0
               => A = {}
  <2> SUFFICES ASSUME NEW A, A \subseteq Callers \/ A \subseteq Pipes \/ A \subseteq Users,
                      Cardinality(A) = 0, NEW x \in A
               PROVE  FALSE
    OBVIOUS
  <2>1. Cardinality(A) >= 1
    BY Counting
  <2>2. QED
    BY <2>1
<1> HIDE DEF a, b, b1, c, d
<1>6. a = 0 /\ b1 = 0 /\ c = 0 /\ d = 0
  BY <1>1, <1>2, <1>3
<1>7. CallersOf(s) = {} /\ PipesOf(s) \ {t} = {} /\ JoinsOf(s) = {} /\ UsersOf(s) = {}
  BY <1>4, <1>5, <1>6 DEF a, b1, c, d
<1>8. QED
  BY <1>7

\* Whoever drops the reference, users, pipes and sessions stay as they should be.
LEMMA DropKeepsPlaces ==
  ASSUME OneEntry, IInv, NEW s0 \in Sessions, status[s0] = "on", Dropped(s0),
         NEW H, \A h \in H : pc[h] \in {"refuse", "drop"}, LastRef(s0, H),
         UNCHANGED <<cur, dest, moving, made, uPipe, uMoving, userMap, joinQ, moveInQ, moveOutQ, asked>>,
         \A r \in Pipes : pc'[r] = "enter" <=> pc[r] = "enter",
         \A r \in Pipes : pc[r] = "enter" => who'[r] = who[r],
         \A s \in Sessions : MoveInHand(s) => MoveInHand(s)'
  PROVE  (\A r \in Pipes : QueueSupport(r)') /\ (\A s \in Sessions : SessionSupport(s)')
<1> USE PipesAssumption
<1>f. Fields /\ refs[s0] \in Nat /\ refs[s0] # 0
  BY DEF IInv, Fields, SessionSupport
<1>u. UNCHANGED <<cur, dest, moving, made, uPipe, uMoving, userMap, joinQ, moveInQ, moveOutQ, asked>>
  OBVIOUS
<1>s. /\ \A s \in Sessions : s # s0 \/ refs[s0] # 1 => status'[s] = status[s]
      /\ refs[s0] = 1 => status'[s0] = IF cur[s0] # None THEN "released" ELSE "gone"
  BY <1>f DEF Dropped, Fields
<1>r. /\ \A s \in Sessions \ {s0} : refs'[s] = refs[s]
      /\ refs'[s0] = refs[s0] - 1
  BY <1>f DEF Dropped, Fields
<1>l. refs[s0] = 1 =>
        /\ ~MoveInHand(s0)
        /\ \A r \in Pipes : /\ s0 \notin ElementsOf(joinQ[r])
                            /\ TheUser(s0) \notin ElementsOf(moveInQ[r]) \cup ElementsOf(moveOutQ[r])
                            /\ ~(pc[r] = "enter" /\ who[r] = s0)
  <2> SUFFICES ASSUME refs[s0] = 1
               PROVE  /\ ~MoveInHand(s0)
                      /\ \A r \in Pipes :
                           /\ s0 \notin ElementsOf(joinQ[r])
                           /\ TheUser(s0) \notin ElementsOf(moveInQ[r]) \cup ElementsOf(moveOutQ[r])
                           /\ ~(pc[r] = "enter" /\ who[r] = s0)
    OBVIOUS
  <2>1. CallersOf(s0) = {} /\ JoinsOf(s0) = {} /\ UsersOf(s0) = {} /\ PipesOf(s0) \subseteq H
    BY DEF LastRef
  <2>2. TheUser(s0) \in Users /\ SessionOf(TheUser(s0)) = s0
    BY UserFacts
  <2>3. \A r \in Pipes : pc[r] \in {"findpipe", "request", "enter", "endmove"} => who[r] # s0
    BY <2>1 DEF PipesOf, MovePcs
  <2>4. \A r \in Callers : who[r] # s0
    BY <2>1 DEF CallersOf
  <2>5. \A r \in Pipes : /\ s0 \notin ElementsOf(joinQ[r])
                         /\ TheUser(s0) \notin ElementsOf(moveInQ[r]) \cup ElementsOf(moveOutQ[r])
    BY <2>1, <2>2 DEF JoinsOf, UsersOf
  <2>6. QED
    BY <2>3, <2>4, <2>5 DEF MoveInHand, Threads
<1>5. ASSUME NEW r \in Pipes PROVE  QueueSupport(r)'
  <2>1. QueueSupport(r)
    BY DEF IInv
  <2>2. /\ ElementsOf(joinQ[r]) \cup ElementsOf(leaveQ[r]) \subseteq Sessions
        /\ ElementsOf(moveInQ[r]) \cup ElementsOf(moveOutQ[r]) \cup userMap[r] \subseteq Users
    BY <1>f DEF Fields, ElementsOf
  <2>3. \A s \in ElementsOf(joinQ[r]) : status'[s] = status[s]
    BY <1>l, <1>s, <2>2
  <2>4. \A u \in ElementsOf(moveInQ[r]) \cup ElementsOf(moveOutQ[r]) :
          status'[SessionOf(u)] = status[SessionOf(u)]
    BY <1>l, <1>s, <2>2, UserFacts
  <2>5. ASSUME NEW s \in ElementsOf(leaveQ'[r])
        PROVE  status'[s] = "released" /\ cur[s] = r
    <3>1. CASE s \in ElementsOf(leaveQ[r])
      BY <3>1, <1>s, <2>1, <2>2 DEF QueueSupport
    <3>2. CASE s \notin ElementsOf(leaveQ[r])
      <4>1. s = s0 /\ refs[s0] = 1 /\ r = cur[s0]
        BY <3>2, <2>5 DEF Dropped
      <4>2. QED
        BY <4>1, <1>s
    <3>3. QED
      BY <3>1, <3>2
  <2>6. ASSUME NEW u \in userMap[r]
        PROVE  status'[SessionOf(u)] \in {"on", "released"}
    <3>1. u \in Users /\ SessionOf(u) \in Sessions
      BY <2>2, UserFacts
    <3>2. CASE SessionOf(u) = s0 /\ refs[s0] = 1
      <4>1. cur[s0] = r
        BY <3>2, <1>l, <2>1 DEF QueueSupport
      <4>2. QED
        BY <3>2, <4>1, <1>s
    <3>3. CASE ~(SessionOf(u) = s0 /\ refs[s0] = 1)
      BY <3>1, <3>3, <1>s, <2>1 DEF QueueSupport
    <3>4. QED
      BY <3>2, <3>3
  <2>7. Distinct(leaveQ'[r])
    BY DEF Dropped
  <2>8. \A u \in userMap[r] : cur[SessionOf(u)] = r \/ (pc'[r] = "enter" /\ who'[r] = SessionOf(u))
    BY <2>1 DEF QueueSupport
  <2>9. QED
    BY <1>u, <2>1, <2>3, <2>4, <2>5, <2>6, <2>7, <2>8 DEF QueueSupport
<1>6. ASSUME NEW s \in Sessions PROVE  SessionSupport(s)'
  <2>1. SessionSupport(s) /\ cur[s] \in Pipes \cup {None} /\ (MoveInHand(s) => MoveInHand(s)')
    BY <1>f DEF IInv, Fields
  <2>2. \A r \in Pipes : ElementsOf(leaveQ[r]) \subseteq ElementsOf(leaveQ'[r])
    BY DEF Dropped
  <2>3. CASE s # s0
    BY <1>u, <1>s, <1>r, <2>1, <2>2, <2>3 DEF SessionSupport
  <2>4. CASE s = s0 /\ refs[s0] # 1
    <3>1. status'[s] = "on" /\ refs'[s] # 0
      BY <1>f, <1>s, <1>r, <2>4
    <3>2. QED
      BY <1>u, <2>1, <2>4, <3>1 DEF SessionSupport
  <2>5. CASE s = s0 /\ refs[s0] = 1
    <3>1. /\ status'[s] = IF cur[s] # None THEN "released" ELSE "gone"
          /\ refs'[s] = 0
      BY <1>s, <1>r, <2>5
    <3>2. ~moving[s] /\ dest[s] = None
      BY <1>l, <2>1, <2>5 DEF SessionSupport
    <3>3. made[s] = 1 /\ status'[s] # "gone" =>
            cur[s] \in Pipes /\ TheUser(s) \in userMap[cur[s]] /\ s \in ElementsOf(leaveQ'[cur[s]])
      <4> SUFFICES ASSUME made[s] = 1, cur[s] # None
                   PROVE  cur[s] \in Pipes /\ TheUser(s) \in userMap[cur[s]] /\ s \in ElementsOf(leaveQ'[cur[s]])
        BY <3>1
      <4>1. PICK r \in Pipes : TheUser(s) \in userMap[r] \cup ElementsOf(moveInQ[r])
        BY <2>1, <2>5 DEF SessionSupport
      <4>2. TheUser(s) \in userMap[r]
        BY <4>1, <1>l, <2>5
      <4>3. cur[s] = r
        <5>1. QueueSupport(r) /\ SessionOf(TheUser(s)) = s
          BY UserFacts DEF IInv
        <5>2. QED
          BY <4>2, <5>1, <1>l, <2>5 DEF QueueSupport
      <4>4. s \in ElementsOf(leaveQ'[r])
        BY <4>3, <2>5 DEF Dropped
      <4>5. QED
        BY <4>2, <4>3, <4>4
    <3>4. made[s] \in {0, 1} /\ (made[s] = 0 => cur[s] = None)
      BY <1>f, <2>1 DEF Fields, OneEntry, SessionSupport
    <3>5. QED
      BY <1>u, <2>1, <3>1, <3>2, <3>3, <3>4 DEF SessionSupport
  <2>6. QED
    BY <2>3, <2>4, <2>5
<1>7. QED
  BY <1>5, <1>6

LEMMA DropKeepsOthers ==
  ASSUME OneEntry, IInv, NEW s0 \in Sessions, status[s0] = "on", Dropped(s0),
         NEW H, LastRef(s0, H),
         UNCHANGED <<cur, dest, moving, made, uPipe, uMoving, userMap, joinQ, moveInQ, moveOutQ, asked>>,
         \A c \in Callers : who'[c] = who[c],
         NEW r \in Threads \ H, SameThread(r)
  PROVE  (r \in Callers => CallerSupport(r)') /\ (r \in Pipes => PipeSupport(r)')
<1> USE PipesAssumption
<1>f. Fields
  BY DEF IInv
<1>u. UNCHANGED <<cur, dest, moving, made, uPipe, uMoving, userMap, joinQ, moveInQ, moveOutQ, asked>>
  OBVIOUS
<1>same. \A s \in Sessions : SameSession(s)
  BY <1>u DEF SameSession
<1>s. \A s \in Sessions : s # s0 \/ refs[s0] # 1 => status'[s] = status[s]
  BY <1>f DEF Dropped, Fields
<1>1. ASSUME r \in Callers PROVE  CallerSupport(r)'
  <2>1. CallerSupport(r) /\ (pc[r] # "idle" => who[r] \in Sessions)
    BY <1>1 DEF IInv, CallerSupport
  <2>2. who[r] = s0 => refs[s0] # 1
    BY <1>1 DEF LastRef, CallersOf
  <2>3. QED
    BY <1>1, <1>same, <1>s, <1>u, <2>1, <2>2, CallerBystander
<1>2. ASSUME r \in Pipes PROVE  PipeSupport(r)'
  <2>1. PipeSupport(r)
    BY <1>2 DEF IInv
  <2>2. who[r] = s0 => refs[s0] # 1
    <3>1. who[r] = s0 => r \in PipesOf(s0)
      BY <1>2, <2>1 DEF PipeSupport, PipesOf, PipePcs
    <3>2. QED
      BY <1>2, <3>1 DEF LastRef
  <2>3. QED
    BY <1>2, <1>f, <1>same, <1>s, <1>u, <2>1, <2>2, PipeBystander
<1>3. QED
  BY <1>1, <1>2

LEMMA DisconnectKeepsInv ==
  ASSUME OneEntry, IInv, NEW s0 \in Sessions, DisconnectSession(s0)
  PROVE  IInv'
<1> USE PipesAssumption
<1>f. Fields /\ receiving[s0] /\ refs[s0] = Moves(s0) + 1 /\ Moves(s0) \in Nat
  BY Counts DEF IInv, RefsExact, DisconnectSession
<1>m. status[s0] = "on"
  <2>1. refs[s0] # 0
    BY <1>f
  <2>2. QED
    BY <2>1 DEF IInv, SessionSupport
<1>d. Dropped(s0)
  BY <1>m, DropDoes DEF DisconnectSession
<1>l. LastRef(s0, {})
  <2>1. refs[s0] = 1 => Moves(s0) = 0
    BY <1>f
  <2>2. QED
    BY <2>1, NoRefs DEF LastRef
<1>u. /\ receiving' = [receiving EXCEPT ![s0] = FALSE]
      /\ UNCHANGED <<cur, dest, moving, made, uPipe, uMoving, userMap, joinQ, moveInQ, moveOutQ,
                     pc, who, code, user, to, asked>>
  BY DEF DisconnectSession, moveVars, userVars, threadVars
<1>1. Fields'
  <2>1. refs' \in [Sessions -> Nat]
    <3>1. refs[s0] - 1 \in Nat
      BY <1>f
    <3>2. QED
      BY <1>f, <1>d, <3>1 DEF Fields, Dropped
  <2>2. status' \in [Sessions -> {"off", "on", "released", "gone"}]
    BY <1>f, <1>d DEF Fields, Dropped
  <2>3. receiving' \in [Sessions -> BOOLEAN] /\ leaveQ' \in [Pipes -> Seq(Sessions)]
    BY <1>f, <1>d, <1>u DEF Fields, Dropped
  <2>4. QED
    BY <1>f, <1>u, <2>1, <2>2, <2>3 DEF Fields
<1>2. RefsExact'
  <2> SUFFICES ASSUME NEW s \in Sessions
               PROVE  refs'[s] = Moves(s)' + (IF receiving'[s] THEN 1 ELSE 0)
    BY DEF RefsExact
  <2>1. Moves(s)' = Moves(s)
    BY <1>u, MovesSame DEF CallersOf, PipesOf, JoinsOf, UsersOf
  <2>2. refs[s] = Moves(s) + (IF receiving[s] THEN 1 ELSE 0)
    BY DEF IInv, RefsExact
  <2>3. CASE s # s0
    BY <1>f, <1>d, <1>u, <2>1, <2>2, <2>3 DEF Fields, Dropped
  <2>4. CASE s = s0
    <3>1. receiving'[s] = FALSE /\ refs'[s] = refs[s] - 1
      BY <1>f, <1>d, <1>u, <2>4 DEF Fields, Dropped
    <3>2. QED
      BY <1>f, <2>1, <2>4, <3>1
  <2>5. QED
    BY <2>3, <2>4
<1>3. ASSUME NEW r \in Threads
      PROVE  (r \in Callers => CallerSupport(r)') /\ (r \in Pipes => PipeSupport(r)')
  <2>1. SameThread(r)
    BY <1>u DEF SameThread
  <2>2. QED
    BY <1>d, <1>l, <1>m, <1>u, <2>1, DropKeepsOthers
<1>4. (\A r \in Pipes : QueueSupport(r)') /\ (\A s \in Sessions : SessionSupport(s)')
  <2>1. \A s \in Sessions : MoveInHand(s) => MoveInHand(s)'
    BY <1>u DEF MoveInHand
  <2>2. \A h \in {} : pc[h] \in {"refuse", "drop"}
    OBVIOUS
  <2>3. QED
    BY <1>d, <1>l, <1>m, <1>u, <2>1, <2>2, DropKeepsPlaces
<1>5. QED
  BY <1>1, <1>2, <1>3, <1>4 DEF IInv, Threads

\* A pipe drops the reference it holds.
LEMMA PipeDrops ==
  ASSUME OneEntry, IInv, NEW t \in Pipes, pc[t] \in {"refuse", "drop"},
         DropRef(who[t]), NEW l \in PipePcs \ {"enter", "endmove", "drop"},
         pc' = [pc EXCEPT ![t] = l], who' = [who EXCEPT ![t] = None],
         code' \in [Threads -> Codes \cup {None}], user' \in [Threads -> Users \cup {None}],
         to' \in [Threads -> Pipes \cup {None}],
         \A r \in Threads \ {t} : code'[r] = code[r] /\ user'[r] = user[r] /\ to'[r] = to[r],
         UNCHANGED <<receiving, cur, dest, moving, made, uPipe, uMoving,
                     userMap, joinQ, moveInQ, moveOutQ, asked>>,
         PipeSupport(t)'
  PROVE  IInv'
<1> USE PipesAssumption, ThreadsAssumption
<1> DEFINE s0 == who[t]
<1>f. Fields /\ t \in Threads /\ t \notin Callers
  BY DEF IInv, Threads
<1>m. s0 \in Sessions /\ status[s0] = "on" /\ t \in PipesOf(s0)
  <2>1. PipeSupport(t)
    BY DEF IInv
  <2>2. QED
    BY <2>1 DEF PipeSupport, PipesOf, MovePcs
<1>d. Dropped(s0)
  BY <1>m, DropDoes
<1>l. LastRef(s0, {t})
  BY <1>m, OneHolder
<1>u. /\ pc' = [pc EXCEPT ![t] = l] /\ who' = [who EXCEPT ![t] = None]
      /\ UNCHANGED <<receiving, cur, dest, moving, made, uPipe, uMoving,
                     userMap, joinQ, moveInQ, moveOutQ, asked>>
  OBVIOUS
<1> HIDE DEF s0
<1>g. refs[s0] \in Nat /\ refs[s0] # 0
  BY <1>f, <1>m DEF IInv, SessionSupport, Fields
<1>1. Fields'
  <2>1. refs' \in [Sessions -> Nat]
    <3>1. refs[s0] - 1 \in Nat
      BY <1>g
    <3>2. QED
      BY <1>f, <1>d, <3>1 DEF Fields, Dropped
  <2>2. status' \in [Sessions -> {"off", "on", "released", "gone"}]
    BY <1>f, <1>d DEF Fields, Dropped
  <2>3. leaveQ' \in [Pipes -> Seq(Sessions)]
    BY <1>d DEF Dropped
  <2>4. pc' \in [Threads -> Pcs] /\ who' \in [Threads -> Sessions \cup {None}]
    BY <1>f, <1>u DEF Fields, Pcs
  <2>5. QED
    BY <1>f, <1>u, <2>1, <2>2, <2>3, <2>4 DEF Fields
<1>stay. \A r \in Threads \ {t} : SameThread(r)
  BY <1>f, <1>u DEF SameThread, Fields
<1>c. \A r \in Callers : who'[r] = who[r]
  BY <1>f, <1>u DEF Fields, Threads
<1>2. RefsExact'
  <2> SUFFICES ASSUME NEW s \in Sessions
               PROVE  refs'[s] = Moves(s)' + (IF receiving'[s] THEN 1 ELSE 0)
    BY DEF RefsExact
  <2>1. CallersOf(s)' = CallersOf(s) /\ JoinsOf(s)' = JoinsOf(s) /\ UsersOf(s)' = UsersOf(s)
    BY <1>u, <1>c DEF CallersOf, JoinsOf, UsersOf
  <2>2. refs[s] = Moves(s) + (IF receiving[s] THEN 1 ELSE 0)
    BY DEF IInv, RefsExact
  <2>3. CASE s # s0
    <3>1. PipesOf(s)' = PipesOf(s)
      BY <1>f, <1>u, <2>3 DEF PipesOf, Threads, Fields, s0
    <3>2. refs'[s] = refs[s]
      BY <1>f, <1>d, <2>3 DEF Fields, Dropped
    <3>3. QED
      BY <1>u, <2>1, <2>2, <3>1, <3>2, MovesSame
  <2>4. CASE s = s0
    <3>1. PipesOf(s)' = PipesOf(s) \ {t} /\ t \in PipesOf(s)
      BY <1>f, <1>m, <1>u, <2>4 DEF PipesOf, Threads, Fields
    <3>2. Cardinality(PipesOf(s)') = Cardinality(PipesOf(s)) - 1
      BY <3>1, Counting DEF PipesOf
    <3>3. Moves(s)' = Moves(s) - 1
      BY <2>1, <3>2, Counts, CountsPrime
    <3>4. refs'[s] = refs[s] - 1
      BY <1>f, <1>d, <2>4 DEF Fields, Dropped
    <3>5. Moves(s) \in Nat
      BY Counts
    <3>6. QED
      BY <1>u, <2>2, <3>3, <3>4, <3>5
  <2>5. QED
    BY <2>3, <2>4
<1>3. ASSUME NEW r \in Threads
      PROVE  (r \in Callers => CallerSupport(r)') /\ (r \in Pipes => PipeSupport(r)')
  <2>1. CASE r # t
    BY <1>c, <1>d, <1>l, <1>m, <1>u, <1>stay, <2>1, DropKeepsOthers
  <2>2. CASE r = t
    BY <1>f, <2>2
  <2>3. QED
    BY <2>1, <2>2
<1>4. (\A r \in Pipes : QueueSupport(r)') /\ (\A s \in Sessions : SessionSupport(s)')
  <2>1. \A s \in Sessions : MoveInHand(s) => MoveInHand(s)'
    <3>1. \A r \in Threads : pc[r] \in {"findpipe", "request", "enter", "endmove"}
                               => pc'[r] = pc[r] /\ who'[r] = who[r]
      BY <1>f, <1>u DEF Fields
    <3>2. QED
      BY <1>u, <3>1 DEF MoveInHand
  <2>2. \A h \in {t} : pc[h] \in {"refuse", "drop"}
    OBVIOUS
  <2>3. \A r \in Pipes : /\ pc'[r] = "enter" <=> pc[r] = "enter"
                         /\ pc[r] = "enter" => who'[r] = who[r]
    BY <1>f, <1>u DEF Fields, Threads
  <2>4. QED
    BY <1>d, <1>l, <1>m, <1>u, <2>1, <2>2, <2>3, DropKeepsPlaces
<1>5. QED
  BY <1>1, <1>2, <1>3, <1>4 DEF IInv, Threads

LEMMA RefuseKeepsInv ==
  ASSUME OneEntry, IInv, NEW t \in Threads, Refuse(t)
  PROVE  IInv'
<1> USE PipesAssumption, ThreadsAssumption
<1>f. Fields /\ pc[t] = "refuse"
  BY DEF IInv, Refuse, At
<1>p. t \in Pipes
  <2>1. t \notin Callers
    BY <1>f DEF IInv, CallerSupport
  <2>2. QED
    BY <2>1 DEF Threads
<1>u. /\ pc' = [pc EXCEPT ![t] = "message"] /\ who' = [who EXCEPT ![t] = None]
      /\ code' = [code EXCEPT ![t] = None] /\ user' = [user EXCEPT ![t] = None]
      /\ to' = [to EXCEPT ![t] = None] /\ DropRef(who[t])
      /\ UNCHANGED <<receiving, cur, dest, moving, made, uPipe, uMoving,
                     userMap, joinQ, moveInQ, moveOutQ, asked>>
  BY <1>p DEF Refuse, Return, Goto, moveVars, userVars
<1>1. /\ code' \in [Threads -> Codes \cup {None}] /\ user' \in [Threads -> Users \cup {None}]
      /\ to' \in [Threads -> Pipes \cup {None}]
      /\ \A r \in Threads \ {t} : code'[r] = code[r] /\ user'[r] = user[r] /\ to'[r] = to[r]
  BY <1>f, <1>u DEF Fields
<1>2. PipeSupport(t)'
  <2>1. pc'[t] = "message" /\ who'[t] = None /\ user'[t] = None
    BY <1>f, <1>u DEF Fields
  <2>2. QED
    BY <2>1 DEF PipeSupport, PipePcs, MovePcs
<1>3. "message" \in PipePcs \ {"enter", "endmove", "drop"}
  BY DEF PipePcs
<1>4. QED
  BY <1>f, <1>p, <1>u, <1>1, <1>2, <1>3, PipeDrops

LEMMA DecrementKeepsInv ==
  ASSUME OneEntry, IInv, NEW p \in Pipes, DecrementIOCount(p)
  PROVE  IInv'
<1> USE PipesAssumption, ThreadsAssumption
<1> DEFINE l == IF user[p] = None THEN "join" ELSE "enduser"
<1>f. Fields /\ pc[p] = "drop" /\ p \in Threads
  BY DEF IInv, DecrementIOCount, At, Threads
<1>u. /\ pc' = [pc EXCEPT ![p] = l] /\ who' = [who EXCEPT ![p] = None]
      /\ code' = code /\ user' = user /\ to' = to /\ DropRef(who[p])
      /\ UNCHANGED <<receiving, cur, dest, moving, made, uPipe, uMoving,
                     userMap, joinQ, moveInQ, moveOutQ, asked>>
  BY DEF DecrementIOCount, Goto, moveVars, userVars
<1>1. /\ code' \in [Threads -> Codes \cup {None}] /\ user' \in [Threads -> Users \cup {None}]
      /\ to' \in [Threads -> Pipes \cup {None}]
      /\ \A r \in Threads \ {p} : code'[r] = code[r] /\ user'[r] = user[r] /\ to'[r] = to[r]
  BY <1>f, <1>u DEF Fields
<1>2. PipeSupport(p)'
  <2>1. /\ who[p] \in Sessions /\ user[p] \in {None, TheUser(who[p])}
        /\ TheUser(who[p]) \in userMap[p]
        /\ ~moving[who[p]] /\ dest[who[p]] = None /\ cur[who[p]] = p
        /\ SessionOf(TheUser(who[p])) = who[p]
    <3>1. PipeSupport(p)
      BY DEF IInv
    <3>2. QED
      BY <1>f, <3>1, UserFacts DEF PipeSupport
  <2>2. pc'[p] = l /\ who'[p] = None /\ user'[p] = user[p]
    BY <1>f, <1>u DEF Fields
  <2>3. QED
    BY <1>u, <2>1, <2>2 DEF PipeSupport, PipePcs, MovePcs
<1>3. l \in PipePcs \ {"enter", "endmove", "drop"}
  BY DEF PipePcs
<1> HIDE DEF l
<1>4. QED
  BY <1>f, <1>u, <1>1, <1>2, <1>3, PipeDrops

-----------------------------------------------------------------------------
LEMMA InitHasInv == OneEntry /\ Init => IInv
<1> SUFFICES ASSUME OneEntry, Init PROVE  IInv
  OBVIOUS
<1> USE PipesAssumption, ThreadsAssumption, MovesAssumption DEF Init
<1>1. Fields
  <2>1. pc \in [Threads -> Pcs]
    BY DEF Pcs, PipePcs
  <2>2. 0 \in 0..MaxIDMoves
    OBVIOUS
  <2>3. /\ joinQ \in [Pipes -> Seq(Sessions)] /\ leaveQ \in [Pipes -> Seq(Sessions)]
        /\ moveInQ \in [Pipes -> Seq(Users)] /\ moveOutQ \in [Pipes -> Seq(Users)]
    OBVIOUS
  <2>4. QED
    BY <2>1, <2>2, <2>3 DEF Fields
<1>2. \A p \in Pipes : /\ ElementsOf(joinQ[p]) = {} /\ ElementsOf(leaveQ[p]) = {}
                       /\ ElementsOf(moveInQ[p]) = {} /\ ElementsOf(moveOutQ[p]) = {}
  BY DEF ElementsOf
<1>3. RefsExact
  <2> SUFFICES ASSUME NEW s \in Sessions
               PROVE  refs[s] = Moves(s) + (IF receiving[s] THEN 1 ELSE 0)
    BY DEF RefsExact
  <2>1. CallersOf(s) = {} /\ PipesOf(s) = {} /\ JoinsOf(s) = {} /\ UsersOf(s) = {}
    BY <1>2 DEF CallersOf, PipesOf, JoinsOf, UsersOf, Threads
  <2>2. Moves(s) = 0
    <3>1. Cardinality({}) = 0
      BY FS_EmptySet
    <3>2. Moves(s) = Cardinality({}) + Cardinality({}) + Cardinality({}) + Cardinality({})
      BY <2>1, MovesIs
    <3>3. QED
      BY <3>1, <3>2
  <2>3. QED
    BY <2>2
<1>4. ASSUME NEW t \in Callers PROVE  CallerSupport(t)
  BY DEF CallerSupport, Threads
<1>5. ASSUME NEW p \in Pipes PROVE  PipeSupport(p)
  BY DEF PipeSupport, PipePcs, MovePcs, Threads
<1>6. ASSUME NEW p \in Pipes PROVE  QueueSupport(p)
  BY <1>2 DEF QueueSupport, Distinct
<1>7. ASSUME NEW s \in Sessions PROVE  SessionSupport(s)
  <2>1. TheUser(s) \in Users
    BY UserFacts
  <2>2. QED
    BY <2>1 DEF SessionSupport
<1>8. QED
  BY <1>1, <1>3, <1>4, <1>5, <1>6, <1>7 DEF IInv

LEMMA NextKeepsInv == OneEntry /\ IInv /\ [Next]_vars => IInv'
<1> SUFFICES ASSUME OneEntry, IInv, [Next]_vars PROVE  IInv'
  OBVIOUS
<1>1. ASSUME NEW s \in Sessions, AllocSession(s) \/ DisconnectSession(s) PROVE  IInv'
  BY <1>1, AllocKeepsInv, DisconnectKeepsInv
<1>2. ASSUME NEW t \in Callers, NEW s \in Sessions, NEW c \in Codes, MovePipe(t, s, c) PROVE  IInv'
  BY <1>2, MovePipeKeepsInv
<1>3. ASSUME NEW t \in Pipes, NEW u \in Users, NEW c \in Codes, MoveUser(t, u, c) PROVE  IInv'
  BY <1>3, MoveUserKeepsInv
<1>4. ASSUME NEW t \in Threads, MoveStep(t) PROVE  IInv'
  BY <1>4, TestKeepsInv, RefuseKeepsInv, StartKeepsInv, FindPipeKeepsInv, EnterKeepsInv,
     MoveOutAskedKeepsInv DEF MoveStep
<1>5. ASSUME NEW p \in Pipes, NextPhase(p) PROVE  IInv'
  BY <1>5, PhaseKeepsInv
<1>6. ASSUME NEW p \in Pipes, FrameStep(p) PROVE  IInv'
  BY <1>6, JoinKeepsInv, MoveInKeepsInv, EnteredKeepsInv, MoveEndKeepsInv, DecrementKeepsInv,
     UserEndKeepsInv, MoveOutKeepsInv, LeaveKeepsInv DEF FrameStep
<1>7. CASE UNCHANGED vars
  <2>1. UNCHANGED <<status, refs, receiving, cur, dest, moving, made, uPipe, uMoving, userMap,
                    joinQ, leaveQ, moveInQ, moveOutQ, pc, who, code, user, to, asked>>
    BY <1>7 DEF vars, sessionVars, moveVars, userVars, pipeVars, threadVars
  <2>2. Fields'
    BY <2>1 DEF IInv, Fields
  <2>3. RefsExact'
    BY <2>1 DEF IInv, RefsExact, Moves
  <2>4. \A t \in Callers : CallerSupport(t)'
    BY <2>1 DEF IInv, CallerSupport
  <2>5. \A p \in Pipes : PipeSupport(p)'
    BY <2>1 DEF IInv, PipeSupport
  <2>6. \A p \in Pipes : QueueSupport(p)'
    BY <2>1 DEF IInv, QueueSupport
  <2>7. \A s \in Sessions : SessionSupport(s)'
    BY <2>1 DEF IInv, SessionSupport, MoveInHand
  <2>8. QED
    BY <2>2, <2>3, <2>4, <2>5, <2>6, <2>7 DEF IInv
<1>8. QED
  BY <1>1, <1>2, <1>3, <1>4, <1>5, <1>6, <1>7 DEF Next

\* Where the user of a session is says what the fields of both hold, and who works on them.
THEOREM InductiveInvariant == ASSUME OneEntry PROVE  Spec => []IInv
<1>1. Init => IInv
  BY InitHasInv
<1>2. IInv /\ [Next]_vars => IInv'
  BY NextKeepsInv
<1>3. QED
  BY <1>1, <1>2, PTL DEF Spec

-----------------------------------------------------------------------------
(* What the runs check.                                                    *)

\* A session has at most a request, or the user in its pipe and the user on its way.
LEMMA MovesFew ==
  ASSUME OneEntry, IInv, NEW s \in Sessions
  PROVE  Moves(s) <= Cardinality(Threads)
<1> USE PipesAssumption
<1> DEFINE a == Cardinality(CallersOf(s))
<1> DEFINE b == Cardinality(PipesOf(s))
<1> DEFINE c == Cardinality(JoinsOf(s))
<1> DEFINE d == Cardinality(UsersOf(s))
<1> DEFINE n == Cardinality(Threads)
<1>f. Fields
  BY DEF IInv
<1>1. a \in Nat /\ b \in Nat /\ c \in Nat /\ d \in Nat /\ Moves(s) = a + b + c + d
  BY Counts
<1>2. IsFiniteSet(Threads) /\ n \in Nat
  BY ThreadsAssumption, FS_Union, FS_CardinalityType DEF Threads
<1>few. \A A : (A \subseteq Callers \/ A \subseteq Pipes \/ A \subseteq Users)
                 => /\ (\A x : x \notin A) => Cardinality(A) = 0
                    /\ (\A x, y \in A : x = y) => Cardinality(A) <= 1
  <2> SUFFICES ASSUME NEW A, A \subseteq Callers \/ A \subseteq Pipes \/ A \subseteq Users
               PROVE  /\ (\A x : x \notin A) => Cardinality(A) = 0
                      /\ (\A x, y \in A : x = y) => Cardinality(A) <= 1
    OBVIOUS
  <2>1. (\A x : x \notin A) => Cardinality(A) = 0
    BY Counting
  <2>2. ASSUME NEW x \in A, \A y, z \in A : y = z PROVE  Cardinality(A) <= 1
    <3>1. A = {x}
      BY <2>2
    <3>2. QED
      BY <3>1, FS_Singleton
  <2>3. QED
    BY <2>1, <2>2
<1>in. /\ CallersOf(s) \subseteq Callers /\ PipesOf(s) \subseteq Pipes
       /\ JoinsOf(s) \subseteq Pipes /\ UsersOf(s) \subseteq Users
  BY DEF CallersOf, PipesOf, JoinsOf, UsersOf
<1>3. b <= 1 /\ d <= 1
  <2>1. \A x, y \in PipesOf(s) : x = y
    BY Alone DEF PipesOf, OnIt
  <2>2. \A x, y \in UsersOf(s) : x = y
    BY UserFacts DEF UsersOf
  <2>3. QED
    BY <1>few, <1>in, <2>1, <2>2
<1>some. \A A : A \subseteq Threads => Cardinality(A) <= n
  BY <1>2, FS_Subset
<1>4. CASE made[s] = 0
  <2>1. \A r \in Pipes : TheUser(s) \notin userMap[r] \cup ElementsOf(moveInQ[r]) \cup ElementsOf(moveOutQ[r])
    <3> TAKE r \in Pipes
    <3>1. QueueSupport(r) /\ SessionOf(TheUser(s)) = s
      BY UserFacts DEF IInv
    <3>2. QED
      BY <1>4, <3>1 DEF QueueSupport
  <2>2. \A x : x \notin PipesOf(s)
    BY <2>1, Alone DEF PipesOf, OnIt
  <2>3. \A x : x \notin UsersOf(s)
    BY <2>1, UserFacts DEF UsersOf
  <2>4. \A x, y \in CallersOf(s) : x = y
    BY Alone DEF CallersOf, OnIt
  <2>5. \A x, y \in JoinsOf(s) : x = y
    BY DEF JoinsOf, IInv, QueueSupport
  <2>6. \A x \in CallersOf(s), y \in JoinsOf(s) : FALSE
    BY DEF JoinsOf, CallersOf, IInv, CallerSupport
  <2>7. b = 0 /\ d = 0 /\ a <= 1 /\ c <= 1 /\ (a = 0 \/ c = 0)
    BY <1>few, <1>in, <2>2, <2>3, <2>4, <2>5, <2>6
  <2>8. a <= n /\ c <= n
    BY <1>some, <1>in DEF Threads
  <2> HIDE DEF a, b, c, d, n
  <2>9. Moves(s) <= n
    BY <1>1, <1>2, <2>7, <2>8
  <2>10. QED
    BY <2>9 DEF n
<1>5. CASE made[s] # 0
  <2>1. (\A x : x \notin CallersOf(s)) /\ (\A x : x \notin JoinsOf(s))
    BY <1>5 DEF JoinsOf, CallersOf, IInv, CallerSupport, QueueSupport
  <2>2. a = 0 /\ c = 0
    BY <1>few, <1>in, <2>1
  <2>3. b <= n
    BY <1>some, <1>in DEF Threads
  <2>4. d # 0 => 2 <= n
    <3>1. ASSUME d # 0 PROVE  2 <= n
      <4>1. PICK u \in UsersOf(s) : TRUE
        BY <1>few, <1>in, <3>1
      <4>2. PICK r \in Pipes : u \in ElementsOf(moveInQ[r]) \cup ElementsOf(moveOutQ[r])
        BY <4>1 DEF UsersOf
      <4>3. \E q \in Pipes : q # r
        BY <4>2 DEF IInv, QueueSupport
      <4>4. PICK q \in Pipes : q # r
        BY <4>3
      <4>5. Cardinality({q}) = 1 /\ IsFiniteSet({q})
        BY FS_Singleton
      <4>6. Cardinality({q} \cup {r}) = 2
        <5>1. r \notin {q}
          BY <4>4
        <5>2. Cardinality({q} \cup {r}) = Cardinality({q}) + 1
          BY <4>5, <5>1, FS_AddElement
        <5>3. QED
          BY <4>5, <5>2
      <4>7. {q} \cup {r} \subseteq Threads
        BY DEF Threads
      <4>8. QED
        BY <1>some, <4>6, <4>7
    <3>2. QED
      BY <3>1
  <2> HIDE DEF a, b, c, d, n
  <2>5. Moves(s) <= n
    BY <1>1, <1>2, <1>3, <2>2, <2>3, <2>4
  <2>6. QED
    BY <2>5 DEF n
<1>6. QED
  BY <1>4, <1>5

LEMMA InvTypeOK == ASSUME OneEntry, IInv PROVE  TypeOK
<1> SUFFICES ASSUME NEW s \in Sessions PROVE  refs[s] <= 1 + Cardinality(Threads)
  BY DEF TypeOK, IInv
<1> DEFINE n == Cardinality(Threads)
<1>1. n \in Nat
  BY ThreadsAssumption, FS_Union, FS_CardinalityType DEF Threads
<1>2. Moves(s) \in Nat /\ Moves(s) <= n
  BY Counts, MovesFew
<1>3. refs[s] = Moves(s) + (IF receiving[s] THEN 1 ELSE 0)
  BY DEF IInv, RefsExact
<1> HIDE DEF n
<1>4. refs[s] <= 1 + n
  BY <1>1, <1>2, <1>3
<1>5. QED
  BY <1>4 DEF n

LEMMA InvOnePlace == ASSUME OneEntry, IInv PROVE  UserInOnePlace
<1> USE PipesAssumption
<1> SUFFICES ASSUME NEW s \in Sessions
             PROVE  Cardinality(UNION {Places(u) : u \in {v \in Users : SessionOf(v) = s}})
                      = IF made[s] = 0 \/ status[s] = "gone" THEN 0 ELSE 1
  BY DEF UserInOnePlace
<1> DEFINE u0 == TheUser(s)
<1>f. Fields /\ u0 \in Users /\ SessionOf(u0) = s
  BY UserFacts DEF IInv
<1>1. {v \in Users : SessionOf(v) = s} = {u0}
  BY <1>f, UserFacts
<1>2. UNION {Places(u) : u \in {v \in Users : SessionOf(v) = s}} = Places(u0)
  BY <1>1
<1> HIDE DEF u0
<1>q. \A r \in Pipes : /\ u0 \in userMap[r] => made[s] = 1 /\ status[s] # "gone"
                       /\ u0 \in ElementsOf(moveInQ[r]) =>
                            /\ made[s] = 1 /\ status[s] # "gone" /\ dest[s] = r
                            /\ \A p \in Pipes : u0 \notin userMap[p]
  <2> TAKE r \in Pipes
  <2>1. QueueSupport(r)
    BY DEF IInv
  <2>2. QED
    BY <1>f, <2>1 DEF QueueSupport
<1>3. CASE made[s] = 0 \/ status[s] = "gone"
  <2>1. \A r \in Pipes : u0 \notin userMap[r] /\ u0 \notin ElementsOf(moveInQ[r])
    BY <1>3, <1>q
  <2>2. \A r \in Pipes : {j \in DOMAIN moveInQ[r] : moveInQ[r][j] = u0} = {}
    BY <2>1 DEF ElementsOf
  <2>3. Places(u0) = {}
    BY <2>1, <2>2 DEF Places
  <2>4. QED
    BY <1>2, <1>3, <2>3, FS_EmptySet
<1>4. CASE ~(made[s] = 0 \/ status[s] = "gone")
  <2>1. made[s] = 1
    BY <1>4, <1>f DEF Fields, OneEntry
  <2>2. PICK p \in Pipes : u0 \in userMap[p] \cup ElementsOf(moveInQ[p])
    BY <1>4, <2>1 DEF IInv, SessionSupport, u0
  <2>3. CASE u0 \in userMap[p]
    <3>1. {r \in Pipes : u0 \in userMap[r]} = {p}
      BY <1>f, <2>3, Alone
    <3>2. \A r \in Pipes : {j \in DOMAIN moveInQ[r] : moveInQ[r][j] = u0} = {}
      BY <1>q, <2>3 DEF ElementsOf
    <3>3. Places(u0) = {<<"map", p, 0>>}
      BY <3>1, <3>2 DEF Places
    <3>4. QED
      BY <1>2, <1>4, <3>3, FS_Singleton
  <2>4. CASE u0 \in ElementsOf(moveInQ[p])
    <3>1. PICK i \in DOMAIN moveInQ[p] : moveInQ[p][i] = u0
      BY <2>4 DEF ElementsOf
    <3>2. {j \in DOMAIN moveInQ[p] : moveInQ[p][j] = u0} = {i}
      BY <3>1 DEF IInv, QueueSupport, Distinct
    <3>3. \A r \in Pipes \ {p} : {j \in DOMAIN moveInQ[r] : moveInQ[r][j] = u0} = {}
      BY <1>q, <2>4 DEF ElementsOf
    <3>4. {r \in Pipes : u0 \in userMap[r]} = {}
      BY <1>q, <2>4
    <3>5. Places(u0) = {<<"in", p, i>>}
      BY <3>2, <3>3, <3>4 DEF Places
    <3>6. QED
      BY <1>2, <1>4, <3>5, FS_Singleton
  <2>5. QED
    BY <2>2, <2>3, <2>4
<1>5. QED
  BY <1>3, <1>4

LEMMA InvRequestedOnce == ASSUME OneEntry, IInv PROVE  RequestedOnce
<1> SUFFICES ASSUME NEW p \in Pipes
             PROVE  \A q \in {joinQ, leaveQ, moveInQ, moveOutQ} : Cardinality(ElementsOf(q[p])) = Len(q[p])
  BY DEF RequestedOnce
<1>1. IsFiniteSet(Sessions) /\ IsFiniteSet(Users)
  BY RoomAssumption, UsersFinite
<1>2. /\ joinQ[p] \in Seq(Sessions) /\ leaveQ[p] \in Seq(Sessions)
      /\ moveInQ[p] \in Seq(Users) /\ moveOutQ[p] \in Seq(Users)
  BY DEF IInv, Fields
<1>3. Distinct(joinQ[p]) /\ Distinct(leaveQ[p]) /\ Distinct(moveInQ[p]) /\ Distinct(moveOutQ[p])
  BY DEF IInv, QueueSupport
<1>4. QED
  BY <1>1, <1>2, <1>3, DistinctFits

LEMMA InvReleased == ASSUME OneEntry, IInv PROVE  ReleasedInItsPipe
<1> SUFFICES ASSUME NEW s \in Sessions, status[s] = "released"
             PROVE  /\ ~moving[s] /\ dest[s] = None /\ cur[s] # None
                    /\ InMap(cur[s], s)
                    /\ Cardinality({i \in DOMAIN leaveQ[cur[s]] : leaveQ[cur[s]][i] = s}) = 1
  BY DEF ReleasedInItsPipe
<1>1. refs[s] = 0 /\ cur[s] # None /\ s \in ElementsOf(leaveQ[cur[s]]) /\ TheUser(s) \in userMap[cur[s]]
  BY DEF IInv, SessionSupport
<1>2. cur[s] \in Pipes
  BY <1>1 DEF IInv, Fields
<1>3. Moves(s) = 0
  <2>1. Moves(s) \in Nat
    BY Counts
  <2>2. 0 = Moves(s) + (IF receiving[s] THEN 1 ELSE 0)
    BY <1>1 DEF IInv, RefsExact
  <2>3. QED
    BY <2>1, <2>2
<1>4. ~moving[s] /\ dest[s] = None
  BY <1>3, NoRefs
<1>5. InMap(cur[s], s)
  BY <1>1, UserFacts DEF InMap
<1>6. PICK i \in DOMAIN leaveQ[cur[s]] : leaveQ[cur[s]][i] = s
  BY <1>1 DEF ElementsOf
<1>7. {j \in DOMAIN leaveQ[cur[s]] : leaveQ[cur[s]][j] = s} = {i}
  BY <1>2, <1>6 DEF IInv, QueueSupport, Distinct
<1>8. QED
  BY <1>1, <1>4, <1>5, <1>7, FS_Singleton

\* A user is in one pipe, or on the way into one it was asked into once, and a session is
\* released with no move under way, to the pipe that has its user, which destroys it
\* (NetServer.cpp 532-621, 698-714, 1481-1505, NetPipe.cpp 127-187).
THEOREM OnePlace == ASSUME OneEntry PROVE  Spec => []UsersInPlace
<1>1. IInv => UsersInPlace
  BY InvTypeOK, InvOnePlace, InvRequestedOnce, InvReleased DEF UsersInPlace
<1>2. QED
  BY <1>1, InductiveInvariant, PTL

\* IOcount_ of a session is its receive and its moves: a move keeps its reference from the
\* thread that asked for it, through two queues, until the new pipe has the user, and no
\* refusal keeps one (NetServer.cpp 532-621, NetPipe.cpp 40-187).
THEOREM MovesHoldReferences == ASSUME OneEntry PROVE  Spec => []RefsExact
<1>1. IInv => RefsExact
  BY DEF IInv
<1>2. QED
  BY <1>1, InductiveInvariant, PTL

\* No insertion and no deletion fails, no pipe is entered that is not destPipe_, no null
\* curPipe_ is used: ErrorQuit is not reached (NetPipe.cpp 40-187).
THEOREM MovesNeverQuit == ASSUME OneEntry PROVE  Spec => []NeverQuits
<1>1. ASSUME IInv PROVE  NeverQuits
  <2> SUFFICES ASSUME NEW t \in Threads
               PROVE  pc[t] # "quit" /\ ~(At(t, "request") /\ user[t] # None /\ cur[who[t]] = None)
    BY DEF NeverQuits
  <2>1. pc[t] # "quit"
    BY <1>1 DEF IInv, CallerSupport, PipeSupport, Threads, PipePcs, MovePcs
  <2>2. CASE pc[t] = "request"
    BY <1>1, <2>1, <2>2, MoverFacts, PipesAssumption DEF Threads, MovePcs
  <2>3. QED
    BY <2>1, <2>2 DEF At
<1>2. QED
  BY <1>1, InductiveInvariant, PTL

-----------------------------------------------------------------------------
(* The clients of PipeMembership, step by step.                            *)

\* Where the application thinks the client of a session is
PlaceFact(s) ==
  /\ UserOf(s) = TheUser(s)
  /\ status[s] = "gone" => PlaceOf(s) = "gone"
  /\ status[s] # "gone" /\ made[s] = 0 => PlaceOf(s) = "outside"
  /\ \A p \in Pipes : TheUser(s) \in userMap[p] => status[s] # "gone" /\ PlaceOf(s) = p
  /\ status[s] # "gone" /\ made[s] # 0 /\ (\A p \in Pipes : TheUser(s) \notin userMap[p])
       => PlaceOf(s) = "between"
Placed == \A s \in Sessions : PlaceFact(s)

LEMMA ClientsPlaced == ASSUME OneEntry PROVE  IInv => Placed
<1> SUFFICES ASSUME IInv, NEW s \in Sessions PROVE  PlaceFact(s)
  BY DEF Placed
<1>1. UserOf(s) = TheUser(s)
  BY DEF UserOf, TheUser, IInv, Fields, OneEntry
<1>2. ASSUME NEW p \in Pipes, TheUser(s) \in userMap[p]
      PROVE  status[s] # "gone" /\ made[s] = 1 /\ \A r \in Pipes : TheUser(s) \in userMap[r] => r = p
  <2>1. QueueSupport(p) /\ SessionOf(TheUser(s)) = s /\ TheUser(s) \in Users
    BY UserFacts DEF IInv
  <2>2. QED
    BY <1>2, <2>1, Alone DEF QueueSupport
<1>3. ASSUME NEW p \in Pipes, TheUser(s) \in userMap[p] PROVE  PlaceOf(s) = p
  <2>1. status[s] # "gone" /\ made[s] # 0 /\ \A r \in Pipes : TheUser(s) \in userMap[r] <=> r = p
    BY <1>2, <1>3
  <2>2. (CHOOSE r \in Pipes : UserOf(s) \in userMap[r]) = p
    BY <1>1, <2>1
  <2>3. QED
    BY <1>1, <1>3, <2>1, <2>2 DEF PlaceOf
<1>4. status[s] = "gone" => PlaceOf(s) = "gone"
  BY DEF PlaceOf
<1>5. ASSUME status[s] # "gone", \A p \in Pipes : TheUser(s) \notin userMap[p]
      PROVE  PlaceOf(s) = IF made[s] = 0 THEN "outside" ELSE "between"
  BY <1>1, <1>5 DEF PlaceOf
<1>6. made[s] = 0 => \A p \in Pipes : TheUser(s) \notin userMap[p]
  BY <1>2
<1>7. QED
  BY <1>1, <1>2, <1>3, <1>4, <1>5, <1>6 DEF PlaceFact

LEMMA ClientsPlacedNext == ASSUME OneEntry PROVE  IInv' => Placed'
BY ClientsPlaced, PTL

\* what the application is told nothing of
Unmoved(s) ==
  /\ made'[s] = made[s] /\ uPipe'[TheUser(s)] = uPipe[TheUser(s)]
  /\ status'[s] = "gone" <=> status[s] = "gone"
  /\ \A p \in Pipes : TheUser(s) \in userMap'[p] <=> TheUser(s) \in userMap[p]

LEMMA PlaceStays ==
  ASSUME Placed, Placed', NEW s \in Sessions, Unmoved(s)
  PROVE  PlaceOf(s)' = PlaceOf(s) /\ FromOf(s)' = FromOf(s)
<1>1. PlaceFact(s) /\ PlaceFact(s)'
  BY DEF Placed
<1>2. FromOf(s)' = FromOf(s)
  BY <1>1 DEF PlaceFact, FromOf, Unmoved
<1>3. CASE status[s] = "gone"
  BY <1>1, <1>2, <1>3 DEF PlaceFact, Unmoved
<1>4. CASE \E p \in Pipes : TheUser(s) \in userMap[p]
  BY <1>1, <1>2, <1>4 DEF PlaceFact, Unmoved
<1>5. CASE status[s] # "gone" /\ \A p \in Pipes : TheUser(s) \notin userMap[p]
  BY <1>1, <1>2, <1>5 DEF PlaceFact, Unmoved
<1>6. QED
  BY <1>2, <1>3, <1>4, <1>5

LEMMA AllStay ==
  ASSUME Placed, Placed', \A s \in Sessions : Unmoved(s)
  PROVE  UNCHANGED Membership!vars
BY PlaceStays DEF Membership!vars, ClientPlace, ClientFrom

\* Only one client moves.
LEMMA OneMoves ==
  ASSUME Placed, Placed', NEW s0 \in Sessions, \A s \in Sessions \ {s0} : Unmoved(s)
  PROVE  /\ ClientPlace' = [ClientPlace EXCEPT ![s0] = PlaceOf(s0)']
         /\ ClientFrom' = [ClientFrom EXCEPT ![s0] = FromOf(s0)']
         /\ ClientPlace[s0] = PlaceOf(s0) /\ ClientFrom[s0] = FromOf(s0)
BY PlaceStays DEF ClientPlace, ClientFrom

\* the end of a client: a reference is dropped, and there is no pipe to leave
LEMMA DropMaps ==
  ASSUME OneEntry, IInv, Placed, Placed', NEW s0 \in Sessions, status[s0] = "on", Dropped(s0),
         NEW H, LastRef(s0, H), UNCHANGED <<made, uPipe, userMap>>
  PROVE  [Membership!Next]_Membership!vars
<1>f. Fields /\ made[s0] \in {0, 1}
  BY DEF IInv, Fields, OneEntry
<1>1. \A s \in Sessions \ {s0} : Unmoved(s)
  BY <1>f DEF Unmoved, Dropped, Fields
<1>2. CASE status'[s0] # "gone"
  <2>1. Unmoved(s0)
    BY <1>2 DEF Unmoved
  <2>2. QED
    BY <1>1, <2>1, AllStay
<1>3. CASE status'[s0] = "gone"
  <2>1. refs[s0] = 1
    BY <1>f, <1>3 DEF Dropped, Fields
  <2>2. PlaceFact(s0) /\ PlaceFact(s0)'
    BY DEF Placed
  <2>3. PlaceOf(s0) \in Pipes \cup {"outside"}
    <3>1. CASE made[s0] = 0
      BY <2>2, <3>1 DEF PlaceFact
    <3>2. CASE made[s0] = 1
      <4>1. PICK r \in Pipes : TheUser(s0) \in userMap[r] \cup ElementsOf(moveInQ[r])
        BY <3>2 DEF IInv, SessionSupport
      <4>2. TheUser(s0) \notin ElementsOf(moveInQ[r])
        BY <2>1, UserFacts DEF LastRef, UsersOf
      <4>3. QED
        BY <2>2, <4>1, <4>2 DEF PlaceFact
    <3>3. QED
      BY <1>f, <3>1, <3>2
  <2>4. PlaceOf(s0)' = "gone" /\ FromOf(s0)' = FromOf(s0)
    BY <1>3, <2>2 DEF PlaceFact, FromOf
  <2>5. /\ ClientPlace' = [ClientPlace EXCEPT ![s0] = "gone"]
        /\ ClientFrom' = [ClientFrom EXCEPT ![s0] = ClientFrom[s0]]
        /\ ClientPlace[s0] \in Pipes \cup {"outside"}
    BY <1>1, <2>3, <2>4, OneMoves
  <2>6. ClientFrom' = ClientFrom
    BY <2>5 DEF ClientFrom
  <2>7. Membership!Leave(s0)
    BY <2>5, <2>6 DEF Membership!Leave
  <2>8. QED
    BY <2>7 DEF Membership!Next
<1>4. QED
  BY <1>2, <1>3

\* OnUserJoin
LEMMA JoinMaps ==
  ASSUME OneEntry, IInv, Placed, Placed', NEW p \in Pipes, Join(p)
  PROVE  [Membership!Next]_Membership!vars
<1> USE PipesAssumption
<1> DEFINE s0 == Head(joinQ[p])
<1> DEFINE u0 == TheUser(s0)
<1>f. Fields /\ pc[p] = "join" /\ joinQ[p] # <<>>
  BY DEF IInv, Join, At
<1>q. s0 \in Sessions /\ s0 \in ElementsOf(joinQ[p])
  <2>1. joinQ \in Queues(Sessions) /\ \A r \in Pipes : Distinct(joinQ[r])
    BY <1>f DEF Fields, IInv, QueueSupport, Queues
  <2>2. QED
    BY <2>1, <1>f, RestFacts
<1>m. /\ status[s0] = "on" /\ made[s0] = 0
      /\ u0 \in Users /\ SessionOf(u0) = s0 /\ u0 = <<s0, made[s0] + 1>>
  BY <1>q, UserFacts DEF IInv, QueueSupport, TheUser
<1>n. \A r \in Pipes : u0 \notin userMap[r]
  BY <1>m DEF IInv, QueueSupport
<1>i. ~InMap(p, SessionOf(u0))
  <2>1. \A v \in userMap[p] : v \in Users
    BY <1>f DEF Fields
  <2>2. QED
    BY <1>m, <1>n, <2>1, UserFacts DEF InMap
<1>u. /\ made' = [made EXCEPT ![s0] = 1] /\ uPipe' = [uPipe EXCEPT ![u0] = p]
      /\ userMap' = [userMap EXCEPT ![p] = userMap[p] \cup {u0}]
      /\ status' = status
  <2> DEFINE u1 == <<s0, made[s0] + 1>>
  <2>1. u1 = u0 /\ made[s0] + 1 = 1
    BY <1>m
  <2>2. /\ made' = [made EXCEPT ![s0] = made[s0] + 1] /\ uPipe' = [uPipe EXCEPT ![u1] = p]
        /\ Insert(p, u1) /\ status' = status
    BY DEF Join, sessionVars
  <2>3. Insert(p, u0)
    BY <2>1, <2>2
  <2>4. userMap' = [userMap EXCEPT ![p] = userMap[p] \cup {u0}]
    BY <2>3, <1>i DEF Insert
  <2>5. QED
    BY <2>1, <2>2, <2>4
<1> HIDE DEF s0, u0
<1>v. /\ userMap'[p] = userMap[p] \cup {u0} /\ \A r \in Pipes \ {p} : userMap'[r] = userMap[r]
      /\ uPipe'[u0] = p /\ \A v \in Users \ {u0} : uPipe'[v] = uPipe[v]
      /\ \A s \in Sessions \ {s0} : made'[s] = made[s]
  BY <1>f, <1>m, <1>q, <1>u DEF Fields
<1>1. ASSUME NEW s \in Sessions \ {s0} PROVE  Unmoved(s)
  <2>1. TheUser(s) \in Users /\ TheUser(s) # u0
    BY <1>m, UserFacts
  <2>2. QED
    BY <1>u, <1>v, <2>1 DEF Unmoved
<1>s. PICK s1 \in Sessions, u1 \in Users : s1 = s0 /\ u1 = u0 /\ u1 = TheUser(s1)
  BY <1>m, <1>q DEF u0
<1>2. PlaceOf(s1) = "outside" /\ PlaceOf(s1)' = p /\ FromOf(s1)' = p
  <2>1. PlaceFact(s1) /\ PlaceFact(s1)' /\ u1 \in userMap'[p] /\ u1 = TheUser(s1)
    BY <1>s, <1>q, <1>v DEF Placed
  <2>2. QED
    BY <1>s, <1>m, <1>v, <2>1 DEF PlaceFact, FromOf
<1>3. Membership!Enter(s1, p)
  BY <1>s, <1>q, <1>1, <1>2, OneMoves DEF Membership!Enter
<1>4. QED
  BY <1>s, <1>q, <1>3 DEF Membership!Next

\* OnUserMoveIn
LEMMA MoveInMaps ==
  ASSUME OneEntry, IInv, Placed, Placed', NEW p \in Pipes, MoveIn(p)
  PROVE  [Membership!Next]_Membership!vars
<1> USE PipesAssumption
<1> DEFINE u0 == Head(moveInQ[p])
<1> DEFINE s0 == SessionOf(u0)
<1>f. Fields /\ pc[p] = "in" /\ moveInQ[p] # <<>>
  BY DEF IInv, MoveIn, At
<1>q. u0 \in Users /\ u0 \in ElementsOf(moveInQ[p])
  <2>1. moveInQ \in Queues(Users) /\ \A r \in Pipes : Distinct(moveInQ[r])
    BY <1>f DEF Fields, IInv, QueueSupport, Queues
  <2>2. QED
    BY <2>1, <1>f, RestFacts
<1>m. /\ s0 \in Sessions /\ u0 = TheUser(s0) /\ status[s0] = "on" /\ made[s0] = 1
      /\ \A r \in Pipes : u0 \notin userMap[r]
      /\ uPipe[u0] \in Pipes /\ CodeOf[p] # CodeOf[uPipe[u0]]
  BY <1>q, UserFacts DEF IInv, QueueSupport
<1>i. ~InMap(p, SessionOf(u0))
  <2>1. \A v \in userMap[p] : v \in Users
    BY <1>f DEF Fields
  <2>2. QED
    BY <1>m, <2>1, UserFacts DEF InMap
<1>u. /\ uPipe' = [uPipe EXCEPT ![u0] = p]
      /\ userMap' = [userMap EXCEPT ![p] = userMap[p] \cup {u0}]
      /\ status' = status /\ made' = made
  BY <1>i DEF MoveIn, Insert, sessionVars
<1> HIDE DEF s0, u0
<1>v. /\ userMap'[p] = userMap[p] \cup {u0} /\ \A r \in Pipes \ {p} : userMap'[r] = userMap[r]
      /\ uPipe'[u0] = p /\ \A v \in Users \ {u0} : uPipe'[v] = uPipe[v]
  BY <1>f, <1>m, <1>q, <1>u DEF Fields
<1>1. ASSUME NEW s \in Sessions \ {s0} PROVE  Unmoved(s)
  <2>1. TheUser(s) \in Users /\ TheUser(s) # u0
    BY <1>m, UserFacts
  <2>2. QED
    BY <1>u, <1>v, <2>1 DEF Unmoved
<1>s. PICK s1 \in Sessions, u1 \in Users : s1 = s0 /\ u1 = u0 /\ u1 = TheUser(s1)
  BY <1>m, <1>q DEF u0
<1>2. /\ PlaceOf(s1) = "between" /\ PlaceOf(s1)' = p /\ FromOf(s1)' = p
      /\ CodeOf[p] # CodeOf[FromOf(s1)]
  <2>1. PlaceFact(s1) /\ PlaceFact(s1)' /\ u1 \in userMap'[p]
    BY <1>s, <1>m, <1>v DEF Placed
  <2>2. QED
    BY <1>s, <1>m, <1>v, <2>1 DEF PlaceFact, FromOf
<1>3. Membership!MoveIn(s1, p)
  BY <1>s, <1>m, <1>1, <1>2, OneMoves DEF Membership!MoveIn
<1>4. QED
  BY <1>s, <1>m, <1>3 DEF Membership!Next

\* OnUserMoveOut
LEMMA MoveOutMaps ==
  ASSUME OneEntry, IInv, Placed, Placed', NEW p \in Pipes, MoveOut(p)
  PROVE  [Membership!Next]_Membership!vars
<1> USE PipesAssumption
<1> DEFINE u0 == Head(moveOutQ[p])
<1> DEFINE s0 == SessionOf(u0)
<1>f. Fields /\ pc[p] = "out" /\ moveOutQ[p] # <<>>
  BY DEF IInv, MoveOut, At
<1>q. u0 \in Users /\ u0 \in ElementsOf(moveOutQ[p])
  <2>1. moveOutQ \in Queues(Users) /\ \A r \in Pipes : Distinct(moveOutQ[r])
    BY <1>f DEF Fields, IInv, QueueSupport, Queues
  <2>2. QED
    BY <2>1, <1>f, RestFacts
<1>m. /\ s0 \in Sessions /\ u0 = TheUser(s0) /\ u0 \in userMap[p] /\ made[s0] = 1
      /\ status[s0] = "on" /\ dest[s0] \in Pipes
  BY <1>q, UserFacts DEF IInv, QueueSupport
<1>n. \A r \in Pipes \ {p} : u0 \notin userMap[r]
  BY <1>m, <1>q, Alone
<1>u. /\ userMap' = [userMap EXCEPT ![p] = {v \in userMap[p] : SessionOf(v) # s0}]
      /\ status' = status /\ made' = made /\ uPipe' = uPipe
  <2>1. InMap(p, s0) /\ dest[s0] # None
    BY <1>m DEF InMap
  <2>2. QED
    BY <2>1 DEF MoveOut, sessionVars, userVars
<1> HIDE DEF s0, u0
<1>v. \A r \in Pipes : userMap'[r] = userMap[r] \ {u0}
  <2>1. {v \in userMap[p] : SessionOf(v) # s0} = userMap[p] \ {u0}
    <3>1. \A v \in userMap[p] : v \in Users
      BY <1>f DEF Fields
    <3>2. \A v \in Users : SessionOf(v) # s0 <=> v # u0
      BY <1>m, <1>q, UserFacts DEF s0
    <3>3. QED
      BY <3>1, <3>2
  <2>2. QED
    BY <1>f, <1>n, <1>u, <2>1 DEF Fields
<1>1. ASSUME NEW s \in Sessions \ {s0} PROVE  Unmoved(s)
  <2>1. TheUser(s) # u0
    BY <1>m, UserFacts
  <2>2. QED
    BY <1>u, <1>v, <2>1 DEF Unmoved
<1>s. PICK s1 \in Sessions, u1 \in Users : s1 = s0 /\ u1 = u0 /\ u1 = TheUser(s1)
  BY <1>m, <1>q DEF u0
<1>2. PlaceOf(s1) = p /\ PlaceOf(s1)' = "between" /\ FromOf(s1)' = FromOf(s1)
  <2>1. PlaceFact(s1) /\ PlaceFact(s1)' /\ \A r \in Pipes : TheUser(s1) \notin userMap'[r]
    BY <1>s, <1>m, <1>v DEF Placed
  <2>2. QED
    BY <1>s, <1>m, <1>u, <2>1 DEF PlaceFact, FromOf
<1>3. /\ ClientPlace' = [ClientPlace EXCEPT ![s1] = "between"] /\ ClientPlace[s1] = p
      /\ ClientFrom' = [ClientFrom EXCEPT ![s1] = ClientFrom[s1]]
  BY <1>s, <1>m, <1>1, <1>2, OneMoves
<1>4. ClientFrom' = ClientFrom
  BY <1>s, <1>3 DEF ClientFrom
<1>5. Membership!MoveOut(s1)
  BY <1>s, <1>3, <1>4 DEF Membership!MoveOut
<1>6. QED
  BY <1>s, <1>m, <1>5 DEF Membership!Next

\* OnUserLeave
LEMMA LeaveMaps ==
  ASSUME OneEntry, IInv, Placed, Placed', NEW p \in Pipes, Leave(p)
  PROVE  [Membership!Next]_Membership!vars
<1> USE PipesAssumption
<1> DEFINE s0 == Head(leaveQ[p])
<1> DEFINE u0 == TheUser(s0)
<1>f. Fields /\ pc[p] = "leave" /\ leaveQ[p] # <<>>
  BY DEF IInv, Leave, At
<1>q. s0 \in Sessions /\ s0 \in ElementsOf(leaveQ[p])
  <2>1. leaveQ \in Queues(Sessions) /\ \A r \in Pipes : Distinct(leaveQ[r])
    BY <1>f DEF Fields, IInv, QueueSupport, Queues
  <2>2. QED
    BY <2>1, <1>f, RestFacts
<1>m. u0 \in Users /\ SessionOf(u0) = s0 /\ u0 \in userMap[p]
  BY <1>q, UserFacts DEF IInv, QueueSupport, SessionSupport
<1>n. \A r \in Pipes \ {p} : u0 \notin userMap[r]
  BY <1>m, Alone
<1>u. /\ userMap' = [userMap EXCEPT ![p] = {v \in userMap[p] : SessionOf(v) # s0}]
      /\ status' = [status EXCEPT ![s0] = "gone"] /\ made' = made /\ uPipe' = uPipe
  <2>1. InMap(p, s0)
    BY <1>m DEF InMap
  <2>2. QED
    BY <2>1 DEF Leave, userVars
<1> HIDE DEF s0, u0
<1>v. \A r \in Pipes : userMap'[r] = userMap[r] \ {u0}
  <2>1. {v \in userMap[p] : SessionOf(v) # s0} = userMap[p] \ {u0}
    <3>1. \A v \in userMap[p] : v \in Users
      BY <1>f DEF Fields
    <3>2. \A v \in Users : SessionOf(v) # s0 <=> v # u0
      BY <1>m, <1>q, UserFacts DEF u0
    <3>3. QED
      BY <3>1, <3>2
  <2>2. QED
    BY <1>f, <1>n, <1>u, <2>1 DEF Fields
<1>w. status'[s0] = "gone" /\ \A s \in Sessions \ {s0} : status'[s] = status[s]
  BY <1>f, <1>q, <1>u DEF Fields
<1>1. ASSUME NEW s \in Sessions \ {s0} PROVE  Unmoved(s)
  <2>1. TheUser(s) # u0
    BY <1>m, UserFacts
  <2>2. QED
    BY <1>u, <1>v, <1>w, <2>1 DEF Unmoved
<1>s. PICK s1 \in Sessions, u1 \in Users : s1 = s0 /\ u1 = u0 /\ u1 = TheUser(s1)
  BY <1>m, <1>q DEF u0
<1>2. PlaceOf(s1) = p /\ PlaceOf(s1)' = "gone" /\ FromOf(s1)' = FromOf(s1)
  <2>1. PlaceFact(s1) /\ PlaceFact(s1)' /\ u1 = TheUser(s1)
    BY <1>s, <1>q DEF Placed
  <2>2. QED
    BY <1>s, <1>m, <1>u, <1>w, <2>1 DEF PlaceFact, FromOf
<1>3. /\ ClientPlace' = [ClientPlace EXCEPT ![s1] = "gone"] /\ ClientPlace[s1] = p
      /\ ClientFrom' = [ClientFrom EXCEPT ![s1] = ClientFrom[s1]]
  BY <1>s, <1>q, <1>1, <1>2, OneMoves
<1>4. ClientFrom' = ClientFrom
  BY <1>s, <1>3 DEF ClientFrom
<1>5. Membership!Leave(s1)
  BY <1>s, <1>3, <1>4 DEF Membership!Leave
<1>6. QED
  BY <1>s, <1>q, <1>5 DEF Membership!Next

\* Where nobody enters or leaves, and nothing ends, the application is told nothing.
LEMMA SilentMaps ==
  ASSUME Placed, Placed', UNCHANGED <<made, uPipe, userMap>>,
         \A s \in Sessions : status'[s] = "gone" <=> status[s] = "gone"
  PROVE  [Membership!Next]_Membership!vars
BY AllStay DEF Unmoved

LEMMA StepMaps ==
  ASSUME OneEntry, IInv, Placed, Placed', [Next]_vars
  PROVE  [Membership!Next]_Membership!vars
<1> USE PipesAssumption DEF sessionVars, moveVars, userVars, pipeVars, threadVars
<1>f. Fields
  BY DEF IInv
<1>1. ASSUME NEW s \in Sessions, AllocSession(s) PROVE  [Membership!Next]_Membership!vars
  <2>1. UNCHANGED <<made, uPipe, userMap>> /\ status' = [status EXCEPT ![s] = "on"] /\ status[s] = "off"
    BY <1>1 DEF AllocSession
  <2>2. \A r \in Sessions : status'[r] = "gone" <=> status[r] = "gone"
    BY <1>f, <2>1 DEF Fields
  <2>3. QED
    BY <2>1, <2>2, SilentMaps
<1>2. ASSUME NEW s \in Sessions, DisconnectSession(s) PROVE  [Membership!Next]_Membership!vars
  <2>1. refs[s] = Moves(s) + 1 /\ Moves(s) \in Nat
    BY <1>2, Counts DEF IInv, RefsExact, DisconnectSession
  <2>2. refs[s] # 0 /\ (refs[s] = 1 => Moves(s) = 0)
    BY <2>1
  <2>3. status[s] = "on"
    BY <2>2 DEF IInv, SessionSupport
  <2>4. Dropped(s) /\ UNCHANGED <<made, uPipe, userMap>>
    BY <1>2, <2>3, DropDoes DEF DisconnectSession
  <2>5. LastRef(s, {})
    BY <2>2, NoRefs DEF LastRef
  <2>6. QED
    BY <2>3, <2>4, <2>5, DropMaps
<1>3. ASSUME NEW t \in Callers, NEW s \in Sessions, NEW c \in Codes, MovePipe(t, s, c)
      PROVE  [Membership!Next]_Membership!vars
  BY <1>3, SilentMaps DEF MovePipe, FindForMove
<1>4. ASSUME NEW t \in Pipes, NEW u \in Users, NEW c \in Codes, MoveUser(t, u, c)
      PROVE  [Membership!Next]_Membership!vars
  BY <1>4, SilentMaps DEF MoveUser, FindForMove
<1>5. ASSUME NEW t \in Pipes, pc[t] \in {"refuse", "drop"}, DropRef(who[t]),
             UNCHANGED <<made, uPipe, userMap>>
      PROVE  [Membership!Next]_Membership!vars
  <2>1. who[t] \in Sessions /\ status[who[t]] = "on" /\ t \in PipesOf(who[t])
    <3>1. PipeSupport(t)
      BY DEF IInv
    <3>2. QED
      BY <1>5, <3>1 DEF PipeSupport, PipesOf, MovePcs
  <2>2. Dropped(who[t]) /\ LastRef(who[t], {t})
    BY <1>5, <2>1, DropDoes, OneHolder
  <2>3. QED
    BY <1>5, <2>1, <2>2, DropMaps
<1>6. ASSUME NEW t \in Threads, MoveStep(t) PROVE  [Membership!Next]_Membership!vars
  <2>1. CASE isMovingPipe(t)
    BY <2>1, SilentMaps DEF isMovingPipe
  <2>2. CASE Refuse(t)
    <3>1. t \in Pipes
      BY <2>2 DEF Refuse, At, IInv, CallerSupport, Threads
    <3>2. QED
      BY <2>2, <3>1, <1>5 DEF Refuse, At
  <2>3. CASE PipeMoveStart(t)
    BY <2>3, SilentMaps DEF PipeMoveStart
  <2>4. CASE FindPipe(t)
    BY <2>4, SilentMaps DEF FindPipe
  <2>5. CASE RequestEnter(t)
    BY <2>5, SilentMaps DEF RequestEnter
  <2>6. CASE RequestMoveOut(t)
    BY <2>6, SilentMaps DEF RequestMoveOut
  <2>7. QED
    BY <1>6, <2>1, <2>2, <2>3, <2>4, <2>5, <2>6 DEF MoveStep
<1>7. ASSUME NEW p \in Pipes, NextPhase(p) PROVE  [Membership!Next]_Membership!vars
  BY <1>7, SilentMaps DEF NextPhase
<1>8. ASSUME NEW p \in Pipes, FrameStep(p) PROVE  [Membership!Next]_Membership!vars
  <2>1. CASE Join(p) \/ MoveIn(p) \/ MoveOut(p) \/ Leave(p)
    BY <2>1, JoinMaps, MoveInMaps, MoveOutMaps, LeaveMaps
  <2>2. CASE AfterPipeEnter(p)
    BY <2>2, SilentMaps DEF AfterPipeEnter
  <2>3. CASE PipeMoveEnd(p)
    BY <2>3, SilentMaps DEF PipeMoveEnd
  <2>4. CASE DecrementIOCount(p)
    BY <2>4, <1>5 DEF DecrementIOCount, At
  <2>5. CASE UserMoveEnd(p)
    BY <2>5, SilentMaps DEF UserMoveEnd
  <2>6. QED
    BY <1>8, <2>1, <2>2, <2>3, <2>4, <2>5 DEF FrameStep
<1>9. CASE UNCHANGED vars
  BY <1>9, SilentMaps DEF vars
<1>10. QED
  BY <1>1, <1>2, <1>3, <1>4, <1>6, <1>7, <1>8, <1>9 DEF Next

LEMMA InitMaps == ASSUME OneEntry PROVE  Init => Membership!Init
<1> SUFFICES ASSUME Init PROVE  Membership!Init
  OBVIOUS
<1>1. IInv /\ Placed
  BY InitHasInv, ClientsPlaced
<1>2. ASSUME NEW s \in Sessions PROVE  PlaceOf(s) = "outside" /\ FromOf(s) \in Pipes
  <2>1. PlaceFact(s) /\ TheUser(s) \in Users /\ AnyPipe \in Pipes
    BY <1>1, UserFacts, SomePipe DEF Placed, AnyPipe
  <2>2. QED
    BY <2>1 DEF PlaceFact, FromOf, Init
<1>3. QED
  BY <1>2 DEF Membership!Init, ClientPlace, ClientFrom

\* The application sees every client enter one pipe, move between pipes of different codes
\* and leave the one it is in, once (NetPipe.cpp 40-187).
THEOREM ImplementsMembership == ASSUME OneEntry PROVE  Spec => MembershipSpec
<1>1. Init => Membership!Init
  BY InitMaps
<1>2. IInv /\ IInv' /\ Placed /\ Placed' /\ [Next]_vars => [Membership!Next]_Membership!vars
  BY StepMaps
<1>3. IInv => Placed
  BY ClientsPlaced
<1>4. QED
  BY <1>1, <1>2, <1>3, InductiveInvariant, PTL DEF Spec, MembershipSpec, Membership!Spec
=============================================================================
