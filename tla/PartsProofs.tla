---------------------------- MODULE PartsProofs ----------------------------
(***************************************************************************)
(* Proofs about parts that MCParts puts side by side, for constants of any *)
(* size: the client, the queue with two buffers, the queue with a count,   *)
(* the ring of bytes, and the job queue of a session.                      *)
(***************************************************************************)
EXTENDS Client, Sequences, FiniteSetTheorems, SequenceTheorems, TLAPS

-----------------------------------------------------------------------------
(***************************************************************************)
(* Client: any number of threads that send, and of connections that are    *)
(* lost.                                                                   *)
(***************************************************************************)
LEMMA ClientInitHasInv ==
  ASSUME ClientInit
  PROVE  ClientInv
<1> USE ClientAssumption DEF ClientInit
<1>1. ClientTypeOK
  <2>1. \A t \in Threads : pc[t] \in Pcs
    BY DEF Pcs, Threads
  <2>2. pc \in [Threads -> Pcs]
    BY <2>1
  <2>3. losses \in 0 .. MaxLosses
    OBVIOUS
  <2>4. QED
    BY <2>2, <2>3 DEF ClientTypeOK
<1>2. StartsFirst
  BY DEF StartsFirst, Establishes, Threads
<1>3. NoStraySocket
  BY DEF NoStraySocket
<1>4. KnownStay /\ NewApart
  BY DEF KnownStay, NewApart, HasRead, Establishes, Threads
<1>5. QED
  BY <1>1, <1>2, <1>3, <1>4 DEF ClientInv

LEMMA ClientType ==
  ASSUME ClientInv, ClientNext
  PROVE  ClientTypeOK'
<1> USE DEF ClientInv, ClientTypeOK
<1>1. Receiver \in Threads /\ Senders \subseteq Threads /\ Unused \subseteq Handles
  BY DEF Threads, Unused
<1>2. \A t \in Threads, l \in Pcs : Goto(t, l) => pc' \in [Threads -> Pcs]
  BY DEF Goto
<1>3. CASE Network
  <2>1. pc' \in [Threads -> Pcs]
    BY <1>1, <1>2, <1>3 DEF Network, Start, Started, TestRunning, Recv, CloseSocket, StopRunning, Cleanup, Pcs
  <2>2. CASE Start
    BY <1>1, <2>1, <2>2 DEF Start
  <2>3. CASE Started
    BY <1>1, <2>1, <2>3 DEF Started, StartsFirst
  <2>4. CASE TestRunning \/ Recv
    BY <2>1, <2>4 DEF TestRunning, Recv
  <2>5. CASE CloseSocket \/ StopRunning \/ Cleanup
    BY <2>1, <2>5 DEF CloseSocket, StopRunning, Cleanup
  <2>6. QED
    BY <1>3, <2>2, <2>3, <2>4, <2>5 DEF Network
<1>4. ASSUME NEW t \in Threads, Reconnect(t) PROVE ClientTypeOK'
  <2>1. pc' \in [Threads -> Pcs]
    BY <1>2, <1>4 DEF Reconnect, ReadSock, NewSocket, TestSock, Connect, Exchange, OnConnect, Pcs
  <2>2. CASE ReadSock(t) \/ TestSock(t) \/ OnConnect(t)
    BY <2>1, <2>2 DEF ReadSock, TestSock, OnConnect
  <2>3. CASE NewSocket(t)
    BY <1>1, <2>1, <2>3 DEF NewSocket
  <2>4. CASE Connect(t) \/ Exchange(t)
    BY <2>1, <2>4 DEF Connect, Exchange
  <2>5. QED
    BY <1>4, <2>2, <2>3, <2>4 DEF Reconnect
<1>5. ASSUME NEW t \in Threads, SendPacket(t) \/ Send(t) PROVE ClientTypeOK'
  <2>1. pc' \in [Threads -> Pcs]
    BY <1>2, <1>5 DEF SendPacket, Send, Pcs
  <2>2. QED
    BY <1>5, <2>1 DEF SendPacket, Send
<1>6. ASSUME NEW h \in Handles, Lose(h) PROVE ClientTypeOK'
  <2>1. losses' \in 0 .. MaxLosses
    BY <1>6, ClientAssumption DEF Lose
  <2>2. QED
    BY <1>6, <2>1 DEF Lose
<1>7. QED
  BY <1>3, <1>4, <1>5, <1>6 DEF ClientNext

ClientCore == StartsFirst /\ NoStraySocket /\ (~Stopping => KnownStay /\ NewApart)

LEMMA ReceiverKeepsCore ==
  ASSUME ClientInv, ClientTypeOK', Start \/ Started \/ TestRunning \/ Recv
  PROVE  ClientCore'
<1> USE DEF ClientInv, ClientTypeOK, Goto
<1>0. Receiver \in Threads /\ Senders = Threads \ {Receiver}
  BY ClientAssumption DEF Threads
<1>1. CASE Start
  <2>1. PICK h \in Unused : new' = [new EXCEPT ![Receiver] = h] /\ state' = [state EXCEPT ![h] = "fresh"]
    BY <1>1 DEF Start
  <2>2. h \in Handles /\ state[h] \in {"none", "closed"} /\ 0 \notin Handles
    BY DEF Unused, Handles
  <2>3. sock = 0 /\ sock' = 0 /\ \A t \in Senders : pc[t] = "idle" /\ pc'[t] = "idle"
    BY <1>0, <1>1 DEF Start, StartsFirst
  <2>4. StartsFirst'
    BY <1>0, <1>1, <2>1, <2>2, <2>3 DEF Start, StartsFirst, Establishes
  <2>5. NoStraySocket'
    BY <1>0, <1>1, <2>1, <2>2, <2>3, ZenonT(40) DEF Start, NoStraySocket, Stopping
  <2>6. KnownStay' /\ NewApart'
    BY <1>0, <1>1, <2>1, <2>2, <2>3 DEF Start, KnownStay, NewApart, HasRead, Establishes
  <2>7. QED
    BY <2>4, <2>5, <2>6 DEF ClientCore
<1>2. CASE Started
  <2>1. sock = 0 /\ \A t \in Senders : pc[t] = "idle" /\ pc'[t] = "idle"
    BY <1>0, <1>2 DEF Started, StartsFirst
  <2>2. new[Receiver] \in Handles /\ 0 \notin Handles /\ ~Stopping /\ KnownStay /\ NewApart
    BY <1>0, <1>2 DEF Started, Stopping, NewApart, Establishes, Handles
  <2>3. sock' = new[Receiver] /\ state' = [state EXCEPT ![sock'] = "connected"] /\ pc' = [pc EXCEPT ![Receiver] = "running?"]
    BY <1>2 DEF Started
  <2>4. StartsFirst'
    BY <1>0, <2>1, <2>2, <2>3 DEF StartsFirst, Establishes
  <2>5. NoStraySocket'
    BY <1>0, <1>2, <2>1, <2>2, <2>3 DEF Started, NoStraySocket, Stopping
  <2>6. KnownStay' /\ NewApart'
    BY <1>0, <1>2, <2>1, <2>2, <2>3 DEF Started, KnownStay, NewApart, HasRead, Establishes
  <2>7. QED
    BY <2>4, <2>5, <2>6 DEF ClientCore
<1>3. CASE TestRunning \/ Recv
  <2>1. PICK l \in {"read", "closesocket", "running?", "socket"} :
          /\ pc' = [pc EXCEPT ![Receiver] = l]
          /\ pc[Receiver] \in {"running?", "io"}
          /\ l = "socket" => pc[Receiver] = "io" /\ state[old[Receiver]] \in {"lost", "closed"}
    BY <1>3 DEF TestRunning, Recv
  <2>2. UNCHANGED <<sock, state, old, new>> /\ ~Stopping /\ KnownStay /\ NewApart
    BY <1>3, <2>1 DEF TestRunning, Recv, Stopping
  <2>3. StartsFirst'
    BY <1>0, <2>1, <2>2 DEF StartsFirst, Establishes
  <2>4. NoStraySocket'
    BY <1>0, <2>1, <2>2 DEF NoStraySocket, Stopping
  <2>5. KnownStay'
    BY <1>0, <2>1, <2>2 DEF KnownStay, HasRead
  <2>6. NewApart'
    BY <1>0, <2>1, <2>2 DEF NewApart, HasRead, Establishes
  <2>7. QED
    BY <2>3, <2>4, <2>5, <2>6 DEF ClientCore
<1>4. QED
  BY <1>1, <1>2, <1>3

LEMMA StopKeepsCore ==
  ASSUME ClientInv, ClientTypeOK', CloseSocket \/ StopRunning \/ Cleanup
  PROVE  ClientCore'
<1>1. Receiver \in Threads /\ Receiver \notin Senders
  BY ClientAssumption DEF Threads
<1>2. PICK l \in {"stop", "cleanup", "stopped"} : pc' = [pc EXCEPT ![Receiver] = l]
  BY DEF CloseSocket, StopRunning, Cleanup, Goto
<1>3. Stopping' /\ sock' = sock /\ pc[Receiver] \notin {"start", "starting"}
  BY <1>1, <1>2 DEF CloseSocket, StopRunning, Cleanup, Stopping, ClientInv, ClientTypeOK
<1>4. StartsFirst'
  BY <1>1, <1>2, <1>3 DEF StartsFirst, Establishes, ClientInv, ClientTypeOK, CloseSocket, StopRunning, Cleanup
<1>5. QED
  BY <1>3, <1>4 DEF ClientCore, NoStraySocket

LEMMA LoseKeepsCore ==
  ASSUME ClientInv, ClientTypeOK', NEW h \in Handles, Lose(h)
  PROVE  ClientCore'
<1> USE DEF ClientInv, ClientTypeOK
<1>1. PICK e \in {"lost", "fin"} : state' = [state EXCEPT ![h] = e]
  BY DEF Lose
<1>2. state[h] \in {"connected", "fin"} /\ UNCHANGED <<sock, pc, old, new>>
  BY DEF Lose
<1>3. StartsFirst'
  BY <1>1, <1>2 DEF StartsFirst, Establishes
<1>4. NoStraySocket'
  BY <1>1, <1>2 DEF NoStraySocket, Stopping
<1>5. ASSUME KnownStay PROVE KnownStay'
  BY <1>1, <1>2, <1>5 DEF KnownStay, HasRead, Handles
<1>6. ASSUME NewApart PROVE NewApart'
  BY <1>1, <1>2, <1>6 DEF NewApart, HasRead, Establishes
<1>7. QED
  BY <1>2, <1>3, <1>4, <1>5, <1>6 DEF ClientCore, Stopping

\* A step that moves one thread and no socket.
LEMMA MovesKeepCore ==
  ASSUME ClientInv, ClientTypeOK', NEW t \in Threads,
         ReadSock(t) \/ TestSock(t) \/ OnConnect(t) \/ SendPacket(t) \/ Send(t)
  PROVE  ClientCore'
<1> USE DEF ClientInv, ClientTypeOK, Goto
<1>1. PICK l \in {"idle", "read", "io", "socket", "connect", "exchange"} : pc' = [pc EXCEPT ![t] = l]
  BY DEF ReadSock, TestSock, OnConnect, SendPacket, Send
<1>2. UNCHANGED <<sock, state, new>> /\ pc[t] \in {"idle", "read", "io", "test", "notify"}
  BY DEF ReadSock, TestSock, OnConnect, SendPacket, Send
<1>3. Receiver \in Threads /\ Senders = Threads \ {Receiver}
  BY ClientAssumption DEF Threads
<1>4. (~Stopping)' => ~Stopping /\ KnownStay /\ NewApart
  BY <1>1, <1>2, <1>3 DEF Stopping
<1>6. StartsFirst'
  BY <1>1, <1>2, <1>3 DEF StartsFirst, Establishes, ReadSock, TestSock, OnConnect, SendPacket, Send
<1>7. NoStraySocket'
  BY <1>1, <1>2, <1>3 DEF NoStraySocket, Stopping, ReadSock, TestSock, OnConnect, SendPacket, Send
<1>8. ASSUME KnownStay, NewApart PROVE KnownStay' /\ NewApart'
  <2>1. CASE ReadSock(t)
    <3>1. old' = [old EXCEPT ![t] = sock] /\ pc' = [pc EXCEPT ![t] = "io"] /\ pc[t] = "read"
      BY <2>1 DEF ReadSock
    <3>2. sock \in Handles /\ state[sock] \in {"connected", "fin", "lost"}
      BY <1>3, <1>8, <3>1 DEF StartsFirst, KnownStay
    <3>3. KnownStay'
      BY <1>2, <1>8, <3>1, <3>2 DEF KnownStay, HasRead
    <3>4. \A u \in Threads : Establishes(u)' <=> Establishes(u)
      BY <3>1 DEF Establishes
    <3>5. \A u, v \in Threads : Establishes(u) /\ HasRead(v)' => old'[v] # new[u]
      BY <1>8, <3>1 DEF NewApart, HasRead
    <3>6. \A u \in Threads : pc[u] \in {"exchange", "test", "connect", "starting"} => pc'[u] = pc[u] /\ old'[u] = old[u]
      BY <3>1
    <3>7. \A u \in Threads : Establishes(u) => pc'[u] = pc[u] /\ old'[u] = old[u]
      BY <3>6 DEF Establishes
    <3>8. NewApart'
      BY <1>2, <1>8, <3>4, <3>5, <3>7 DEF NewApart
    <3>9. QED
      BY <3>3, <3>8
  <2>2. CASE TestSock(t)
    <3>1. pc[t] = "test" /\ l \in {"connect", "exchange"} /\ (l = "exchange" => sock # old[t]) /\ old' = old
      BY <1>1, <2>2 DEF TestSock
    <3>2. KnownStay'
      BY <1>1, <1>2, <1>8, <3>1 DEF KnownStay, HasRead
    <3>3. \A u \in Threads : (Establishes(u)' <=> Establishes(u)) /\ (HasRead(u)' <=> HasRead(u))
      BY <1>1, <3>1 DEF Establishes, HasRead
    <3>4. NewApart'
      BY <1>1, <1>2, <1>8, <3>1, <3>3 DEF NewApart, Establishes
    <3>5. QED
      BY <3>2, <3>4
  <2>3. CASE OnConnect(t) \/ SendPacket(t)
    <3>1. pc[t] \in {"notify", "idle"} /\ l = "read" /\ old' = old
      BY <1>1, <2>3 DEF OnConnect, SendPacket
    <3>2. KnownStay'
      BY <1>1, <1>2, <1>8, <3>1 DEF KnownStay, HasRead
    <3>3. NewApart'
      BY <1>1, <1>2, <1>8, <3>1 DEF NewApart, Establishes, HasRead
    <3>4. QED
      BY <3>2, <3>3
  <2>4. CASE Send(t)
    <3>1. /\ pc[t] = "io" /\ l \in {"socket", "idle"} /\ \A u \in Threads \ {t} : old'[u] = old[u]
          /\ l = "socket" => old' = old /\ state[old[t]] \notin {"connected", "fin"}
      BY <1>1, <2>4 DEF Send
    <3>2. KnownStay'
      BY <1>1, <1>2, <1>8, <3>1 DEF KnownStay, HasRead
    <3>3. NewApart'
      BY <1>1, <1>2, <1>8, <3>1 DEF NewApart, Establishes, HasRead
    <3>4. QED
      BY <3>2, <3>3
  <2>5. QED
    BY <2>1, <2>2, <2>3, <2>4
<1>9. QED
  BY <1>4, <1>6, <1>7, <1>8 DEF ClientCore

LEMMA NewSocketKeepsCore ==
  ASSUME ClientInv, ClientTypeOK', NEW t \in Threads, NewSocket(t)
  PROVE  ClientCore'
<1> USE DEF ClientInv, ClientTypeOK, Goto
<1>1. Receiver \in Threads /\ Senders = Threads \ {Receiver}
  BY ClientAssumption DEF Threads
<1>2. pc[t] = "socket" /\ UNCHANGED <<sock, old>>
  BY DEF NewSocket
<1>3. (~Stopping)' => ~Stopping /\ KnownStay /\ NewApart
  BY <1>1, <1>2 DEF NewSocket, Stopping
<1>4. StartsFirst'
  BY <1>1, <1>2, SMTT(30) DEF NewSocket, StartsFirst, Establishes, Unused, Handles
<1>5. CASE ~winsock
  <2>1. pc' = [pc EXCEPT ![t] = "quit"] /\ UNCHANGED <<new, state>>
    BY <1>5 DEF NewSocket
  <2>2. NoStraySocket'
    BY <1>1, <1>2, <2>1 DEF NoStraySocket, Stopping
  <2>3. ASSUME KnownStay, NewApart PROVE KnownStay' /\ NewApart'
    BY <1>2, <2>1, <2>3 DEF KnownStay, NewApart, Establishes, HasRead
  <2>4. QED
    BY <1>3, <1>4, <2>2, <2>3 DEF ClientCore
<1>6. CASE winsock
  <2>1. PICK h \in Unused : new' = [new EXCEPT ![t] = h] /\ state' = [state EXCEPT ![h] = "fresh"]
    BY <1>6 DEF NewSocket
  <2>2. pc' = [pc EXCEPT ![t] = "test"] /\ h \in Handles /\ state[h] \in {"none", "closed"} /\ 0 \notin Handles
    BY <1>6 DEF NewSocket, Unused, Handles
  <2>3. NoStraySocket'
    <3>1. ASSUME NEW g \in Handles, state'[g] \in {"fresh", "connected", "fin"}, g # sock, ~Stopping'
          PROVE  \E u \in Threads : new'[u] = g /\ pc'[u] \in {"starting", "test", "connect", "exchange"}
      <4>1. CASE g = h
        BY <2>1, <2>2, <4>1
      <4>2. CASE g # h
        <5>1. PICK u \in Threads : new[u] = g /\ pc[u] \in {"starting", "test", "connect", "exchange"}
          BY <1>3, <2>1, <3>1, <4>2 DEF NoStraySocket
        <5>2. u # t
          BY <1>2, <5>1
        <5>3. QED
          BY <2>1, <2>2, <5>1, <5>2
      <4>3. QED
        BY <4>1, <4>2
    <3>2. QED
      BY <1>2, <3>1 DEF NoStraySocket
  <2>4. ASSUME KnownStay, NewApart PROVE KnownStay' /\ NewApart'
    <3>1. sock # h /\ \A u \in Threads : (HasRead(u) => old[u] # h) /\ (Establishes(u) => new[u] # h)
      BY <2>2, <2>4 DEF KnownStay, NewApart
    <3>2. KnownStay'
      BY <1>2, <2>1, <2>2, <2>4, <3>1 DEF KnownStay, HasRead
    <3>3. NewApart'
      BY <1>2, <2>1, <2>2, <2>4, <3>1 DEF NewApart, HasRead, Establishes
    <3>4. QED
      BY <3>2, <3>3
  <2>5. QED
    BY <1>3, <1>4, <2>3, <2>4 DEF ClientCore
<1>7. QED
  BY <1>5, <1>6

LEMMA ConnectKeepsCore ==
  ASSUME ClientInv, ClientTypeOK', NEW t \in Threads, Connect(t)
  PROVE  ClientCore'
<1> USE DEF ClientInv, ClientTypeOK, Goto
<1>1. Receiver \in Threads /\ Senders = Threads \ {Receiver}
  BY ClientAssumption DEF Threads
<1>2. pc[t] = "connect" /\ UNCHANGED <<sock, old, new>>
  BY DEF Connect
<1>3. PICK l \in {"exchange", "test"} :
        /\ pc' = [pc EXCEPT ![t] = l]
        /\ IF l = "exchange" THEN state' = [state EXCEPT ![new[t]] = "connected"] ELSE state' = state
  BY DEF Connect
<1>4. (~Stopping)' => ~Stopping /\ KnownStay /\ NewApart
  BY <1>1, <1>2, <1>3 DEF Stopping
<1>5. StartsFirst'
  BY <1>1, <1>2, <1>3 DEF StartsFirst, Establishes
<1>6. NoStraySocket'
  BY <1>1, <1>2, <1>3, <1>4 DEF NoStraySocket, Stopping, NewApart, Establishes
<1>7. ASSUME KnownStay, NewApart PROVE KnownStay' /\ NewApart'
  <2>1. \A u \in Threads : (Establishes(u)' <=> Establishes(u)) /\ (HasRead(u)' <=> HasRead(u))
    BY <1>2, <1>3 DEF Establishes, HasRead
  <2>2. new[t] \in Handles \ {sock} /\ \A u \in Threads : (HasRead(u) => old[u] # new[t]) /\ (Establishes(u) /\ u # t => new[u] # new[t])
    BY <1>2, <1>7 DEF NewApart, Establishes
  <2>3. \A g \in Handles : g # new[t] => state'[g] = state[g]
    BY <1>3
  <2>4. KnownStay'
    BY <1>2, <1>3, <1>7, <2>1, <2>2, <2>3 DEF KnownStay, HasRead
  <2>5. NewApart'
    BY <1>2, <1>3, <1>7, <2>1, <2>2, <2>3 DEF NewApart, Establishes
  <2>6. QED
    BY <2>4, <2>5
<1>8. QED
  BY <1>4, <1>5, <1>6, <1>7 DEF ClientCore

LEMMA ExchangeKeepsCore ==
  ASSUME ClientInv, ClientTypeOK', NEW t \in Threads, Exchange(t)
  PROVE  ClientCore'
<1> USE DEF ClientInv, ClientTypeOK, Goto
<1>1. Receiver \in Threads /\ Senders = Threads \ {Receiver} /\ 0 \notin Handles
  BY ClientAssumption DEF Threads, Handles
<1>2. pc[t] = "exchange" /\ UNCHANGED <<old, new>>
  BY DEF Exchange
<1>3. CASE sock = old[t]
  <2>1. sock' = new[t] /\ pc' = [pc EXCEPT ![t] = "notify"] /\ UNCHANGED state
    BY <1>3 DEF Exchange
  <2>2. (~Stopping)' => ~Stopping /\ KnownStay /\ NewApart
    BY <1>1, <1>2, <2>1 DEF Stopping
  <2>3. sock # 0
    BY <1>1, <1>2 DEF StartsFirst
  <2>4. ASSUME KnownStay, NewApart
        PROVE  /\ new[t] \in Handles \ {sock} /\ state[new[t]] \in {"connected", "fin", "lost"}
               /\ sock \in Handles /\ state[sock] = "lost"
               /\ \A u \in Threads : HasRead(u) => old[u] # new[t]
    BY <1>2, <1>3, <2>3, <2>4 DEF KnownStay, NewApart, Establishes, HasRead
  <2>5. StartsFirst'
    BY <1>1, <1>2, <2>1, <2>3, <2>4 DEF StartsFirst, Establishes
  <2>6. NoStraySocket'
    <3>1. ASSUME NEW g \in Handles, state'[g] \in {"fresh", "connected", "fin"}, g # sock', ~Stopping'
          PROVE  \E u \in Threads : new'[u] = g /\ pc'[u] \in {"starting", "test", "connect", "exchange"}
      <4>1. g # sock /\ state[g] \in {"fresh", "connected", "fin"} /\ ~Stopping
        BY <2>1, <2>2, <2>4, <3>1
      <4>2. PICK u \in Threads : new[u] = g /\ pc[u] \in {"starting", "test", "connect", "exchange"}
        BY <4>1 DEF NoStraySocket
      <4>3. u # t
        BY <2>1, <3>1, <4>2
      <4>4. QED
        BY <1>2, <2>1, <4>2, <4>3
    <3>2. QED
      BY <3>1 DEF NoStraySocket
  <2>7. ASSUME KnownStay, NewApart PROVE KnownStay' /\ NewApart'
    <3>1. \A u \in Threads \ {t} : (Establishes(u)' <=> Establishes(u)) /\ (HasRead(u)' <=> HasRead(u))
      BY <1>2, <2>1 DEF Establishes, HasRead
    <3>2. ~Establishes(t)' /\ ~HasRead(t)' /\ Establishes(t)
      BY <1>2, <2>1 DEF Establishes, HasRead
    <3>3. KnownStay'
      BY <1>2, <2>1, <2>4, <2>7, <3>1, <3>2 DEF KnownStay
    <3>4. \A u \in Threads \ {t} : Establishes(u) => new[u] # new[t] /\ pc'[u] = pc[u] /\ (HasRead(u) => old[u] # new[t])
      BY <1>2, <2>1, <2>4, <2>7, <3>2 DEF NewApart
    <3>5. \A u \in Threads : pc[u] = "exchange" => HasRead(u)
      BY DEF HasRead
    <3>6. NewApart'
      BY <1>2, <2>1, <2>4, <2>7, <3>1, <3>2, <3>4, <3>5 DEF NewApart
    <3>7. QED
      BY <3>3, <3>6
  <2>8. QED
    BY <2>2, <2>5, <2>6, <2>7 DEF ClientCore
<1>4. CASE sock # old[t]
  <2>1. pc' = [pc EXCEPT ![t] = "read"] /\ state' = [state EXCEPT ![new[t]] = "closed"] /\ sock' = sock
    BY <1>4 DEF Exchange
  <2>2. (~Stopping)' => ~Stopping /\ KnownStay /\ NewApart
    BY <1>1, <1>2, <2>1 DEF Stopping
  <2>3. StartsFirst'
    BY <1>1, <1>2, <2>1 DEF StartsFirst, Establishes
  <2>4. NoStraySocket'
    <3>1. ASSUME NEW g \in Handles, state'[g] \in {"fresh", "connected", "fin"}, g # sock, ~Stopping'
          PROVE  \E u \in Threads : new'[u] = g /\ pc'[u] \in {"starting", "test", "connect", "exchange"}
      <4>1. g # new[t] /\ state[g] \in {"fresh", "connected", "fin"} /\ ~Stopping
        BY <2>1, <2>2, <3>1
      <4>2. PICK u \in Threads : new[u] = g /\ pc[u] \in {"starting", "test", "connect", "exchange"}
        BY <3>1, <4>1 DEF NoStraySocket
      <4>3. u # t
        BY <4>1, <4>2
      <4>4. QED
        BY <1>2, <2>1, <4>2, <4>3
    <3>2. QED
      BY <2>1, <3>1 DEF NoStraySocket
  <2>5. ASSUME KnownStay, NewApart PROVE KnownStay' /\ NewApart'
    <3>1. \A u \in Threads \ {t} : (Establishes(u)' <=> Establishes(u)) /\ (HasRead(u)' <=> HasRead(u)) /\ pc'[u] = pc[u]
      BY <1>2, <2>1 DEF Establishes, HasRead
    <3>2. ~Establishes(t)' /\ ~HasRead(t)' /\ Establishes(t)
      BY <1>2, <2>1 DEF Establishes, HasRead
    <3>3. new[t] \in Handles \ {sock} /\ \A u \in Threads : (HasRead(u) => old[u] # new[t]) /\ (Establishes(u) /\ u # t => new[u] # new[t])
      BY <2>5, <3>2 DEF NewApart
    <3>4. \A g \in Handles : g # new[t] => state'[g] = state[g]
      BY <2>1
    <3>5. KnownStay'
      BY <1>2, <2>1, <2>5, <3>1, <3>2, <3>3, <3>4 DEF KnownStay
    <3>6. NewApart'
      BY <1>2, <2>1, <2>5, <3>1, <3>2, <3>3, <3>4 DEF NewApart
    <3>7. QED
      BY <3>5, <3>6
  <2>6. QED
    BY <2>2, <2>3, <2>4, <2>5 DEF ClientCore
<1>5. QED
  BY <1>3, <1>4

LEMMA ClientNextKeepsInv ==
  ASSUME ClientInv, [ClientNext]_clientVars
  PROVE  ClientInv'
<1>1. CASE UNCHANGED clientVars
  BY <1>1 DEF clientVars, ClientInv, ClientTypeOK, StartsFirst, NoStraySocket, Stopping, KnownStay, NewApart, Establishes, HasRead
<1>2. CASE ClientNext
  <2>1. ClientTypeOK'
    BY <1>2, ClientType
  <2>2. ClientCore'
    BY <1>2, <2>1, ReceiverKeepsCore, StopKeepsCore, LoseKeepsCore, MovesKeepCore, NewSocketKeepsCore, ConnectKeepsCore,
       ExchangeKeepsCore
    DEF ClientNext, Network, Reconnect
  <2>3. QED
    BY <2>1, <2>2 DEF ClientCore, ClientInv
<1>3. QED
  BY <1>1, <1>2

LEMMA ReplacesLost ==
  ASSUME ClientInv, ClientNext, sock # 0, sock' # sock, ~Stopping
  PROVE  state[sock] = "lost" /\ state[sock'] \notin {"fresh", "closed", "none"}
<1>1. ~Network
  BY DEF Network, Start, Started, TestRunning, Recv, CloseSocket, StopRunning, Cleanup, ClientInv, StartsFirst
<1>2. PICK t \in Threads : Exchange(t)
  BY <1>1 DEF ClientNext, Reconnect, ReadSock, NewSocket, TestSock, Connect, OnConnect, SendPacket, Send, Lose
<1>3. pc[t] = "exchange" /\ sock = old[t] /\ sock' = new[t]
  BY <1>2 DEF Exchange
<1>4. QED
  BY <1>3 DEF ClientInv, KnownStay, NewApart, HasRead, Establishes

\* Whatever number of threads send, and however often the connection is lost: of the
\* sockets that are made meanwhile none is left open, and sock_ is replaced only when it
\* is lost, by one that was connected (NetClient.cpp 157-265).
THEOREM ClientKeepsSocket == ClientSpec => SocketsKept
<1>1. ClientInit => ClientInv
  BY ClientInitHasInv
<1>2. ClientInv /\ [ClientNext]_clientVars => ClientInv'
  BY ClientNextKeepsInv
<1>3. ClientInv => ClientTypeOK /\ NoStraySocket
  BY DEF ClientInv
<1>4. ClientInv /\ [ClientNext]_clientVars
        => [sock # 0 /\ sock' # sock /\ ~Stopping
              => state[sock] = "lost" /\ state[sock'] \notin {"fresh", "closed", "none"}]_clientVars
  BY ReplacesLost
<1>5. QED
  BY <1>1, <1>2, <1>3, <1>4, PTL DEF ClientSpec, SocketsKept, ReplacedWhenLost

-----------------------------------------------------------------------------
(***************************************************************************)
(* SwapQueue: any number of producers and of items, and any size.          *)
(***************************************************************************)
CONSTANTS Producers, MaxItems, QUEUE_MAX_SIZE
VARIABLES queue, curQueue, lock, inner, mine, sent, received, dropped
Pair == INSTANCE SwapQueue

SwapConstants == 0 \notin Producers /\ MaxItems \in Nat /\ QUEUE_MAX_SIZE \in Nat \ {0}

LEMMA SwapInitHasInv ==
  ASSUME SwapConstants, Pair!Init
  PROVE  Pair!SwapInv
<1> USE DEF Pair!Init, SwapConstants
<1>1. Pair!TypeOK
  BY DEF Pair!TypeOK
<1>2. Pair!AllItems = <<>>
  BY DEF Pair!AllItems
<1>3. QED
  BY <1>1, <1>2 DEF Pair!SwapInv

\* A step that moves no item.
LEMMA ItemsRest ==
  ASSUME SwapConstants, Pair!SwapInv, Pair!TypeOK', Pair!AllItems' = Pair!AllItems, UNCHANGED <<sent, dropped>>,
         mine' \in {0, 3 - curQueue'} /\ (mine' = 0 => queue'[3 - curQueue'] = <<>>),
         inner'[3 - curQueue'] = 0 /\ inner'[curQueue'] \in lock' \cup {0},
         \A p \in lock' : sent[p] < MaxItems
  PROVE  Pair!SwapInv'
BY DEF Pair!SwapInv

LEMMA LocksKeepInv ==
  ASSUME SwapConstants, Pair!SwapInv, NEW p \in Producers, Pair!EnterShared(p) \/ Pair!LockQueue(p)
  PROVE  Pair!SwapInv'
<1>1. Pair!TypeOK' /\ UNCHANGED <<queue, curQueue, mine, sent, dropped, received>>
  BY DEF Pair!EnterShared, Pair!LockQueue, Pair!SwapInv, Pair!TypeOK
<1>2. Pair!AllItems' = Pair!AllItems
  BY <1>1 DEF Pair!AllItems
<1>3. inner'[3 - curQueue] = 0 /\ inner'[curQueue] \in lock' \cup {0} /\ \A q \in lock' : sent[q] < MaxItems
  BY DEF Pair!EnterShared, Pair!LockQueue, Pair!SwapInv, Pair!TypeOK
<1>4. QED
  BY <1>1, <1>2, <1>3, ItemsRest DEF Pair!SwapInv

LEMMA SwapKeepsInv ==
  ASSUME SwapConstants, Pair!SwapInv, Pair!Swap
  PROVE  Pair!SwapInv'
<1> USE DEF Pair!Swap, Pair!SwapInv
<1>1. Pair!TypeOK' /\ curQueue \in {1, 2} /\ curQueue' = 3 - curQueue /\ 3 - curQueue' = curQueue /\ mine' = curQueue
  BY DEF Pair!TypeOK
<1>2. queue[3 - curQueue] = <<>> /\ queue' = queue /\ received' = received
  OBVIOUS
<1>3. received \in Seq(Pair!Items) /\ queue[curQueue] \in Seq(Pair!Items)
  BY <1>1 DEF Pair!TypeOK
<1>4. Pair!AllItems' = Pair!AllItems
  BY <1>1, <1>2, <1>3 DEF Pair!AllItems
<1>5. inner'[3 - curQueue'] = 0 /\ inner'[curQueue'] = 0
  BY <1>1 DEF Pair!TypeOK
<1>6. QED
  BY <1>1, <1>4, <1>5, ItemsRest

LEMMA TakeKeepsAll ==
  ASSUME NEW S
  PROVE  \A r, q, c \in Seq(S) : q # <<>> => Append(r, Head(q)) \o Tail(q) \o c = r \o q \o c
<1> SUFFICES ASSUME NEW r \in Seq(S), NEW q \in Seq(S), NEW c \in Seq(S), q # <<>>
             PROVE  Append(r, Head(q)) \o Tail(q) \o c = r \o q \o c
  OBVIOUS
<1>1. Append(r, Head(q)) = r \o <<Head(q)>> /\ Head(q) \in S /\ Tail(q) \in Seq(S)
  OBVIOUS
<1>2. <<Head(q)>> \o Tail(q) = q
  OBVIOUS
<1>3. r \o q = (r \o <<Head(q)>>) \o Tail(q)
  <2>1. <<Head(q)>> \in Seq(S)
    BY <1>1
  <2>2. (r \o <<Head(q)>>) \o Tail(q) = r \o (<<Head(q)>> \o Tail(q))
    BY <1>1, <2>1, ConcatAssociative
  <2>3. QED
    BY <1>2, <2>2
<1>4. QED
  BY <1>1, <1>3

LEMMA TakeOfItems ==
  \A r, q, c \in Seq(Pair!Items) : q # <<>> => Append(r, Head(q)) \o Tail(q) \o c = r \o q \o c
BY TakeKeepsAll

LEMMA DequeueKeepsInv ==
  ASSUME SwapConstants, Pair!SwapInv, Pair!Dequeue
  PROVE  Pair!SwapInv'
<1> USE DEF Pair!Dequeue, Pair!SwapInv
<1>1. mine = 3 - curQueue /\ curQueue \in {1, 2} /\ curQueue' = curQueue /\ mine \in {1, 2}
  BY DEF Pair!TypeOK
<1>2. /\ received \in Seq(Pair!Items) /\ queue[curQueue] \in Seq(Pair!Items) /\ queue[mine] \in Seq(Pair!Items)
      /\ queue[mine] # <<>>
  BY <1>1 DEF Pair!TypeOK
<1>3. received' = Append(received, Head(queue[mine])) /\ queue'[mine] = Tail(queue[mine]) /\ queue'[curQueue] = queue[curQueue]
  BY <1>1 DEF Pair!TypeOK
<1>4. Pair!TypeOK'
  BY <1>1, <1>2 DEF Pair!TypeOK
<1>5. Pair!AllItems' = Pair!AllItems
  <2>1. Pair!AllItems' = Append(received, Head(queue[mine])) \o Tail(queue[mine]) \o queue[curQueue]
    BY <1>1, <1>3 DEF Pair!AllItems
  <2>2. Pair!AllItems = received \o queue[mine] \o queue[curQueue]
    BY <1>1 DEF Pair!AllItems
  <2>3. Append(received, Head(queue[mine])) \o Tail(queue[mine]) \o queue[curQueue]
          = received \o queue[mine] \o queue[curQueue]
    BY <1>2, TakeOfItems
  <2>4. QED
    BY <2>1, <2>2, <2>3
<1>6. QED
  BY <1>1, <1>4, <1>5, ItemsRest

LEMMA PutAppends ==
  ASSUME NEW S
  PROVE  \A r, q, c \in Seq(S), e \in S : r \o q \o Append(c, e) = Append(r \o q \o c, e)
<1> SUFFICES ASSUME NEW r \in Seq(S), NEW q \in Seq(S), NEW c \in Seq(S), NEW e \in S
             PROVE  r \o q \o Append(c, e) = Append(r \o q \o c, e)
  OBVIOUS
<1>1. Append(c, e) = c \o <<e>> /\ Append(r \o q \o c, e) = (r \o q \o c) \o <<e>> /\ r \o q \in Seq(S)
  OBVIOUS
<1>2. QED
  BY <1>1, ConcatAssociative

LEMMA PutOfItem ==
  \A r, q, c \in Seq(Pair!Items), e \in Pair!Items : r \o q \o Append(c, e) = Append(r \o q \o c, e)
BY PutAppends

LEMMA EnqueueKeepsInv ==
  ASSUME SwapConstants, Pair!SwapInv, NEW p \in Producers, Pair!Enqueue(p)
  PROVE  Pair!SwapInv'
<1> USE DEF Pair!SwapInv, SwapConstants
<1> DEFINE item == <<p, sent[p] + 1>>
           all == Pair!AllItems
<1>1. PICK q \in {1, 2} :
        /\ inner[q] = p
        /\ IF Pair!isFull(q)
           THEN dropped' = dropped \cup {item} /\ UNCHANGED queue
           ELSE queue' = [queue EXCEPT ![q] = Append(@, item)] /\ UNCHANGED dropped
        /\ inner' = [inner EXCEPT ![q] = 0] /\ lock' = lock \ {p}
        /\ sent' = [sent EXCEPT ![p] = @ + 1]
        /\ UNCHANGED <<curQueue, mine, received>>
  BY DEF Pair!Enqueue
<1>2. q = curQueue /\ p \in lock /\ 3 - q \in {1, 2} /\ 3 - q # q
  BY <1>1 DEF Pair!TypeOK
<1>3. sent[p] \in 0 .. MaxItems - 1 /\ item \in Pair!Items
  BY <1>2 DEF Pair!TypeOK, Pair!Items
<1>4. Pair!TypeOK'
  <2>1. queue' \in [{1, 2} -> Seq(Pair!Items)] /\ dropped' \subseteq Pair!Items
    <3>1. queue \in [{1, 2} -> Seq(Pair!Items)] /\ queue[q] \in Seq(Pair!Items) /\ dropped \subseteq Pair!Items
      BY DEF Pair!TypeOK
    <3>2. Append(queue[q], item) \in Seq(Pair!Items)
      BY <1>3, <3>1
    <3>3. QED
      BY <1>1, <1>3, <3>1, <3>2, ZenonT(40), ZenonT(40)
  <2>2. sent' \in [Producers -> 0..MaxItems]
    BY <1>1, <1>3 DEF Pair!TypeOK
  <2>3. QED
    BY <1>1, <2>1, <2>2 DEF Pair!TypeOK
<1>5. all \in Seq(Pair!Items) /\ received \in Seq(Pair!Items) /\ queue[q] \in Seq(Pair!Items) /\ queue[3 - q] \in Seq(Pair!Items)
  BY <1>2 DEF Pair!AllItems, Pair!TypeOK
<1>6. /\ mine' \in {0, 3 - curQueue'} /\ (mine' = 0 => queue'[3 - curQueue'] = <<>>)
      /\ inner'[3 - curQueue'] = 0 /\ inner'[curQueue'] = 0
  BY <1>1, <1>2 DEF Pair!TypeOK
<1>7. \A x \in lock' : sent'[x] < MaxItems
  BY <1>1 DEF Pair!TypeOK
<1>8. \A x \in Producers : sent'[x] = IF x = p THEN sent[p] + 1 ELSE sent[x]
  BY <1>1 DEF Pair!TypeOK
<1>9. \A x \in Producers : sent[x] \in Nat
  BY DEF Pair!TypeOK
<1>10. CASE Pair!isFull(q)
  <2>1. all' = all /\ dropped' = dropped \cup {item}
    BY <1>1, <1>10 DEF Pair!AllItems
  <2>2. \A i \in DOMAIN all : all[i] \in Pair!Items
    BY <1>5
  <2>3. \A i \in DOMAIN all : all[i] \notin dropped' /\ all[i][2] <= sent'[all[i][1]]
    BY <1>3, <1>8, <1>9, <2>1, <2>2 DEF Pair!Items
  <2>4. \A x \in dropped' : x[2] <= sent'[x[1]]
    BY <1>3, <1>8, <1>9, <2>1, SMTT(30), SMTT(30) DEF Pair!Items, Pair!TypeOK
  <2>5. \A x \in Producers : \A k \in 1..sent'[x] : <<x, k>> \in dropped' \/ \E i \in DOMAIN all : all[i] = <<x, k>>
    <3>1. ASSUME NEW x \in Producers, NEW k \in 1..sent'[x]
          PROVE  <<x, k>> = item \/ k \in 1..sent[x]
      BY <1>8, <1>9
    <3>2. QED
      BY <2>1, <3>1
  <2>6. QED
    BY <1>1, <1>4, <1>6, <1>7, <2>1, <2>3, <2>4, <2>5
<1>11. CASE ~Pair!isFull(q)
  <2>1. all' = Append(all, item) /\ dropped' = dropped
    <3>1. queue'[q] = Append(queue[q], item) /\ queue'[3 - q] = queue[3 - q] /\ received' = received /\ curQueue' = q
      BY <1>1, <1>2, <1>11 DEF Pair!TypeOK
    <3>2. all' = received \o queue[3 - q] \o Append(queue[q], item)
      BY <3>1 DEF Pair!AllItems
    <3>3. all = received \o queue[3 - q] \o queue[q]
      BY <1>2 DEF Pair!AllItems
    <3>4. dropped' = dropped
      BY <1>1, <1>11
    <3>5. received \o queue[3 - q] \o Append(queue[q], item) = Append(received \o queue[3 - q] \o queue[q], item)
      <4>1. item \in Pair!Items /\ received \in Seq(Pair!Items) /\ queue[q] \in Seq(Pair!Items) /\ queue[3 - q] \in Seq(Pair!Items)
        BY <1>3, <1>5
      <4> HIDE DEF item, all, Pair!SwapInv, SwapConstants
      <4>2. QED
        BY <4>1, PutOfItem
    <3>6. QED
      BY <3>2, <3>3, <3>4, <3>5, ZenonT(40)
  <2>2. PICK n \in Nat : n = Len(all)
    BY <1>5
  <2>3. /\ DOMAIN all = 1..n /\ DOMAIN all' = 1 .. n + 1 /\ all'[n + 1] = item
        /\ \A i \in 1..n : all'[i] = all[i] /\ all[i] \in Pair!Items
    BY <1>3, <1>5, <2>1, <2>2
  <2> HIDE DEF all
  <2>4. \A i \in 1 .. n + 1 : i \in 1..n \/ i = n + 1
    OBVIOUS
  <2>5. \A i \in 1..n : all[i][2] <= sent[all[i][1]] /\ all[i][1] \in Producers /\ all[i][2] \in Nat
    <3>1. \A i \in 1..n : all[i][2] <= sent[all[i][1]]
      BY <2>3 DEF all
    <3>2. \A x \in Pair!Items : x[1] \in Producers /\ x[2] \in Nat
      BY DEF Pair!Items
    <3>3. QED
      BY <2>3, <3>1, <3>2
  <2>6. \A i, j \in 1 .. n + 1 : i < j /\ all'[i][1] = all'[j][1] => all'[i][2] < all'[j][2]
    <3>1. ASSUME NEW i \in 1 .. n + 1, NEW j \in 1 .. n + 1, i < j, all'[i][1] = all'[j][1]
          PROVE  all'[i][2] < all'[j][2]
      <4>1. i \in 1..n
        BY <3>1
      <4>2. CASE j \in 1..n
        BY <2>3, <3>1, <4>1, <4>2 DEF all
      <4>3. CASE j = n + 1
        BY <1>9, <2>3, <2>5, <3>1, <4>1, <4>3
      <4>4. QED
        BY <2>4, <4>2, <4>3
    <3>2. QED
      BY <3>1
  <2>7. \A i \in 1 .. n + 1 : all'[i] \notin dropped' /\ all'[i][2] <= sent'[all'[i][1]]
    <3>1. item \notin dropped
      BY <1>3, <1>9
    <3>2. ASSUME NEW i \in 1..n PROVE all'[i] \notin dropped' /\ all'[i][2] <= sent'[all'[i][1]]
      <4>1. all[i] \notin dropped
        BY <2>3 DEF all
      <4>2. sent'[all[i][1]] \in {sent[all[i][1]], sent[all[i][1]] + 1} /\ sent[all[i][1]] \in Nat
        BY <1>8, <1>9, <2>5
      <4>3. QED
        BY <2>1, <2>3, <2>5, <4>1, <4>2
    <3>3. all'[n + 1] \notin dropped' /\ all'[n + 1][2] <= sent'[all'[n + 1][1]]
      BY <1>8, <1>9, <2>1, <2>3, <3>1
    <3>4. QED
      BY <2>4, <3>2, <3>3
  <2>8. \A x \in dropped' : x[2] <= sent'[x[1]]
    <3>1. ASSUME NEW x \in dropped PROVE x[2] <= sent'[x[1]]
      <4>1. x[1] \in Producers /\ x[2] \in Nat /\ x[2] <= sent[x[1]]
        BY DEF Pair!Items, Pair!TypeOK
      <4>2. QED
        BY <1>8, <1>9, <4>1
    <3>2. QED
      BY <2>1, <3>1
  <2>9. \A x \in Producers : \A k \in 1..sent'[x] : <<x, k>> \in dropped' \/ \E i \in 1 .. n + 1 : all'[i] = <<x, k>>
    <3>1. ASSUME NEW x \in Producers, NEW k \in 1..sent'[x]
          PROVE  <<x, k>> \in dropped' \/ \E i \in 1 .. n + 1 : all'[i] = <<x, k>>
      <4>1. CASE <<x, k>> = item
        BY <2>3, <4>1
      <4>2. CASE k \in 1..sent[x]
        <5>1. <<x, k>> \in dropped \/ \E i \in 1..n : all[i] = <<x, k>>
          BY <2>3, <4>2, ZenonT(40) DEF all
        <5>2. QED
          BY <2>1, <2>3, <5>1
      <4>3. QED
        BY <1>8, <1>9, <4>1, <4>2
    <3>2. QED
      BY <3>1
  <2>10. QED
    <3>1. \A i, j \in DOMAIN Pair!AllItems' :
            i < j /\ Pair!AllItems'[i][1] = Pair!AllItems'[j][1] => Pair!AllItems'[i][2] < Pair!AllItems'[j][2]
      BY <2>3, <2>6 DEF all
    <3>2. \A i \in DOMAIN Pair!AllItems' :
            Pair!AllItems'[i] \notin dropped' /\ Pair!AllItems'[i][2] <= sent'[Pair!AllItems'[i][1]]
      BY <2>3, <2>7 DEF all
    <3>3. \A x \in Producers : \A k \in 1..sent'[x] :
            <<x, k>> \in dropped' \/ \E i \in DOMAIN Pair!AllItems' : Pair!AllItems'[i] = <<x, k>>
      BY <2>3, <2>9, ZenonT(40), ZenonT(40) DEF all
    <3>4. QED
      BY <1>4, <1>6, <1>7, <2>8, <3>1, <3>2, <3>3
<1>12. QED
  BY <1>10, <1>11

\* While the consumer empties the queue it swapped out, no producer is in it, and every
\* producer's items reach the consumer in order, but for those a full queue refused
\* (SwapQueue.h 138-156).
THEOREM SwapQueueIsSound ==
  ASSUME SwapConstants
  PROVE  Pair!Spec => [](Pair!ConsumerAlone /\ Pair!SwapKeepsOrder)
<1>1. Pair!Init => Pair!SwapInv
  BY SwapInitHasInv
<1>2. Pair!SwapInv /\ [Pair!Next]_Pair!vars => Pair!SwapInv'
  <2>1. Pair!SwapInv /\ UNCHANGED Pair!vars => Pair!SwapInv'
    BY DEF Pair!vars, Pair!SwapInv, Pair!TypeOK, Pair!AllItems
  <2>2. QED
    BY <2>1, SwapKeepsInv, DequeueKeepsInv, LocksKeepInv, EnqueueKeepsInv DEF Pair!Next
<1>3. Pair!SwapInv => Pair!ConsumerAlone /\ Pair!SwapKeepsOrder
  <2> SUFFICES ASSUME Pair!SwapInv PROVE Pair!ConsumerAlone /\ Pair!SwapKeepsOrder
    OBVIOUS
  <2> USE DEF Pair!SwapInv
  <2>1. Pair!ConsumerAlone
    BY DEF Pair!ConsumerAlone
  <2>2. Pair!Swapped = queue[3 - curQueue]
    BY DEF Pair!Swapped, Pair!TypeOK
  <2>3. Pair!AllItems \in Seq(Pair!Items)
    BY DEF Pair!AllItems, Pair!TypeOK
  <2> DEFINE found == {Pair!AllItems[i] : i \in DOMAIN Pair!AllItems}
  <2>4. found \subseteq {item \in Pair!Items : item[2] <= sent[item[1]]} \ dropped
    BY <2>3
  <2>5. {item \in Pair!Items : item[2] <= sent[item[1]]} \ dropped \subseteq found
    <3>1. ASSUME NEW x \in Pair!Items, x[2] <= sent[x[1]], x \notin dropped PROVE x \in found
      <4>1. PICK p \in Producers, k \in 1..MaxItems : x = <<p, k>>
        BY DEF Pair!Items
      <4>2. sent[p] \in Nat /\ k <= sent[p]
        BY <3>1, <4>1 DEF Pair!TypeOK
      <4>3. k \in 1..sent[p]
        BY <4>2
      <4>4. QED
        BY <3>1, <4>1, <4>3
    <3>2. QED
      BY <3>1
  <2>6. QED
    BY <2>1, <2>2, <2>4, <2>5 DEF Pair!SwapKeepsOrder, Pair!AllItems
<1>4. QED
  BY <1>1, <1>2, <1>3, PTL DEF Pair!Spec

-----------------------------------------------------------------------------
(***************************************************************************)
(* Queue: any size, and any elements.                                      *)
(***************************************************************************)
CONSTANT Items
VARIABLES arr, front, rear, count
Counted == INSTANCE CountedQueue

\* Positions in an array go round once at most.
LEMMA Wraps ==
  ASSUME NEW Q \in Nat \ {0}, NEW n \in 0 .. 2 * Q - 1
  PROVE  n % Q = IF n < Q THEN n ELSE n - Q
OBVIOUS

\* A function on 1..n is a sequence.
LEMMA IsSeq ==
  ASSUME NEW S, NEW n \in Nat, NEW f \in [1..n -> S]
  PROVE  f \in Seq(S) /\ Len(f) = n
OBVIOUS

LEMMA AppendIs ==
  ASSUME NEW S, NEW s \in Seq(S), NEW e \in S
  PROVE  Append(s, e) = [i \in 1 .. Len(s) + 1 |-> IF i = Len(s) + 1 THEN e ELSE s[i]]
<1> DEFINE t == Append(s, e)
<1>1. Len(s) \in Nat /\ t \in Seq(S) /\ Len(t) = Len(s) + 1 /\ t[Len(s) + 1] = e /\ \A i \in 1 .. Len(s) : t[i] = s[i]
  BY AppendProperties, LenProperties
<1>2. t \in [1 .. Len(s) + 1 -> S]
  BY <1>1, LenProperties
<1> HIDE DEF t
<1>3. \A i \in 1 .. Len(s) + 1 : i = Len(s) + 1 \/ i \in 1 .. Len(s)
  BY <1>1
<1>4. \A i \in 1 .. Len(s) + 1 : t[i] = IF i = Len(s) + 1 THEN e ELSE s[i]
  BY <1>1, <1>3
<1>5. t = [i \in 1 .. Len(s) + 1 |-> IF i = Len(s) + 1 THEN e ELSE s[i]]
  BY <1>2, <1>4
<1>6. QED
  BY <1>5 DEF t

CountedConstants == Items # {} /\ QUEUE_MAX_SIZE \in Nat \ {0}
CountedInv == Counted!TypeOK /\ (rear + QUEUE_MAX_SIZE - front) % QUEUE_MAX_SIZE = count

LEMMA CountedEnqueue ==
  ASSUME CountedConstants, CountedInv, NEW item \in Items, Counted!Enqueue(item)
  PROVE  CountedInv' /\ Counted!Contents' = Append(Counted!Contents, item)
<1> DEFINE Q == QUEUE_MAX_SIZE
<1> USE DEF CountedConstants, CountedInv, Counted!TypeOK, Counted!QUEUE_MAX_SIZE_MASK
<1>1. /\ Q \in Nat \ {0} /\ front \in 0 .. Q - 1 /\ rear \in 0 .. Q - 1 /\ count \in 0 .. Q - 1
      /\ (rear + Q - front) % Q = count
  OBVIOUS
<1>2. /\ count + 1 \in 0 .. Q - 1 /\ count' = count + 1 /\ front' = front /\ rear' = (rear + 1) % Q
      /\ arr' = [arr EXCEPT ![rear'] = item] /\ arr \in [0 .. Q - 1 -> Items]
  BY DEF Counted!Enqueue, Counted!isFull
<1> HIDE DEF Q, CountedConstants, CountedInv, Counted!TypeOK, Counted!QUEUE_MAX_SIZE_MASK
<1>0. \A k \in 0 .. 2 * Q - 1 : k % Q = IF k < Q THEN k ELSE k - Q
  BY <1>1, Wraps
<1>3. /\ \A i \in 0 .. Q - 1 : (front + i) % Q = IF front + i < Q THEN front + i ELSE front + i - Q
      /\ \A i \in 0 .. Q - 1, j \in 0 .. Q - 1 : i # j => (front + i) % Q # (front + j) % Q
      /\ rear' = (front + (count + 1)) % Q
  <2>1. \A i \in 0 .. Q - 1 : (front + i) % Q = IF front + i < Q THEN front + i ELSE front + i - Q
    BY <1>0, <1>1
  <2>2. \A i \in 0 .. Q - 1, j \in 0 .. Q - 1 : i # j => (front + i) % Q # (front + j) % Q
    BY <1>1, <2>1
  <2>3. (front + (count + 1)) % Q = IF front + (count + 1) < Q THEN front + (count + 1) ELSE front + (count + 1) - Q
    BY <1>2, <2>1
  <2>4. (rear + 1) % Q = IF rear + 1 < Q THEN rear + 1 ELSE 0
    BY <1>0, <1>1
  <2>5. count = IF rear >= front THEN rear - front ELSE rear + Q - front
    BY <1>0, <1>1
  <2>6. (rear + 1) % Q = (front + (count + 1)) % Q
    BY <1>1, <2>3, <2>4, <2>5
  <2>7. QED
    BY <1>2, <2>1, <2>2, <2>6
<1>4. rear' \in 0 .. Q - 1 /\ (rear' + Q - front) % Q = count + 1
  <2>1. PICK r : r = rear'
    OBVIOUS
  <2>2. r = IF front + count + 1 < Q THEN front + count + 1 ELSE front + count + 1 - Q
    BY <1>1, <1>2, <1>3, <2>1
  <2>3. r \in 0 .. Q - 1 /\ r + Q - front \in 0 .. 2 * Q - 1
    BY <1>1, <1>2, <2>2
  <2>4. (r + Q - front) % Q = IF r + Q - front < Q THEN r + Q - front ELSE r + Q - front - Q
    BY <1>0, <1>1, <2>3
  <2>5. QED
    BY <1>1, <1>2, <2>1, <2>2, <2>3, <2>4
<1>5. CountedInv'
  BY <1>2, <1>4 DEF CountedInv, Counted!TypeOK, Counted!QUEUE_MAX_SIZE_MASK, Q
<1>6. \A i \in 1 .. count : arr'[(front + i) % Q] = arr[(front + i) % Q]
  <2>1. ASSUME NEW i \in 1 .. count PROVE arr'[(front + i) % Q] = arr[(front + i) % Q]
    <3>1. i \in 0 .. Q - 1 /\ i # count + 1 /\ i + 1 \in Nat
      BY <1>1, <1>2
    <3>2. (front + i) % Q # (front + (count + 1)) % Q
      BY <1>1, <1>2, <1>3, <3>1
    <3>3. (front + i) % Q # rear' /\ (front + i) % Q \in 0 .. Q - 1
      BY <1>1, <1>3, <3>1, <3>2
    <3>4. QED
      BY <1>2, <1>4, <3>3
  <2>2. QED
    BY <2>1
<1>7. arr'[(front + (count + 1)) % Q] = item
  BY <1>1, <1>2, <1>3, <1>4
<1>8. \A i \in 0 .. Q - 1 : arr[(front + i) % Q] \in Items
  <2>1. \A i \in 0 .. Q - 1 : (front + i) % Q \in 0 .. Q - 1
    BY <1>1, <1>3
  <2>2. QED
    BY <1>2, <2>1
<1>9. Counted!Contents = [i \in 1..count |-> arr[(front + i) % Q]]
  BY DEF Counted!Contents, Q
<1>10. Counted!Contents' = [i \in 1 .. count + 1 |-> arr'[(front + i) % Q]]
  BY <1>2 DEF Counted!Contents, Q
<1>11. Counted!Contents \in Seq(Items) /\ Len(Counted!Contents) = count
  <2>1. Counted!Contents \in [1..count -> Items] /\ count \in Nat
    <3>1. 1..count \subseteq 0 .. Q - 1 /\ count \in Nat
      BY <1>1
    <3>2. QED
      BY <1>8, <1>9, <3>1
  <2>2. QED
    BY <2>1, IsSeq
<1>12. Append(Counted!Contents, item) = [i \in 1 .. count + 1 |-> IF i = count + 1 THEN item ELSE Counted!Contents[i]]
  <2>1. PICK s \in Seq(Items) : s = Counted!Contents
    BY <1>11
  <2>2. Append(s, item) = [i \in 1 .. Len(s) + 1 |-> IF i = Len(s) + 1 THEN item ELSE s[i]]
    BY AppendIs
  <2>3. QED
    BY <1>11, <2>1, <2>2
<1>13. \A i \in 1 .. count + 1 : arr'[(front + i) % Q] = IF i = count + 1 THEN item ELSE Counted!Contents[i]
  <2>1. ASSUME NEW i \in 1 .. count + 1 PROVE arr'[(front + i) % Q] = IF i = count + 1 THEN item ELSE Counted!Contents[i]
    <3>1. CASE i = count + 1
      BY <1>7, <3>1
    <3>2. CASE i # count + 1
      <4>1. i \in 1..count
        BY <1>1, <3>2
      <4>2. QED
        BY <1>6, <1>9, <3>2, <4>1
    <3>3. QED
      BY <3>1, <3>2
  <2>2. QED
    BY <2>1
<1>14. QED
  BY <1>5, <1>10, <1>12, <1>13

LEMMA CountedDequeue ==
  ASSUME CountedConstants, CountedInv, Counted!Dequeue
  PROVE  CountedInv' /\ Counted!Contents = <<Counted!DequeuedItem>> \o Counted!Contents'
<1> DEFINE Q == QUEUE_MAX_SIZE
<1> USE DEF CountedConstants, CountedInv, Counted!TypeOK, Counted!QUEUE_MAX_SIZE_MASK
<1>1. /\ Q \in Nat \ {0} /\ front \in 0 .. Q - 1 /\ rear \in 0 .. Q - 1 /\ count \in 1 .. Q - 1
      /\ (rear + Q - front) % Q = count
  BY DEF Counted!Dequeue, Counted!isEmpty
<1>2. /\ count' = count - 1 /\ front' = (front + 1) % Q /\ rear' = rear /\ arr' = arr /\ arr \in [0 .. Q - 1 -> Items]
  BY DEF Counted!Dequeue
<1> HIDE DEF Q, CountedConstants, CountedInv, Counted!TypeOK, Counted!QUEUE_MAX_SIZE_MASK
<1>0. \A k \in 0 .. 2 * Q - 1 : k % Q = IF k < Q THEN k ELSE k - Q
  BY <1>1, Wraps
<1>3. PICK f \in 0 .. Q - 1 : f = front'
  BY <1>1, <1>2
<1>4. f = IF front + 1 < Q THEN front + 1 ELSE 0
  <2>1. (front + 1) % Q = IF front + 1 < Q THEN front + 1 ELSE front + 1 - Q
    BY <1>0, <1>1
  <2>2. QED
    BY <1>1, <1>2, <1>3, <2>1
<1>5. f \in 0 .. Q - 1 /\ (rear + Q - f) % Q = count - 1
  <2>1. f \in 0 .. Q - 1 /\ rear + Q - f \in 0 .. 2 * Q - 1 /\ rear + Q - front \in 0 .. 2 * Q - 1
    BY <1>1, <1>4
  <2>2. (rear + Q - f) % Q = IF rear + Q - f < Q THEN rear + Q - f ELSE rear + Q - f - Q
    BY <1>0, <1>1, <2>1
  <2>3. count = IF rear + Q - front < Q THEN rear + Q - front ELSE rear + Q - front - Q
    BY <1>0, <1>1, <2>1
  <2>4. QED
    BY <1>1, <1>4, <2>1, <2>2, <2>3
<1>6. CountedInv'
  BY <1>1, <1>2, <1>3, <1>5 DEF CountedInv, Counted!TypeOK, Counted!QUEUE_MAX_SIZE_MASK, Q
<1>7. \A i \in 1 .. count - 1 : (f + i) % Q = (front + (i + 1)) % Q
  <2>1. \A i \in 0 .. Q - 1 : (front + i) % Q = IF front + i < Q THEN front + i ELSE front + i - Q
    BY <1>0, <1>1
  <2>2. \A i \in 0 .. Q - 1 : (f + i) % Q = IF f + i < Q THEN f + i ELSE f + i - Q
    BY <1>0, <1>1
  <2>3. \A i \in 1 .. count - 1 : i \in 0 .. Q - 1 /\ i + 1 \in 0 .. Q - 1
    BY <1>1
  <2>4. QED
    BY <1>1, <1>4, <2>1, <2>2, <2>3
<1>8. \A i \in 0 .. Q - 1 : arr[(front + i) % Q] \in Items
  <2>1. \A i \in 0 .. Q - 1 : (front + i) % Q \in 0 .. Q - 1
    BY <1>1
  <2>2. QED
    BY <1>2, <2>1
<1>9. Counted!Contents = [i \in 1..count |-> arr[(front + i) % Q]]
  BY DEF Counted!Contents, Q
<1>10. Counted!Contents' = [i \in 1 .. count - 1 |-> arr[(front + (i + 1)) % Q]]
  BY <1>2, <1>3, <1>7 DEF Counted!Contents, Q
<1>11. Counted!Contents' \in Seq(Items) /\ Len(Counted!Contents') = count - 1
  <2>1. \A i \in 1 .. count - 1 : i + 1 \in 0 .. Q - 1
    BY <1>1
  <2>2. Counted!Contents' \in [1 .. count - 1 -> Items] /\ count - 1 \in Nat
    <3>1. count - 1 \in Nat
      BY <1>1
    <3>2. \A i \in 1 .. count - 1 : arr[(front + (i + 1)) % Q] \in Items
      BY <1>8, <2>1
    <3>3. QED
      BY <1>10, <3>1, <3>2
  <2>3. QED
    BY <2>2, IsSeq
<1>12. Counted!DequeuedItem = arr[(front + 1) % Q] /\ Counted!DequeuedItem \in Items
  BY <1>1, <1>8 DEF Counted!DequeuedItem, Q
<1>13. <<Counted!DequeuedItem>> \o Counted!Contents'
        = [i \in 1..count |-> IF i = 1 THEN Counted!DequeuedItem ELSE Counted!Contents'[i - 1]]
  <2>1. PICK s \in Seq(Items), d \in Items : s = Counted!Contents' /\ d = Counted!DequeuedItem
    BY <1>11, <1>12
  <2>2. <<d>> \o s = [i \in 1 .. Len(s) + 1 |-> IF i = 1 THEN d ELSE s[i - 1]]
    OBVIOUS
  <2>3. Len(s) + 1 = count
    BY <1>1, <1>11, <2>1
  <2>4. QED
    BY <2>1, <2>2, <2>3
<1>14. \A i \in 1..count : i = 1 \/ (i - 1 \in 1 .. count - 1 /\ (i - 1) + 1 = i)
  BY <1>1
<1>15. \A i \in 1..count : arr[(front + i) % Q] = IF i = 1 THEN Counted!DequeuedItem ELSE Counted!Contents'[i - 1]
  BY <1>10, <1>12, <1>14
<1>16. QED
  BY <1>6, <1>9, <1>13, <1>15

\* count_ is what lies between the two ends of the array, and elements leave in the
\* order in which they came, whatever the size of the queue (Queue.h 29-79).
THEOREM QueueIsFifo ==
  ASSUME CountedConstants
  PROVE  Counted!Spec => []Counted!TypeOK /\ [][Counted!Fifo]_Counted!vars
<1>1. Counted!Init => CountedInv
  <2>1. 0 \in 0 .. QUEUE_MAX_SIZE - 1 /\ (0 + QUEUE_MAX_SIZE - 0) % QUEUE_MAX_SIZE = 0
    BY Wraps DEF CountedConstants
  <2>2. QED
    BY <2>1 DEF Counted!Init, CountedInv, Counted!TypeOK, CountedConstants, Counted!QUEUE_MAX_SIZE_MASK
<1>2. ASSUME CountedInv, Counted!Next
      PROVE  CountedInv' /\ Counted!Fifo
  <2>1. CountedInv'
    <3>1. CASE Counted!Clear
      <4>1. 0 \in 0 .. QUEUE_MAX_SIZE - 1 /\ (0 + QUEUE_MAX_SIZE - 0) % QUEUE_MAX_SIZE = 0
        BY Wraps DEF CountedConstants
      <4>2. QED
        BY <1>2, <3>1, <4>1 DEF Counted!Clear, CountedInv, Counted!TypeOK, Counted!QUEUE_MAX_SIZE_MASK
    <3>2. QED
      BY <1>2, <3>1, CountedEnqueue, CountedDequeue DEF Counted!Next
  <2>2. (rear' + QUEUE_MAX_SIZE - front') % QUEUE_MAX_SIZE = count'
    BY <2>1 DEF CountedInv
  <2>3. QED
    BY <1>2, <2>1, <2>2, CountedEnqueue, CountedDequeue DEF Counted!Fifo
<1>3. CountedInv /\ UNCHANGED Counted!vars => CountedInv'
  BY DEF CountedInv, Counted!TypeOK, Counted!vars
<1>4. CountedInv /\ [Counted!Next]_Counted!vars => CountedInv' /\ [Counted!Fifo]_Counted!vars
  BY <1>2, <1>3
<1>5. CountedInv => Counted!TypeOK
  BY DEF CountedInv
<1>6. QED
  BY <1>1, <1>4, <1>5, PTL DEF Counted!Spec

-----------------------------------------------------------------------------
(***************************************************************************)
(* RingBuffer: any size, and any bytes.                                    *)
(***************************************************************************)
CONSTANTS Bytes, bufferSize
VARIABLES array, writePos, readPos
Ring == INSTANCE ByteRing

RingConstants == bufferSize \in Nat /\ Bytes # {}

\* Where the i-th byte from a position lies.
Place(p, i) == IF p + i - 1 <= bufferSize THEN p + i - 1 ELSE p + i - 2 - bufferSize

LEMMA PeekIs ==
  ASSUME RingConstants, Ring!TypeOK, NEW size \in Nat, size <= Ring!GetUseSize
  PROVE  Ring!Peek(size) = [i \in 1..size |-> array[Place(readPos, i)]]
<1> USE DEF RingConstants, Ring!TypeOK
<1>1. \A i \in 1..size : (IF i <= Ring!DirectDequeueSize THEN readPos + i - 1 ELSE i - 1 - Ring!DirectDequeueSize) = Place(readPos, i)
  BY DEF Ring!DirectDequeueSize, Ring!GetUseSize, Ring!Diff, Ring!endPoint, Place
<1>2. \A i \in 1..size : (IF i <= Ring!DirectDequeueSize THEN array[readPos + i - 1] ELSE array[i - 1 - Ring!DirectDequeueSize])
                            = array[Place(readPos, i)]
  BY <1>1
<1>3. QED
  BY <1>2 DEF Ring!Peek

LEMMA RingSizes ==
  ASSUME RingConstants, Ring!TypeOK
  PROVE  /\ Ring!GetUseSize \in 0..bufferSize /\ Ring!GetFreeSize = bufferSize - Ring!GetUseSize
         /\ writePos = Place(readPos, Ring!GetUseSize + 1)
         /\ \A i \in 1 .. bufferSize + 1 : Place(readPos, i) \in 0..bufferSize /\ Place(writePos, i) \in 0..bufferSize
BY DEF RingConstants, Ring!TypeOK, Ring!GetUseSize, Ring!GetFreeSize, Ring!Diff, Place

LEMMA ContentIs ==
  RingConstants /\ Ring!TypeOK => Ring!Content = [i \in 1..Ring!GetUseSize |-> array[Place(readPos, i)]]
<1> SUFFICES ASSUME RingConstants, Ring!TypeOK
             PROVE  Ring!Content = [i \in 1..Ring!GetUseSize |-> array[Place(readPos, i)]]
  OBVIOUS
<1>1. Ring!GetUseSize \in Nat /\ Ring!GetUseSize <= Ring!GetUseSize
  BY RingSizes DEF RingConstants
<1>2. QED
  BY <1>1, PeekIs DEF Ring!Content

LEMMA ConcatIs ==
  ASSUME NEW S, NEW s \in Seq(S), NEW t \in Seq(S)
  PROVE  s \o t = [i \in 1 .. Len(s) + Len(t) |-> IF i <= Len(s) THEN s[i] ELSE t[i - Len(s)]]
<1> DEFINE u == s \o t
<1>1. /\ Len(s) \in Nat /\ Len(t) \in Nat /\ u \in Seq(S) /\ Len(u) = Len(s) + Len(t)
      /\ \A i \in 1 .. Len(s) + Len(t) : u[i] = IF i <= Len(s) THEN s[i] ELSE t[i - Len(s)]
  BY ConcatProperties, LenProperties
<1>2. u \in [1 .. Len(s) + Len(t) -> S]
  BY <1>1, LenProperties
<1> HIDE DEF u
<1>3. u = [i \in 1 .. Len(s) + Len(t) |-> IF i <= Len(s) THEN s[i] ELSE t[i - Len(s)]]
  BY <1>1, <1>2
<1>4. QED
  BY <1>3 DEF u

LEMMA RingDequeue ==
  ASSUME RingConstants, Ring!TypeOK, NEW n \in 1..bufferSize, Ring!Dequeue(n)
  PROVE  Ring!TypeOK' /\ Ring!Content = Ring!Peek(n) \o Ring!Content'
<1> DEFINE use == Ring!GetUseSize
<1> USE DEF RingConstants
<1>1. n <= use /\ readPos' = Ring!MoveReadPos(n) /\ array' = array /\ writePos' = writePos
  BY DEF Ring!Dequeue
<1>2. readPos' = Place(readPos, n + 1)
  BY <1>1 DEF Ring!TypeOK, Ring!GetUseSize, Ring!MoveReadPos, Ring!DirectDequeueSize, Ring!Diff, Ring!endPoint, Place
<1>3. Ring!TypeOK'
  BY <1>1, <1>2, RingSizes, SMTT(30) DEF Ring!TypeOK
<1>4. use' = use - n
  BY <1>1, <1>2 DEF Ring!TypeOK, Ring!GetUseSize, Ring!Diff, Place
<1>5. use \in 0..bufferSize /\ use - n \in Nat
  BY <1>1, RingSizes
<1>6. \A i \in 1 .. use - n : Place(readPos', i) = Place(readPos, n + i)
  BY <1>1, <1>2, <1>5 DEF Ring!TypeOK, Place
<1> HIDE DEF use
<1>7. Ring!Content = [i \in 1..use |-> array[Place(readPos, i)]]
  BY <1>5, PeekIs DEF Ring!Content, use
<1>8. Ring!Peek(n) = [i \in 1..n |-> array[Place(readPos, i)]]
  BY <1>1, PeekIs DEF use
<1>9. Ring!Content' = [i \in 1 .. use - n |-> array[Place(readPos, n + i)]]
  <2>1. Ring!Content' = [i \in 1..use' |-> array'[Place(readPos', i)]]
    <3>1. (RingConstants /\ Ring!TypeOK => Ring!Content = [i \in 1..Ring!GetUseSize |-> array[Place(readPos, i)]])'
      BY ContentIs, PTL
    <3>2. QED
      BY <1>3, <3>1 DEF use
  <2>2. QED
    BY <1>1, <1>4, <1>6, <2>1
<1>10. \A i \in 1..use : array[Place(readPos, i)] \in Bytes
  BY <1>5, RingSizes, SMTT(30) DEF Ring!TypeOK
<1>11. Ring!Peek(n) \in Seq(Bytes) /\ Len(Ring!Peek(n)) = n
  <2>1. Ring!Peek(n) \in [1..n -> Bytes]
    BY <1>5, <1>8, <1>10
  <2>2. QED
    BY <2>1, IsSeq
<1>12. Ring!Content' \in Seq(Bytes) /\ Len(Ring!Content') = use - n
  <2>1. \A i \in 1 .. use - n : n + i \in 1..use
    BY <1>5
  <2>2. Ring!Content' \in [1 .. use - n -> Bytes]
    BY <1>5, <1>9, <1>10, <2>1
  <2>3. QED
    BY <1>5, <2>2, IsSeq
<1>13. Ring!Peek(n) \o Ring!Content' = [i \in 1..use |-> IF i <= n THEN Ring!Peek(n)[i] ELSE Ring!Content'[i - n]]
  <2>1. PICK s \in Seq(Bytes), t \in Seq(Bytes) : s = Ring!Peek(n) /\ t = Ring!Content'
    BY <1>11, <1>12
  <2>2. s \o t = [i \in 1 .. Len(s) + Len(t) |-> IF i <= Len(s) THEN s[i] ELSE t[i - Len(s)]]
    BY ConcatIs
  <2>3. Len(s) = n /\ Len(s) + Len(t) = use
    BY <1>5, <1>11, <1>12, <2>1
  <2>4. QED
    BY <2>1, <2>2, <2>3
<1>14. \A i \in 1..use : array[Place(readPos, i)] = IF i <= n THEN Ring!Peek(n)[i] ELSE Ring!Content'[i - n]
  <2>1. \A i \in 1..use : i \in 1..n \/ (~(i <= n) /\ i - n \in 1 .. use - n /\ n + (i - n) = i)
    BY <1>5
  <2>2. QED
    BY <1>8, <1>9, <2>1
<1>15. QED
  BY <1>3, <1>7, <1>13, <1>14

LEMMA RingEnqueue ==
  ASSUME RingConstants, Ring!TypeOK, NEW n \in 1..bufferSize, NEW bytes \in [1..n -> Bytes], Ring!Enqueue(bytes)
  PROVE  Ring!TypeOK' /\ Ring!Content' = Ring!Content \o bytes
<1> DEFINE use == Ring!GetUseSize
           d == Ring!DirectEnqueueSize
<1> USE DEF RingConstants
<1>1. bytes \in Seq(Bytes) /\ Len(bytes) = n
  BY IsSeq
<1>2. n <= Ring!GetFreeSize /\ ~Ring!LostEnqueue(n) /\ Ring!Write(bytes) /\ writePos' = Ring!MoveWritePos(n) /\ readPos' = readPos
  BY <1>1 DEF Ring!Enqueue
<1>3. writePos' = Place(writePos, n + 1)
  BY <1>2 DEF Ring!TypeOK, Ring!GetFreeSize, Ring!LostEnqueue, Ring!MoveWritePos, Ring!DirectEnqueueSize, Ring!Diff,
              Ring!endPoint, Place
<1>4. array' = [a \in 0..bufferSize |->
                  IF a >= writePos /\ a < writePos + d /\ a - writePos < n THEN bytes[a - writePos + 1]
                  ELSE IF a < n - d THEN bytes[d + a + 1] ELSE array[a]]
  BY <1>1, <1>2 DEF Ring!Write, Ring!TypeOK
<1>5. use \in 0..bufferSize /\ n <= bufferSize - use /\ use + n \in 0..bufferSize
  BY <1>2, RingSizes
<1>6. use' = use + n
  BY <1>2, <1>3, <1>5 DEF Ring!TypeOK, Ring!GetUseSize, Ring!Diff, Place
<1>7. \A i \in 1 .. use + n : Place(readPos, i) \in 0..bufferSize
  BY <1>5 DEF Ring!TypeOK, Place
<1>8. d \in Int /\ \A j \in 1..n : Place(readPos, use + j) = IF j <= d THEN writePos + j - 1 ELSE j - d - 1
  BY <1>2, <1>5 DEF Ring!TypeOK, Ring!GetFreeSize, Ring!GetUseSize, Ring!LostEnqueue, Ring!DirectEnqueueSize, Ring!Diff,
                    Ring!endPoint, Place
<1>9. \A i \in 1..use : LET a == Place(readPos, i) IN
        ~(a >= writePos /\ a < writePos + d /\ a - writePos < n) /\ ~(a < n - d)
  BY <1>2, <1>5 DEF Ring!TypeOK, Ring!GetFreeSize, Ring!GetUseSize, Ring!LostEnqueue, Ring!DirectEnqueueSize, Ring!Diff,
                    Ring!endPoint, Place
<1>10. \A j \in 1..n : j > d => ~(j - d - 1 >= writePos /\ j - d - 1 < writePos + d /\ j - d - 1 - writePos < n)
  BY <1>2, <1>5 DEF Ring!TypeOK, Ring!GetFreeSize, Ring!GetUseSize, Ring!LostEnqueue, Ring!DirectEnqueueSize, Ring!Diff,
                    Ring!endPoint
<1>11. writePos \in 0..bufferSize /\ readPos \in 0..bufferSize /\ array \in [0..bufferSize -> Bytes]
  BY DEF Ring!TypeOK
<1> HIDE DEF use, d
<1>12. \A i \in 1..use : array'[Place(readPos, i)] = array[Place(readPos, i)]
  <2>1. ASSUME NEW i \in 1..use PROVE array'[Place(readPos, i)] = array[Place(readPos, i)]
    <3>1. PICK a \in 0..bufferSize : a = Place(readPos, i)
      BY <1>5, <1>7
    <3>2. ~(a >= writePos /\ a < writePos + d /\ a - writePos < n) /\ ~(a < n - d)
      BY <1>9, <3>1
    <3>3. QED
      BY <1>4, <3>1, <3>2
  <2>2. QED
    BY <2>1
<1>13. \A j \in 1..n : array'[Place(readPos, use + j)] = bytes[j]
  <2>1. ASSUME NEW j \in 1..n PROVE array'[Place(readPos, use + j)] = bytes[j]
    <3>1. PICK a \in 0..bufferSize : a = Place(readPos, use + j)
      BY <1>5, <1>7
    <3>2. CASE j <= d
      <4>1. a = writePos + j - 1
        BY <1>8, <3>1, <3>2
      <4>2. a >= writePos /\ a < writePos + d /\ a - writePos < n /\ a - writePos + 1 = j
        BY <1>8, <1>11, <3>2, <4>1
      <4>3. QED
        BY <1>4, <3>1, <4>2
    <3>3. CASE ~(j <= d)
      <4>1. a = j - d - 1 /\ j > d
        BY <1>8, <3>1, <3>3
      <4>2. ~(a >= writePos /\ a < writePos + d /\ a - writePos < n)
        BY <1>10, <4>1
      <4>3. a < n - d /\ d + a + 1 = j
        BY <1>8, <4>1
      <4>4. QED
        BY <1>4, <3>1, <4>2, <4>3
    <3>4. QED
      BY <3>2, <3>3
  <2>2. QED
    BY <2>1
<1>14. Ring!TypeOK'
  <2>1. ASSUME NEW a \in 0..bufferSize PROVE array'[a] \in Bytes
    <3>1. CASE a >= writePos /\ a < writePos + d /\ a - writePos < n
      <4>1. a - writePos + 1 \in 1..n
        BY <1>11, <3>1
      <4>2. QED
        BY <1>4, <3>1, <4>1
    <3>2. CASE ~(a >= writePos /\ a < writePos + d /\ a - writePos < n) /\ a < n - d
      <4>1. d \in Int /\ d >= 0
        BY <1>2, <1>8 DEF d, Ring!TypeOK, Ring!GetFreeSize, Ring!DirectEnqueueSize, Ring!Diff, Ring!endPoint
      <4>2. d + a + 1 \in 1..n
        BY <3>2, <4>1
      <4>3. QED
        BY <1>4, <3>2, <4>2
    <3>3. CASE ~(a >= writePos /\ a < writePos + d /\ a - writePos < n) /\ ~(a < n - d)
      BY <1>4, <1>11, <3>3
    <3>4. QED
      BY <3>1, <3>2, <3>3
  <2>2. writePos' \in 0..bufferSize
    BY <1>3, <1>11 DEF Place
  <2>3. QED
    BY <1>2, <1>4, <1>11, <2>1, <2>2 DEF Ring!TypeOK
<1>15. Ring!Content = [i \in 1..use |-> array[Place(readPos, i)]]
  BY <1>5, PeekIs DEF Ring!Content, use
<1>16. Ring!Content' = [i \in 1 .. use + n |-> array'[Place(readPos, i)]]
  <2>1. (RingConstants /\ Ring!TypeOK => Ring!Content = [i \in 1..Ring!GetUseSize |-> array[Place(readPos, i)]])'
    BY ContentIs, PTL
  <2>2. Ring!Content' = [i \in 1..use' |-> array'[Place(readPos', i)]]
    BY <1>14, <2>1 DEF use
  <2>3. QED
    BY <1>2, <1>6, <2>2
<1>17. Ring!Content \in Seq(Bytes) /\ Len(Ring!Content) = use
  <2>1. \A i \in 1..use : i \in 1 .. use + n
    BY <1>5
  <2>2. Ring!Content \in [1..use -> Bytes]
    BY <1>7, <1>11, <1>15, <2>1
  <2>3. QED
    BY <1>5, <2>2, IsSeq
<1>18. Ring!Content \o bytes = [i \in 1 .. use + n |-> IF i <= use THEN Ring!Content[i] ELSE bytes[i - use]]
  <2>1. PICK s \in Seq(Bytes), t \in Seq(Bytes) : s = Ring!Content /\ t = bytes
    BY <1>1, <1>17
  <2>2. s \o t = [i \in 1 .. Len(s) + Len(t) |-> IF i <= Len(s) THEN s[i] ELSE t[i - Len(s)]]
    BY ConcatIs
  <2>3. Len(s) = use /\ Len(t) = n
    BY <1>1, <1>17, <2>1
  <2>4. QED
    BY <2>1, <2>2, <2>3
<1>19. \A i \in 1 .. use + n : array'[Place(readPos, i)] = IF i <= use THEN Ring!Content[i] ELSE bytes[i - use]
  <2>1. \A i \in 1 .. use + n : (i \in 1..use /\ i <= use) \/ (~(i <= use) /\ i - use \in 1..n /\ use + (i - use) = i)
    BY <1>5
  <2>2. QED
    BY <1>12, <1>13, <1>15, <2>1
<1>20. QED
  BY <1>14, <1>16, <1>18, <1>19

\* Whatever the size of the ring, what Enqueue is given comes out of Dequeue in its order,
\* also when it goes round the end of the array and when the ring is full
\* (RingBuffer.cpp 40-222).
THEOREM BytesKeepOrder ==
  ASSUME RingConstants
  PROVE  Ring!Spec => []Ring!TypeOK /\ [][Ring!RingIsFifo]_Ring!vars
<1>1. Ring!Init => Ring!TypeOK
  BY DEF Ring!Init, Ring!TypeOK, RingConstants
<1>2. Ring!TypeOK /\ Ring!Next => Ring!TypeOK' /\ Ring!RingIsFifo
  <2> SUFFICES ASSUME Ring!TypeOK, Ring!Next PROVE Ring!TypeOK' /\ Ring!RingIsFifo
    OBVIOUS
  <2>1. Ring!ClearBuffer => Ring!TypeOK'
    BY DEF Ring!ClearBuffer, Ring!TypeOK, RingConstants
  <2>2. QED
    BY <2>1, RingDequeue, RingEnqueue DEF Ring!Next, Ring!RingIsFifo
<1>3. Ring!TypeOK /\ UNCHANGED Ring!vars => Ring!TypeOK'
  BY DEF Ring!TypeOK, Ring!vars
<1>4. Ring!TypeOK /\ [Ring!Next]_Ring!vars => Ring!TypeOK' /\ [Ring!RingIsFifo]_Ring!vars
  BY <1>2, <1>3
<1>5. QED
  BY <1>1, <1>4, PTL DEF Ring!Spec

-----------------------------------------------------------------------------
(***************************************************************************)
(* JobRing: any size, and any number of sessions and jobs.                 *)
(***************************************************************************)
CONSTANTS MaxJobs, MaxSessions, nullptr
VARIABLES session, made, finished, worker, owner, quit
Line == INSTANCE JobRing

JobConstants ==
  /\ QUEUE_MAX_SIZE \in Nat \ {0} /\ MaxJobs \in Nat /\ MaxSessions \in Nat \ {0}
  /\ nullptr \notin Line!Jobs

\* The ring as a line: what % does to its ends.
RingIsLine ==
  /\ Line!Length = IF rear >= front THEN rear - front ELSE rear + QUEUE_MAX_SIZE - front
  /\ Line!Length \in 0 .. QUEUE_MAX_SIZE - 1
  /\ \A i \in 0 .. QUEUE_MAX_SIZE - 1 : Line!After(i) = IF i + 1 < QUEUE_MAX_SIZE THEN i + 1 ELSE 0
  /\ \A i \in 1..QUEUE_MAX_SIZE :
       Line!Position(i) = IF front + i - 1 < QUEUE_MAX_SIZE THEN front + i - 1 ELSE front + i - 1 - QUEUE_MAX_SIZE
  /\ \A i \in 0 .. QUEUE_MAX_SIZE - 1 :
       (rear + QUEUE_MAX_SIZE - i) % QUEUE_MAX_SIZE = IF rear >= i THEN rear - i ELSE rear + QUEUE_MAX_SIZE - i

\* The places of the ring, for any two ends of it.
LEMMA PlaceIsFree ==
  ASSUME NEW Q \in Nat \ {0}, NEW f \in 0 .. Q - 1, NEW r \in 0 .. Q - 1,
         NEW i \in 1 .. (IF r >= f THEN r - f ELSE r + Q - f)
  PROVE  (IF f + i - 1 < Q THEN f + i - 1 ELSE f + i - 1 - Q) \in (0 .. Q - 1) \ {r}
OBVIOUS

LEMMA PlaceOfNext ==
  ASSUME NEW Q \in Nat \ {0}, NEW f \in 0 .. Q - 1, NEW r \in 0 .. Q - 1,
         NEW l, l = IF r >= f THEN r - f ELSE r + Q - f
  PROVE  /\ r = IF f + (l + 1) - 1 < Q THEN f + (l + 1) - 1 ELSE f + (l + 1) - 1 - Q
         /\ l \in 0 .. Q - 1
OBVIOUS

LEMMA RearAdvances ==
  ASSUME NEW Q \in Nat \ {0}, NEW f \in 0 .. Q - 1, NEW r \in 0 .. Q - 1,
         NEW l, l = IF r >= f THEN r - f ELSE r + Q - f, l < Q - 1,
         NEW x, x = IF r + 1 < Q THEN r + 1 ELSE 0
  PROVE  l + 1 = (IF x >= f THEN x - f ELSE x + Q - f) /\ l \in 0 .. Q - 2
OBVIOUS

LEMMA FrontAdvances ==
  ASSUME NEW Q \in Nat \ {0}, NEW f \in 0 .. Q - 1, NEW r \in 0 .. Q - 1,
         NEW l, l = IF r >= f THEN r - f ELSE r + Q - f, l > 0,
         NEW x, x = IF f + 1 < Q THEN f + 1 ELSE 0
  PROVE  /\ l - 1 = (IF r >= x THEN r - x ELSE r + Q - x) /\ l \in 1 .. Q - 1
         /\ \A i \in 1 .. l - 1 :
              (IF x + i - 1 < Q THEN x + i - 1 ELSE x + i - 1 - Q)
                = IF f + (i + 1) - 1 < Q THEN f + (i + 1) - 1 ELSE f + (i + 1) - 1 - Q
         /\ (IF f + 1 - 1 < Q THEN f + 1 - 1 ELSE f + 1 - 1 - Q) = f
OBVIOUS

LEMMA RingIsLineHolds == JobConstants /\ Line!TypeOK => RingIsLine
<1> SUFFICES ASSUME JobConstants, Line!TypeOK PROVE RingIsLine
  OBVIOUS
<1> DEFINE Q == QUEUE_MAX_SIZE
<1>1. Q \in Nat \ {0} /\ front \in 0 .. Q - 1 /\ rear \in 0 .. Q - 1
  BY DEF JobConstants, Line!TypeOK
<1>2. \A k \in 0 .. 2 * Q - 1 : k % Q = IF k < Q THEN k ELSE k - Q
  BY <1>1, Wraps
<1> HIDE DEF Q
<1>3. \A i \in 0 .. Q - 1 : (rear + Q - i) % Q = IF rear >= i THEN rear - i ELSE rear + Q - i
  BY <1>1, <1>2
<1>4. \A i \in 0 .. Q - 1 : (i + 1) % Q = IF i + 1 < Q THEN i + 1 ELSE 0
  BY <1>1, <1>2
<1>5. \A i \in 1..Q : (front + i - 1) % Q = IF front + i - 1 < Q THEN front + i - 1 ELSE front + i - 1 - Q
  BY <1>1, <1>2
<1>6. Line!Length = (rear + Q - front) % Q
  BY DEF Line!Length, Q
<1>7. Line!Length \in 0 .. Q - 1
  BY <1>1, <1>3, <1>6
<1>8. QED
  BY <1>1, <1>3, <1>4, <1>5, <1>6, <1>7 DEF RingIsLine, Line!After, Line!Position, Q

LEMMA RingAhead == (JobConstants /\ Line!TypeOK => RingIsLine)'
BY RingIsLineHolds, PTL

\* The numbers are numbers.
LEMMA JobNumbers ==
  ASSUME JobConstants, Line!TypeOK
  PROVE  /\ QUEUE_MAX_SIZE \in Nat \ {0} /\ front \in 0 .. QUEUE_MAX_SIZE - 1 /\ rear \in 0 .. QUEUE_MAX_SIZE - 1
         /\ worker.at \in 0 .. QUEUE_MAX_SIZE - 1
         /\ MaxJobs \in Nat /\ made \in 0..MaxJobs /\ Len(finished) \in Nat
         /\ Line!Length \in 0 .. QUEUE_MAX_SIZE - 1
         /\ Line!Held \in {0, 1} /\ Line!Working \in {0, 1} /\ Line!InRing \in Int
<1>1. Line!Length \in 0 .. QUEUE_MAX_SIZE - 1
  BY RingIsLineHolds DEF RingIsLine
<1>2. QUEUE_MAX_SIZE \in Nat \ {0} /\ Line!Length \in Int
  BY <1>1 DEF JobConstants
<1>3. Line!InRing \in Int
  BY <1>2 DEF Line!InRing
<1>4. Line!Held \in {0, 1} /\ Line!Working \in {0, 1}
  BY DEF Line!Held, Line!Working
<1>5. MaxJobs \in Nat /\ made \in 0..MaxJobs /\ Len(finished) \in Nat
  BY DEF JobConstants, Line!TypeOK
<1>6. front \in 0 .. QUEUE_MAX_SIZE - 1 /\ rear \in 0 .. QUEUE_MAX_SIZE - 1 /\ worker.at \in 0 .. QUEUE_MAX_SIZE - 1
  BY DEF Line!TypeOK
<1>7. QED
  BY <1>1, <1>2, <1>3, <1>4, <1>5, <1>6

\* A step that leaves the ring, and what was received and finished, as it is.
LEMMA LengthRests ==
  ASSUME UNCHANGED <<front, rear>>
  PROVE  Line!Length' = Line!Length /\ \A i : Line!Position(i)' = Line!Position(i)
BY DEF Line!Length, Line!Position

LEMMA WorkerReads ==
  ASSUME JobConstants, Line!JobInv, Line!isFull \/ Line!ReadRear
  PROVE  Line!JobInv'
<1> USE DEF Line!JobInv
<1>1. /\ UNCHANGED <<arr, front, rear, session, made, finished, owner>> /\ quit = "no"
      /\ worker.pc \in {"full", "read_rear"} /\ worker'.job = worker.job /\ worker'.pc \in {"write", "publish"}
  BY DEF Line!isFull, Line!ReadRear, Line!WorkerAt, Line!ring, Line!TypeOK
<1>2. RingIsLine
  BY RingIsLineHolds
<1>3. Line!TypeOK' /\ quit' \in {"no", "ArrayQueueFull"}
  <2>1. Line!After(rear) \in 0 .. QUEUE_MAX_SIZE - 1
    <3>1. rear \in 0 .. QUEUE_MAX_SIZE - 1 /\ QUEUE_MAX_SIZE \in Nat
      BY JobNumbers
    <3>2. Line!After(rear) = IF rear + 1 < QUEUE_MAX_SIZE THEN rear + 1 ELSE 0
      BY <1>2, <3>1 DEF RingIsLine
    <3>3. QED
      BY <3>1, <3>2
  <2>2. quit' \in {"no", "ArrayQueueFull"}
    BY <1>1 DEF Line!isFull, Line!ReadRear
  <2>3. worker' = [worker EXCEPT !.pc = "write"] \/ worker' = [worker EXCEPT !.pc = "publish", !.at = Line!After(rear)]
    BY DEF Line!isFull, Line!ReadRear
  <2>4. QED
    BY <1>1, <2>1, <2>2, <2>3, ZenonT(40) DEF Line!TypeOK
<1>4. Line!Length' = Line!Length /\ \A i : Line!Position(i)' = Line!Position(i)
  BY <1>1, LengthRests
<1>5. Line!Working' = Line!Working /\ Line!Held' = Line!Held /\ Line!InRing' = Line!InRing
  BY <1>1, <1>4 DEF Line!Working, Line!Held, Line!InRing
<1>6. Line!OwnerSupport'
  BY <1>1, <1>4, <1>5 DEF Line!OwnerSupport
<1>7. Line!JobsInOrder'
  BY <1>1, <1>4, <1>5 DEF Line!JobsInOrder
<1>8. Line!WorkerSupport'
  <2>1. CASE Line!isFull
    <3>1. worker' = [worker EXCEPT !.pc = "write"] /\ (quit' = "no" => Line!After(rear) # worker.at)
      BY <2>1 DEF Line!isFull, Line!TypeOK
    <3>2. ASSUME quit' = "no" PROVE Line!Length < QUEUE_MAX_SIZE - 1
      <4>1. Line!Length <= (rear + QUEUE_MAX_SIZE - worker.at) % QUEUE_MAX_SIZE
        BY <2>1 DEF Line!isFull, Line!WorkerAt, Line!WorkerSupport
      <4>2. /\ worker.at \in 0 .. QUEUE_MAX_SIZE - 1 /\ rear \in 0 .. QUEUE_MAX_SIZE - 1 /\ QUEUE_MAX_SIZE \in Nat
            /\ Line!Length \in 0 .. QUEUE_MAX_SIZE - 1
        BY JobNumbers
      <4>3. Line!Length <= IF rear >= worker.at THEN rear - worker.at ELSE rear + QUEUE_MAX_SIZE - worker.at
        BY <1>2, <4>1, <4>2 DEF RingIsLine
      <4>4. worker.at # IF rear + 1 < QUEUE_MAX_SIZE THEN rear + 1 ELSE 0
        BY <1>2, <3>1, <3>2, <4>2 DEF RingIsLine
      <4>5. \A Q \in Nat : \A a, w, l \in 0 .. Q - 1 :
              l <= (IF w >= a THEN w - a ELSE w + Q - a) /\ a # (IF w + 1 < Q THEN w + 1 ELSE 0) => l < Q - 1
        OBVIOUS
      <4>6. QED
        BY <4>2, <4>3, <4>4, <4>5
    <3>3. QED
      BY <1>1, <1>4, <3>1, <3>2 DEF Line!WorkerSupport, Line!TypeOK
  <2>2. CASE Line!ReadRear
    <3>1. worker' = [worker EXCEPT !.pc = "publish", !.at = Line!After(rear)] /\ worker.pc = "read_rear" /\ quit' = quit
      BY <2>2 DEF Line!ReadRear, Line!WorkerAt
    <3>2. worker'.at = Line!After(rear) /\ worker'.pc = "publish"
      BY <3>1 DEF Line!TypeOK
    <3>3. QED
      BY <1>1, <1>4, <3>1, <3>2 DEF Line!WorkerSupport, Line!After
  <2>3. QED
    BY <2>1, <2>2
<1>9. QED
  BY <1>3, <1>6, <1>7, <1>8

LEMMA WorkerBegins ==
  ASSUME JobConstants, Line!JobInv, Line!EnqueueJob, owner'.for = "move" => worker'.pc = "idle"
  PROVE  Line!JobInv'
<1> USE DEF Line!JobInv
<1>1. /\ UNCHANGED <<arr, front, rear, session, finished, owner, quit>> /\ worker.pc = "idle" /\ owner.for # "destroy"
      /\ made < MaxJobs /\ made' = made + 1 /\ worker' = [pc |-> "full", job |-> <<session, made + 1>>, at |-> front]
  BY DEF Line!EnqueueJob, Line!WorkerAt, Line!ring
<1>2. made \in 0 .. MaxJobs - 1 /\ MaxJobs \in Nat /\ made + 1 \in 1..MaxJobs
  BY <1>1, JobNumbers
<1>3. Line!TypeOK'
  <2>1. made' \in 0..MaxJobs /\ <<session, made + 1>> \in Line!Jobs
    BY <1>1, <1>2 DEF Line!TypeOK, Line!Jobs
  <2>2. worker' \in [pc : {"idle", "full", "write", "read_rear", "publish"},
                     job : Line!Jobs \cup {nullptr}, at : 0 .. QUEUE_MAX_SIZE - 1]
    BY <1>1, <2>1 DEF Line!TypeOK
  <2>3. QED
    BY <1>1, <2>1, <2>2 DEF Line!TypeOK
<1>4. Line!Length' = Line!Length /\ \A i : Line!Position(i)' = Line!Position(i)
  BY <1>1, LengthRests
<1>5. Line!Working' = 1 /\ Line!Working = 0 /\ Line!Held' = Line!Held /\ Line!InRing' = Line!InRing
  BY <1>1, <1>4 DEF Line!Working, Line!Held, Line!InRing
<1>6. owner.for = "frame"
  BY <1>1 DEF Line!TypeOK
<1>7. Line!OwnerSupport'
  BY <1>1, <1>4, <1>5, <1>6 DEF Line!OwnerSupport
<1>8. Line!WorkerSupport'
  <2>1. Line!Length' <= (rear' + QUEUE_MAX_SIZE - worker'.at) % QUEUE_MAX_SIZE
    <3>1. Line!Length' = (rear' + QUEUE_MAX_SIZE - worker'.at) % QUEUE_MAX_SIZE
      BY <1>1 DEF Line!Length
    <3>2. Line!Length' \in Int
      BY <1>4, JobNumbers
    <3>3. QED
      BY <3>1, <3>2
  <2>2. QED
    BY <1>1, <2>1 DEF Line!WorkerSupport
<1>9. PICK m \in Nat, l \in Int, n \in Nat, h \in Int, q \in Int :
        made = m /\ l = Line!Length /\ n = Len(finished) /\ h = Line!Held /\ q = Line!InRing
  BY JobNumbers
<1>10. (m + 1) - 1 - l = m - 0 - l /\ (n + h + q + 0 = m => n + h + q + 1 = m + 1)
  OBVIOUS
<1>11. Line!JobsInOrder'
  <2>1. Len(finished') + Line!Held' + Line!InRing' + Line!Working' = made'
    BY <1>1, <1>5, <1>9, <1>10 DEF Line!JobsInOrder
  <2>2. made' - Line!Working' - Line!Length' = made - Line!Working - Line!Length
    BY <1>1, <1>4, <1>5, <1>9, <1>10
  <2>3. QED
    BY <1>1, <1>4, <2>1, <2>2 DEF Line!JobsInOrder
<1>12. QED
  BY <1>1, <1>3, <1>7, <1>8, <1>11

LEMMA WorkerWrites ==
  ASSUME JobConstants, Line!JobInv, Line!WriteItem
  PROVE  Line!JobInv'
<1> USE DEF Line!JobInv
<1>1. /\ UNCHANGED <<front, rear, session, made, finished, owner, quit>> /\ quit = "no" /\ worker.pc = "write"
      /\ arr' = [arr EXCEPT ![rear] = worker.job] /\ worker' = [worker EXCEPT !.pc = "read_rear"]
  BY DEF Line!WriteItem, Line!WorkerAt
<1>2. worker'.pc = "read_rear" /\ worker'.job = worker.job /\ worker.job = <<session, made>>
  BY <1>1 DEF Line!TypeOK, Line!WorkerSupport
<1>3. Line!TypeOK'
  BY <1>1 DEF Line!TypeOK
<1>4. Line!Length' = Line!Length /\ \A i : Line!Position(i)' = Line!Position(i)
  BY <1>1, LengthRests
<1>5. Line!Working' = Line!Working /\ Line!Held' = Line!Held /\ Line!InRing' = Line!InRing
  BY <1>1, <1>2, <1>4 DEF Line!Working, Line!Held, Line!InRing
<1>6. \A i \in 1..Line!Length : Line!Position(i) # rear /\ Line!Position(i) \in 0 .. QUEUE_MAX_SIZE - 1
  <2>1. RingIsLine
    BY RingIsLineHolds
  <2>2. \A i \in 1..Line!Length : i \in 1..QUEUE_MAX_SIZE
    BY JobNumbers
  <2>3. ASSUME NEW i \in 1..Line!Length PROVE Line!Position(i) # rear /\ Line!Position(i) \in 0 .. QUEUE_MAX_SIZE - 1
    <3>1. Line!Position(i) = IF front + i - 1 < QUEUE_MAX_SIZE THEN front + i - 1 ELSE front + i - 1 - QUEUE_MAX_SIZE
      BY <2>1, <2>2 DEF RingIsLine
    <3>2. Line!Length = IF rear >= front THEN rear - front ELSE rear + QUEUE_MAX_SIZE - front
      BY <2>1 DEF RingIsLine
    <3>3. Line!Position(i) \in (0 .. QUEUE_MAX_SIZE - 1) \ {rear}
      BY <3>1, <3>2, JobNumbers, PlaceIsFree
    <3>4. QED
      BY <3>3
  <2>4. QED
    BY <2>3
<1>7. \A i \in 1..Line!Length : arr'[Line!Position(i)] = arr[Line!Position(i)]
  BY <1>1, <1>6 DEF Line!TypeOK
<1>8. arr'[rear] = worker.job
  BY <1>1 DEF Line!TypeOK
<1>9. Line!OwnerSupport'
  BY <1>1, <1>2, <1>4, <1>5 DEF Line!OwnerSupport
<1>10. Line!WorkerSupport'
  BY <1>1, <1>2, <1>4, <1>8 DEF Line!WorkerSupport
<1>11. Line!JobsInOrder'
  BY <1>1, <1>4, <1>5, <1>7 DEF Line!JobsInOrder
<1>12. QED
  BY <1>1, <1>3, <1>9, <1>10, <1>11

LEMMA WorkerPublishes ==
  ASSUME JobConstants, Line!JobInv, Line!Publish
  PROVE  Line!JobInv'
<1> USE DEF Line!JobInv
<1>1. /\ UNCHANGED <<arr, front, session, made, finished, owner, quit>> /\ quit = "no" /\ worker.pc = "publish"
      /\ rear' = worker.at /\ worker' = [pc |-> "idle", job |-> nullptr, at |-> 0]
  BY DEF Line!Publish, Line!WorkerAt
<1>0. QUEUE_MAX_SIZE \in Nat \ {0} /\ front \in 0 .. QUEUE_MAX_SIZE - 1 /\ rear \in 0 .. QUEUE_MAX_SIZE - 1
  BY JobNumbers
<1>2. worker.at = Line!After(rear) /\ arr[rear] = <<session, made>> /\ Line!Length < QUEUE_MAX_SIZE - 1
  BY <1>1 DEF Line!WorkerSupport
<1>3. Line!TypeOK'
  <2>1. worker' \in [pc : {"idle", "full", "write", "read_rear", "publish"},
                     job : Line!Jobs \cup {nullptr}, at : 0 .. QUEUE_MAX_SIZE - 1]
    BY <1>1, JobNumbers
  <2>2. rear' \in 0 .. QUEUE_MAX_SIZE - 1
    BY <1>1, JobNumbers
  <2>3. QED
    BY <1>1, <2>1, <2>2 DEF Line!TypeOK
<1>4. RingIsLine /\ RingIsLine'
  BY <1>3, RingIsLineHolds, RingAhead DEF JobConstants
<1>5. Line!Length' = Line!Length + 1 /\ Line!Length \in 0 .. QUEUE_MAX_SIZE - 2
  <2>1. rear' = IF rear + 1 < QUEUE_MAX_SIZE THEN rear + 1 ELSE 0
    BY <1>1, <1>2, <1>4, JobNumbers DEF RingIsLine
  <2>2. Line!Length = IF rear >= front THEN rear - front ELSE rear + QUEUE_MAX_SIZE - front
    BY <1>4 DEF RingIsLine
  <2>3. Line!Length' = IF rear' >= front THEN rear' - front ELSE rear' + QUEUE_MAX_SIZE - front
    BY <1>1, <1>4 DEF RingIsLine
  <2>4. Line!Length + 1 = (IF rear' >= front THEN rear' - front ELSE rear' + QUEUE_MAX_SIZE - front)
        /\ Line!Length \in 0 .. QUEUE_MAX_SIZE - 2
    <3> HIDE DEF Line!JobInv
    <3>1. QED
      BY <1>2, <2>1, <2>2, <1>0, RearAdvances
  <2>5. QED
    BY <2>3, <2>4
<1>6. /\ \A i \in 1 .. Line!Length + 1 : Line!Position(i)' = Line!Position(i)
      /\ Line!Position(Line!Length + 1) = rear
  <2>1. \A i : Line!Position(i)' = Line!Position(i)
    BY <1>1 DEF Line!Position
  <2>2. Line!Length + 1 \in 1..QUEUE_MAX_SIZE
    BY <1>5, JobNumbers
  <2>3. Line!Position(Line!Length + 1)
          = IF front + (Line!Length + 1) - 1 < QUEUE_MAX_SIZE THEN front + (Line!Length + 1) - 1
            ELSE front + (Line!Length + 1) - 1 - QUEUE_MAX_SIZE
    BY <1>4, <2>2 DEF RingIsLine
  <2>4. Line!Length = IF rear >= front THEN rear - front ELSE rear + QUEUE_MAX_SIZE - front
    BY <1>4 DEF RingIsLine
  <2>5. Line!Position(Line!Length + 1) = rear
    BY <1>0, <2>3, <2>4, PlaceOfNext
  <2>6. QED
    BY <2>1, <2>5
<1>7. owner.for = "frame" /\ owner.pc \notin {"reset_front", "reset_rear"} /\ owner' = owner
  BY <1>1 DEF Line!OwnerSupport, Line!TypeOK
<1>8. Line!Working' = 0 /\ Line!Working = 1 /\ Line!Held' = Line!Held /\ Line!InRing' = Line!InRing + 1
  <2>1. Line!Working' = 0 /\ Line!Working = 1 /\ Line!Held' = Line!Held
    BY <1>1, <1>7 DEF Line!Working, Line!Held
  <2>2. \A l \in Int, k \in Int : (l + 1) - k = (l - k) + 1
    OBVIOUS
  <2>3. Line!InRing = Line!Length - (IF owner.pc = "advance" THEN 1 ELSE 0)
    BY <1>7 DEF Line!InRing
  <2>4. Line!InRing' = (Line!Length + 1) - (IF owner.pc = "advance" THEN 1 ELSE 0)
    BY <1>5, <1>7 DEF Line!InRing
  <2>5. QED
    BY <2>1, <2>2, <2>3, <2>4, JobNumbers
<1>9. Line!OwnerSupport'
  <2>1. Line!Length' > 0
    BY <1>5
  <2>2. QED
    BY <1>1, <1>7, <1>8, <2>1 DEF Line!OwnerSupport
<1>10. Line!WorkerSupport'
  BY <1>1 DEF Line!WorkerSupport
<1>11. Line!JobsInOrder'
  <2>1. PICK m \in Nat, l \in Nat, n \in Nat, h \in Int, q \in Int :
          made = m /\ l = Line!Length /\ n = Len(finished) /\ h = Line!Held /\ q = Line!InRing
    BY JobNumbers
  <2>2. n + h + q + 1 = m => n + h + (q + 1) + 0 = m
    OBVIOUS
  <2>3. Len(finished') + Line!Held' + Line!InRing' + Line!Working' = made'
    BY <1>1, <1>8, <2>1, <2>2 DEF Line!JobsInOrder
  <2>4. /\ \A i \in 1 .. l + 1 : i = l + 1 \/ i \in 1..l
        /\ \A i \in 1..l : m - 1 - l + i = m - 0 - (l + 1) + i
        /\ m - 0 - (l + 1) + (l + 1) = m
    OBVIOUS
  <2>5. \A i \in 1..l : (i = 1 /\ owner.pc = "advance") \/ arr[Line!Position(i)] = <<session, m - 1 - l + i>>
    BY <1>7, <1>8, <2>1 DEF Line!JobsInOrder
  <2>6. \A i \in 1 .. l + 1 : (i = 1 /\ owner.pc = "advance") \/ arr[Line!Position(i)] = <<session, m - 0 - (l + 1) + i>>
    <3>1. arr[Line!Position(l + 1)] = <<session, m - 0 - (l + 1) + (l + 1)>>
      BY <1>2, <1>6, <2>1, <2>4
    <3>2. QED
      BY <2>4, <2>5, <3>1
  <2>7. QED
    BY <1>1, <1>5, <1>6, <1>7, <1>8, <2>1, <2>3, <2>6, ZenonT(40) DEF Line!JobsInOrder
<1>12. QED
  BY <1>1, <1>3, <1>9, <1>10, <1>11

LEMMA OwnerBegins ==
  ASSUME JobConstants, Line!JobInv, NEW for \in {"frame", "move", "destroy"}, Line!Begin(for),
         owner'.for = "move" => worker'.pc = "idle"
  PROVE  Line!JobInv'
<1> USE DEF Line!JobInv
<1>1. /\ UNCHANGED <<arr, front, rear, session, made, finished, worker, quit>> /\ owner.pc = "idle"
      /\ owner' = [pc |-> "empty", for |-> for, buf |-> nullptr]
      /\ for = "destroy" => worker.pc = "idle" /\ session < MaxSessions
  BY DEF Line!Begin, Line!OwnerAt, Line!ring
<1>2. owner'.pc = "empty" /\ owner'.for = for /\ owner'.buf = nullptr
  BY <1>1
<1>3. for # "frame" => worker.pc = "idle"
  BY <1>1, <1>2
<1>4. Line!TypeOK'
  BY <1>1 DEF Line!TypeOK
<1>5. Line!Length' = Line!Length /\ \A i : Line!Position(i)' = Line!Position(i)
  BY <1>1, LengthRests
<1>6. Line!Working' = Line!Working /\ Line!Held' = Line!Held /\ Line!Held' = 0 /\ Line!InRing' = Line!InRing
  BY <1>1, <1>2, <1>5 DEF Line!Working, Line!Held, Line!InRing
<1>7. Line!OwnerSupport'
  BY <1>1, <1>2, <1>3, <1>6 DEF Line!OwnerSupport
<1>8. Line!WorkerSupport'
  BY <1>1, <1>5 DEF Line!WorkerSupport, Line!After
<1>9. Line!JobsInOrder'
  BY <1>1, <1>2, <1>5, <1>6 DEF Line!JobsInOrder
<1>10. QED
  BY <1>1, <1>4, <1>7, <1>8, <1>9

LEMMA OwnerLooks ==
  ASSUME JobConstants, Line!JobInv, Line!isEmpty
  PROVE  Line!JobInv'
<1> USE DEF Line!JobInv
<1>1. /\ UNCHANGED <<arr, front, rear, session, made, finished, worker, quit>> /\ owner.pc = "empty"
      /\ owner' = IF front # rear THEN [owner EXCEPT !.pc = "take"]
                  ELSE IF owner.for = "frame" THEN [owner EXCEPT !.pc = "idle"]
                  ELSE [owner EXCEPT !.pc = "reset_front"]
  BY DEF Line!isEmpty, Line!OwnerAt, Line!ring
<1>2. /\ owner'.for = owner.for /\ owner'.buf = owner.buf
      /\ owner'.pc = IF front # rear THEN "take" ELSE IF owner.for = "frame" THEN "idle" ELSE "reset_front"
  BY <1>1 DEF Line!TypeOK
<1>3. Line!TypeOK'
  BY <1>1 DEF Line!TypeOK
<1>4. Line!Length' = Line!Length /\ \A i : Line!Position(i)' = Line!Position(i)
  BY <1>1, LengthRests
<1>5. Line!Working' = Line!Working /\ Line!Held' = Line!Held /\ Line!Held' = 0 /\ Line!InRing' = Line!InRing
  BY <1>1, <1>2, <1>4 DEF Line!Working, Line!Held, Line!InRing
<1>6. (front # rear => Line!Length > 0) /\ (front = rear => Line!Length = 0)
  <2>1. Line!Length = IF rear >= front THEN rear - front ELSE rear + QUEUE_MAX_SIZE - front
    BY RingIsLineHolds DEF RingIsLine
  <2>2. \A Q \in Nat : \A f, r \in 0 .. Q - 1 :
          /\ f # r => (IF r >= f THEN r - f ELSE r + Q - f) > 0
          /\ f = r => (IF r >= f THEN r - f ELSE r + Q - f) = 0
    OBVIOUS
  <2>3. QED
    BY <2>1, <2>2, JobNumbers
<1>7. Line!OwnerSupport'
  BY <1>1, <1>2, <1>4, <1>5, <1>6 DEF Line!OwnerSupport
<1>8. Line!WorkerSupport'
  BY <1>1, <1>4 DEF Line!WorkerSupport, Line!After
<1>9. Line!JobsInOrder'
  BY <1>1, <1>2, <1>4, <1>5 DEF Line!JobsInOrder
<1>10. QED
  BY <1>1, <1>3, <1>7, <1>8, <1>9

LEMMA OwnerTakes ==
  ASSUME JobConstants, Line!JobInv, Line!Take
  PROVE  Line!JobInv'
<1> USE DEF Line!JobInv
<1>1. /\ UNCHANGED <<front, rear, session, made, finished, worker, quit>> /\ owner.pc = "take"
      /\ owner' = [owner EXCEPT !.pc = "advance", !.buf = arr[front]] /\ arr' = [arr EXCEPT ![front] = nullptr]
  BY DEF Line!Take, Line!OwnerAt
<1>2. owner'.pc = "advance" /\ owner'.for = owner.for /\ owner'.buf = arr[front]
  BY <1>1 DEF Line!TypeOK
<1>3. Line!TypeOK'
  BY <1>1 DEF Line!TypeOK
<1>4. Line!Length' = Line!Length /\ \A i : Line!Position(i)' = Line!Position(i)
  BY <1>1, LengthRests
<1>5. /\ QUEUE_MAX_SIZE \in Nat \ {0} /\ front \in 0 .. QUEUE_MAX_SIZE - 1 /\ rear \in 0 .. QUEUE_MAX_SIZE - 1
      /\ Line!Length \in 1 .. QUEUE_MAX_SIZE - 1
  BY <1>1, JobNumbers DEF Line!OwnerSupport
<1>6. /\ \A i \in 1..Line!Length :
           Line!Position(i) = IF front + i - 1 < QUEUE_MAX_SIZE THEN front + i - 1 ELSE front + i - 1 - QUEUE_MAX_SIZE
      /\ Line!Length = IF rear >= front THEN rear - front ELSE rear + QUEUE_MAX_SIZE - front
  <2>1. RingIsLine
    BY RingIsLineHolds
  <2>2. \A i \in 1..Line!Length : i \in 1..QUEUE_MAX_SIZE
    BY <1>5
  <2>3. QED
    BY <2>1, <2>2 DEF RingIsLine
<1>7. /\ Line!Position(1) = front /\ front # rear
      /\ \A i \in 1..Line!Length : i = 1 \/ Line!Position(i) \in (0 .. QUEUE_MAX_SIZE - 1) \ {front}
  <2>1. \A Q \in Nat : \A f, r \in 0 .. Q - 1 : \A l \in 1 .. Q - 1 : \A i \in 1..l :
          /\ (IF f + 1 - 1 < Q THEN f + 1 - 1 ELSE f + 1 - 1 - Q) = f
          /\ l = (IF r >= f THEN r - f ELSE r + Q - f) => f # r
          /\ i = 1 \/ (IF f + i - 1 < Q THEN f + i - 1 ELSE f + i - 1 - Q) \in (0 .. Q - 1) \ {f}
    OBVIOUS
  <2>2. 1 \in 1..Line!Length
    BY <1>5
  <2>3. QED
    BY <1>5, <1>6, <2>1, <2>2
<1>8. /\ \A i \in 1..Line!Length : i = 1 \/ arr'[Line!Position(i)] = arr[Line!Position(i)]
      /\ arr'[rear] = arr[rear]
  BY <1>1, <1>5, <1>7 DEF Line!TypeOK
<1>9. Line!Working' = Line!Working /\ Line!Held' = 1 /\ Line!Held = 0 /\ Line!InRing = Line!Length /\ Line!InRing' = Line!Length - 1
  <2>1. Line!InRing = Line!Length - 0
    BY <1>1 DEF Line!InRing
  <2>2. QED
    BY <1>1, <1>2, <1>4, <1>5, <2>1 DEF Line!Working, Line!Held, Line!InRing
<1>10. PICK m \in Nat, l \in Nat, n \in Nat, w \in Int :
         made = m /\ l = Line!Length /\ n = Len(finished) /\ w = Line!Working
  BY JobNumbers
<1>11. n + 0 + l + w = m
  BY <1>9, <1>10 DEF Line!JobsInOrder
<1>12. m - w - l + 1 = n + 1 /\ n + 1 + (l - 1) + w = m
  <2>1. \A a, b, c, d \in Int : a + 0 + b + c = d => d - c - b + 1 = a + 1 /\ a + 1 + (b - 1) + c = d
    OBVIOUS
  <2>2. QED
    BY <1>11, <2>1
<1>13. owner'.buf = <<session, n + 1>>
  <2>1. arr[Line!Position(1)] = <<session, m - w - l + 1>>
    BY <1>1, <1>5, <1>10, SMTT(30), SMTT(30) DEF Line!JobsInOrder
  <2>2. QED
    BY <1>2, <1>7, <1>12, <2>1
<1>14. Line!OwnerSupport'
  BY <1>1, <1>2, <1>4, <1>5, <1>9, <1>10, <1>13 DEF Line!OwnerSupport
<1>15. Line!WorkerSupport'
  BY <1>1, <1>4, <1>8 DEF Line!WorkerSupport, Line!After
<1>16. Line!JobsInOrder'
  BY <1>1, <1>2, <1>4, <1>8, <1>9, <1>10, <1>12 DEF Line!JobsInOrder
<1>17. QED
  BY <1>1, <1>3, <1>14, <1>15, <1>16

LEMMA OwnerAdvances ==
  ASSUME JobConstants, Line!JobInv, Line!Advance
  PROVE  Line!JobInv'
<1> USE DEF Line!JobInv
<1>1. /\ UNCHANGED <<arr, rear, session, made, finished, worker, quit>> /\ owner.pc = "advance"
      /\ owner' = [owner EXCEPT !.pc = "use"] /\ front' = Line!After(front)
  BY DEF Line!Advance, Line!OwnerAt
<1>2. owner'.pc = "use" /\ owner'.for = owner.for /\ owner'.buf = owner.buf
  BY <1>1 DEF Line!TypeOK
<1>3. /\ QUEUE_MAX_SIZE \in Nat \ {0} /\ front \in 0 .. QUEUE_MAX_SIZE - 1 /\ rear \in 0 .. QUEUE_MAX_SIZE - 1
      /\ Line!Length > 0 /\ Line!Length \in Nat
  BY <1>1, JobNumbers DEF Line!OwnerSupport
<1>4. RingIsLine
  BY RingIsLineHolds
<1>5. front' = (IF front + 1 < QUEUE_MAX_SIZE THEN front + 1 ELSE 0) /\ front' \in 0 .. QUEUE_MAX_SIZE - 1
  <2>1. front' = IF front + 1 < QUEUE_MAX_SIZE THEN front + 1 ELSE 0
    BY <1>1, <1>3, <1>4 DEF RingIsLine
  <2>2. QED
    BY <1>3, <2>1
<1>6. Line!TypeOK'
  BY <1>1, <1>5 DEF Line!TypeOK
<1>7. RingIsLine'
  BY <1>6, RingAhead DEF JobConstants
<1>8. Line!Length = IF rear >= front THEN rear - front ELSE rear + QUEUE_MAX_SIZE - front
  BY <1>4 DEF RingIsLine
<1>9. /\ Line!Length - 1 = (IF rear >= front' THEN rear - front' ELSE rear + QUEUE_MAX_SIZE - front')
      /\ Line!Length \in 1 .. QUEUE_MAX_SIZE - 1
      /\ \A i \in 1 .. Line!Length - 1 :
           (IF front' + i - 1 < QUEUE_MAX_SIZE THEN front' + i - 1 ELSE front' + i - 1 - QUEUE_MAX_SIZE)
             = IF front + (i + 1) - 1 < QUEUE_MAX_SIZE THEN front + (i + 1) - 1 ELSE front + (i + 1) - 1 - QUEUE_MAX_SIZE
  <2> HIDE DEF Line!JobInv
  <2>1. QED
    BY <1>3, <1>5, <1>8, FrontAdvances
<1>10. Line!Length' = Line!Length - 1
  BY <1>1, <1>7, <1>9 DEF RingIsLine
<1>11. \A i \in 1 .. Line!Length - 1 :
         /\ i \in 1..QUEUE_MAX_SIZE /\ i + 1 \in 1..QUEUE_MAX_SIZE /\ i + 1 \in 1..Line!Length /\ i + 1 # 1
  BY <1>3, <1>9
<1>12. \A i \in 1 .. Line!Length - 1 : Line!Position(i)' = Line!Position(i + 1)
  <2>1. \A i \in 1 .. Line!Length - 1 :
          Line!Position(i)' = IF front' + i - 1 < QUEUE_MAX_SIZE THEN front' + i - 1 ELSE front' + i - 1 - QUEUE_MAX_SIZE
    BY <1>7, <1>11 DEF RingIsLine
  <2>2. \A i \in 1 .. Line!Length - 1 :
          Line!Position(i + 1) = IF front + (i + 1) - 1 < QUEUE_MAX_SIZE THEN front + (i + 1) - 1
                                 ELSE front + (i + 1) - 1 - QUEUE_MAX_SIZE
    BY <1>4, <1>11 DEF RingIsLine
  <2>3. QED
    BY <1>9, <2>1, <2>2
<1>13. Line!Working' = Line!Working /\ Line!Held' = Line!Held /\ Line!InRing' = Line!InRing
  <2>1. Line!InRing = Line!Length - 1 /\ Line!InRing' = Line!Length' - 0
    BY <1>1, <1>2 DEF Line!InRing
  <2>2. Line!InRing' = Line!InRing
    BY <1>9, <1>10, <2>1
  <2>3. QED
    BY <1>1, <1>2, <2>2 DEF Line!Working, Line!Held
<1>14. Line!OwnerSupport'
  BY <1>1, <1>2, <1>13 DEF Line!OwnerSupport
<1>15. Line!WorkerSupport'
  <2>1. worker.pc = "full" => Line!Length' <= (rear + QUEUE_MAX_SIZE - worker.at) % QUEUE_MAX_SIZE
    <3>1. (rear + QUEUE_MAX_SIZE - worker.at) % QUEUE_MAX_SIZE
            = IF rear >= worker.at THEN rear - worker.at ELSE rear + QUEUE_MAX_SIZE - worker.at
      BY <1>4, JobNumbers DEF RingIsLine
    <3>2. (rear + QUEUE_MAX_SIZE - worker.at) % QUEUE_MAX_SIZE \in Int
      BY <3>1, JobNumbers
    <3>3. PICK k \in Int : k = (rear + QUEUE_MAX_SIZE - worker.at) % QUEUE_MAX_SIZE
      BY <3>2
    <3>4. worker.pc = "full" => Line!Length <= k
      BY <3>3 DEF Line!WorkerSupport
    <3>5. worker.pc = "full" => Line!Length - 1 <= k
      BY <1>9, <3>4
    <3>6. QED
      BY <1>10, <3>3, <3>5
  <2>2. Line!Length < QUEUE_MAX_SIZE - 1 => Line!Length' < QUEUE_MAX_SIZE - 1
    BY <1>3, <1>9, <1>10
  <2>3. QED
    BY <1>1, <2>1, <2>2 DEF Line!WorkerSupport, Line!After
<1>16. Line!JobsInOrder'
  <2>1. PICK m \in Nat, l \in Nat, w \in Int : made = m /\ l = Line!Length /\ w = Line!Working
    BY JobNumbers
  <2>2. \A i \in 1 .. l - 1 : m - w - l + (i + 1) = m - w - (l - 1) + i
    BY <2>1
  <2>3. \A i \in 1 .. l - 1 : arr[Line!Position(i + 1)] = <<session, m - w - l + (i + 1)>>
    BY <1>1, <1>11, <2>1 DEF Line!JobsInOrder
  <2>4. \A i \in 1 .. Line!Length' : arr'[Line!Position(i)'] = <<session', made' - Line!Working' - Line!Length' + i>>
    BY <1>1, <1>10, <1>12, <1>13, <2>1, <2>2, <2>3
  <2>5. QED
    BY <1>1, <1>13, <2>4 DEF Line!JobsInOrder
<1>17. QED
  BY <1>1, <1>6, <1>14, <1>15, <1>16

LEMMA OwnerUses ==
  ASSUME JobConstants, Line!JobInv, Line!Use
  PROVE  Line!JobInv'
<1> USE DEF Line!JobInv
<1>1. UNCHANGED <<arr, front, rear, session, made, worker>> /\ owner.pc = "use" /\ quit = "no"
  BY DEF Line!Use, Line!OwnerAt, Line!ring
<1>2. PICK m \in Nat, l \in Nat, n \in Nat, w \in Int, q \in Int :
        made = m /\ l = Line!Length /\ n = Len(finished) /\ w = Line!Working /\ q = Line!InRing
  BY JobNumbers
<1>3. owner.buf = <<session, n + 1>> /\ Line!Held = 1
  BY <1>1, <1>2 DEF Line!OwnerSupport, Line!Held
<1>4. q = l /\ n + 1 + l + w = m /\ n + 0 + l + w + 1 = m /\ w \in {0, 1}
  <2>1. q = l - 0
    BY <1>1, <1>2 DEF Line!InRing
  <2>2. q = l
    BY <2>1
  <2>3. n + 1 + q + w = m
    BY <1>2, <1>3 DEF Line!JobsInOrder
  <2>4. w \in {0, 1}
    BY <1>2 DEF Line!Working
  <2>5. QED
    BY <2>2, <2>3, <2>4
<1>5. <<session, n + 1>> \in Line!Jobs /\ session \in 1..MaxSessions
  <2>1. n + 1 \in 1..MaxJobs
    BY <1>2, <1>4, JobNumbers
  <2>2. QED
    BY <2>1 DEF Line!TypeOK, Line!Jobs
<1>6. owner.buf # nullptr /\ owner.buf[1] = session
  BY <1>3, <1>5 DEF JobConstants
<1>7. finished' = Append(finished, <<session, n + 1>>) /\ quit' = "no"
  <2>1. finished' = Append(finished, owner.buf) /\ quit' = quit
    BY <1>6 DEF Line!Use
  <2>2. QED
    BY <1>1, <1>3, <2>1
<1>8. PICK next \in {"empty", "idle"} :
        (next = "idle" => owner.for = "frame") /\ owner' = [owner EXCEPT !.pc = next, !.buf = nullptr]
  BY <1>6 DEF Line!Use
<1>9. owner'.pc = next /\ owner'.for = owner.for /\ owner'.buf = nullptr
  BY <1>8 DEF Line!TypeOK
<1>10. /\ finished \in Seq(Line!Jobs) /\ finished' \in Seq(Line!Jobs) /\ Len(finished') = n + 1
       /\ finished'[n + 1] = <<session, n + 1>> /\ \A k \in 1..n : finished'[k] = finished[k]
  <2>1. finished \in Seq(Line!Jobs)
    BY DEF Line!TypeOK
  <2>2. QED
    BY <1>2, <1>5, <1>7, <2>1, AppendProperties
<1>11. Line!TypeOK'
  BY <1>1, <1>7, <1>8, <1>10 DEF Line!TypeOK
<1>12. Line!Length' = Line!Length /\ \A i : Line!Position(i)' = Line!Position(i)
  BY <1>1, LengthRests
<1>13. Line!Working' = Line!Working /\ Line!Held' = 0 /\ Line!InRing' = Line!InRing
  <2>1. Line!Held' = 0 /\ Line!Working' = Line!Working
    BY <1>1, <1>8, <1>9 DEF Line!Working, Line!Held
  <2>2. Line!InRing' = Line!Length - 0 /\ Line!InRing = Line!Length - 0
    BY <1>1, <1>8, <1>9, <1>12 DEF Line!InRing
  <2>3. QED
    BY <2>1, <2>2
<1>14. Line!OwnerSupport'
  BY <1>1, <1>8, <1>9, <1>13 DEF Line!OwnerSupport
<1>15. Line!WorkerSupport'
  BY <1>1, <1>7, <1>12 DEF Line!WorkerSupport, Line!After
<1>16. Line!JobsInOrder'
  <2>1. \A k \in 1 .. n + 1 : k = n + 1 \/ k \in 1..n
    BY <1>2
  <2>2. \A k \in 1..n : finished[k][2] = k
    BY <1>2 DEF Line!JobsInOrder
  <2>3. \A k \in 1 .. Len(finished') : finished'[k][2] = k
    BY <1>10, <2>1, <2>2
  <2>4. (n + 1) + 0 + q + w = m
    BY <1>2, <1>4
  <2>5. Len(finished') + Line!Held' + Line!InRing' + Line!Working' = made'
    BY <1>1, <1>2, <1>10, <1>13, <2>4
  <2>6. QED
    BY <1>1, <1>8, <1>9, <1>12, <1>13, <2>3, <2>5 DEF Line!JobsInOrder
<1>17. QED
  BY <1>7, <1>11, <1>14, <1>15, <1>16

LEMMA OwnerClears ==
  ASSUME JobConstants, Line!JobInv, Line!ResetFront \/ Line!ResetRear
  PROVE  Line!JobInv'
<1> USE DEF Line!JobInv
<1>1. UNCHANGED <<arr, made, finished, worker, quit>> /\ owner.pc \in {"reset_front", "reset_rear"}
  BY DEF Line!ResetFront, Line!ResetRear, Line!OwnerAt
<1>2. owner.for # "frame" /\ worker.pc = "idle" /\ Line!Held = 0
  BY <1>1 DEF Line!OwnerSupport, Line!Held
<1>3. Line!Working = 0 /\ Line!Working' = 0
  BY <1>1, <1>2 DEF Line!Working
<1>4. Line!InRing = 0 /\ owner.buf = nullptr
  <2>1. owner.buf = nullptr
    BY <1>2 DEF Line!OwnerSupport
  <2>2. CASE owner.pc = "reset_front"
    <3>1. Line!Length = 0
      BY <2>2 DEF Line!OwnerSupport
    <3>2. Line!InRing = Line!Length - 0
      BY <2>2 DEF Line!InRing
    <3>3. QED
      BY <2>1, <3>1, <3>2
  <2>3. CASE owner.pc = "reset_rear"
    BY <2>1, <2>3 DEF Line!InRing
  <2>4. QED
    BY <1>1, <2>2, <2>3
<1>5. Line!WorkerSupport'
  BY <1>1, <1>2 DEF Line!WorkerSupport
<1>6. QUEUE_MAX_SIZE \in Nat \ {0} /\ 0 \in 0 .. QUEUE_MAX_SIZE - 1
  BY JobNumbers
<1>7. CASE Line!ResetFront
  <2>1. front' = 0 /\ owner' = [owner EXCEPT !.pc = "reset_rear"] /\ rear' = rear /\ session' = session
    BY <1>7 DEF Line!ResetFront
  <2>2. owner'.pc = "reset_rear" /\ owner'.for = owner.for /\ owner'.buf = owner.buf
    BY <2>1 DEF Line!TypeOK
  <2>3. Line!TypeOK'
    BY <1>1, <1>6, <2>1 DEF Line!TypeOK
  <2>4. Line!Held' = 0 /\ Line!InRing' = 0
    BY <2>2 DEF Line!Held, Line!InRing
  <2>5. Line!OwnerSupport'
    BY <1>1, <1>2, <1>4, <2>1, <2>2, <2>4 DEF Line!OwnerSupport
  <2>6. Line!JobsInOrder'
    BY <1>1, <1>2, <1>3, <1>4, <2>2, <2>4 DEF Line!JobsInOrder
  <2>7. QED
    BY <1>1, <1>5, <2>3, <2>5, <2>6
<1>8. CASE Line!ResetRear
  <2>1. /\ rear' = 0 /\ front' = front /\ front = 0
        /\ session' = (IF owner.for = "destroy" THEN session + 1 ELSE session)
        /\ owner' = [pc |-> "idle", for |-> "frame", buf |-> nullptr]
    BY <1>8 DEF Line!ResetRear, Line!OwnerAt, Line!OwnerSupport
  <2>2. owner'.pc = "idle" /\ owner'.for = "frame" /\ owner'.buf = nullptr
    BY <2>1
  <2>3. session' \in 1..MaxSessions
    <3>1. session \in 1..MaxSessions /\ MaxSessions \in Nat /\ (owner.for = "destroy" => session < MaxSessions)
      BY DEF Line!TypeOK, JobConstants, Line!OwnerSupport
    <3>2. QED
      BY <2>1, <3>1
  <2>4. Line!TypeOK'
    BY <1>1, <1>6, <2>1, <2>3 DEF Line!TypeOK
  <2>5. Line!Length' = 0
    <3>1. RingIsLine'
      BY <2>4, RingAhead DEF JobConstants
    <3>2. Line!Length' = IF rear' >= front' THEN rear' - front' ELSE rear' + QUEUE_MAX_SIZE - front'
      BY <3>1 DEF RingIsLine
    <3>3. (IF 0 >= 0 THEN 0 - 0 ELSE 0 + QUEUE_MAX_SIZE - 0) = 0
      BY <1>6
    <3>4. rear' = 0 /\ front' = 0
      BY <2>1
    <3>5. QED
      BY <3>2, <3>3, <3>4
  <2>6. Line!Held' = 0 /\ Line!InRing' = 0
    <3>1. Line!InRing' = 0 - 0
      BY <2>2, <2>5 DEF Line!InRing
    <3>2. QED
      BY <2>2, <3>1 DEF Line!Held
  <2>7. Line!OwnerSupport'
    BY <2>2, <2>6 DEF Line!OwnerSupport
  <2>8. Line!JobsInOrder'
    <3>1. \A i \in 1 .. Line!Length' : FALSE
      BY <2>5
    <3>2. Len(finished') + Line!Held' + Line!InRing' + Line!Working' = made'
      BY <1>1, <1>2, <1>3, <1>4, <2>6 DEF Line!JobsInOrder
    <3>3. QED
      BY <1>1, <3>1, <3>2 DEF Line!JobsInOrder
  <2>9. QED
    BY <1>1, <1>5, <2>4, <2>7, <2>8
<1>9. QED
  BY <1>7, <1>8

LEMMA JobInitHasInv ==
  ASSUME JobConstants, Line!Init
  PROVE  Line!JobInv
<1>1. /\ arr = [i \in 0 .. QUEUE_MAX_SIZE - 1 |-> nullptr]
      /\ front = 0 /\ rear = 0 /\ session = 1 /\ made = 0 /\ finished = <<>>
      /\ worker = [pc |-> "idle", job |-> nullptr, at |-> 0]
      /\ owner = [pc |-> "idle", for |-> "frame", buf |-> nullptr] /\ quit = "no"
  BY DEF Line!Init
<1>2. QUEUE_MAX_SIZE \in Nat \ {0} /\ MaxSessions \in Nat \ {0} /\ MaxJobs \in Nat
  BY DEF JobConstants
<1>3. finished \in Seq(Line!Jobs) /\ Len(finished) = 0
  BY <1>1
<1>4. Line!TypeOK
  BY <1>1, <1>2, <1>3 DEF Line!TypeOK
<1>5. Line!Length = 0
  <2>1. Line!Length = IF rear >= front THEN rear - front ELSE rear + QUEUE_MAX_SIZE - front
    BY <1>4, RingIsLineHolds DEF RingIsLine
  <2>2. QED
    BY <1>1, <2>1
<1>6. Line!Held = 0 /\ Line!InRing = 0 /\ Line!Working = 0
  <2>1. Line!InRing = 0 - 0
    BY <1>1, <1>5 DEF Line!InRing
  <2>2. QED
    BY <1>1, <2>1 DEF Line!Held, Line!Working
<1>7. Line!OwnerSupport
  BY <1>1, <1>6 DEF Line!OwnerSupport
<1>8. Line!WorkerSupport
  BY <1>1 DEF Line!WorkerSupport
<1>9. Line!JobsInOrder
  <2>1. (\A i \in 1 .. Line!Length : FALSE) /\ \A k \in 1 .. Len(finished) : FALSE
    BY <1>3, <1>5
  <2>2. Len(finished) + Line!Held + Line!InRing + Line!Working = made
    BY <1>1, <1>3, <1>6
  <2>3. QED
    BY <2>1, <2>2 DEF Line!JobsInOrder
<1>10. QED
  BY <1>1, <1>4, <1>7, <1>8, <1>9 DEF Line!JobInv

LEMMA JobInvRests ==
  ASSUME Line!JobInv, UNCHANGED Line!vars
  PROVE  Line!JobInv'
<1> USE DEF Line!JobInv
<1>1. UNCHANGED <<arr, front, rear, session, made, finished, worker, owner, quit>>
  BY DEF Line!vars
<1>2. Line!Length' = Line!Length /\ \A i : Line!Position(i)' = Line!Position(i)
  BY <1>1, LengthRests
<1>3. Line!Working' = Line!Working /\ Line!Held' = Line!Held /\ Line!InRing' = Line!InRing
  BY <1>1, <1>2 DEF Line!Working, Line!Held, Line!InRing
<1>4. Line!TypeOK'
  BY <1>1 DEF Line!TypeOK
<1>5. Line!OwnerSupport'
  BY <1>1, <1>2, <1>3 DEF Line!OwnerSupport
<1>6. Line!WorkerSupport'
  BY <1>1, <1>2 DEF Line!WorkerSupport, Line!After
<1>7. Line!JobsInOrder'
  BY <1>1, <1>2, <1>3 DEF Line!JobsInOrder
<1>8. QED
  BY <1>1, <1>4, <1>5, <1>6, <1>7

\* Sequences of jobs numbered without a gap, one behind the other.
Numbered(s, from) == \A i \in 1 .. Len(s) : s[i][2] = from + i

LEMMA NumberedConcat ==
  ASSUME NEW S, NEW s \in Seq(S), NEW t \in Seq(S), Numbered(s, 0), Numbered(t, Len(s))
  PROVE  s \o t \in Seq(S) /\ Len(s \o t) = Len(s) + Len(t) /\ Numbered(s \o t, 0)
<1> DEFINE u == s \o t
<1>1. /\ Len(s) \in Nat /\ Len(t) \in Nat /\ u \in Seq(S) /\ Len(u) = Len(s) + Len(t)
      /\ \A i \in 1 .. Len(s) + Len(t) : u[i] = IF i <= Len(s) THEN s[i] ELSE t[i - Len(s)]
  BY ConcatProperties, LenProperties
<1> HIDE DEF u
<1>2. \A i \in 1 .. Len(s) + Len(t) :
        (i <= Len(s) /\ i \in 1 .. Len(s) /\ 0 + i = i) \/ (~(i <= Len(s)) /\ i - Len(s) \in 1 .. Len(t) /\ Len(s) + (i - Len(s)) = 0 + i)
  BY <1>1
<1>3. \A i \in 1 .. Len(u) : u[i][2] = 0 + i
  <2>1. ASSUME NEW i \in 1 .. Len(s) + Len(t) PROVE u[i][2] = 0 + i
    <3>1. CASE i <= Len(s)
      BY <1>1, <1>2, <3>1 DEF Numbered
    <3>2. CASE ~(i <= Len(s))
      <4>1. u[i] = t[i - Len(s)] /\ i - Len(s) \in 1 .. Len(t) /\ Len(s) + (i - Len(s)) = 0 + i
        BY <1>1, <1>2, <3>2
      <4>2. t[i - Len(s)][2] = Len(s) + (i - Len(s))
        BY <4>1 DEF Numbered
      <4>3. QED
        BY <4>1, <4>2
    <3>3. QED
      BY <3>1, <3>2
  <2>2. QED
    BY <1>1, <2>1
<1>4. QED
  BY <1>1, <1>3 DEF Numbered, u

LEMMA NoneOrOne ==
  ASSUME NEW S, NEW c \in BOOLEAN, NEW e, ~c => e \in S, NEW n \in Nat, ~c => e[2] = n + 1
  PROVE  LET s == IF c THEN <<>> ELSE <<e>>
         IN s \in Seq(S) /\ Len(s) = (IF c THEN 0 ELSE 1) /\ Numbered(s, n)
<1>1. CASE c
  BY <1>1 DEF Numbered
<1>2. CASE ~c
  <2>1. <<e>> \in Seq(S) /\ Len(<<e>>) = 1 /\ <<e>>[1] = e
    BY <1>2
  <2>2. \A i \in 1 .. 1 : i = 1
    OBVIOUS
  <2>3. QED
    BY <1>2, <2>1, <2>2 DEF Numbered
<1>3. QED
  BY <1>1, <1>2

\* The state explains the property: the four parts of "all" are numbered one behind the other.
LEMMA JobInvHolds ==
  ASSUME JobConstants, Line!JobInv
  PROVE  Line!NoJobLost /\ Line!OwnJobs
<1> DEFINE held == IF owner.buf = nullptr THEN <<>> ELSE <<owner.buf>>
           inRing == IF owner.pc = "advance" THEN SubSeq(Line!Slots, 2, Line!Length) ELSE Line!Slots
           left == IF owner.pc = "reset_rear" THEN <<>> ELSE inRing
           coming == IF worker.pc = "idle" THEN <<>> ELSE <<worker.job>>
           all == finished \o held \o left \o coming
<1>1. Line!TypeOK /\ Line!OwnerSupport /\ Line!WorkerSupport /\ Line!JobsInOrder
  BY DEF Line!JobInv
<1>2. PICK m \in Nat, l \in Nat, n \in Nat, h \in {0, 1}, w \in {0, 1}, q \in Int :
        /\ made = m /\ l = Line!Length /\ n = Len(finished)
        /\ h = Line!Held /\ w = Line!Working /\ q = Line!InRing
  BY <1>1, JobNumbers
<1>3. n + h + q + w = m /\ m <= MaxJobs /\ MaxJobs \in Nat /\ session \in 1..MaxSessions
  <2>1. n + h + q + w = m
    BY <1>1, <1>2 DEF Line!JobsInOrder
  <2>2. m \in 0..MaxJobs /\ MaxJobs \in Nat
    BY <1>1, <1>2, JobNumbers
  <2>3. QED
    BY <1>1, <2>1, <2>2 DEF Line!TypeOK
<1>4. q >= 0 /\ q = IF owner.pc = "reset_rear" THEN 0 ELSE IF owner.pc = "advance" THEN l - 1 ELSE l
  <2>1. owner.pc = "advance" => l > 0
    BY <1>1, <1>2 DEF Line!OwnerSupport
  <2>2. q = IF owner.pc = "reset_rear" THEN 0 ELSE l - (IF owner.pc = "advance" THEN 1 ELSE 0)
    BY <1>2 DEF Line!InRing
  <2>3. l - 0 = l
    OBVIOUS
  <2>4. QED
    BY <2>1, <2>2, <2>3
<1>5. finished \in Seq(Line!Jobs) /\ Numbered(finished, 0)
  <2>1. \A k \in 1..n : k = 0 + k
    OBVIOUS
  <2>2. QED
    BY <1>1, <1>2, <2>1 DEF Line!TypeOK, Line!JobsInOrder, Numbered
<1>6. nullptr \notin Line!Jobs
  BY DEF JobConstants
<1>7. held \in Seq(Line!Jobs) /\ Len(held) = h /\ Numbered(held, n)
  <2>1. owner.buf = IF h = 1 THEN <<session, n + 1>> ELSE nullptr
    BY <1>1, <1>2 DEF Line!OwnerSupport
  <2>2. h = 1 => n + 1 \in 1..MaxJobs
    BY <1>3, <1>4
  <2>3. h = 1 => owner.buf \in Line!Jobs /\ owner.buf[2] = n + 1
    BY <1>3, <2>1, <2>2 DEF Line!Jobs
  <2>4. h = IF owner.buf = nullptr THEN 0 ELSE 1
    BY <1>6, <2>1, <2>3
  <2>5. ~(owner.buf = nullptr) => owner.buf \in Line!Jobs /\ owner.buf[2] = n + 1
    BY <2>3, <2>4
  <2>6. (owner.buf = nullptr) \in BOOLEAN
    OBVIOUS
  <2>7. held \in Seq(Line!Jobs) /\ Len(held) = (IF owner.buf = nullptr THEN 0 ELSE 1) /\ Numbered(held, n)
    BY <2>5, <2>6, NoneOrOne
  <2>8. QED
    BY <2>4, <2>7
<1>8. \A i \in 1..l : /\ m - w - l + i = n + h + (q - l) + i
                      /\ (i # 1 \/ owner.pc # "advance") /\ owner.pc # "reset_rear" =>
                           Line!Slots[i] = <<session, n + h + (q - l) + i>>
  <2>1. \A i \in 1..l : m - w - l + i = n + h + (q - l) + i
    BY <1>3
  <2>2. ASSUME NEW i \in 1..l, i # 1 \/ owner.pc # "advance", owner.pc # "reset_rear"
        PROVE  Line!Slots[i] = <<session, n + h + (q - l) + i>>
    <3>1. arr[Line!Position(i)] = <<session, m - w - l + i>>
      BY <1>1, <1>2, <2>2 DEF Line!JobsInOrder
    <3>2. Line!Slots[i] = arr[Line!Position(i)]
      BY <1>2 DEF Line!Slots, Line!Position
    <3>3. QED
      BY <2>1, <3>1, <3>2
  <2>3. QED
    BY <2>1, <2>2
<1>9. left \in Seq(Line!Jobs) /\ Len(left) = q /\ Numbered(left, n + h)
  <2>1. CASE owner.pc = "reset_rear"
    <3>1. left = <<>> /\ q = 0
      BY <1>4, <2>1
    <3>2. <<>> \in Seq(Line!Jobs) /\ Len(<<>>) = 0 /\ \A i \in 1..0 : FALSE
      OBVIOUS
    <3>3. Numbered(<<>>, n + h)
      BY <3>2 DEF Numbered
    <3> HIDE DEF left
    <3>4. QED
      BY <3>1, <3>2, <3>3
  <2>2. CASE owner.pc # "reset_rear" /\ owner.pc # "advance"
    <3>1. q = l /\ left = Line!Slots
      BY <1>4, <2>2
    <3>2. \A i \in 1..l : i \in 1..l /\ n + h + (l - l) + i = (n + h) + i /\ (n + h) + i \in 1..MaxJobs
      BY <1>3, <3>1
    <3>3. \A i \in 1..l : Line!Slots[i] = <<session, (n + h) + i>>
      BY <1>8, <2>2, <3>1, <3>2
    <3>4. \A i \in 1..l : Line!Slots[i] \in Line!Jobs /\ Line!Slots[i][2] = (n + h) + i
      BY <1>3, <3>2, <3>3 DEF Line!Jobs
    <3>5. Line!Slots \in [1..l -> Line!Jobs]
      BY <1>2, <3>4 DEF Line!Slots
    <3>6. Line!Slots \in Seq(Line!Jobs) /\ Len(Line!Slots) = l
      BY <3>5, IsSeq
    <3>7. QED
      BY <3>1, <3>4, <3>6 DEF Numbered
  <2>3. CASE owner.pc = "advance"
    <3>1. q = l - 1 /\ l >= 1 /\ left = SubSeq(Line!Slots, 2, l)
      BY <1>2, <1>4, <2>3
    <3>2. \A i \in 1..q : i + 1 \in 1..l /\ i + 1 # 1 /\ n + h + (q - l) + (i + 1) = (n + h) + i /\ (n + h) + i \in 1..MaxJobs
      BY <1>3, <3>1
    <3>3. \A i \in 1..q : Line!Slots[i + 1] = <<session, (n + h) + i>>
      BY <1>8, <2>3, <3>2
    <3>4. \A i \in 1..q : Line!Slots[i + 1] \in Line!Jobs /\ Line!Slots[i + 1][2] = (n + h) + i
      BY <1>3, <3>2, <3>3 DEF Line!Jobs
    <3>5. left = [i \in 1..q |-> Line!Slots[i + 1]]
      <4> HIDE DEF left
      <4>1. \A s : SubSeq(s, 2, l) = [i \in 1 .. (1 + l - 2) |-> s[i + 2 - 1]]
        BY <3>1
      <4>2. 1 + l - 2 = q /\ \A i \in 1..q : i + 2 - 1 = i + 1
        BY <3>1
      <4>3. QED
        BY <3>1, <4>1, <4>2
    <3>6. left \in Seq(Line!Jobs) /\ Len(left) = q
      <4>1. [i \in 1..q |-> Line!Slots[i + 1]] \in [1..q -> Line!Jobs] /\ q \in Nat
        BY <1>4, <3>4
      <4> HIDE DEF left
      <4>2. PICK f \in [1..q -> Line!Jobs] : f = left
        BY <3>5, <4>1
      <4>3. f \in Seq(Line!Jobs) /\ Len(f) = q
        BY <4>1, IsSeq
      <4>4. QED
        BY <4>2, <4>3
    <3>7. \A i \in 1..q : left[i] = Line!Slots[i + 1]
      BY <3>5
    <3>8. QED
      BY <3>4, <3>6, <3>7 DEF Numbered
  <2>4. QED
    BY <2>1, <2>2, <2>3
<1>10. coming \in Seq(Line!Jobs) /\ Len(coming) = w /\ Numbered(coming, n + h + q)
  <2>1. w = IF worker.pc = "idle" THEN 0 ELSE 1
    BY <1>2 DEF Line!Working
  <2>2. worker.pc # "idle" => worker.job = <<session, m>>
    BY <1>1, <1>2 DEF Line!WorkerSupport
  <2>3. (w = 1 => m = n + h + q + 1 /\ m \in 1..MaxJobs) /\ n + h + q \in Nat
    BY <1>2, <1>3, <1>4
  <2>4. ~(worker.pc = "idle") => worker.job \in Line!Jobs /\ worker.job[2] = n + h + q + 1
    BY <1>3, <2>1, <2>2, <2>3 DEF Line!Jobs
  <2>5. (worker.pc = "idle") \in BOOLEAN
    OBVIOUS
  <2>6. coming \in Seq(Line!Jobs) /\ Len(coming) = (IF worker.pc = "idle" THEN 0 ELSE 1) /\ Numbered(coming, n + h + q)
    BY <2>3, <2>4, <2>5, NoneOrOne
  <2>7. QED
    BY <2>1, <2>6
<1> HIDE DEF held, left, coming
<1>11. all \in Seq(Line!Jobs) /\ Len(all) = m /\ Numbered(all, 0)
  <2> DEFINE a == finished \o held
             b == a \o left
  <2>1. a \in Seq(Line!Jobs) /\ Len(a) = n + h /\ Numbered(a, 0)
    BY <1>2, <1>5, <1>7, NumberedConcat
  <2> HIDE DEF a
  <2>2. b \in Seq(Line!Jobs) /\ Len(b) = n + h + q /\ Numbered(b, 0)
    BY <1>9, <2>1, NumberedConcat
  <2> HIDE DEF b
  <2>3. b \o coming \in Seq(Line!Jobs) /\ Len(b \o coming) = n + h + q + w /\ Numbered(b \o coming, 0)
    BY <1>10, <2>2, NumberedConcat
  <2>4. QED
    BY <1>3, <2>3 DEF a, b
<1> HIDE DEF all
<1>12. DOMAIN all = 1..m
  BY <1>11
<1>13. \A i \in 1..m : all[i] # nullptr /\ all[i][2] = i
  <2>1. \A i \in 1..m : all[i] \in Line!Jobs
    BY <1>11, <1>12
  <2>2. \A i \in 1..m : 0 + i = i
    OBVIOUS
  <2>3. QED
    BY <1>6, <1>11, <2>1, <2>2 DEF Numbered
<1>14. [i \in DOMAIN all |-> all[i][2]] = [i \in 1..made |-> i]
  BY <1>2, <1>12, <1>13
<1>15. Line!NoJobLost
  BY <1>12, <1>13, <1>14 DEF Line!NoJobLost, all, held, left, coming
<1>16. Line!OwnJobs
  BY DEF Line!JobInv, Line!OwnJobs
<1>17. QED
  BY <1>15, <1>16

\* The jobs of a session (Queue.h:110-154, EnqueueJob and DequeueJob of NetUser.h): every job
\* the workers hand to a user is processed or freed once and in the order it was received, or
\* still in the ring or in the hands of a thread, and a user never gets a job of the session
\* that had its slot before. Without the clear under a worker's hands (see FreshSpec), for
\* any size of the ring and any number of sessions and jobs.
THEOREM JobsAreKept ==
  ASSUME JobConstants
  PROVE  Line!FreshSpec => [](Line!NoJobLost /\ Line!OwnJobs)
<1>1. Line!Init => Line!JobInv
  BY JobInitHasInv
<1>2. Line!JobInv /\ [Line!Next /\ Line!NoClearUnderWorker]_Line!vars => Line!JobInv'
  <2> SUFFICES ASSUME Line!JobInv, [Line!Next /\ Line!NoClearUnderWorker]_Line!vars PROVE Line!JobInv'
    OBVIOUS
  <2>1. CASE UNCHANGED Line!vars
    BY <2>1, JobInvRests
  <2>2. CASE Line!Next /\ Line!NoClearUnderWorker
    <3>0. owner'.for = "move" => worker'.pc = "idle"
      BY <2>2 DEF Line!NoClearUnderWorker
    <3>1. CASE Line!WorkerStep
      <4>1. CASE Line!EnqueueJob
        BY <3>0, <4>1, WorkerBegins
      <4>2. CASE Line!isFull \/ Line!ReadRear
        BY <4>2, WorkerReads
      <4>3. CASE Line!WriteItem
        BY <4>3, WorkerWrites
      <4>4. CASE Line!Publish
        BY <4>4, WorkerPublishes
      <4>5. QED
        BY <3>1, <4>1, <4>2, <4>3, <4>4 DEF Line!WorkerStep
    <3>2. CASE Line!OwnerStep
      <4>1. CASE Line!isEmpty
        BY <4>1, OwnerLooks
      <4>2. CASE Line!Take
        BY <4>2, OwnerTakes
      <4>3. CASE Line!Advance
        BY <4>3, OwnerAdvances
      <4>4. CASE Line!Use
        BY <4>4, OwnerUses
      <4>5. CASE Line!ResetFront \/ Line!ResetRear
        BY <4>5, OwnerClears
      <4>6. QED
        BY <3>2, <4>1, <4>2, <4>3, <4>4, <4>5 DEF Line!OwnerStep
    <3>3. ASSUME NEW for \in {"frame", "move", "destroy"}, Line!Begin(for) PROVE Line!JobInv'
      BY <3>0, <3>3, OwnerBegins
    <3>4. QED
      BY <2>2, <3>1, <3>2, <3>3 DEF Line!Next
  <2>3. QED
    BY <2>1, <2>2
<1>3. Line!JobInv => Line!NoJobLost /\ Line!OwnJobs
  BY JobInvHolds
<1>4. QED
  BY <1>1, <1>2, <1>3, PTL DEF Line!FreshSpec
=============================================================================
