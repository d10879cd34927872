------------------------------- MODULE Client -------------------------------
(***************************************************************************)
(* NetClient and LanClient: a receive thread and the threads of the        *)
(* application that send, all on one socket. Whoever finds the connection  *)
(* lost makes a new one and exchanges sock_ for it.                        *)
(*                                                                         *)
(* Socket handles are numbers, and a closed one may be given out again.    *)
(* What arrives in the buffer, and how it is cut, is the subject of        *)
(* Framing.                                                                *)
(***************************************************************************)
EXTENDS Integers, FiniteSets

CONSTANTS
  Senders, Receiver,
  MaxHandles,    \* bound of the model: socket handles
  MaxLosses      \* bound of the model: connections that break or are closed by the server

ASSUME ClientAssumption == Receiver \notin Senders /\ MaxHandles \in Nat /\ MaxLosses \in Nat

Threads == Senders \cup {Receiver}
Handles == 1..MaxHandles

VARIABLES
  sock, isRunning, winsock,   \* sock_; WSAStartup and WSACleanup
  state,                      \* of a handle
  pc, old, new,               \* of a thread: where it is, and the sockets it knows
  losses

clientVars == <<sock, isRunning, winsock, state, pc, old, new, losses>>

Pcs == {"idle", "start", "starting", "running?", "read", "io", "socket", "test", "connect",
        "exchange", "notify", "closesocket", "stop", "cleanup", "stopped", "quit"}

\* The fields hold what the code can put there.
ClientTypeOK ==
  /\ sock \in Handles \cup {0} /\ isRunning \in BOOLEAN /\ winsock \in BOOLEAN
  /\ state \in [Handles -> {"none", "fresh", "connected", "fin", "lost", "closed"}]
  /\ pc \in [Threads -> Pcs]
  /\ old \in [Threads -> Handles \cup {0}] /\ new \in [Threads -> Handles \cup {0}]
  /\ losses \in 0..MaxLosses
-----------------------------------------------------------------------------
Goto(t, l) == pc' = [pc EXCEPT ![t] = l]

\* socket() gives out a handle nobody holds; there is one, by the bound MaxHandles
Unused == {h \in Handles : state[h] \in {"none", "closed"}}

\* the first socket, and connect until it succeeds
Start ==
  /\ pc[Receiver] = "start" /\ Goto(Receiver, "starting")
  /\ winsock' = TRUE
  /\ \E h \in Unused : new' = [new EXCEPT ![Receiver] = h] /\ state' = [state EXCEPT ![h] = "fresh"]
  /\ UNCHANGED <<sock, isRunning, old, losses>>

\* connect succeeded; sock_, the receive thread, OnConnect
Started ==
  /\ pc[Receiver] = "starting" /\ Goto(Receiver, "running?")
  /\ state' = [state EXCEPT ![new[Receiver]] = "connected"]
  /\ sock' = new[Receiver] /\ isRunning' = TRUE
  /\ UNCHANGED <<winsock, old, new, losses>>

\* Network goes round while isRunning_
TestRunning ==
  /\ pc[Receiver] = "running?"
  /\ Goto(Receiver, IF isRunning THEN "read" ELSE "closesocket")
  /\ UNCHANGED <<sock, isRunning, winsock, state, old, new, losses>>

SendPacket(t) ==
  /\ t \in Senders /\ pc[t] = "idle" /\ sock # 0 /\ Goto(t, "read")
  /\ UNCHANGED <<sock, isRunning, winsock, state, old, new, losses>>

MutReadSock(t) ==
  /\ pc[t] = "read" /\ Goto(t, "io")
  /\ old' = [old EXCEPT ![t] = IF @ = 0 THEN sock ELSE @]
  /\ UNCHANGED <<sock, isRunning, winsock, state, new, losses>>

\* every turn of the loop reads sock_ again
ReadSock(t) ==
  /\ pc[t] = "read" /\ Goto(t, "io")
  /\ old' = [old EXCEPT ![t] = sock]
  /\ UNCHANGED <<sock, isRunning, winsock, state, new, losses>>

\* send: taken, or SOCKET_ERROR
Send(t) ==
  /\ t \in Senders /\ pc[t] = "io"
  /\ IF state[old[t]] \in {"connected", "fin"}
     THEN Goto(t, "idle") /\ old' = [old EXCEPT ![t] = 0]
     ELSE Goto(t, "socket") /\ UNCHANGED old
  /\ UNCHANGED <<sock, isRunning, winsock, state, new, losses>>

\* recv: data, of which OnRecv or RegisterPackets may want no more; zero; SOCKET_ERROR
Recv ==
  /\ pc[Receiver] = "io"
  /\ \/ state[old[Receiver]] = "connected" /\ \E l \in {"running?", "closesocket"} : Goto(Receiver, l)
     \/ state[old[Receiver]] = "fin" /\ Goto(Receiver, "closesocket")
     \/ state[old[Receiver]] \in {"lost", "closed"} /\ Goto(Receiver, "socket")
  /\ UNCHANGED <<sock, isRunning, winsock, state, old, new, losses>>
-----------------------------------------------------------------------------
(* Reconnect(oldSock)                                                      *)

\* after WSACleanup socket() fails, and the process is ended
NewSocket(t) ==
  /\ pc[t] = "socket"
  /\ IF winsock
     THEN /\ Goto(t, "test")
          /\ \E h \in Unused : new' = [new EXCEPT ![t] = h] /\ state' = [state EXCEPT ![h] = "fresh"]
     ELSE Goto(t, "quit") /\ UNCHANGED <<new, state>>
  /\ UNCHANGED <<sock, isRunning, winsock, old, losses>>

TestSock(t) ==
  /\ pc[t] = "test"
  /\ Goto(t, IF sock = old[t] THEN "connect" ELSE "exchange")
  /\ UNCHANGED <<sock, isRunning, winsock, state, old, new, losses>>

Connect(t) ==
  /\ pc[t] = "connect"
  /\ \/ Goto(t, "exchange") /\ state' = [state EXCEPT ![new[t]] = "connected"]
     \/ Goto(t, "test") /\ UNCHANGED state
  /\ UNCHANGED <<sock, isRunning, winsock, old, new, losses>>

MutExchange(t) ==
  /\ pc[t] = "exchange"
  /\ IF sock = old[t]
     THEN sock' = new[t] /\ Goto(t, "notify") /\ state' = [state EXCEPT ![old[t]] = "closed"]
     ELSE UNCHANGED sock /\ Goto(t, "read") /\ state' = [state EXCEPT ![new[t]] = "closed"]
  /\ UNCHANGED <<isRunning, winsock, old, new, losses>>

\* the first to exchange has replaced the socket, and the others close theirs.
\* The old socket is never closed: its handle cannot come back as another's
Exchange(t) ==
  /\ pc[t] = "exchange"
  /\ IF sock = old[t]
     THEN sock' = new[t] /\ Goto(t, "notify") /\ UNCHANGED state
     ELSE UNCHANGED sock /\ Goto(t, "read") /\ state' = [state EXCEPT ![new[t]] = "closed"]
  /\ UNCHANGED <<isRunning, winsock, old, new, losses>>

OnConnect(t) ==
  /\ pc[t] = "notify" /\ Goto(t, "read")
  /\ UNCHANGED <<sock, isRunning, winsock, state, old, new, losses>>
-----------------------------------------------------------------------------
(* Stop, by the receive thread, and the network                            *)

CloseSocket ==
  /\ pc[Receiver] = "closesocket" /\ Goto(Receiver, "stop")
  /\ state' = [state EXCEPT ![sock] = "closed"]
  /\ UNCHANGED <<sock, isRunning, winsock, old, new, losses>>

StopRunning ==
  /\ pc[Receiver] = "stop" /\ Goto(Receiver, "cleanup")
  /\ isRunning' = FALSE
  /\ UNCHANGED <<sock, winsock, state, old, new, losses>>

Cleanup ==
  /\ pc[Receiver] = "cleanup" /\ Goto(Receiver, "stopped")
  /\ winsock' = FALSE
  /\ UNCHANGED <<sock, isRunning, state, old, new, losses>>

\* the connection breaks, or the server closes it in order
Lose(h) ==
  /\ losses < MaxLosses /\ state[h] \in {"connected", "fin"}
  /\ \E e \in {"lost"} \cup (IF state[h] = "connected" THEN {"fin"} ELSE {}) : state' = [state EXCEPT ![h] = e]
  /\ losses' = losses + 1
  /\ UNCHANGED <<sock, isRunning, winsock, pc, old, new>>

ClientInit ==
  /\ sock = 0 /\ isRunning = FALSE /\ winsock = FALSE
  /\ state = [h \in Handles |-> "none"]
  /\ pc = [t \in Threads |-> IF t = Receiver THEN "start" ELSE "idle"]
  /\ old = [t \in Threads |-> 0] /\ new = [t \in Threads |-> 0]
  /\ losses = 0

Reconnect(t) == ReadSock(t) \/ NewSocket(t) \/ TestSock(t) \/ Connect(t) \/ Exchange(t) \/ OnConnect(t)
Network == Start \/ Started \/ TestRunning \/ Recv \/ CloseSocket \/ StopRunning \/ Cleanup

\* nobody has called ErrorQuit
Running == \A t \in Threads : pc[t] # "quit"

ClientNext ==
  /\ Running
  /\ \/ Network \/ \E t \in Threads : Reconnect(t) \/ SendPacket(t) \/ Send(t)
     \/ \E h \in Handles : Lose(h)

Connects(t) == pc[t] = "connect" /\ pc'[t] = "exchange"

\* every thread is scheduled, and a server that is tried again and again is up
\* sometimes
ClientFairness ==
  \A t \in Threads : /\ WF_clientVars(Running /\ (Reconnect(t) \/ Send(t)))
                     /\ SF_clientVars(Running /\ Connect(t) /\ Connects(t))

ClientSpec == ClientInit /\ [][ClientNext]_clientVars /\ ClientFairness
-----------------------------------------------------------------------------
Stopping == pc[Receiver] \in {"stop", "cleanup", "stopped"}

(* Several threads find the same connection lost, and each of them makes a *)
(* new one: until Stop, sock_ is replaced only when its own connection is  *)
(* lost, and by one that was established. (NetClient.cpp 225-247)          *)
ReplacedWhenLost ==
  [][sock # 0 /\ sock' # sock /\ ~Stopping => state[sock] = "lost" /\ state[sock'] \notin {"fresh", "closed", "none"}]_clientVars

(* No connection is left behind that still stands: it is the client's, or  *)
(* a thread has it in hand. (NetClient.cpp 225-247)                        *)
NoStraySocket ==
  \A h \in Handles : state[h] \in {"fresh", "connected", "fin"} /\ h # sock /\ ~Stopping =>
    (\E t \in Threads : new[t] = h /\ pc[t] \in {"starting", "test", "connect", "exchange"})

(* Of all the connections that threads make, one becomes the client's, and *)
(* nothing else takes its place while it stands. (NetClient.cpp 157-247)   *)
SocketsKept == [](ClientTypeOK /\ NoStraySocket) /\ ReplacedWhenLost

(* A SendPacket returns, however often the connection is lost meanwhile,   *)
(* or the client is stopped. (NetClient.cpp 78-113)                        *)
SendEnds == \A t \in Senders : pc[t] = "read" ~> (pc[t] = "idle" \/ Stopping \/ \E u \in Threads : pc[u] = "quit")
-----------------------------------------------------------------------------
(* Why they hold: until Stop, a handle that was the client's once is never *)
(* closed, and the sockets that are being connected are those of one       *)
(* thread each.                                                            *)
Establishes(t) == pc[t] \in {"starting", "test", "connect", "exchange"}
HasRead(t) == pc[t] \in {"io", "socket", "test", "connect", "exchange"}

StartsFirst ==
  /\ sock = 0 <=> pc[Receiver] \in {"start", "starting"}
  /\ \A t \in Senders : pc[t] \in {"idle", "read", "io", "socket", "test", "connect", "exchange", "notify", "quit"}
  /\ sock = 0 => \A t \in Senders : pc[t] = "idle"
  /\ \A t \in Threads : Establishes(t) => new[t] # 0

\* sock_, and what threads still take for it
KnownStay ==
  /\ sock # 0 => state[sock] \in {"connected", "fin", "lost"}
  /\ \A t \in Threads : HasRead(t) =>
       /\ old[t] \in Handles /\ state[old[t]] \in {"connected", "fin", "lost"}
       /\ pc[t] # "io" => state[old[t]] = "lost"

NewApart ==
  \A t \in Threads : Establishes(t) =>
    /\ new[t] \in Handles \ {sock}
    /\ \A u \in Threads : (HasRead(u) => old[u] # new[t]) /\ (Establishes(u) /\ u # t => new[u] # new[t])
    /\ pc[t] # "exchange" => state[new[t]] = "fresh"
    /\ pc[t] = "exchange" =>
         \/ state[new[t]] \in {"connected", "fin", "lost"}
         \/ state[new[t]] = "fresh" /\ sock # old[t]

ClientInv == ClientTypeOK /\ StartsFirst /\ NoStraySocket /\ (~Stopping => KnownStay /\ NewApart)
=============================================================================
