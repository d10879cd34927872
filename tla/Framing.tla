------------------------------- MODULE Framing -------------------------------
(***************************************************************************)
(* From the bytes that arrive to packets: the receive buffer of a session  *)
(* or a client, RegisterPackets, CopyRemainderToNewPacket, and the packet  *)
(* sets an application works on while the next bytes come in.              *)
(*                                                                         *)
(* A byte is known by its message, its place in it and what became of it:  *)
(* encoded as it was sent, plain, or garbage.                              *)
(***************************************************************************)
EXTENDS Integers, FiniteSets, Sequences

CONSTANTS
  Streams,       \* what the peer may send: sequences of [len, kind]
  HEADER, LAN_HEADER, CENTER, MSG_MAX, SET_MAX,
  Buffers, NoBuffer,
  FillsBuffer    \* may a client's recv fill the buffer to its end?

\* eBUFFER_SIZE is twice eBUFFER_CENTER, and eBUFFER_MASK the last byte
End == 2 * CENTER - 1
Positions == 0..End

VARIABLES
  who,                   \* "net session", "lan session" or "net client"
  stream, arrived,       \* what the peer sends, and how many bytes of it came
  recvPacket, buf, pool, \* the current buffer, all buffers, those that are free
  set, sets,             \* the set being filled, and those the application has
  step, delivered        \* where the receiver is; history: what the application read

frameVars == <<who, stream, arrived, recvPacket, buf, pool, set, sets, step, delivered>>

HeaderSize == IF who = "lan session" THEN LAN_HEADER ELSE HEADER
Size(m) == HeaderSize + stream[m].len

\* the bytes of the whole stream
RECURSIVE BytesFrom(_)
BytesFrom(m) ==
  IF m > Len(stream) THEN <<>>
  ELSE [j \in 1..Size(m) |-> [m |-> m, j |-> j, is |-> "encoded"]] \o BytesFrom(m + 1)

NoByte == [m |-> 0, j |-> 0, is |-> "garbage"]

\* The fields hold what the code can put there.
FrameTypeOK ==
  /\ who \in {"net session", "lan session", "net client"}
  /\ recvPacket \in Buffers \cup {NoBuffer} /\ pool \subseteq Buffers
  /\ \A b \in Buffers : {buf[b].read, buf[b].prev, buf[b].write} \subseteq 0 .. End + 1
  /\ step \in {"recv", "register", "error", "closed", "RECV_PACKET_FULL", "Already Max Size", "Not Enough Buffer Space"}
-----------------------------------------------------------------------------
(* The buffer                                                              *)

\* Alloc gives out any free buffer, for they are alike
NewBuffer == CHOOSE b \in pool : TRUE

\* and Initialize
Fresh(b) == [buf[b] EXCEPT !.read = CENTER, !.prev = CENTER, !.write = CENTER]

Used(b) == b.write - b.read
EmptySize(b) == End - b.write

\* what recv or WSARecv writes, or memmove copies
BytesIn(b, at, bytes) ==
  [p \in Positions |-> IF p \in at .. at + Len(bytes) - 1 THEN bytes[p - at + 1] ELSE b.data[p]]

\* a session leaves a byte, a client does not
Room(b) == EmptySize(b) - (IF who = "net client" /\ FillsBuffer THEN 0 ELSE 1)

\* Bytes arrive, MoveWritePos, PacketSet::Alloc, PreserveReadPos
Receive(n) ==
  /\ step = "recv"
  /\ arrived + n <= Len(BytesFrom(1))
  /\ LET b == buf[recvPacket]
         bytes == SubSeq(BytesFrom(1), arrived + 1, arrived + n)
     IN /\ n <= Room(b)
        /\ arrived' = arrived + n
        /\ IF b.write + n >= End
           THEN step' = "RECV_PACKET_FULL" /\ UNCHANGED <<buf, set>>
           ELSE /\ step' = "register"
                /\ buf' = [buf EXCEPT ![recvPacket] = [b EXCEPT !.data = BytesIn(b, b.write, bytes),
                                                               !.write = @ + n, !.prev = b.read]]
                /\ set' = [from |-> recvPacket, packets |-> <<>>]
  /\ UNCHANGED <<who, stream, recvPacket, pool, sets, delivered>>
-----------------------------------------------------------------------------
(* RegisterPackets: a turn of its loop for each packet                     *)

First(b) == b.data[b.read]
Message(b) == stream[First(b).m]

\* no header yet, or not all of its packet
MutIncomplete(b) == Used(b) < HeaderSize \/ (First(b).j = 1 /\ Used(b) < Message(b).len)
Incomplete(b) == Used(b) < HeaderSize \/ (First(b).j = 1 /\ Used(b) - HeaderSize < Message(b).len)

BadHeader(b) ==
  Used(b) >= HeaderSize /\ (First(b).j # 1 \/ Message(b).kind = "code" \/ Message(b).len > MSG_MAX)

LanBadHeader(b) == Used(b) >= HeaderSize /\ (First(b).j # 1 \/ Message(b).len > MSG_MAX)

Whole(b) == Used(b) >= HeaderSize /\ ~Incomplete(b)

\* in place, from the checksum on; what was decoded before becomes garbage
Decode(b) ==
  [p \in Positions |->
     IF p \in b.read + HeaderSize - 1 .. b.read + Size(First(b).m) - 1
     THEN [b.data[p] EXCEPT !.is = IF @ = "encoded" THEN "plain" ELSE "garbage"]
     ELSE b.data[p]]

Packet(b) == <<b.read + HeaderSize, b.read + Size(First(b).m) - 1>>
Past(b) == b.read + Size(First(b).m)

Fail == step' = "error" /\ set' = [set EXCEPT !.from = NoBuffer]

\* LanPacketSet::Enqueue and NetPacketSet::Enqueue
EnqueuePacket(b) ==
  IF Len(set.packets) >= SET_MAX
  THEN step' = "Already Max Size" /\ UNCHANGED set
  ELSE set' = [set EXCEPT !.packets = Append(@, Packet(b))] /\ UNCHANGED step

RegisterPacket ==
  /\ who # "lan session" /\ step = "register"
  /\ LET b == buf[recvPacket] IN
     \/ /\ BadHeader(b) /\ Fail /\ UNCHANGED buf
     \/ /\ ~BadHeader(b) /\ Whole(b)
        /\ buf' = [buf EXCEPT ![recvPacket] = [b EXCEPT !.data = Decode(b), !.read = Past(b)]]
        /\ IF Message(b).kind = "checksum" THEN Fail ELSE EnqueuePacket(b)
  /\ UNCHANGED <<who, stream, arrived, recvPacket, pool, sets, delivered>>

\* no packet code, no encoding
LanRegisterPacket ==
  /\ who = "lan session" /\ step = "register"
  /\ LET b == buf[recvPacket] IN
     \/ /\ LanBadHeader(b) /\ Fail /\ UNCHANGED buf
     \/ /\ ~LanBadHeader(b) /\ Whole(b)
        /\ buf' = [buf EXCEPT ![recvPacket] = [b EXCEPT !.read = Past(b)]]
        /\ EnqueuePacket(b)
  /\ UNCHANGED <<who, stream, arrived, recvPacket, pool, sets, delivered>>

\* the loop ends; without a packet the same buffer goes on
NothingWhole ==
  /\ step = "register" /\ set.packets = <<>>
  /\ LET b == buf[recvPacket] IN
     /\ ~BadHeader(b) /\ Incomplete(b)
     /\ buf' = [buf EXCEPT ![recvPacket].read = b.prev]
  /\ step' = "recv" /\ set' = [set EXCEPT !.from = NoBuffer]
  /\ UNCHANGED <<who, stream, arrived, recvPacket, pool, sets, delivered>>

MutCopyRemainder ==
  /\ step = "register" /\ set.packets # <<>> /\ pool # {}
  /\ LET b == buf[recvPacket] IN
     /\ ~BadHeader(b) /\ Incomplete(b)
     /\ buf' = [buf EXCEPT ![NewBuffer] = Fresh(NewBuffer)]
  /\ step' = "recv" /\ sets' = Append(sets, set)
  /\ recvPacket' = NewBuffer /\ pool' = pool \ {NewBuffer}
  /\ set' = [set EXCEPT !.from = NoBuffer]
  /\ UNCHANGED <<who, stream, arrived, delivered>>

\* CopyRemainderToNewPacket: what is left over goes before the start of a new
\* buffer; the set has the old one, and OnRecv the set
CopyRemainder ==
  /\ step = "register" /\ set.packets # <<>> /\ pool # {}
  /\ LET b == buf[recvPacket]
         n == NewBuffer
         f == Fresh(n)
         from == CENTER - Used(b)
     IN /\ ~BadHeader(b) /\ Incomplete(b)
        /\ IF Used(b) > CENTER
           THEN step' = "Not Enough Buffer Space" /\ UNCHANGED <<buf, sets, recvPacket, pool, set>>
           ELSE /\ buf' = [buf EXCEPT ![n] = [f EXCEPT
                             !.data = BytesIn(f, from, [k \in 1..Used(b) |-> b.data[b.read + k - 1]]),
                             !.read = from]]
                /\ step' = "recv" /\ sets' = Append(sets, set)
                /\ recvPacket' = n /\ pool' = pool \ {n}
                /\ set' = [set EXCEPT !.from = NoBuffer]
  /\ UNCHANGED <<who, stream, arrived, delivered>>
-----------------------------------------------------------------------------
(* The application, and the end of the session                             *)

\* what a NetDummyPacket reads, from its start to its end
Read(b, packet) == [k \in 1 .. packet[2] - packet[1] + 1 |-> b.data[packet[1] + k - 1]]

\* OnMessage for each packet of a set, and PacketSet::Free with its buffer
TakeSet ==
  /\ sets # <<>>
  /\ delivered' = delivered \o [k \in DOMAIN Head(sets).packets |-> Read(buf[Head(sets).from], Head(sets).packets[k])]
  /\ pool' = pool \cup {Head(sets).from}
  /\ sets' = Tail(sets)
  /\ UNCHANGED <<who, stream, arrived, recvPacket, buf, set, step>>

MutPacketError ==
  /\ step = "error" /\ step' = "closed"
  /\ UNCHANGED pool
  /\ recvPacket' = NoBuffer
  /\ UNCHANGED <<who, stream, arrived, buf, set, sets, delivered>>

\* The set is freed without the buffer, which Destroy frees; a client that stops
\* keeps it
PacketError ==
  /\ step = "error" /\ step' = "closed"
  /\ IF who = "net client" THEN UNCHANGED <<pool, recvPacket>>
     ELSE pool' = pool \cup {recvPacket} /\ recvPacket' = NoBuffer
  /\ UNCHANGED <<who, stream, arrived, buf, set, sets, delivered>>

FrameInit ==
  /\ who \in {"net session", "lan session", "net client"} /\ stream \in Streams /\ arrived = 0
  /\ buf = [b \in Buffers |-> [read |-> CENTER, prev |-> CENTER, write |-> CENTER, data |-> [p \in Positions |-> NoByte]]]
  /\ recvPacket = (CHOOSE b \in Buffers : TRUE) /\ pool = Buffers \ {recvPacket}
  /\ set = [from |-> NoBuffer, packets |-> <<>>] /\ sets = <<>>
  /\ step = "recv" /\ delivered = <<>>

FrameNext ==
  \/ \E n \in 1..End : Receive(n)
  \/ RegisterPacket \/ LanRegisterPacket \/ NothingWhole \/ CopyRemainder
  \/ TakeSet \/ PacketError

FrameSpec == FrameInit /\ [][FrameNext]_frameVars
-----------------------------------------------------------------------------
Body(m) ==
  [k \in 1..stream[m].len |-> [m |-> m, j |-> HeaderSize + k, is |-> IF who = "lan session" THEN "encoded" ELSE "plain"]]

(* However the bytes are cut by the network, the application reads whole   *)
(* messages, in order, each once and decoded once, while later bytes come  *)
(* into other buffers. (NetPacketSet.cpp 7-53, NetLargePacket.cpp 10-33)   *)
MessagesInOrder == delivered = [m \in 1..Len(delivered) |-> Body(m)]

(* When the receiver waits, every message that came whole is with the      *)
(* application: nothing stays behind in a buffer.                          *)
RECURSIVE Whole_(_, _)
Whole_(m, n) == IF m > Len(stream) \/ Size(m) > n THEN m - 1 ELSE Whole_(m + 1, n - Size(m))
RECURSIVE InSets(_)
InSets(q) == IF q = <<>> THEN 0 ELSE Len(Head(q).packets) + InSets(Tail(q))
NothingStaysBehind == step = "recv" => Len(delivered) + InSets(sets) = Whole_(1, arrived)

(* A buffer is free, the receiver's, or that of one set: none is written   *)
(* to while the application reads it, none is lost or freed twice.         *)
BuffersOnce ==
  \A b \in Buffers :
    Cardinality({k \in DOMAIN sets : sets[k].from = b})
      + (IF b = recvPacket THEN 1 ELSE 0) + (IF b \in pool THEN 1 ELSE 0) = 1

(* The buffer and the set are large enough for what the program receives.  *)
NeverOverrun == step \notin {"RECV_PACKET_FULL", "Already Max Size", "Not Enough Buffer Space"}
=============================================================================
