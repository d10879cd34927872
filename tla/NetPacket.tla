------------------------------ MODULE NetPacket ------------------------------
(***************************************************************************)
(* A packet from Alloc to the last Free: the application writes it, it is  *)
(* encoded once and in place, and given to one session or, spread over     *)
(* posts to the workers, to a set of them; the network reads it from one   *)
(* queue while others are still to get it, and the pool gives the same     *)
(* memory out again. LanPacket does without encoding: SetHeader writes the *)
(* length.                                                                 *)
(*                                                                         *)
(* Conditions on the application: one thread sends a packet, it writes to  *)
(* it only before, and does not read from it (operator>> moves readPos_).  *)
(* What becomes of the session is SendPath's: here it takes a packet or    *)
(* refuses it.                                                             *)
(***************************************************************************)
EXTENDS Integers, Sequences, SequencesExt, Bitwise

CONSTANTS
  Packets, NoPacket, Sessions,
  Items,            \* what operator<< may append: sequences of bytes
  RandKeys,         \* what rand() may give
  Capacity,         \* ePACKET_DEFAULT
  waitingThreadNum_,
  MaxQueued, MaxPosts  \* bounds: packets in a session's queue, posts under way

VARIABLES
  lan,              \* is it a LanPacket?
  free,             \* packetPool_
  mine,             \* the packet the application holds, or none of Packets
  data, writePos, encodeFlag, refCnt,
  meant,            \* history: what was written to a packet since Alloc
  posts,            \* the completion port: [packet, ids still to get it]
  sendQ,            \* per session, its packets
  overrun           \* did Error end the process?

packetVars == <<lan, free, mine, data, writePos, encodeFlag, refCnt, meant, posts, sendQ, overrun>>

eNET_PACKET_CODE == 119
eNET_CERTAIN_KEY == 50
eNET_CHECKSUM_CODE == 256

\* eNET_HEADER_SIZE, eLAN_HEADER_SIZE; positions count from 1, header_
HeaderSize == IF lan THEN 2 ELSE 5
start_ == HeaderSize + 1
end_ == Capacity

Body(p) == SubSeq(data[p], start_, writePos[p] - 1)

\* memmove
Put(bytes, at, to) == [k \in DOMAIN bytes |-> IF k \in at .. at + Len(to) - 1 THEN to[k - at + 1] ELSE bytes[k]]
-----------------------------------------------------------------------------
(* Encoding: in step i a byte is mixed with the last mixed one, the key    *)
(* and i, then with the last encoded one, a constant and i                 *)

Low(n) == n % 256

RECURSIVE SumOf(_)
SumOf(bytes) == IF bytes = <<>> THEN 0 ELSE Head(bytes) + SumOf(Tail(bytes))

Encoded(bytes, key) ==
  LET temp[i \in 0..Len(bytes)] == IF i = 0 THEN 0 ELSE bytes[i] ^^ Low(temp[i - 1] + key + i)
      payload[i \in 0..Len(bytes)] ==
        IF i = 0 THEN 0 ELSE temp[i] ^^ Low(payload[i - 1] + eNET_CERTAIN_KEY + i)
  IN [i \in DOMAIN bytes |-> payload[i]]

NetHeader(body, key) == <<eNET_PACKET_CODE, Len(body) % 256, Len(body) \div 256, key>>

\* the checksum is encoded with the body
Encode(p, key) ==
  IF encodeFlag[p] THEN data[p]
  ELSE Put(data[p], 1, NetHeader(Body(p), key)
                         \o Encoded(<<SumOf(Body(p)) % eNET_CHECKSUM_CODE>> \o Body(p), key))

SetHeader(p) == Put(data[p], 1, <<Len(Body(p)) % 256, Len(Body(p)) \div 256>>)

NoPayload == <<-1>>

\* what a receiver makes of it, or that it is not one packet with the right checksum
Decode(wire) ==
  LET len == wire[2] + 256 * wire[3] + 1
      in == SubSeq(wire, 5, 4 + len)
      temp == [i \in 1..len |-> in[i] ^^ Low((IF i = 1 THEN 0 ELSE in[i - 1]) + eNET_CERTAIN_KEY + i)]
      out == [i \in 1..len |-> temp[i] ^^ Low((IF i = 1 THEN 0 ELSE temp[i - 1]) + wire[4] + i)]
  IN IF wire[1] = eNET_PACKET_CODE /\ 4 + len = Len(wire) /\ Low(SumOf(Tail(out))) = out[1]
     THEN Tail(out) ELSE NoPayload

LanDecode(wire) == SubSeq(wire, 3, 2 + wire[1] + 256 * wire[2])

\* GetPacketStart and GetPacketUsedSize are what is sent
Wire(p) == SubSeq(data[p], 1, writePos[p] - 1)
-----------------------------------------------------------------------------
MutInitialize(p) ==
  /\ writePos' = [writePos EXCEPT ![p] = start_]
  /\ refCnt' = [refCnt EXCEPT ![p] = 1]
  /\ UNCHANGED encodeFlag

\* What was written before is still in data_
Initialize(p) ==
  /\ writePos' = [writePos EXCEPT ![p] = start_]
  /\ refCnt' = [refCnt EXCEPT ![p] = 1]
  /\ encodeFlag' = [encodeFlag EXCEPT ![p] = FALSE]

Alloc(p) ==
  /\ mine = NoPacket /\ p \in free
  /\ mine' = p /\ free' = free \ {p} /\ meant' = [meant EXCEPT ![p] = <<>>]
  /\ Initialize(p)
  /\ UNCHANGED <<lan, data, posts, sendQ, overrun>>

isFullWithWritePos(p, size) == writePos[p] + size >= end_

\* EnqData and operator<<, before the packet is sent
EnqData(p, item) ==
  /\ p = mine /\ refCnt[p] = 1 /\ ~encodeFlag[p]
  /\ IF isFullWithWritePos(p, Len(item))
     THEN overrun' = TRUE /\ UNCHANGED <<data, writePos, meant>>
     ELSE /\ data' = [data EXCEPT ![p] = Put(@, writePos[p], item)]
          /\ writePos' = [writePos EXCEPT ![p] = @ + Len(item)]
          /\ meant' = [meant EXCEPT ![p] = @ \o item]
          /\ UNCHANGED overrun
  /\ UNCHANGED <<lan, free, mine, encodeFlag, refCnt, posts, sendQ>>

Write(p, item) == ~lan /\ EnqData(p, item)
LanWrite(p, item) == lan /\ EnqData(p, item)

\* Of a NetPacket Encode, of a LanPacket SetHeader: LanClient calls it, for a
\* LanServer the application has to
Prepare(p, key) ==
  /\ data' = [data EXCEPT ![p] = IF lan THEN SetHeader(p) ELSE Encode(p, key)]
  /\ encodeFlag' = [encodeFlag EXCEPT ![p] = ~lan]

AddRef(p, n) == refCnt' = [refCnt EXCEPT ![p] = @ + n]

\* the packet goes back with its last reference
Free(p, n) ==
  /\ refCnt' = [refCnt EXCEPT ![p] = @ - n]
  /\ free' = IF refCnt[p] = n THEN free \cup {p} ELSE free

\* SendPacket; a packet that is refused loses the reference again
SendPacket(p, s, key) ==
  /\ p = mine /\ Prepare(p, key)
  /\ \/ /\ Len(sendQ[s]) < MaxQueued
        /\ sendQ' = [sendQ EXCEPT ![s] = Append(@, p)] /\ AddRef(p, 1)
     \/ UNCHANGED <<refCnt, sendQ>>
  /\ UNCHANGED <<lan, free, mine, writePos, meant, posts, overrun>>

\* the set of a call in parts: as many for each thread, and what is left over
RECURSIVE Parts_(_, _)
Parts_(ids, distributeNum) ==
  IF Len(ids) < distributeNum THEN IF ids = <<>> THEN <<>> ELSE <<ids>>
  ELSE <<SubSeq(ids, 1, distributeNum)>> \o Parts_(SubSeq(ids, distributeNum + 1, Len(ids)), distributeNum)

Distributed(ids, threads) ==
  LET distributeNum == Len(ids) \div threads
  IN Parts_(ids, IF distributeNum = 0 THEN 1 ELSE distributeNum)

MutSendToSet(p, ids, key) ==
  /\ p = mine /\ Prepare(p, key) /\ AddRef(p, Len(Distributed(ids, waitingThreadNum_)))
  /\ LET parts == Distributed(ids, waitingThreadNum_) IN
     /\ Len(posts) + Len(parts) <= MaxPosts
     /\ posts' = posts \o [k \in DOMAIN parts |-> [packet |-> p, ids |-> parts[k]]]
  /\ UNCHANGED <<lan, free, mine, writePos, meant, sendQ, overrun>>

\* DisconnectAfterLastMessage and AsyncSendPacket of a set: all references first
SendToSet(p, ids, key) ==
  /\ p = mine /\ Prepare(p, key) /\ AddRef(p, Len(ids))
  /\ LET parts == Distributed(ids, waitingThreadNum_) IN
     /\ Len(posts) + Len(parts) <= MaxPosts
     /\ posts' = posts \o [k \in DOMAIN parts |-> [packet |-> p, ids |-> parts[k]]]
  /\ UNCHANGED <<lan, free, mine, writePos, meant, sendQ, overrun>>

\* A worker takes the next ID of a post: its session queues the packet or refuses it
PostOtherProcedures(k) ==
  LET p == posts[k].packet
      rest == Tail(posts[k].ids)
      s == Head(posts[k].ids)
  IN /\ posts' = IF rest = <<>> THEN RemoveAt(posts, k) ELSE [posts EXCEPT ![k].ids = rest]
     /\ \/ /\ Len(sendQ[s]) < MaxQueued
           /\ sendQ' = [sendQ EXCEPT ![s] = Append(@, p)]
           /\ UNCHANGED <<free, refCnt>>
        \/ Free(p, 1) /\ UNCHANGED sendQ
     /\ UNCHANGED <<lan, mine, data, writePos, encodeFlag, meant, overrun>>

\* A send of the session completes, or its queue is cleared
Sent(s) ==
  /\ sendQ[s] # <<>> /\ Free(Head(sendQ[s]), 1)
  /\ sendQ' = [sendQ EXCEPT ![s] = Tail(@)]
  /\ UNCHANGED <<lan, mine, data, writePos, encodeFlag, meant, posts, overrun>>

\* The application gives back its own reference
Done(p) ==
  /\ p = mine /\ mine' = NoPacket /\ Free(p, 1)
  /\ UNCHANGED <<lan, data, writePos, encodeFlag, meant, posts, sendQ, overrun>>

PacketInit ==
  /\ lan \in BOOLEAN /\ free = Packets /\ mine = NoPacket
  /\ data = [p \in Packets |-> [k \in 1..Capacity |-> 0]]
  /\ writePos = [p \in Packets |-> start_]
  /\ encodeFlag = [p \in Packets |-> FALSE] /\ refCnt = [p \in Packets |-> 0]
  /\ meant = [p \in Packets |-> <<>>]
  /\ posts = <<>> /\ sendQ = [s \in Sessions |-> <<>>] /\ overrun = FALSE

PacketNext ==
  /\ ~overrun
  /\ \/ \E p \in Packets :
          \/ Alloc(p) \/ Done(p)
          \/ \E item \in Items : Write(p, item) \/ LanWrite(p, item)
          \/ \E key \in RandKeys :
               \/ \E s \in Sessions : SendPacket(p, s, key)
               \/ SendToSet(p, SetToSeq(Sessions), key)
     \/ \E k \in DOMAIN posts : PostOtherProcedures(k)
     \/ \E s \in Sessions : Sent(s)
-----------------------------------------------------------------------------
Count(seq, p) == Cardinality({k \in DOMAIN seq : seq[k] = p})
RECURSIVE Total(_, _)
Total(f, S) == IF S = {} THEN 0 ELSE LET x == CHOOSE x \in S : TRUE IN f[x] + Total(f, S \ {x})

\* What the network reads from a queued packet is, decoded, what was last written
\* to it, whoever got it before and however often (NetPacket.cpp 10-50).
SaysWhatWasMeant ==
  \A s \in Sessions : \A k \in DOMAIN sendQ[s] :
    LET p == sendQ[s][k] IN (IF lan THEN LanDecode(Wire(p)) ELSE Decode(Wire(p))) = meant[p]

\* refCnt_ counts the application, the IDs that are still to get the packet and the
\* queues; the pool has it when that is zero (NetPacket.h 101-109, 186-194).
RefsCounted ==
  \A p \in Packets :
    /\ refCnt[p] = (IF p = mine THEN 1 ELSE 0) + Total([s \in Sessions |-> Count(sendQ[s], p)], Sessions)
                     + Total([k \in DOMAIN posts |-> IF posts[k].packet = p THEN Len(posts[k].ids) ELSE 0], DOMAIN posts)
    /\ p \in free <=> refCnt[p] = 0

\* Every ID of a set is in one part (NetServer.cpp 488-508).
PartsHaveAll ==
  \A n \in 0..12, threads \in 1..5 :
    FlattenSeq(Distributed([k \in 1..n |-> k], threads)) = [k \in 1..n |-> k]

PacketTypeOK ==
  /\ free \subseteq Packets /\ mine \in Packets \cup {NoPacket}
  /\ \A p \in Packets :
       Len(data[p]) = Capacity /\ (\A k \in 1..Capacity : data[p][k] \in 0..255) /\ writePos[p] \in start_ .. Capacity
=============================================================================
