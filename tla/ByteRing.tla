------------------------------ MODULE ByteRing ------------------------------
(***************************************************************************)
(* RingBuffer: bytes between two pointers into an array of bufferSize + 1. *)
(* Positions are offsets from beginPoint_, so that endPoint_ is            *)
(* bufferSize + 1.                                                         *)
(***************************************************************************)
EXTENDS Integers, Sequences

CONSTANTS Bytes, bufferSize

VARIABLES array, writePos, readPos
vars == <<array, writePos, readPos>>

endPoint == bufferSize + 1
TypeOK ==
  /\ array \in [0..bufferSize -> Bytes]
  /\ writePos \in 0..bufferSize /\ readPos \in 0..bufferSize

Diff == writePos - readPos
GetUseSize == IF Diff >= 0 THEN Diff ELSE bufferSize + Diff + 1
GetFreeSize == IF Diff >= 0 THEN bufferSize - Diff ELSE -Diff - 1

DirectEnqueueSize ==
  IF Diff < 0 THEN -Diff - 1
  ELSE endPoint - writePos - (IF Diff = 0 /\ writePos = 0 THEN 1 ELSE 0)
DirectDequeueSize == IF Diff >= 0 THEN Diff ELSE endPoint - readPos

\* memmove of the part up to the end, and of the rest to the beginning
Write(bytes) ==
  LET direct == DirectEnqueueSize IN
  array' = [a \in DOMAIN array |->
              IF a >= writePos /\ a < writePos + direct /\ a - writePos < Len(bytes)
              THEN bytes[a - writePos + 1]
              ELSE IF a < Len(bytes) - direct THEN bytes[direct + a + 1]
              ELSE array[a]]
Peek(size) ==
  LET direct == DirectDequeueSize IN
  [i \in 1..size |-> IF i <= direct THEN array[readPos + i - 1] ELSE array[i - 1 - direct]]

MutMoveWritePos(size) ==
  IF size < DirectEnqueueSize THEN writePos + size
  ELSE IF size > DirectEnqueueSize THEN size - DirectEnqueueSize
  ELSE writePos + size

MoveWritePos(size) ==
  IF size < DirectEnqueueSize THEN writePos + size
  ELSE IF size > DirectEnqueueSize THEN size - DirectEnqueueSize
  ELSE IF writePos + size = endPoint THEN 0
  ELSE IF writePos + size = readPos - 1 THEN writePos + size
  ELSE writePos
MoveReadPos(size) ==
  IF size < DirectDequeueSize THEN readPos + size
  ELSE IF size > DirectDequeueSize THEN size - DirectDequeueSize
  ELSE IF readPos + size = endPoint THEN 0
  ELSE IF readPos + size = writePos THEN readPos + size
  ELSE readPos

\* the one call that MoveWritePos has no case for: as much as there is room for, into
\* a ring that is empty and at its beginning; writePos_ stays where it is
LostEnqueue(size) == size = bufferSize /\ writePos = 0 /\ readPos = 0

Enqueue(bytes) ==
  /\ Len(bytes) <= GetFreeSize      \* else CrashDump::Crash()
  /\ ~LostEnqueue(Len(bytes))
  /\ Write(bytes)
  /\ writePos' = MoveWritePos(Len(bytes))
  /\ UNCHANGED readPos

Dequeue(size) ==
  /\ size <= GetUseSize             \* else CrashDump::Crash()
  /\ readPos' = MoveReadPos(size)
  /\ UNCHANGED <<array, writePos>>

ClearBuffer == readPos' = 0 /\ writePos' = 0 /\ UNCHANGED array

Init ==
  /\ array = [a \in 0..bufferSize |-> CHOOSE b \in Bytes : TRUE]
  /\ writePos = 0 /\ readPos = 0
Next ==
  \/ \E n \in 1..bufferSize : Dequeue(n) \/ \E bytes \in [1..n -> Bytes] : Enqueue(bytes)
  \/ ClearBuffer
Spec == Init /\ [][Next]_vars
-----------------------------------------------------------------------------
Content == Peek(GetUseSize)
\* What Enqueue is given comes out of Dequeue in its order,
\* wherever in the array it lies and also when the ring is full.
RingIsFifo ==
  \A n \in 1..bufferSize :
    /\ Dequeue(n) => Content = Peek(n) \o Content'
    /\ \A bytes \in [1..n -> Bytes] : Enqueue(bytes) => Content' = Content \o bytes
=============================================================================
