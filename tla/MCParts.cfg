\* The client has one sender: with the receiver, two that find a connection lost.
SPECIFICATION Spec
CONSTANTS
  nullptr = nullptr
  NIL = NIL
  head = head
  tail = tail
  Unset = Unset
  Senders = {t1}
  Receiver = receiver
  MaxHandles = 4
  MaxLosses = 2
INVARIANTS
  TreeSound
  QueuesShared
  FramesSound
  PacketsArrive
PROPERTIES
  ContainersKeepOrder
  ClientGoesOn
\* SwapQueue, JobRing and Framing stop when all is sent; the process may end in
\* JobRing, NetPacket and Client
CHECK_DEADLOCK FALSE
