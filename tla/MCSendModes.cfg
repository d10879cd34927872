SPECIFICATION ModesSpec
CONSTANTS
  Senders = {s1, s2}
  Workers = {w1, w2}
  Acceptor = acc
  Packets = {p1, p2}
  NoPacket = none
  MaxStamp = 1
  Ops = {"SendPacket", "AsyncSendPacket", "Disconnect"}
  isSendIOPending = TRUE
  SendResults = {"pending", "error"}
  MAX_SIZE = 2
  DELETE_FLAG_BIT = 32768
SYMMETRY Symmetry
INVARIANTS
  OneSender
  NeverQuits
  PacketsAccounted
  NothingLeftOver
\* all packets may be sent and the session gone
CHECK_DEADLOCK FALSE
