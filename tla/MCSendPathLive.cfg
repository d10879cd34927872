\* The reference count, and liveness, with and without DisconnectAfterLastMessage.
SPECIFICATION FairSpec
CONSTANTS
  Senders = {s1}
  Workers = {w1}
  Acceptor = acc
  Packets = {p1, p2}
  NoPacket = none
  MaxStamp = 1
  Ops = {"SendPacket", "AsyncSendPacket", "Disconnect", "SEND_DISCONNECT"}
  isSendIOPending = TRUE
  SendResults = {"pending", "error"}
  MAX_SIZE = 2
  DELETE_FLAG_BIT = 32768
INVARIANTS
  RefsAccounted
PROPERTIES
  SendsSettle
CHECK_DEADLOCK FALSE
