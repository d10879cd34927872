SPECIFICATION Spec
CONSTANTS
  LastSlot = 2
  Workers = {w1, w2}
  MaxSessions = 2
  MaxStarts = 1
  PipeIDs = {p1}
  maxPipeCount = 1
  maxPipeUser = 1
  AvoidAfter = 1
  DestroyAfter = 3
  Movers = {m1}
  NoPipe = none
  MaxUsers = 1
  LastIndex = 1
  timeoutInterval = 1
  MaxTime = 1
  MaxStamp = 1
  Counters = {c1}
  NoInfo = nothing
  MaxAmount = 2
  eSEGMENT_SIZE = 2
  eTCPIP_HEADER_SIZE = 1
INVARIANT StopNeverQuits
CHECK_DEADLOCK FALSE
