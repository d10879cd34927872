SPECIFICATION Spec
CONSTANTS
  LastSlot = 2
  Workers = {w1, w2}
  MaxSessions = 2
  MaxStarts = 1
  PipeIDs = {p1, p2, p3}
  maxPipeCount = 2
  maxPipeUser = 1
  AvoidAfter = 1
  DestroyAfter = 3
  Movers = {m1, m2}
  NoPipe = none
  MaxUsers = 2
  LastIndex = 2
  timeoutInterval = 2
  MaxTime = 5
  MaxStamp = 3
  Counters = {c1, c2}
  NoInfo = nothing
  MaxAmount = 2
  eSEGMENT_SIZE = 2
  eTCPIP_HEADER_SIZE = 1
INVARIANTS
  StopInOrder
  PipesKept
  MonitorCounts
PROPERTIES
  StopEnds
  TimeoutsHit
  LogsWritten
\* a server that stopped stays so
CHECK_DEADLOCK FALSE
