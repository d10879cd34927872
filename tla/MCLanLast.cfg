\* As MCLan, but the WSASend of a last message may pend without isSendIOPending_.
SPECIFICATION LanSpec
CONSTANTS
  Slots = {1}
  Workers = {w1, w2}
  Packets = {k1, k2}
  p1 = p1
  p2 = p2
  Pipes = {p1, p2}
  NoPipe = none
  CodeOf <- codes
  Broadcasts <- sets
  MAX_SIZE = 2
  MisfitSends = {"last"}
  MaxSessions = 2
  MaxJobs = 1
SYMMETRY Symmetry
INVARIANT LanNeverQuits
CHECK_DEADLOCK FALSE
