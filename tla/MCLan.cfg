\* One slot for two sessions, in both modes of sending; sends fit the mode.
SPECIFICATION LanSpec
CONSTANTS
  Slots = {1}
  Workers = {w1, w2}
  Packets = {k1, k2}
  p1 = p1
  p2 = p2
  Pipes = {p1, p2}
  NoPipe = none
  CodeOf <- codes
  Broadcasts <- sets
  MAX_SIZE = 2
  MisfitSends = {}
  MaxSessions = 2
  MaxJobs = 1
SYMMETRY Symmetry
INVARIANTS
  LanAccounts
  LanSessionsEnd
  LanNeverQuits
\* a server that stopped stays so, and one that waits for a spinning worker
CHECK_DEADLOCK FALSE
