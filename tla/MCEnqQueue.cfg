\* Two producers and as few nodes as they can hold at once with the dummy: nodes are
\* in use again while their address is held. No symmetry: DequeueEnds is liveness.
SPECIFICATION FairFreshSpec
CONSTANTS
  Producers = {p1, p2}
  Nodes = {n1, n2, n3}
  MaxEnq = 3
  QUEUE_MAX_SIZE = 3
  StampSize = 65536
INVARIANTS
  ListSound
PROPERTIES
  FifoSpec
  DequeueEnds
CHECK_DEADLOCK FALSE
