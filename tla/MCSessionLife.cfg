\* Two workers on one slot, three generations of sessions in it.
SPECIFICATION Spec
CONSTANTS
  Slots = {1}
  Workers = {w1, w2}
  Callers = {c1, c2}
  Acceptor = acc
  MaxStamp = 3
SYMMETRY ThreadSymmetry
INVARIANTS
  TypeOK
  RefsExact
  AcquiredIsOwn
  OneReceiver
  NeverQuits
  SlotsPartition
  LeaveOnceAfterJoin
