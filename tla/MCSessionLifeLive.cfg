\* One caller: it may call for ever, yet cannot hold a session up for ever.
SPECIFICATION FairSpec
CONSTANTS
  Slots = {1}
  Workers = {w1, w2}
  Callers = {c1}
  Acceptor = acc
  MaxStamp = 2
PROPERTIES
  CanceledLeaves
  SlotsComeBack
