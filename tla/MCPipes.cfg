\* One call of MovePipe(ID) for a session; users move as often as they like.
SPECIFICATION FairSpec
CONSTANTS
  Sessions = {s1, s2}
  a = a
  b1 = b1
  b2 = b2
  Pipes <- TwoPipes
  CodeOf <- TwoCodeOf
  None = none
  Callers = {c1}
  MaxIDMoves = 1
  JOBQ_MAX_SIZE = 2
INVARIANTS
  UsersInPlace
  RefsExact
  NeverQuits
PROPERTIES
  MembershipSpec
  MovesServed
