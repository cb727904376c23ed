CONSTANTS
  Users = {u1, u2}
  Conns = {c1, c2, c3}
  NoUser = NoUser
  NoConn = NoConn
SPECIFICATION FairSpec
INVARIANTS
  TypeOK
  Reachable
  NoLeak
  PeerAlive
PROPERTIES
  NeverUnregistersOpen
  DisplacedIsClosed
  ClosedIsForgotten
CHECK_DEADLOCK FALSE
