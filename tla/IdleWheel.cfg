CONSTANTS
  Conns = {c1, c2}
  Size = 4
SPECIFICATION FairSpec
INVARIANTS
  TypeOK
  OnTheClock
  ReapedWereIdle
  NoneOutlivesTimeout
  ReapedStayOut
PROPERTIES
  ImplementsTimeout
  SilentIsClosed
