CONSTANTS
  Hands = {h1, h2}
  Players = {p1, p2}
  Trees = {e1, e2, e3}
  None = None
SPECIFICATION Spec
INVARIANTS TypeOK OwnedOnce
