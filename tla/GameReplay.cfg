CONSTANTS
  Items = {x, y}
  MaxLen = 2
SPECIFICATION Spec
INVARIANTS TypeOK Recorded NoGrowth
