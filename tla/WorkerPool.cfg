CONSTANTS
  INT_MAX = 15
  SIZE_MAX = 1023
  MaxSize = 7
  MaxAlloc = 120
SPECIFICATION PoolSpec
INVARIANTS PoolTypeOK IndexInPool Balanced
CHECK_DEADLOCK FALSE
