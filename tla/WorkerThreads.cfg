CONSTANTS
  Threads = {t1, t2}
  Callers = {t1}
  Objects = {o1, o2}
  NULL = NULL
  Nodes = {n1, n2}
SYMMETRY Symmetry
SPECIFICATION Spec
INVARIANTS
  TypeOK
  HolderConsistent
  GuardIsAlive
  RemainingWasTrue
