CONSTANTS
  Threads = {t1, t2}
  Keys = {1, 2}
  Nodes = {n1, n2, n3}
  Head = Head
  Tail = Tail
  Nil = Nil
  MinKey = 0
  MaxKey = 9
  MaxCrashes = 0
  QuiesceOnFree = TRUE
SPECIFICATION Spec
SYMMETRY Symmetry
CHECK_DEADLOCK FALSE
INVARIANTS
  HeldNodesAreNotReused
