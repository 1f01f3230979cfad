CONSTANTS
  Threads = {t1, t2}
  Keys = {1}
  Nodes = {n1, n2}
  Head = Head
  Tail = Tail
  Nil = Nil
  MinKey = 0
  MaxKey = 9
  MAX_LEVEL = 2
  Heights = {1, 2}
  Reuses = FALSE
SPECIFICATION Spec
SYMMETRY Symmetry
CHECK_DEADLOCK FALSE
INVARIANTS
  DeletionsArePersisted
