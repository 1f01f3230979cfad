CONSTANTS
  Threads = {t1, t2}
  Keys = {1, 2}
  Nodes = {n1, n2}
  Head = Head
  Tail = Tail
  Nil = Nil
  MinKey = 0
  MaxKey = 9
  MaxCrashes = 0
  QuiesceOnFree = FALSE
SPECIFICATION Spec
SYMMETRY Symmetry
CHECK_DEADLOCK FALSE
INVARIANTS
  MarkedIsValid
  HeldNodesAreNotReused
  ListIsSorted
PROPERTIES
  DurablyLinearizable
  MarkedLinksAreFrozen
