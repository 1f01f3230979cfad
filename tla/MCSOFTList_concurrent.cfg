CONSTANTS
  Threads = {t1, t2}
  Keys = {1, 2}
  Nodes = {n1, n2}
  PNodes = {p1, p2}
  Head = Head
  Tail = Tail
  Nil = Nil
  MinKey = 0
  MaxKey = 9
  MaxCrashes = 2
  QuiesceOnFree = TRUE
SPECIFICATION Spec
SYMMETRY Symmetry
CHECK_DEADLOCK FALSE
INVARIANTS
  HelpedPNodesAreNotReused
  RecoveryAssertionsHold
  ListIsSorted
PROPERTIES
  DurablyLinearizable
  StatesOnlyAdvance
