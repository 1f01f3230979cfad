CONSTANTS
  Threads = {t1, t2}
  Keys = {1}
  Nodes = {n1, n2}
  Head = Head
  Tail = Tail
  Nil = Nil
  MinKey = 0
  MaxKey = 9
  MaxCrashes = 2
  QuiesceOnFree = FALSE
SPECIFICATION Spec
SYMMETRY Symmetry
CHECK_DEADLOCK FALSE
INVARIANTS
  RecoveryAssertionsHold
  TypeOK
  FlagsArePersisted
  FreedNodesStayDead
  PersistedKeysAreUnique
PROPERTIES
  DurablyLinearizable
