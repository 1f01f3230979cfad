CONSTANTS
  Threads = {t1, t2}
  Keys = {1, 2}
  Nodes = {n1, n2}
  Head = Head
  Tail = Tail
  Nil = Nil
  MinKey = 0
  MaxKey = 9
  MAX_LEVEL = 2
  Heights = {2}
SPECIFICATION Spec
SYMMETRY Symmetry
CHECK_DEADLOCK FALSE
INVARIANTS
  TowersStandOnTheList
  NVMIsAllowed
  PersistedKeysAreUnique
PROPERTIES
  Linearizable
  StatesOnlyAdvance
  LiveNodesStayLinked
