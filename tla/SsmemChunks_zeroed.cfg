CONSTANTS
  Chunks = {c1, c2, c3}
  Nil = Nil
  mem_size = 8
  CACHE_LINE_SIZE = 2
SPECIFICATION Spec
CHECK_DEADLOCK FALSE
INVARIANTS
  RecoveredMemoryIsInitialized
