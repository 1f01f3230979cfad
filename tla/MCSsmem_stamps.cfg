CONSTANTS
  Threads = {0, 1}
  Objects = {o1, o2, o3, o4, o5}
  Blocks = {1, 2}
  fs_size <- SetSizes
  SSMEM_GC_RLSE_SET_SIZE = 2
  PerThread = 2
  MaxVersion = 5
  MaxVersionOfOthers = 2
SPECIFICATION BudgetSpec
SYMMETRY Symmetry
CHECK_DEADLOCK FALSE
INVARIANTS
  ObjectsHaveOnePlace
  StampsAreInBounds
  IdleThreadStopsReclamation
PROPERTIES
  ReclaimsWhenQuiescent
