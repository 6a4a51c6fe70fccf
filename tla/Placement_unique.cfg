SPECIFICATION Spec
CONSTANTS
  Machines <- TwoSizes
  MaxThreads = 12
  UserRegions = FALSE
  NULL = NULL
CHECK_DEADLOCK FALSE
INVARIANT CoreIdsAreUnique
