SPECIFICATION MCSpec
CONSTANTS
  Threads = {t1, t2, t3}
  nthreads = 4
  uthreads = 1
  Rounds = 2
  MAX_FIBERS = 4
  Entries = 2
  MaxBlocks = 3
  NULL = NULL
  MaxThreads = 12
  Machines <- MCMachines
CHECK_DEADLOCK FALSE
INVARIANTS
  NobodyPassesAlone
  JoinWaitsForThreads
  MemoryInUseIsKept
  PlacementIsConsistent
PROPERTIES
  WaitingEnds
