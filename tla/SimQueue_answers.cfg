SPECIFICATION Spec
CONSTANTS
  N = 2
  PoolSize = 4
  Requests <- Workload
  DEQ = DEQ
  EMPTY_QUEUE = EMPTY_QUEUE
  NULL = NULL
  MaxNodes = 4
CHECK_DEADLOCK FALSE
INVARIANT NoElementTwice
