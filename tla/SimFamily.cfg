SPECIFICATION MCSpec
CONSTANTS
  N = 2
  PoolSize = 4
  SeqModulus = 16
  Requests <- SlowAndFast
  NULL = NULL
  InitialState = NULL
  NewState <- ExchangeState
  Result <- ExchangeResult
  MaxNodes = 6
  StackRequests <- StackWorkload
  POP = POP
  EMPTY_STACK = EMPTY_STACK
  QueueRequests <- QueueWorkload
  DEQ = DEQ
  EMPTY_QUEUE = EMPTY_QUEUE
  nthreads = 3
  Width = 2
CHECK_DEADLOCK FALSE
INVARIANTS
  AppliedWhenLeavingLoop
  CopyIsNotTorn
  StackNodesAreInOnePlace
  QueueHoldsEveryElement
  VectorsFlipAndCompare
PROPERTIES
  InstalledRecordIsStable
  ImplementBatchedObjects
