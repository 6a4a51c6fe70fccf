SPECIFICATION MCSpec
CONSTANTS
  Threads = {t1, t2, t3}
  Dummy = Dummy
  h1 = h1
  h2 = h2
  h3 = h3
  n1 = n1
  n2 = n2
  HThreads = {h1, h2, h3}
  NumaNodes = {n1, n2}
  NodeOf <- HPlacement
  NodeSize = 2
  nthreads = 3
  fibers_per_thread = 2
  NULL = NULL
  Args = {a}
  HelpFactor = 1
  InitialState = FALSE
  NewState <- FlipState
  Result <- CallerResult
INVARIANTS
  SingleCombiner
  ServedInQueueOrder
  CombinerStaysInQueue
  OneCombinerAtATime
  NodesAreNotShared
PROPERTIES
  ImplementsAtomicObject
  ImplementAtomicObject
SYMMETRY Symmetry
