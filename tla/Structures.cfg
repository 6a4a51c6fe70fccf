SPECIFICATION MCSpec
CONSTANTS
  Threads = {t1, t2, t3}
  Args = {0, 1, 2}
  InitialState = 0
  NewState <- AddState
  Result <- OldState
  NULL = NULL
  Values = {v, Guard}
  Guard = Guard
  Failure = Failure
  POP_OP = POP_OP
  EMPTY_STACK = EMPTY_STACK
  EMPTY_QUEUE = EMPTY_QUEUE
  DEQ = DEQ
  Keys = {0, 1, 2}
  LinkedNodes = 2
  MSNodes = 2
  LFNodes = 3
  TableSize = 2
  Callers = {1, 2}
  Bits32 = 1
  Bits64 = 2
  Addends <- UpAndDown
CHECK_DEADLOCK FALSE
INVARIANTS
  QueueNodesAreApart
  LCRQIsLinearizable
  KeysHaveOneNode
PROPERTIES
  ImplementsAtomicObject
  QueuesAreFifo
  StacksAreLifo
  EmulatedWordsAreAtomic
SYMMETRY Symmetry
