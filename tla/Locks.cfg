SPECIFICATION MCSpec
CONSTANTS
  Threads = {t1, t2, t3}
  MCSThreads = {t1, t2, t3, t4}
  Dummy = Dummy
  NULL = NULL
INVARIANTS
  MutualExclusion
  RecycledNodeIsFree
  IdleMCSNodeIsUnlocked
PROPERTIES
  ImplementQueueLocks
  LocksReturn
