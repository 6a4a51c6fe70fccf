SPECIFICATION Spec
CONSTANTS
  Threads = {t1, t2, t3}
  NULL = NULL
  Args = {a}
  HelpFactor = 1
  InitialState = FALSE
  NewState <- FlipState
  Result <- CallerResult
INVARIANTS
  TypeOK
  SingleCombiner
  ReusedNodeIsFree
PROPERTIES
  ImplementsAtomicObject
SYMMETRY ThreadSymmetry
