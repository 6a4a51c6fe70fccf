SPECIFICATION MCSpec
CONSTANTS
  Threads = {t1, t2}
  Dummy = Dummy
  t1 = t1
  t2 = t2
  n1 = n1
  n2 = n2
  NumaNodes = {n1, n2}
  NULL = NULL
  Args = {a}
  HelpFactor = 1
  InitialState = NULL
  NewState <- SameState
  Result <- NoAnswer
INVARIANTS
  IInv
PROPERTIES
  CallsReturn
