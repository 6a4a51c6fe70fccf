SPECIFICATION MCSpec
CONSTANTS
  Threads = {t1, t2, t3}
  NULL = NULL
  Args = {a}
  HelpFactor = 1
  CombiningRounds = 3
  InitialState = FALSE
  NewState <- FlipState
  Result <- CallerResult
INVARIANTS
  RequestsStayListed
PROPERTIES
  ImplementAtomicObject
  CallsReturn
