SPECIFICATION Spec
CONSTANTS
  Threads = {t1, t2}
  Values = {v, w}
  Guard = Guard
  Failure = Failure
  NULL = NULL
  MaxNodes = 3
  Variant = "FCQueue"
INVARIANT AnswersWereEnqueued
