SPECIFICATION Spec
CONSTANTS
  Threads = {t1, t2}
  Keys = {0, 2, 4}
  size = 2
  NULL = NULL
  Variant = "CLHHash"
INVARIANT DeletesNothingElse
