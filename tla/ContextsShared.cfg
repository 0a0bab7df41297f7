SPECIFICATION Spec
CONSTANTS
  Thread = {t1, t2}
  Addr = {a1, a2, a3}
  Nil = Nil
  Depth = 2
  Flags <- MCFlags
  MaxId = 3
  Careful = FALSE
CHECK_DEADLOCK FALSE
INVARIANT DestroyedIsReported
