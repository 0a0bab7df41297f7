SPECIFICATION Spec
CONSTANTS
  t1 = t1
  t2 = t2
  c1 = c1
  c2 = c2
  Thread = {t1, t2}
  Top = 3
  Sizes = {0, 1, 2}
  MaxBlocks = 2
  Config = {c1, c2}
  MaxNest = 2
  Uses <- EachUse
INVARIANTS TableExact RightAllocator CopyDirection
PROPERTIES LaunchedAsConfigured
