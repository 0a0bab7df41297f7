SPECIFICATION Spec
CONSTANTS
  t1 = t1
  t2 = t2
  m1 = m1
  m2 = m2
  m3 = m3
  n1 = n1
  n2 = n2
  g1 = g1
  h1 = h1
  None = None
  Thread = {t1, t2}
  Module = {m1, m2, m3}
  Name = {n1, n2}
  Variable = {g1}
  Host = {h1}
  Kernels <- Images
  Plans <- EachUse
  MaxId = 6
  MaxStaged = 1
SYMMETRY Symmetry
INVARIANTS TypeOK SymbolsOwned DiscoveryComplete NoFreedFunction RegistrationCurrent
CHECK_DEADLOCK FALSE
