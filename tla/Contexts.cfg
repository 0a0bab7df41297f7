SPECIFICATION Spec
CONSTANTS
  Thread = {t1, t2}
  Addr = {a1, a2, a3}
  Nil = Nil
  Depth = 2
  Flags <- MCFlags
  MaxId = 4
  Careful = TRUE
SYMMETRY MCSymmetry
CHECK_DEADLOCK FALSE
INVARIANT OnePrimary
PROPERTY ImplementsStacks
CONSTRAINT FewPushed
