SPECIFICATION Spec
CONSTANTS
  b1 = b1
  b2 = b2
  Buf = {b1, b2}
  Pages = 4
  MaxPages = 2
  Doorbell = TRUE
  UserClasses = 2
  ComputeClasses = 2
  MaxHandle = 18
INVARIANTS Accounted WholeOrAbsent
PROPERTY ImplementsService
CHECK_DEADLOCK FALSE
