SPECIFICATION CopiesSpec
CONSTANTS
  t1 = t1
  t2 = t2
  Thread = {t1, t2}
  Top = 6
  Sizes = {0, 2}
  Page = 2
  HostOnly = FALSE
  RegPtrs = {2}
  MaxId = 3
  MaxHandle = 2
  Pitches = {1, 2}
  Widths = {1}
  Heights = {2}
  Element = {1, 2}
  Uses = {"memory", "copy"}
SYMMETRY Symmetry
INVARIANTS TypeOK SoleOwner NoOrphan AccountingExact ResolvedIsInside HeapRangeExact TouchesLive
CHECK_DEADLOCK FALSE
