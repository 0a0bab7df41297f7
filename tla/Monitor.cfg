SPECIFICATION Spec
CONSTANTS
  LastPid = 3
  MaxBirths = 3
  Sizes = {0, 2}
  TotalMem = 3
  MaxTicks = 1
  Word = 16
  MaxProcs = 2
  MaxRows = 2
  Buffers = {2}
  Slots = 2
  Uses <- EachUse
INVARIANTS WithinBounds FileIsOwn QuietScanIsExact RateIsSound
CHECK_DEADLOCK FALSE
