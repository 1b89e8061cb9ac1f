SPECIFICATION Spec
CONSTANTS
  a = a
  b = b
  t1 = t1
  t2 = t2
  Names = {a, b}
  Threads = {t1}
  Existing = {a}
  NrMetaZones = 3
  MetaCap = 3
  Ops = {"rename", "unmount"}
  Faults = {}
  Torn = TRUE
  MaxFileId = 2
  MaxExtents = 2
  MaxCalls = 3
  MaxCrashes = 1
INVARIANT MountFallsBack
CHECK_DEADLOCK FALSE
