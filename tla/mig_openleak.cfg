CONSTANTS
  f1 = f1  f2 = f2
  Files = {f1, f2}
  NrIOZones = 3
  ZoneCap = 3
  Workers = {"wl"}
  MaxOpen = 4
  MaxActive = 2
  Faults = {}
  MaxExtents = 2
  MaxReaders = 0
  MaxJobs = 1
  MaxOps = 1
SPECIFICATION UnevenSpec
INVARIANT OpenTokensReturned
CHECK_DEADLOCK FALSE
