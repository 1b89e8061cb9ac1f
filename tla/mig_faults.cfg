CONSTANTS
  f1 = f1  f2 = f2
  Files = {f1, f2}
  NrIOZones = 3
  ZoneCap = 3
  Workers = {"gc", "wl"}
  MaxOpen = 4
  MaxActive = 2
  Faults = {"copy", "persist"}
  MaxExtents = 2
  MaxReaders = 0
  MaxJobs = 1
  MaxOps = 1
SPECIFICATION UnevenSpec
INVARIANTS TargetsExclusive ActiveZonesBounded
CHECK_DEADLOCK FALSE
