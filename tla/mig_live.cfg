CONSTANTS
  f1 = f1  f2 = f2
  Files = {f1, f2}
  NrIOZones = 3
  ZoneCap = 2
  Workers = {"gc", "wl"}
  MaxOpen = 4
  MaxActive = 2
  Faults = {}
  MaxExtents = 2
  MaxReaders = 1
  MaxJobs = 1
  MaxOps = 1
SPECIFICATION WornFairSpec
INVARIANTS TypeOK UsedCapacityExact DataIntact
PROPERTY MigrationEnds
CHECK_DEADLOCK FALSE
