CONSTANTS
  w1 = w1  w2 = w2  w3 = w3  w4 = w4
  NrIOZones = 2
  ZoneCap = 2
  ZoneSize = 3
  Writers = {w1, w2}
  Wal = {w1}
  Buffered = {}
  MaxOpen = 2
  MaxActive = 1
  FinishThreshold = 0
  Lifetimes = {2, 3}
  MaxAppend = 1
  MaxCalls = 3
  Faults = {}
SPECIFICATION FairSpec
INVARIANTS TypeOK UsedCapacityIsLive TokensReturned ActiveZonesBounded
PROPERTIES AllocationReturns ResetSparesLiveData
CHECK_DEADLOCK FALSE
