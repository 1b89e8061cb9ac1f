CONSTANTS
  w1 = w1  w2 = w2  w3 = w3  w4 = w4
  NrIOZones = 2
  ZoneCap = 2
  ZoneSize = 3
  Writers = {w1, w2, w3}
  Wal = {w3}
  Buffered = {w3}
  MaxOpen = 2
  MaxActive = 2
  FinishThreshold = 100
  Lifetimes = {3}
  MaxAppend = 1
  MaxCalls = 2
  Faults = {"reset", "offline", "finish", "close", "write"}
SPECIFICATION Spec
INVARIANTS ZoneExclusive OpenZonesBounded WalSlotReserved NoLostWakeup
SYMMETRY Interchangeable
CHECK_DEADLOCK FALSE
