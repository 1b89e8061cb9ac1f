SPECIFICATION Spec
CONSTANTS
  a = a
  b = b
  t1 = t1
  t2 = t2
  Names = {a, b}
  Threads = {t1}
  Existing = {a, b}
  NrMetaZones = 3
  MetaCap = 3
  Ops = {"delete", "reopen", "rename", "sync", "close", "unmount"}
  Faults = {"write", "reset", "repair"}
  Torn = FALSE
  MaxFileId = 2
  MaxExtents = 2
  MaxCalls = 3
  MaxCrashes = 2
INVARIANTS TypeOK  ExtentsDurable NewestInUse
CHECK_DEADLOCK FALSE
