SPECIFICATION Spec
CONSTANTS
  a = a
  b = b
  t1 = t1
  t2 = t2
  Names = {a, b}
  Threads = {t1, t2}
  Existing = {a}
  NrMetaZones = 3
  MetaCap = 8
  Ops = {"create", "reopen", "delete", "rename", "link", "sync", "close", "migrate"}
  Faults = {"write", "roll"}
  Torn = TRUE
  MaxFileId = 3
  MaxExtents = 2
  MaxCalls = 3
  MaxCrashes = 2
INVARIANTS  FreshIds LinksMatchNames
CHECK_DEADLOCK FALSE
