CONSTANTS
  Modes = {"direct", "buffered", "sparse"}
  B = 2
  H = 1
  BufferSize = 4
  MigrateStep = 2
  NrIOZones = 2
  ZoneSize = 6
  ZoneCap = 4
  Sizes = {1, 2, 3, 4}
  TornModes = {"direct", "buffered"}
  MaxBytes = 6
  MaxCalls = 6
  MaxCrashes = 2
SPECIFICATION Spec
INVARIANTS TypeOK ReadsAgree ExtentsSound OwnBytes
PROPERTY RefinesAppendFile
CHECK_DEADLOCK FALSE
