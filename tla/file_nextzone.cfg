CONSTANTS
  Modes = {"direct"}
  B = 2
  H = 1
  BufferSize = 4
  MigrateStep = 2
  NrIOZones = 2
  ZoneSize = 4
  ZoneCap = 4
  Sizes = {1, 2, 3, 4}
  TornModes = {}
  MaxBytes = 6
  MaxCalls = 5
  MaxCrashes = 1
SPECIFICATION Spec
INVARIANT OwnBytes
CHECK_DEADLOCK FALSE
