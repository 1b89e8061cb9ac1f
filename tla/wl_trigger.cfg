CONSTANTS
  z1 = z1  z2 = z2  t1 = t1  t2 = t2
  IoZones = {z1, z2}
  Threads = {t1, t2}
  NrMetaZones = 1
  WordSize = 1024
  InitRatio = 25
  StdDevNum = 1  StdDevDen = 2
  TriggerLimit = 1
  WriteDefault = 2  ReadDefault = 2
  FailLimit = 2  SuccessLimit = 1
  DropPercent = 50
  WriteLoads = {0, 4}  ReadLoads = {0}
  MetaCap = 3
  InitialWear = 5
  MaxResets = 7  MaxRolls = 1  MaxMounts = 1
SPECIFICATION Spec
INVARIANTS TypeOK TotalAgrees CountsTrue PeakIsNotIdle
PROPERTIES WakeupServed ShutdownEnds
CHECK_DEADLOCK FALSE
