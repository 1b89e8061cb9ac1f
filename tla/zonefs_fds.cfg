CONSTANTS
  z1 = z1  z2 = z2  z3 = z3  t1 = t1  t2 = t2
  Zones = {z1, z2, z3}
  Threads = {t1, t2}
  Limits = {0, 1, 2}
  DefaultLimit = 2
  WordSize = 256
  ZoneSz = 2
  NrFds = 5
  Faults = {"open", "read", "write", "truncate"}
  MaxOps = 6
SPECIFICATION Spec
INVARIANTS TypeOK OwnDescriptor DescriptorsBounded ShutZonesNotOpen WpNeverAhead
SYMMETRY Interchangeable
CHECK_DEADLOCK FALSE
