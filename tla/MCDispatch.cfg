SPECIFICATION Spec
CONSTANTS
  s1 = s1
  d1 = d1
  k1 = k1
  Item = {s1, d1}
  Scheduled = {s1}
  Key = {k1}
  KeyOf <- MCKeyOf
  p = p
  q = q
  Proc = {p, q}
  LockId = {1, 2, 3}
  Engines = {"sqlite", "postgresql"}
  MaxRetries = 1
  MaxFaults = 1
INVARIANTS
  TypeOK
  OneRunningPerKey
  OneJobPerRow
  JobIsTracked
  RunningRowNamesJob
  LockHeldOrLeaked
PROPERTIES
  DeletedStaysDeleted
SYMMETRY Symmetry
CHECK_DEADLOCK FALSE
