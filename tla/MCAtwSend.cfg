SPECIFICATION SendSpec
CONSTANTS
  send = send
  sweeper = sweeper
  admin1 = admin1
  reconciler = reconciler
  Task = {send, sweeper}
  Periodic = {sweeper}
  Send = {send}
  Sweep = sweeper
  Admin = {admin1}
  Reconciler = reconciler
  MaxRequests = 2
  MaxFaults = 1
INVARIANTS
  SendTypeOK
  EnablingEnds
  GateFollowsState
  FailedMeansNotDelivered
PROPERTIES
  DrainedBeforeDisabled
  IsAppDrain
CHECK_DEADLOCK FALSE
