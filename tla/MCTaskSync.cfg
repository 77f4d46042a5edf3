SPECIFICATION FairSpec
CONSTANTS
  Workers = {w1}
  Routes = {r1}
  Stops = {s1}
  Pollers = {p1}
  Kinds = {"chain", "chain_on_failure", "check"}
  MaxAborts = 1
INVARIANTS TypeOK SyncInv OneSyncAtATime ChainOnce
PROPERTIES VerdictStays SuccessIsChained EndIsRecorded StopIsHonoured
CHECK_DEADLOCK FALSE
