CONSTANTS
  Writers = {w1}
  Streams = {out,err}
  Epochs = {1}
  LogLength = 2
  Bytes <- MCBytes
  Requests <- SyncRequests
  ChunkBytes = 2
  MinFlush = 2
  StreamCap = 100
  EvictionMaxRows = 1
  MaxVersionRetries = 5
  MaxVersion = 100
  DrainAttempts = 3
  Anonymized = {}
  LineEnds = {1}
  LegacyLength = 0
  MaxAborts = 1
  MaxFetchErrors = 1
SPECIFICATION FairSyncSpec
INVARIANTS
  NoByteTwice
  PrefixKept
  TerminalLogComplete
PROPERTY DeadJobFinishes
CHECK_DEADLOCK FALSE
