CONSTANTS
  Writers = {w1, w2}
  Streams = {out}
  Epochs = {1}
  LogLength = 3
  Bytes <- MCBytes
  Requests <- SyncRequests
  ChunkBytes = 3
  MinFlush = 3
  StreamCap = 100
  EvictionMaxRows = 1
  MaxVersionRetries = 2
  MaxVersion = 100
  DrainAttempts = 2
  Anonymized = {}
  LineEnds = {1}
  LegacyLength = 0
  MaxAborts = 0
  MaxFetchErrors = 0
SPECIFICATION SyncSpec
SYMMETRY SyncSymmetry
INVARIANTS
  PrefixKept
  LogSyncInv
CHECK_DEADLOCK FALSE
