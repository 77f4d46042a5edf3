CONSTANTS
  Writers = {w1}
  Streams = {out}
  Epochs = {1, 2}
  LogLength = 2
  Bytes <- MCBytes
  Requests <- SyncRequests
  ChunkBytes = 3
  MinFlush = 2
  StreamCap = 100
  EvictionMaxRows = 1
  MaxVersionRetries = 5
  MaxVersion = 100
  DrainAttempts = 2
  Anonymized = {}
  LineEnds = {1}
  LegacyLength = 0
  MaxAborts = 1
  MaxFetchErrors = 1
SPECIFICATION SyncSpec
INVARIANT PrefixKept
CHECK_DEADLOCK FALSE
