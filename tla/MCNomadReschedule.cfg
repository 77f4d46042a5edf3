CONSTANTS
  Writers = {w1}
  Streams = {out, err}
  Epochs = {1, 2}
  LogLength = 2
  Bytes <- MCBytes
  Requests <- SyncRequests
  ChunkBytes = 3
  MinFlush = 2
  StreamCap = 100
  EvictionMaxRows = 1
  MaxVersionRetries = 5
  MaxVersion = 100
  DrainAttempts = 2
  Anonymized = {out}
  LineEnds = {1}
  LegacyLength = 1
  MaxAborts = 0
  MaxFetchErrors = 0
SPECIFICATION SyncSpec
INVARIANTS
  SyncTypeOK
  FreshBytesOnce
  PrefixKept
  TerminalLogComplete
CHECK_DEADLOCK FALSE
