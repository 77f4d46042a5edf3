CONSTANTS
  Writers = {w1, w2}
  Streams = {out}
  Epochs = {1, 2}
  LogLength = 2
  Bytes <- MCBytes
  Requests <- MCRequests
  ChunkBytes = 2
  MinFlush = 2
  StreamCap = 2
  EvictionMaxRows = 1
  MaxVersionRetries = 2
  MaxVersion = 3
SPECIFICATION FairSpec
INVARIANTS
  TypeOK
  LockOwned
  ChunksTile
  WriterInv
PROPERTIES
  CallsEnd
  StaleBytesDiscarded
  IsAppendOnlyLog
CHECK_DEADLOCK FALSE
