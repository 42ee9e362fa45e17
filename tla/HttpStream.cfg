SPECIFICATION FairSpec
CONSTANTS
  Cap = 2
  MaxChunk = 3
  MaxBody = 7
  MaxRead = 2
  Transports = {"libcurl", "host", "fixture"}
INVARIANTS BufferBounded EndIsHonest
PROPERTIES PipeSpec CallsReturn AbortEndsTransfer
CHECK_DEADLOCK FALSE
