SPECIFICATION Spec
CONSTANTS
  Cap = 2
  MaxChunk = 3
  MaxBody = 7
  MaxRead = 2
  Transports = {"subprocess"}
INVARIANT CompleteMeansClean
CHECK_DEADLOCK FALSE
