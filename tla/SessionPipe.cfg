SPECIFICATION Spec
CONSTANTS
  Timestamps = {1, 2}
  ULLONG_MAX = 99
  Sizes = {1}
  BufferBytes = 3
  MAX_SAMPLE_BUFFER = 3
  MaxAllocSize = 99
  CopyOnQueue = FALSE
  MallocMayFail = FALSE
  NULL = NULL
  Pipe = TRUE
  MaxRecords = 4
  DeliverMayFail = FALSE
INVARIANT DeliveredIntact
