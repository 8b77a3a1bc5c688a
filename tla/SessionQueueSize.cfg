SPECIFICATION Spec
CONSTANTS
  Timestamps = {1, 2}
  ULLONG_MAX = 99
  Sizes = {1}
  BufferBytes = 3
  MAX_SAMPLE_BUFFER = 3
  MaxAllocSize = 6
  CopyOnQueue = FALSE
  MallocMayFail = FALSE
  NULL = NULL
  Pipe = FALSE
  MaxRecords = 5
  DeliverMayFail = FALSE
INVARIANT NoNullDereference
