SPECIFICATION Spec
CONSTANTS
  Timestamps = {1, 2, 3}
  ULLONG_MAX = 99
  Sizes = {1}
  BufferBytes = 3
  MAX_SAMPLE_BUFFER = 3
  MaxAllocSize = 6
  CopyOnQueue = FALSE
  MallocMayFail = TRUE
  NULL = NULL
  Pipe = FALSE
  MaxRecords = 5
  DeliverMayFail = TRUE
INVARIANTS IInv DeliveredInOrder SlotsAccounted NothingLeftBehind
PROPERTY SorterSpec
