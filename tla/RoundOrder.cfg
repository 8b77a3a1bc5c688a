SPECIFICATION RoundSpec
CONSTANTS
  Timestamps = {1, 2, 3, 4}
  ULLONG_MAX = 5
  Sizes = {1}
  BufferBytes = 1
  MAX_SAMPLE_BUFFER = 9
  MaxAllocSize = 6
  CopyOnQueue = FALSE
  MallocMayFail = FALSE
  NULL = NULL
  Pipe = FALSE
  MaxRecords = 8
  DeliverMayFail = FALSE
  NrMmaps = 2
  MaxSamples = 4
INVARIANTS NoneOutOfOrder RecordingInOrder QueueHoldsTwoRounds
