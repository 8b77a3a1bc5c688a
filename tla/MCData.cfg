SPECIFICATION SuiteSpec
CONSTANTS
\* the auxtrace_cache
  Keys = {1, 2, 3}
  Values = {1, 2}
  limit = 3
\* DSO data
  Threads = {"t1", "t2"}
  Dsos = {"a", "b", "none"}
  Size <- DsoSizes
  ChunkSize = 2
  RLIMIT_NOFILE = 4
  MaxOthers = 2
  Reads <- WholeFile
  Uses = {"get_fd", "close"}
\* perf top
  TopKeys = {"u1", "u2", "k"}
  CollapseKey <- TopCollapse
  KernelKeys = {"k"}
  MaxSamples = 3
  MaxPresses = 1
  Browser = TRUE
\* perf kvm stat live
  NrMmaps = 2
  Slots = 3
  MaxPerMmap = 2
  MaxKvmEvents = 5
  MaxPasses = 3
\* A tool ends, the kernel has written its last record, perf record exits.
CHECK_DEADLOCK FALSE
INVARIANTS
  
  BuffersIntact
  
  
  
  
  
  TopAddsUp
  KvmFlushOrder
