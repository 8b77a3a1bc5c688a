SPECIFICATION SuiteSpec
CONSTANTS
  NULL = NULL
\* perf sched replay
  Pids = {"p1", "p2"}
  MaxTrace = 3
  replay_repeat = 2
\* opening of events
  Asks <- RecordAsks
  NrSlots = 2
  Hard = 5
  Increase = 1
  MayBeBad = TRUE
\* the poll array
  Fds <- ThreeFds
  Maps <- TwoMaps
  MapOf <- Shared
  Nfds = 2
  NrAutogrow = 1
  EntriesFail = TRUE
  PrivFail = FALSE
\* the workload
  Tools = {"record", "stat"}
  Interval = TRUE
  MayCrash = TRUE
\* perf trace
  NrMmaps = 2
  Cap = 2
  Daemons = TRUE
\* perf trace is gone behind its loop.
CHECK_DEADLOCK FALSE
INVARIANTS  ReplaysAreWhole 
PROPERTIES PollListSpec WaitsEnd AllIsRead
