SPECIFICATION SuiteSpec
CONSTANTS
  None = None
  Procs = {"p1", "p2"}
  Files = {"app", "anon"}
  Anon = {"anon"}
  Addresses = {0, 1, 2}
  Offsets = {2}
  MayFail = FALSE
  MaxEvents = 3
  Tasks = {"a", "b"}
  SchedCpus = {"c1", "c2"}
  Lossy = TRUE
  Unordered = TRUE
  MaxSchedEvents = 4
  MaxSchedTime = 3
  LockThreads = {"t1", "t2", "t3"}
  LockNames = {"l1"}
  LockFlags = {"none", "read", "try"}
  Midway = {"idle", "acquiring", "waiting", "held"}
  MaxLockTime = 7
  MaxLost = 3
\* A recording ends.
CHECK_DEADLOCK FALSE
INVARIANTS
  RightFile
  
  
  
  LatenciesAreReal
  LocksAreCounted
  TreesBalanced
PROPERTIES SortedListSpec
