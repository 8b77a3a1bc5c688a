SPECIFICATION FairSpec
CONSTANTS
  NrMmaps = 2
  NrFds = 2
  Backward = FALSE
  SwitchOutput = FALSE
  SnapshotMode = TRUE
  TargetNone = FALSE
  RingSize = 1
  MaxEvents = 2
  MaxSignals = 1
  MayFail = TRUE
INVARIANTS RefcntMatchesPolled SnapshotNotForgotten DrainedMeansRead
PROPERTIES StopsWhenEventsDie
