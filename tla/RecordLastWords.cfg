SPECIFICATION Spec
CONSTANTS
  NrMmaps = 1
  NrFds = 1
  Backward = FALSE
  SwitchOutput = TRUE
  SnapshotMode = FALSE
  TargetNone = TRUE
  RingSize = 1
  MaxEvents = 1
  MaxSignals = 1
  MayFail = FALSE
INVARIANTS LastWordsRecorded
