SPECIFICATION Spec
CONSTANTS
  NrMmaps = 1
  NrFds = 1
  Backward = TRUE
  SwitchOutput = TRUE
  SnapshotMode = FALSE
  TargetNone = TRUE
  RingSize = 2
  MaxEvents = 2
  MaxSignals = 2
  MayFail = TRUE
INVARIANTS TypeOK UnmappedOnlyWhenDrained BackwardReadWhilePaused SleepsOnlyWhileRecording
PROPERTIES SwitchedAfterDump
