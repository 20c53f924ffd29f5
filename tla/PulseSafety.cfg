SPECIFICATION Spec
CONSTANTS
  p1 = p1
  p2 = p2
  c1 = c1
  Playback <- OnePlayback
  Capture <- OneCapture
  Orderly = TRUE
  Capacity = 2
  Fragment = 2
  MaxInflight = 2
INVARIANT TypeOK
INVARIANT TimerOnlyWhileStarted
INVARIANT PlaybackCloseQuiet
PROPERTY AckedTriggers
PROPERTY ReadOnce
PROPERTY Implements
PROPERTY OnlyCaptureAborts
CHECK_DEADLOCK FALSE
