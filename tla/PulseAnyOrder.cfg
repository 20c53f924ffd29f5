SPECIFICATION Spec
CONSTANTS
  p1 = p1
  p2 = p2
  c1 = c1
  Playback <- OnePlayback
  Capture <- OneCapture
  Orderly = FALSE
  Capacity = 1
  Fragment = 1
  MaxInflight = 0
INVARIANT NoLostWakeup
CHECK_DEADLOCK FALSE
