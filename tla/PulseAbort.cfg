SPECIFICATION Spec
CONSTANTS
  p1 = p1
  p2 = p2
  c1 = c1
  Playback <- NoStreams
  Capture <- OneCapture
  Orderly = TRUE
  Capacity = 1
  Fragment = 1
  MaxInflight = 1
CHECK_DEADLOCK FALSE
INVARIANT NoAbort
