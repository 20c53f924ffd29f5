SPECIFICATION Spec
CONSTANTS
  p1 = p1
  p2 = p2
  c1 = c1
  Playback <- OnePlayback
  Capture <- NoStreams
  Orderly = TRUE
  Capacity = 1
  Fragment = 1
  MaxInflight = 0
CHECK_DEADLOCK FALSE
PROPERTY TriggerDone
