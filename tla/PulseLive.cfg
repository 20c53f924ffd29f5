SPECIFICATION FairSpec
CONSTANTS
  p1 = p1
  p2 = p2
  c1 = c1
  Playback <- OnePlayback
  Capture <- OneCapture
  Orderly = TRUE
  Capacity = 1
  Fragment = 1
  MaxInflight = 0
PROPERTY CommandAnswered
PROPERTY CloseAnswered
PROPERTY TransferAnswered
CHECK_DEADLOCK FALSE
