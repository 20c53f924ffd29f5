SPECIFICATION Spec
CONSTANTS
  Buffer = 2
  MaxRequest = 3
  MaxFrames = 4
  MaxHandles = 3
CHECK_DEADLOCK FALSE
PROPERTY QueryKeepsStream
