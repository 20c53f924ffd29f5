SPECIFICATION FairSpec
CONSTANTS
  Buffer = 2
  MaxRequest = 3
  MaxFrames = 4
  MaxHandles = 3
CHECK_DEADLOCK FALSE
INVARIANT TypeOK
INVARIANT TickOnOpenHandle
INVARIANT TimerFollowsDevice
PROPERTY Restarted
PROPERTY NeverAhead
PROPERTY NeverBack
PROPERTY ExclusiveDevice
PROPERTY Implements
PROPERTY Answered
