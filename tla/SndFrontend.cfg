SPECIFICATION FairSpec
CONSTANTS
  BackEnds <- BothBackEnds
  NumDevices = 2
  NumStreams = 2
  Entries <- SomeEntries
  Words <- SomeWords
  Fields <- SomeFields
CHECK_DEADLOCK FALSE
INVARIANT TypeOK
INVARIANT ReadyNotLost
INVARIANT ReleasedAll
INVARIANT Paired
INVARIANT AllBound
INVARIANT DeviceAsNamed
PROPERTY Returns
