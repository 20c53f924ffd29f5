SPECIFICATION FairSpec
CONSTANTS
  Frontends <- AnyFrontend
  PageSize = 2
  PerPage = 2
  MaxLink = 1
  Sizes <- SomeSizes
  RingSize = 2
  EventIds = 2
  MaxRequests = 4
INVARIANT TypeOK
INVARIANT ResponsesMatch
INVARIANT StatusIsError
INVARIANT WholeBuffer
INVARIANT BufferForTransfer
PROPERTY QuietAfterClose
PROPERTY ResponseNears
PROPERTY Answered
CHECK_DEADLOCK FALSE
