SPECIFICATION Spec
CONSTANTS
  Hardware <- SomeHardware
  sPcmFormat <- Table
  FormatSize <- Sizes
  Requests <- SomeRequests
  Opens <- SomeOpens
  DefaultBufferFrames = 64
  DefaultPeriodFrames = 16
INVARIANT RateSupported
