SPECIFICATION Spec
CONSTANTS
  MaxRequests = 3
  PipelineLimit = 1
  ChunkSize = 2
  BodySizes <- MCBodySizes
INVARIANTS
  OneExchangeAtATime
  KeepAliveKept
PROPERTY
  RequestsAnswered
CHECK_DEADLOCK FALSE
