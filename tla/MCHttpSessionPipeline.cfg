SPECIFICATION Spec
CONSTANTS
  MaxRequests = 3
  PipelineLimit = 8
  ChunkSize = 2
  BodySizes <- MCBodySizes
INVARIANT
  KeepAliveKept
CHECK_DEADLOCK FALSE
