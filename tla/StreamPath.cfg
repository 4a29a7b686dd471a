SPECIFICATION FairSpec
CONSTANTS
  Senders <- MCSenders
  StreamOf <- MCStreamOf
  Pipelines <- MCPipelines
  Relays <- MCRelays
  ReadSizes <- MCReadSizes
  Capacity = 1
  WireSize = 1
INVARIANTS TypeOK ChunkingIndependent NoGap PipelineIsolation
CHECK_DEADLOCK FALSE
PROPERTIES StoppedThreadEnds EverythingArrives
