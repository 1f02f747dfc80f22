SPECIFICATION ConcurrentSpec
CONSTANTS
  FrameTicks = 2
  Retention = 3
  Deltas = {1, 5, 9}
  MaxTime = 14
  Unknown = Unknown
  Slack = 1
  PublishedLimit = 2
  MaxStepTime = 7
  MaxEras = 2
  MaxPauses = 1
INVARIANTS
  OneEraPerGeneration
CHECK_DEADLOCK FALSE
