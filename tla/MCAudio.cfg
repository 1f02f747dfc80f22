SPECIFICATION MCSpec
CONSTANTS
  FrameTicks = 2
  Retention = 3
  Deltas = {1, 5, 9}
  MaxTime = 14
  Unknown = Unknown
  Slack = 1
  PublishedLimit = 2
  MaxStepTime = 7
  MaxEras = 2
  MaxPauses = 2
  ClipIDs = {1, 2, 3}
  MaxClips = 1
  Length = 3
  MaxPosition = 4
  ClipDeltas = {1, 2, 7}
  PlayCounts = {1, 3}
  MaxEvents = 2
  None = None
INVARIANTS
  OnlyPausedAppendsStarve
  ClipSnapshotLoads
  SpansTellTheFrames
  StreamMovesForward
  OneEraPerGeneration
  ChunksAreWhereTheySay
  ChangesAreReportedOnce
CHECK_DEADLOCK FALSE
