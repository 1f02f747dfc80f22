SPECIFICATION ClipsSpec
CONSTANTS
  ClipIDs = {1, 2}
  MaxClips = 1
  Length = 2
  MaxPosition = 3
  ClipDeltas = {1, 3}
  PlayCounts = {1, 2}
  MaxEvents = 2
  None = None
INVARIANTS
  PositionsLoad
