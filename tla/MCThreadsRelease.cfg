SPECIFICATION ThreadsSpec
CONSTANTS
  ThreadRefs = {1, 2}
  Monitors = {m}
  AudioClips = {clip}
  MaxSounds = 3
  Delays = {0, 1}
  MaxClock = 2
PROPERTIES
  PlayLastsUntilTheClipStops
