SPECIFICATION Spec
CONSTANTS
  ControlNames = {1}
  MaxControls = 1
  TimerIDs = {}
  MaxTimers = 1
  RepeatDelay = 1
  RepeatPeriod = 1
  MaxTime = 4
  MaxSequence = 7
  MaxEntries = 1
  Deltas = {1}
  InputTimes = {0}
  Deadlines = {0, 2}
  Modes = {}
  Lamps = {}
  ClipLength = 1
  ClipID = 9
  MaxEvents = 5
  Guest = Guest
  None = None
INVARIANTS
  NoRepeatIsLost
