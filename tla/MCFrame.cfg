SPECIFICATION Spec
CONSTANTS
  ControlNames = {1, 2}
  MaxControls = 2
  TimerIDs = {1}
  MaxTimers = 1
  RepeatDelay = 1
  RepeatPeriod = 1
  MaxTime = 4
  MaxSequence = 5
  MaxEntries = 1
  Deltas = {0, 2}
  InputTimes = {1, 2}
  Deadlines = {1}
  Modes = {"record", "playback"}
  Lamps = {"vibration"}
  ClipLength = 1
  ClipID = 9
  MaxEvents = 2
  Guest = Guest
  None = None
INVARIANTS
  FailedAdvanceChangesNothing
  AdvanceCatchesUp
  SnapshotLoads
  KeyEventsTellTheKey
  BusCanBeDrained
PROPERTIES
  AdvanceReturns
