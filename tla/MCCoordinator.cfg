SPECIFICATION MCSpec
CONSTANTS
  MaxOwner = 4
  MaxAdapters = 2
  DefaultRunBudget = 1
  MaxRunBudget = 2
  MaxCallbacks = 1
  Minimums = {2}
  MaxEvents = 2
  MaxSequence = 3
INVARIANTS
  SnapshotAccepted
  NewestRecordSurvives
PROPERTIES
  DestroyedIsFinal
  NobodyOvertakesTwice
CHECK_DEADLOCK FALSE
