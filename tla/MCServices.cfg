SPECIFICATION MCSpec
CONSTANTS
  Owners = {o1, o2}
  Kinds = {k1}
  Limit = 3
  MaxUint32 = 4
  o1 = o1
  o2 = o2
  up = up
  none = none
  t1 = t1
  None = None
  Payloads <- MCPayloads
  Times = {0, 1}
  MaxEvents = 3
  MaxSequence = 3
  MaxOfKind = 1
  MaxBufferBytes = 2
  MaxTotalBytes = 3
  MaxPending = 2
  MaxTape = 2
  ReplayModes = {"record", "playback"}
  MaxDescriptors = 2
  Keys <- MCKeys
  Packages <- MCPackages
  Modes <- MCModes
  StoreNames = {s1, s2}
  MaxFiles = 3
  MaxOpenHandles = 1
  MaxFileBytes = 2
  MaxStorageBytes = 3
  MaxRecordStores = 2
  MaxRecords = 2
  MaxRecordBytes = 1
  MaxRecordID = 4
  MaxTime = 1
INVARIANTS
  RestoreIsLossless
  SnapshotAccepted
  NetworkSnapshotLoads
  HandlesFollowTheirFile
  StorageSnapshotLoads
  NextRecordIsNew
PROPERTIES
  StaleStaysStale
  ImplementsQueue
  RefusedCallsLeaveNoTrace
  FailuresLeaveNoTrace
