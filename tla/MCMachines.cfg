SPECIFICATION MCSpec
CONSTANTS
  HostForgets = TRUE
  Packets = {a}
  MaxNetworkRequests = 3
  BusCapacity = 2
  MaxSockets = 2
  MaxSequences = 4
  MaxSessions = 2
  Contents = {a, b}
  MaxRequests = 2
  LastToken = 4
  MaxPlaced = 4
  ThreadRefs = {1, 2}
  Monitors = {m}
  AudioClips = {clip}
  MaxSounds = 3
  Delays = {0, 1}
  MaxClock = 2
  MaxTasks = 3
  MaxPendingCalls = 1
  Cards = {card}
  TimerTasks = {t, u}
  FixedRate = {u}
  JavaThreads = {h}
  Periods = {0, 1}
  MaxTick = 1
  MaxKeys = 1
  MaxCallbacks = 1
  MaxCalls <- MCMaxCalls
  Titles = {{"cards", "keys", "native"}, {"cards", "timers"}, {"threads", "timers"}, {"threads", "cards", "keys"}}
INVARIANTS
  CallbacksTakeTurns
  OneWorkerPerTimer
  BlockersCanRun
  OnePaintPerCard
  OnlyTimerTasksSpoilASave
  QueueMatchesSocket
  OnlyLimitsFault
  DroppedConnectionsAreTold
  TokensNameOneRequest
  NoThreadRunsTwice
  SavedThreadsLoad
PROPERTIES
  AcknowledgedWereTold
  EveryDueThreadRuns
