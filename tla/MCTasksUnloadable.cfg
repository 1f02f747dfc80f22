SPECIFICATION TasksSpec
CONSTANTS
  MaxTasks = 3
  MaxPendingCalls = 1
  Cards = {c}
  TimerTasks = {t, u}
  FixedRate = {u}
  JavaThreads = {h}
  Periods = {0, 1}
  MaxTick = 1
  MaxKeys = 1
  MaxCallbacks = 1
  MaxCalls <- MCMaxCalls
  Titles = {{"timers"}}
INVARIANT SavedTasksLoad
