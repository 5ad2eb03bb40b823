\* Two recipes, one tool call, a breaker of two failures, two changes of the weather.
CONSTANTS
  Syncs <- SmallSyncs
  Weather <- SmallWeather
  Recipe = {r1, r2}
  Tool = {t1}
  Disk = Disk
  Concurrency = 2
  Threshold = 2
  HalfOpenAfter = 1
  PartialRetry = 2
  Interval = 3
  MaxMisses = 3
  MaxEdits = 1
  MaxShifts = 2
SPECIFICATION FairSpec
INVARIANTS TypeOK QuickTries FastFindsReady
PROPERTIES StopIsFinal Settles Recovers
CHECK_DEADLOCK FALSE
