CONSTANTS
  Syncs <- CatalogSyncs
  Weather <- CatalogWeather
  Recipe = {r1}
  Tool = {}
  Disk = Disk
  Concurrency = 5
  Threshold = 5
  HalfOpenAfter = 1
  PartialRetry = 2
  Interval = 3
  MaxMisses = 3
  MaxEdits = 0
  MaxShifts = 1
SPECIFICATION FairSpec
PROPERTIES CoreDespiteCatalogs
CHECK_DEADLOCK FALSE
