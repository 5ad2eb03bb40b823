SPECIFICATION DiscoverSpec
CONSTANTS
  Recipe = {p, q}
  Categorized = {p}
  Trashed = Trashed
  MaxVersion = 1
  MaxModel = 2
  MaxEdits = 2
  MaxIndexFaults = 1
  MaxBoots = 1
INVARIANTS DiscoverTypeOK IndexRight
PROPERTIES CatchesUp
\* Without edits, faults and restarts left, only the idle cycle goes on, which changes nothing.
CHECK_DEADLOCK FALSE
