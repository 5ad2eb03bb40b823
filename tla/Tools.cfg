SPECIFICATION Spec
CONSTANTS
  Flow = {f1, f2}
  Recognized = {f2}
  Lifetime <- MCLifetime
  MaxEntries = 1
  Caller = {c1, c2}
  Slot <- MCSlot
  MaxCalls = 3
  MaxFaults = 1
  MaxLosses = 1
  MaxRemote = 1
  Ingredient = {i}
  ListName = {n, m}
  MaxDay = 2
  MenuName = {n, m}
  Recipe = {r1}
  CatalogName = {n, m}
  NotFetched = NotFetched
  r1 = r1
  r2 = r2
  Token = {t}
  NoToken = NoToken
  MaxPreviews = 1
  PreviewTTL = 0
  Entry = {1, 2, 3}
  MaxTaps = 2
  MaxReads = 1
  MaxUpsets = 1
  Row = {1, 2}
  LastWeek = 1
  MaxMoves = 3
  MaxPushes = 1
  Steps <- MCSteps
  Ingredients <- MCIngredients
  TypeName = {tt, ss}
  Shipped = {tt}
  MaxChoices = 4
  MaxDishes = 2
  Spot = {0, 60, 120}
  Height = {0, 100}
  MaxTouches = 2
  MaxTicks = 6
  Item = {1, 2, 3}
  Filings <- MCFilings
  MaxActs = 2
  MaxFeeds = 1
  Modules = 3
  Graphs <- MCGraphs
  MaxSignals = 2
  Request = {c1, c2}
  MaxRetries = 1
  Chain = 2
  Concurrency = 1
  BreakAfter = 1
  MaxTrouble = 2
  Id = {1, 2}
  Vector <- MCVector
  MaxUpdates = 3
  MaxFailures = 1
  Line = {1, 2, 3}
  FileOf <- MCFile
  RatingOf <- MCRating
  LastDay = 3
  MaxTurns = 2
  MaxSends = 1
SYMMETRY Symmetry
CHECK_DEADLOCK FALSE
INVARIANTS
  ToolsTypeOK
  SignInSafe
  NothingLost
  MenusWhole
  CatalogWhole
  RecipesWhole
  ChecklistsRight
  ScreensRight
  ProcessRight
PROPERTY InFlightKept
