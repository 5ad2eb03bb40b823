SPECIFICATION FairSpec
CONSTANTS
  Uid = {u1}
  Row = {a, b}
  None = None
  Untouched = Untouched
  Writer = {w1}
  TTL = 2
  Reconcile = "replaceAll"
  MaxEdits = 2
  MaxFaults = 1
PROPERTY Converges
