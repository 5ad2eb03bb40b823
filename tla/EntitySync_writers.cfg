SPECIFICATION Spec
CONSTANTS
  Uid = {u1}
  Row = {a, b}
  None = None
  Untouched = Untouched
  Writer = {w1, w2}
  TTL = 1
  Reconcile = "replaceAll"
  MaxEdits = 3
  MaxFaults = 1
SYMMETRY Symm
INVARIANT TypeOK
INVARIANT Shield
INVARIANT DurableAck
PROPERTY ClearsOnlyConfirmed
