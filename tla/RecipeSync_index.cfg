SPECIFICATION Spec
CONSTANTS
  Uid = {u1, u2}
  Body = {a, b}
  None = None
  Purged = Purged
  Writer = {w1}
  Cycle = Cycle
  Failure = {"fetch", "unlink", "cycle"}
  MaxEdits = 1
  MaxFaults = 2
SYMMETRY Symm
INVARIANT IndexTruthful
PROPERTY PartialProgress
