SPECIFICATION FairSpec
CONSTANTS
  Uid = {u1}
  Body = {a, b}
  None = None
  Purged = Purged
  Writer = {w1}
  Cycle = Cycle
  Failure = {"fetch", "unlink", "cycle"}
  MaxEdits = 2
  MaxFaults = 1
INVARIANT TypeOK
PROPERTY Converges
