SPECIFICATION FairSpec
CONSTANTS
  Uid = {u1}
  Body = {a, b}
  None = None
  Purged = Purged
  Writer = {w1}
  Cycle = Cycle
  Failure = {"write"}
  MaxEdits = 1
  MaxFaults = 1
PROPERTY Converges
