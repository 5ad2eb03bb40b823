SPECIFICATION Spec
CONSTANTS
  Uid = {u1}
  Body = {a, b}
  None = None
  Purged = Purged
  Writer = {w1, w2}
  Cycle = Cycle
  Failure = {"fetch", "write", "unlink", "cycle", "crash"}
  MaxEdits = 2
  MaxFaults = 1
SYMMETRY Symm
INVARIANT Shield
PROPERTY IndexAfterFile
