SPECIFICATION SessionSpec
CONSTANTS
  Id = {i1, i2}
  Subject = {s1, s2}
  Owner <- MCOwner
  Request = {r1, r2}
  MaxRecords = 1
  SessionTTL = 1
  MaxRestarts = 1
  MaxDiskFaults = 1
SYMMETRY Interchangeable
INVARIANTS SessionTypeOK Bounds Survives
PROPERTY Served
\* Once down, with its restarts used up, the server stays down.
CHECK_DEADLOCK FALSE
