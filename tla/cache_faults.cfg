SPECIFICATION Spec
CONSTANTS
  w1 = w1
  w2 = w2
  k1 = k1
  Workers = {w1, w2}
  Keys = {k1}
  Requests <- AllRequests
  TTL = 1
  MaxRev = 2
  RejectQueryStrings = TRUE
  Cleaner = TRUE
  FaultyDisk = TRUE
SYMMETRY Symmetric
CHECK_DEADLOCK TRUE
INVARIANTS
  OnlyObjectsServed
