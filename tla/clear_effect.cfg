SPECIFICATION ClearSpec
CONSTANTS
  w1 = w1
  w2 = w2
  k1 = k1
  Workers = {w1, w2}
  Keys = {k1}
  Requests <- Reads
  TTL = 1
  MaxRev = 2
  RejectQueryStrings = TRUE
  Cleaner = FALSE
  FaultyDisk = FALSE
SYMMETRY Symmetric
CHECK_DEADLOCK TRUE
INVARIANTS
  ClearTakesEffect
