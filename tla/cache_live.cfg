SPECIFICATION FairSpec
CONSTANTS
  w1 = w1
  w2 = w2
  k1 = k1
  Workers = {w1, w2}
  Keys = {k1}
  Requests <- GzipReads
  TTL = 1
  MaxRev = 2
  RejectQueryStrings = TRUE
  Cleaner = FALSE
  FaultyDisk = FALSE
CHECK_DEADLOCK TRUE
PROPERTIES
  RequestsAnswered
  CacheConverges
