SPECIFICATION FairSpec
CONSTANTS
  Workers = {w1, w2}
  MaxMetrics = 2
  NoMetric = NoMetric
  Mongo = TRUE
  TSDB = TRUE
CHECK_DEADLOCK FALSE
INVARIANTS
  NothingLost
  StopDrains
PROPERTIES
  ImplementsLog
  MetricsSaved
  ShutdownEnds
