SPECIFICATION FairSpec
CONSTANTS
  p1 = p1
  p2 = p2
  c1 = c1
  c2 = c2
  Producers = {p1, p2}
  Consumers = {c1, c2}
  Threads <- MCThreads
  Quotas <- MCQuotas
  Nodes = {1, 2, 3}
  NoNode = NoNode
  NoItem = NoItem
  BlockSize = 2
  InitialBlocks = 1
  InitialIndex = 2
  MaxAhead = 2
CHECK_DEADLOCK FALSE
INVARIANTS
  BlocksOnce
  BlocksReleased
PROPERTIES
  ImplementsQueue
  MetricsTaken
