SPECIFICATION FairSpec
CONSTANTS
  t1 = t1
  t2 = t2
  t3 = t3
  Threads = {t1, t2, t3}
  HashedId <- MCHashedId
  InitialCapacity = 4
  Capacities = {4, 8, 16}
  Calls = 2
  NoThread = NoThread
CHECK_DEADLOCK FALSE
INVARIANTS
  OneProducer
  ProducersListed
PROPERTIES
  CallsReturn
