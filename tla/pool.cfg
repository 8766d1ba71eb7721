SPECIFICATION FairLookups
CONSTANTS
  Users = {u1, u2}
  Connections = {c1, c2, c3}
  None = None
  InitialSize = 1
  MaxPoolSize = 2
  MaxConnections = 1
  MaxIdleTime = 1
  Revocable = TRUE
  MaxLookups = 2
CHECK_DEADLOCK FALSE
INVARIANTS
  SlotsAccounted
  UseBounded
  Exclusive
  AnswersMatch
PROPERTIES
  ScansComplete
  IdleClosed
  LookupsEnd
