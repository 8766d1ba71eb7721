SPECIFICATION FairFileSpec
CONSTANTS
  Producers = {p1, p2}
  Lines = 2
  Kinds = {"queue", "ring"}
  Size = 2
  RingSize = 2
  Addresses = {b1, b2, b3}
  NoLine = NoLine
  NoBuffer = NoBuffer
  Streams = {"file", "stdout"}
CHECK_DEADLOCK FALSE
INVARIANTS
  LinesKept
  LinesInOrder
  SlotsExclusive
  DrainComplete
  LinesFiled
PROPERTIES
  LinesPopped
