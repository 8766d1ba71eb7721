SPECIFICATION FairSpec
CONSTANTS
  Producers = {p1, p2}
  Lines = 2
  Kinds = {"queue"}
  Size = 2
  RingSize = 2
  Addresses = {b1, b2, b3}
  NoLine = NoLine
  NoBuffer = NoBuffer
CHECK_DEADLOCK FALSE
PROPERTIES
  LinesNotDropped
