SPECIFICATION Spec
CONSTANTS
  a = a
  b = b
  None = None
  Sides = {a, b}
  MinSplit = 2
  Chunks = {2, 3, 5}
  Lengths = {1, 5}
  Batch = 1
  MaxMsgs <- TwoAndOne
  HalfDuplex = TRUE
  First = a
INVARIANTS
  TypeOK
  InPlace
  DeliveredWhole
PROPERTIES
  SenderReturns
  EveryMessageArrives
CHECK_DEADLOCK FALSE
