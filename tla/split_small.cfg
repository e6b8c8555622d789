SPECIFICATION SafeSpec
CONSTANTS
  a = a
  b = b
  None = None
  Sides = {a, b}
  MinSplit = 2
  Chunks = {1, 2}
  Lengths = {1, 2, 3, 5}
  Batch = 1
  MaxMsgs <- TwoAndOne
  HalfDuplex = TRUE
  First = a
INVARIANTS
  DeliveredWhole
CHECK_DEADLOCK FALSE
