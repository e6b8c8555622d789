SPECIFICATION Spec
CONSTANTS
  q0 = q0
  q1 = q1
  None = None
  QPs = {q0, q1}
  SqSize = 4
  SqSpare = 2
  IndexMod = 16
  WqeMod = 8
  Start = 14
  SrqSize = 4
  RecvMod = 4
  CqSizes = {2, 4, 8}
  FirstSize = 4
  CqMod = 16
  CqStart = 14
  MaxPosts = 3
  MaxDestroys = 1
  MaxResizes = 1
  MaxErrors = 1
INVARIANTS
  TypeOK
  OwnerBitsTell
  NoOverrun
  SharedEntriesAccounted
  SendEntriesIntact
PROPERTIES
  PollsInOrder
SYMMETRY Alike
CHECK_DEADLOCK FALSE
