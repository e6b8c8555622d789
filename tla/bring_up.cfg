SPECIFICATION HandshakeSpec
CONSTANTS
  c0 = c0
  c1 = c1
  c2 = c2
  c3 = c3
  Clients = {c0, c1, c2, c3}
  NumSlots = 2
  Backlog = 1
  MaxKills = 1
  None = None
INVARIANTS HandshakeTypeOK AgreedBeforeReady ReadyOrComing NoSlotWasted
PROPERTIES HandshakeEnds ServerMovesOn
CHECK_DEADLOCK FALSE
