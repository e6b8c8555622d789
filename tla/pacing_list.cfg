SPECIFICATION PacingSpec
CONSTANTS
  t0 = t0
  NumFlows = 1
  Threads = {t0}
  FlowOf <- OneFlowOf
  TputFlows = {}
  ReadFlows = {}
  SmallChunk = 1
  DefaultChunk = 3
  BatchOps = 1
  MaxToken = 5
  Caps = {1}
  Calls <- ShortThenLong
  OverdraftCap = 6
INVARIANTS
  PacedAtLinkRate
