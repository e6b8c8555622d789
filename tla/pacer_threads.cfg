SPECIFICATION Spec
CONSTANTS
  t0 = t0
  t1 = t1
  t2 = t2
  NumFlows = 2
  Threads = {t0, t1, t2}
  FlowOf <- SharedFlowOf
  TputFlows = {}
  ReadFlows = {1}
  SmallChunk = 1
  DefaultChunk = 1
  BatchOps = 1
  MaxToken = 5
  Caps = {1}
  Calls <- OneWR
INVARIANTS
  NoWastedToken
PROPERTIES
  FlowServed
