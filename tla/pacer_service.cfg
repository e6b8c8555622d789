SPECIFICATION Spec
CONSTANTS
  t0 = t0
  t1 = t1
  t2 = t2
  NumFlows = 2
  Threads = {t0, t1}
  FlowOf <- TwoFlowOf
  TputFlows = {1}
  ReadFlows = {}
  SmallChunk = 1
  DefaultChunk = 2
  BatchOps = 2
  MaxToken = 5
  Caps = {1}
  Calls <- OneOrCut
INVARIANTS
  TypeOK
  DebitBounds
  TokenBound
  OneTokenPerRelease
  BoundedBypass
  NoWastedToken
PROPERTIES
  Service
  Served
  ServiceSafe
