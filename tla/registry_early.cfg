SPECIFICATION SafeSpec
CONSTANTS
  p0 = p0
  p1 = p1
  p2 = p2
  a = a
  b = b
  None = None
  Procs = {p0, p1}
  Hosts = {a}
  HostOf <- OneHost
  ClassesOf <- TputAndBw
  MaxFlows = 2
  CountMod = 16
  MaxQPs <- OnceEach
  EarlyExit = {p0, p1}
  Crashes = {}
INVARIANTS
  SmallAreLatencyFlows
CHECK_DEADLOCK FALSE
