SPECIFICATION Spec
CONSTANTS
  p0 = p0
  p1 = p1
  p2 = p2
  a = a
  b = b
  None = None
  Procs = {p0, p1, p2}
  Hosts = {a, b}
  HostOf <- TwoHosts
  ClassesOf <- AllKinds
  MaxFlows = 2
  CountMod = 3
  MaxQPs <- OneTwice
  EarlyExit = {p0, p1}
  Crashes = {p0}
INVARIANTS
  TypeOK
  CountsAgree
  OneSlotPerPid
PROPERTIES
  ReceiverClears
CHECK_DEADLOCK FALSE
