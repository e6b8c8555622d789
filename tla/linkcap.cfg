SPECIFICATION CapSpec
CONSTANTS
  a = a
  b = b
  p = p
  q = q
  Hosts = {a, b}
  Apps = {p, q}
  HostOf <- OneEach
  LineRate = 3
  CountMod = 8
  MaxStarts = 2
  Garbage = {0, 4}
INVARIANTS
  CapTypeOK
  LinkStaysOpen
  FloorsFit
PROPERTIES
  GetsLineBack
