SPECIFICATION Spec
CONSTANTS
  NumClients = 2
  Updates <- OnlyBig
  MaxUpdates = 2
  None = None
  CountMod = 8
PROPERTIES
  EveryoneInformed
