SPECIFICATION SafeSpec
CONSTANTS
  NumClients = 2
  Updates <- IncAndDec
  MaxUpdates = 2
  None = None
  CountMod = 4
INVARIANTS
  TypeOK
  CountsAccountForUpdates
  OneCompletionEach
  BoundedStaleness
