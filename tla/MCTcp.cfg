SPECIFICATION Spec
CONSTANTS
  EnvLimit <- MCEnvLimit
  DefaultLimit = 1
  MemPlaces = 1
  MaxIds = 3
  MaxCopies = 2
  Lengths <- MCLengths
  SndBuf = 2
  MaxWrites = 2
INVARIANTS TypeOK AddressesFindTheirOwner PeerReceivesInOrder
PROPERTIES ImplementsResources WritesOnlyWaitForRoom
CHECK_DEADLOCK FALSE
