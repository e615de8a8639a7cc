SPECIFICATION ChainSpec
CONSTANTS
  MaxHostFaults = 1
  MaxHostDrops = 1
  MaxPeerRequests = 1
  MaxPairingFailures = 1
  SteadyQuantum = FALSE
INVARIANTS
  ChainInOrder
CHECK_DEADLOCK FALSE
