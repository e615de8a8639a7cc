SPECIFICATION SmokeSpec
CONSTANTS
  a = a
  b = b
  c = c
  SOF = SOF
  ESC = ESC
  EOF = EOF
  PlainByte <- Plain
  Payload <- Payloads
  MaxLost = 1
  max_attempts = 2
  MaxHostFaults = 1
  MaxHostDrops = 1
  MaxPeerRequests = 1
  MaxPairingFailures = 1
  SteadyQuantum = TRUE
INVARIANTS
  BootInvariant
  ChainInvariant
  BridgeSetUpFrozen
  NeverFrozen
  OneEmulationAtATime
  OkIsEarned
  FramesAreReal
  AnswersMatchRequests
PROPERTIES
  RunEnds
CHECK_DEADLOCK FALSE
