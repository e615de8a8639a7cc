SPECIFICATION FairSpec
CONSTANTS
  ChannelCount = 2
  MaxChunks = 2
  MaxHostBytes = 2
  MaxPacket = 4
  MaxStalls = 1
  NoRequest = NoRequest
  Request <- MCRequest
  PayloadLength <- MCPayloadLength
  ResponseChunks <- MCResponseChunks
  Descriptors <- MCDescriptors
INVARIANTS
  BridgeInvariant
  AnswerBelongsToRequest
  ChainNotOrphaned
  ArmedExactlyOnce
  HostBytesConserved
PROPERTIES
  PumpIsPipe
  EnumerationEnds
  EverythingDelivered
  HostBytesArrive
CHECK_DEADLOCK FALSE
