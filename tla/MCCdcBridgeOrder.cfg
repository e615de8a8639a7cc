SPECIFICATION Spec
CONSTANTS
  ChannelCount = 2
  MaxChunks = 2
  MaxHostBytes = 2
  MaxPacket = 4
  MaxStalls = 1
  NoRequest = NoRequest
  Request <- MCRequest
  PayloadLength <- MCPayloadLength
  ResponseChunks <- MCResponseChunks
  Descriptors <- MCDescriptors
INVARIANTS
  HostBytesInOrder
CHECK_DEADLOCK FALSE
