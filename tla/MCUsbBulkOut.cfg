SPECIFICATION FairSpec
CONSTANTS
  e1 = e1
  e2 = e2
  Endpoint = {e1, e2}
  NoEndpoint = NoEndpoint
  MaxPacket = 2
  MaxWrite = 3
  MaxBytes <- Bytes
  MaxDrops = 1
  MaxResets = 1
INVARIANTS
  PresentedChunkIsKnown
  PresentedSizeExact
  DmaAnswered
PROPERTIES
  BulkOutIsPipe
  EverythingFetched
CHECK_DEADLOCK FALSE
