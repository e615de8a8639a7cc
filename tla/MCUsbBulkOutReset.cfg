SPECIFICATION Spec
CONSTANTS
  e1 = e1
  e2 = e2
  Endpoint = {e1, e2}
  NoEndpoint = NoEndpoint
  MaxPacket = 2
  MaxWrite = 3
  MaxBytes <- Bytes
  MaxDrops = 0
  MaxResets = 1
INVARIANTS
  SizeIsPending
CHECK_DEADLOCK FALSE
