SPECIFICATION Spec
CONSTANTS
  a = a
  b = b
  SOF = SOF
  ESC = ESC
  EOF = EOF
  PlainByte <- Plain
  Response <- Responses
  Notification <- Unasked
  FrameBuf = 2
  MaxIndication = 3
  MaxNotifications = 1
  MaxDisconnects = 2
  MaxFaults = 2
INVARIANTS
  StudioInvariant
  RequestsInOrder
  FramesAsSent
  AnnouncedWhenComplete
PROPERTIES
  EveryRequestWritten
CHECK_DEADLOCK FALSE
