SPECIFICATION RpcClientSpec
CONSTANTS
  a = a
  b = b
  c = c
  SOF = SOF
  ESC = ESC
  EOF = EOF
  PlainByte <- Plain
  Payload <- Payloads
  MaxLost = 1
INVARIANTS
  BurstDelivered
CHECK_DEADLOCK FALSE
