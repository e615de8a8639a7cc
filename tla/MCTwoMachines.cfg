SPECIFICATION Spec
CONSTANTS
  central = central
  peripheral = peripheral
  Machine = {central, peripheral}
  NvmcMachine = {central, peripheral}
  first = central
  plain = plain
  scratch = scratch
  node = node
  Buffer = {plain, scratch, node}
  Null = Null
  MaxByte = 9
  BufferSize = 13
  PageSize = 2
  Pages = 2
  Blank = 0
  Value = {0, 1, 2, 3, 4}
  MaxVersions = 4
  Payloads <- Lists
INVARIANTS
  PdusArriveIntact
  MachinesInvariant
CHECK_DEADLOCK FALSE
