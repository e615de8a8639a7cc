SPECIFICATION BsimSpec
CONSTANTS
  p = p
  q = q
  NCases = 3
  NDevices = 3
  Text = {p, q}
  Expected <- SnapshotLines
  MaxLines <- LineBound
INVARIANTS
  BsimInvariant
  VerdictIsTheDevices
  ExitIsHonest
PROPERTIES
  RunnerEnds
CHECK_DEADLOCK FALSE
