SPECIFICATION BuildSpec
CONSTANTS
  nano = nano
  nano__zmk = nano__zmk
  nano_zmk = nano_zmk
  left = left
  right = right
  fw = fw
  suffix = suffix
  NoWord = NoWord
  Word <- Words
  Clean <- Cleaned
  Scenario <- Scenarios
  Job = {1, 2, 3}
  MaxLines = 1
  MaxBroken = 1
INVARIANTS
  BuildInvariant
  OwnBuildDir
  LogsAreWhole
  SuccessIsEarned
  BuildExitIsHonest
PROPERTIES
  BuildEnds
CHECK_DEADLOCK FALSE
