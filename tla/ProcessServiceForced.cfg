SPECIFICATION ProcessFairSpec
CONSTANTS
  Never = Never
  NoTimeout = Never
  Grace = 1
  HardCap = 2
  MaxTime = 3
  MaxLines = 1
  Timeouts <- mcTimeouts
PROPERTIES
  ForcedAfterGrace
CHECK_DEADLOCK FALSE
