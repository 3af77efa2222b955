SPECIFICATION MarketSpec
CONSTANTS
  Order = {i1, i2}
  Size = 2
  Attempts = 2
  MaxInodes = 8
  MaxNoise = 0
  MaxQuits = 0
INVARIANTS
  NeverPushesUnverified
CHECK_DEADLOCK FALSE
