SPECIFICATION FairSpec
CONSTANTS
  Device = {d1}
  Task = {k1, k2}
  User = {u1}
  Nobody = Nobody
  Grace = 1
  Margin = 1
  MaxFlaps = 2
PROPERTIES
  SessionFollowsDevice
  OrphanIsTakenOver
CHECK_DEADLOCK FALSE
