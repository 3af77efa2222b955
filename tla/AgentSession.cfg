SPECIFICATION FairSpec
CONSTANTS
  Op = {o1, o2, o3}
  Port = {p1, p2}
  None = None
  MaxEvents = 1
INVARIANTS
  ConsistentWhenSettled
  RulesAreAccounted
  NoRevival
PROPERTIES
  ReconnectSparesHealthy
  OperationsEnd
CHECK_DEADLOCK FALSE
