SPECIFICATION Spec
CONSTANTS
  Op = {o1, o2}
  Port = {p1, p2}
  None = None
  MaxEvents = 1
INVARIANTS
  RulesAreOwned
CHECK_DEADLOCK FALSE
