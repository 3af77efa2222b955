SPECIFICATION ServerSpec
CONSTANTS
  Op = {1, 2}
  c1 = c1
  c2 = c2
  Attempt = {1, 2, 3}
  Carrier <- mcCarrier
  Never = Never
  Ttl = 1
  Cap = 1
  Conn <- mcConn
  Grace = 2
  NotEmpty = NotEmpty
  MaxStarts = 1
  r1 = r1
  r2 = r2
  p1 = p1
  p2 = p2
  Call = {r1, r2}
  Outsider = outsider
  NoOne = none
  Phone = {p1, p2}
  MaxUpsets = 1
INVARIANTS
  RetryIsReplayed
  DecidesAfterWholeGrace
  ReportIsItsOwn
PROPERTIES
  IdleAgentLeaves
CHECK_DEADLOCK FALSE
