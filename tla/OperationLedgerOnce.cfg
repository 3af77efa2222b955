SPECIFICATION LedgerSpec
CONSTANTS
  Op = {1}
  Attempt = {1, 2}
  Never = Never
  Ttl = 2
  Cap = 2
INVARIANTS
  ActsOnce
CHECK_DEADLOCK FALSE
