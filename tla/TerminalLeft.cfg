SPECIFICATION Spec
CONSTANTS
  Tab = {t1}
  Max = 1
  Typists = {t1}
  Deaf = {}
  Lingering = {}
  None = None
INVARIANTS
  NothingLeftRunning
CHECK_DEADLOCK FALSE
