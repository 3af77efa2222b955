SPECIFICATION DeviceSpec
CONSTANTS
  write = write
  write2 = write2
  read = read
  Req <- mcReq
  Mutating <- mcMutating
  Legacy <- mcLegacy
  TooLarge <- mcTooLarge
  Proc = {1, 2}
  PidOf <- mcPidOf
  Stranger = {}
  RootOwned = {}
  Dim = {1}
  Handle = {1, 2}
  NoRun = none
  MaxRecords = 1
  MaxKills = 1
  Lists = {l1}
  Exports = {e1}
  Nothing = none
  ProbeTtl = 2
  TokenTtl = 3
  MaxDisturbances = 3
  Replacement = {r1, r2}
  Original = original
  Nowhere = nowhere
  Torn = torn
  MaxMishaps = 2
  FridaOp = {1, 3}
  Outsider = 2
  portA = portA
  FridaPort = {portA, portB}
  MaxUpsets = 1
INVARIANTS
  LeavesNothingHalfUp
  TableTellsTruth
  ToldIsOnRecord
  OriginalIsKept
PROPERTIES
  LossIsReported
  CallSpec
  StopStrikesItsOwn
  HealthyModuleIsUsed
  AnswerIsTrue
CHECK_DEADLOCK FALSE
