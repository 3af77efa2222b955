SPECIFICATION DesktopSpec
CONSTANTS
  Never = Never
  NoTimeout = Never
  Grace = 1
  HardCap = 2
  MaxTime = 4
  MaxLines = 2
  Timeouts <- mcTimeouts
  Task = {t1, t2}
  MaxCrashes = 1
  MaxFailures = 1
  Cmd = {1, 2}
  Boot = 3
  MaxVersion = 4
  Broken = {1, 4}
  MaxHalts = 1
  MaxFaults = 1
  HostCall = {k1, k2}
  Manager = manager
  NoActor = none
  MaxHandles = 2
  MaxChildren = 3
  MaxTroubles = 1
  Order = {i1, i2}
  Size = 2
  Attempts = 2
  MaxInodes = 8
  MaxNoise = 2
  MaxQuits = 1
  new = new
  wrong = wrong
  Old = Old
  NoBinary = NoBinary
  Caller = {c1, c2}
  Artifact <- mcBoth
  Mislabelled <- mcWrong
  MaxAdbFailures = 2
  MaxDeaths = 1
  Export = {x1, x2, x3}
  Split = {x1, x2}
  MaxSuffix = 1
  NoFile = none
INVARIANTS
  ToldIsPersisted
  OpenRowHasWorker
  KeepsACopy
  CodeOutlivesCalls
  NoOrphan
  DeliversVerified
  KnownGoodKept
  SavedStays
PROPERTIES
  GraceBeforeKill
  CancelEnds
  ContractSpec
  FinalStatusStays
  TaskSettles
  CommandsEnd
  UnloadEnds
  ConnectEnds
CHECK_DEADLOCK FALSE
