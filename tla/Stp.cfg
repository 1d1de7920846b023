SPECIFICATION FairSpec
CONSTANTS
  SeqSize = 3
  WinSize = 2
  RetryLimit = 2
  LoopLimit = 1
  MaxRetryOps = 1
  HostData = 4
  FwData = 1
  MaxData <- MCMaxData
  MaxWire = 1
  MaxFaults = 1
  HostDrops = 1
  FwDrops = 0
  MaxDrops <- MCMaxDrops
  MaxRestarts = 1
INVARIANTS
  TypeOK
  WindowExact
  RetryArmed
  LossSurvived
PROPERTIES
  ImplementsStream
  Progress
CHECK_DEADLOCK FALSE
