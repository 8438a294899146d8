SPECIFICATION FairFxSpec
CONSTANTS
  VisBufferLength = 6
  NumCores = 2
  RingLength = 2
  Skew = 2
  Interruptible = TRUE
  Second = 2
  NumScans = 3
  ScanStart <- LongStarts
  ScanDuration <- LongDurations
  ScanConfig <- ThreeConfigs
  IntTime <- TwoSubints
  SubintNS <- TwoTicks
  StartNS = 0
  ExecuteSeconds = 28
INVARIANTS
  FxTypeOK
  LabelIsResult
  NothingLost
  WholeIntegrations
PROPERTIES
  AddsLocked
  KeepsPromise
  Terminates
