SPECIFICATION FxSpec
CONSTANTS
  VisBufferLength = 4
  NumCores = 3
  RingLength = 2
  Skew = 20
  Interruptible = FALSE
  Second = 2
  NumScans = 2
  ScanStart <- TwoStarts
  ScanDuration <- TwoDurations
  ScanConfig <- TwoConfigs
  IntTime <- Halved
  SubintNS <- BothTwoTicks
  StartNS = 0
  ExecuteSeconds = 16
INVARIANTS
  RightIntegration
