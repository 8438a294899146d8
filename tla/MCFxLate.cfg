SPECIFICATION FairFxSpec
CONSTANTS
  VisBufferLength = 4
  NumCores = 3
  RingLength = 4
  Skew = 20
  Interruptible = FALSE
  Second = 2
  NumScans = 3
  ScanStart <- ThreeStarts
  ScanDuration <- ThreeDurations
  ScanConfig <- ThreeConfigs
  IntTime <- OneSubint
  SubintNS <- TwoTicks
  StartNS = 0
  ExecuteSeconds = 16
INVARIANTS
  NoRace
  NoDeadlock
  AdvanceStops
  WindowBound
  InOrder
  Accounted
PROPERTIES
  Terminates
