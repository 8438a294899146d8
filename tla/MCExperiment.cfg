SPECIFICATION FairExpSpec
CONSTANTS
  NumBatches = 2
  NGRP = 2
  NumTasks = 2
  Integrations = 2
  PARALLEL = 1
  GROUP_JOBS = 2
  PURGE = TRUE
  MaxScripts = 1
  MaxRuns = 3
  MaxFaults = 1
  NoFile = NoFile
INVARIANTS
  ExpTypeOK
  XReadsWhole
  FengineBounded
  DoneIsWhole
  SwinInOrder
  SwinWhole
PROPERTIES
  RunEnds
CHECK_DEADLOCK FALSE
