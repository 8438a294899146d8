SPECIFICATION FairSpec
CONSTANTS
  RECEIVE_RING_LENGTH = 4
  NumThreads = 3
  MaxSubints = 8
INVARIANTS
  CoreTypeOK
  SlotsExclusive
  NeverStale
  AllAnswered
PROPERTIES
  IsWorker
  AnswersWhenFull
  CoreEnds
CHECK_DEADLOCK FALSE
