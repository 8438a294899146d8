SPECIFICATION Spec
CONSTANT Jobs <- WholeJobs
INVARIANTS
  NeverEarly
  ExpectedIsSent
  SubintsPlaced
CHECK_DEADLOCK FALSE
