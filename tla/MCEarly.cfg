SPECIFICATION Spec
CONSTANT Jobs <- EarlyJobs
INVARIANT NeverEarly
CHECK_DEADLOCK FALSE
