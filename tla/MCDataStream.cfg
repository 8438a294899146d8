SPECIFICATION DsSpec
CONSTANTS numdatasegments = 7
          maxsendspersegment = 6
          Jobs <- PassingJobs
          segmentunits = 4
          sendunits = 2
          FLAGS_PER_INT = 1
INVARIANTS SegTypeOK NoOverwrite NoWaitCycle RightData SentIfRead
PROPERTY DsEnds
