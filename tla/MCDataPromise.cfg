SPECIFICATION DsSpec
CONSTANTS numdatasegments = 6
          maxsendspersegment = 6
          Jobs <- FailingJobs
          segmentunits = 4
          sendunits = 2
          FLAGS_PER_INT = 1
INVARIANT DataAsPromised
