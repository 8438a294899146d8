SPECIFICATION DsSpec
CONSTANTS numdatasegments = 5
          maxsendspersegment = 6
          Jobs <- TwoFilesOnly
          segmentunits = 4
          sendunits = 2
          FLAGS_PER_INT = 1
INVARIANT NoWaitCycle
