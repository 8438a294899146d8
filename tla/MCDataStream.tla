---------------------------- MODULE MCDataStream ----------------------------
(* Small jobs for DataStream.tla. *)
EXTENDS DataStream, SequencesExt

\* The subints the manager asks for: all of every correlated scan.
SubintsOf(scans) ==
  FlattenSeq([s \in DOMAIN scans |->
    [k \in 1 .. IF scans[s].correlated THEN scans[s].dur \div sendunits ELSE 0 |->
      [scan |-> s, offset |-> (k - 1) * sendunits]]])

Scan(start, dur) == [start |-> start, dur |-> dur, correlated |-> TRUE]
Skipped(start, dur) == [start |-> start, dur |-> dur, correlated |-> FALSE]
File(from, to) == [from |-> from, to |-> to]

JobOf(format, delay, scans, files) ==
  [format |-> format, delay |-> delay, scans |-> scans, files |-> files,
   subints |-> SubintsOf(scans)]

\* More than once round the ring; data that begins late and goes on after a gap
\* in another file, subints over two segments, a scan that is not correlated.
LongJob(delay) ==
  JobOf("lba", delay, <<Scan(0, 24), Skipped(24, 4), Scan(28, 12)>>,
        <<File(7, 22), File(28, 40)>>)

\* Data begins so late that a segment is full of invalid subints; then two files
\* without a gap.
LateJob(delay) ==
  JobOf("lba", delay, <<Scan(0, 32)>>, <<File(16, 24), File(24, 24), File(24, 32)>>)

\* A file that fills the ring, and one more.
TwoFiles ==
  LET ring == numdatasegments * segmentunits
  IN JobOf("lba", 0, <<Scan(0, ring + 12)>>, <<File(0, ring), File(ring, ring + 12)>>)
TwoFilesOnly == {TwoFiles}

\* So little data that the reader never comes to segment 2, or none at all.
TinyJob == JobOf("lba", 0, <<Scan(0, 8)>>, <<File(4, 7)>>)
EmptyJob == JobOf("lba", 0, <<Scan(0, 8)>>, <<File(0, 0)>>)

\* The data begins in the second scan, when subints of the first are asked for.
SecondJob == JobOf("lba", 0, <<Scan(0, 6), Scan(6, 14)>>, <<File(8, 20)>>)

\* The marks at the end of jobs that fit into the ring: data that goes on to the
\* end, or stops before it, and a last scan that is not correlated.
MarkedJob(delay) ==
  JobOf("mark5b", delay, <<Scan(0, 8), Skipped(8, 4), Scan(12, 8)>>,
        <<File(0, 10), File(12, 20)>>)
CutJob == JobOf("mark5b", 0, <<Scan(0, 20)>>, <<File(0, 15)>>)
TrailingJob == JobOf("lba", 0, <<Scan(0, 8), Skipped(8, 8)>>, <<File(0, 12)>>)

PassingJobs == {LongJob(1), LongJob(-1), LateJob(1), LateJob(0),
                TwoFiles,
                TinyJob, EmptyJob, SecondJob, MarkedJob(1), MarkedJob(0), CutJob,
                TrailingJob}

\* As LongJob, but the segment that was in the place after the last one is
\* labelled with the time, in its own scan, that the next one would have.
StaleJob ==
  JobOf("lba", -1, <<Scan(0, 24), Skipped(24, 4), Scan(28, 12)>>,
        <<File(8, 22), File(28, 40)>>)

\* The last segment of the first file has less than a subint of data.
ShortJob == JobOf("lba", 0, <<Scan(0, 20)>>, <<File(0, 9), File(9, 20)>>)

\* So does the second segment.
EmptyThirdJob == JobOf("lba", 0, <<Scan(0, 16)>>, <<File(0, 5), File(5, 16)>>)

\* The main thread has sent nothing from the segments it passed last, so that the
\* ring is full, up to the segment it is at, when the reader marks the end.
FullJob ==
  JobOf("mark5b", 0, <<Scan(0, 8), Skipped(8, 16), Scan(24, 24)>>, <<File(0, 48)>>)

FailingJobs == {StaleJob, ShortJob, EmptyThirdJob, FullJob}
ThirdOnly == {EmptyThirdJob}
ShortOnly == {ShortJob}
StaleOnly == {StaleJob}
FullOnly == {FullJob}

\* The parts a Core was told to be valid are right, and what was read is sent.
DataAsPromised == RightData /\ SentIfRead
=============================================================================
