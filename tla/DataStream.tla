----------------------------- MODULE DataStream -----------------------------
(***************************************************************************)
(* A DataStream: the ring of SegmentRing.tla with data in it.  The reader  *)
(* fills the segments from the files of the job and labels each with a     *)
(* scan and a time; the main thread finds the data of a subint by these    *)
(* labels, and tells the Core which parts of what it sends are valid.      *)
(*                                                                         *)
(* The unit of time and of data is the one of a validity flag ("block").   *)
(* Data is the time it was recorded at.  Times in labels are relative to   *)
(* their scan, as in the code; those of files and of data are not.         *)
(*                                                                         *)
(* A job has the fields                                                    *)
(*   scans    start, dur(ation), and whether it is correlated (has a       *)
(*            configuration; there is only one)                            *)
(*   files    from, to; the header of a file with from = to is bad         *)
(*   subints  what the manager asks for: scan and offset in it             *)
(*   delay    of this antenna, the same at all times                       *)
(*   format   "lba" for the base class, "mark5b" for a file of Mark5B,     *)
(*            where diskToMemory and loopfileread are others               *)
(***************************************************************************)
EXTENDS SegmentRing, Sequences, FiniteSets

CONSTANTS Jobs,
          segmentunits,   \* readbytes
          sendunits,      \* blockspersend: one subint
          FLAGS_PER_INT

ASSUME DataAssumption ==
  /\ segmentunits \in Nat /\ sendunits \in 1 .. segmentunits
  /\ FLAGS_PER_INT \in Nat \ {0}

\* What the job description says, as it is read.
ASSUME JobsAssumption ==
  \A j \in Jobs :
    /\ j.format \in {"lba", "mark5b"} /\ j.delay \in Int
    /\ j.scans \in Seq([start : Int, dur : Nat, correlated : BOOLEAN])
    /\ j.scans # <<>>
    /\ j.files \in Seq([from : Int, to : Int])
    /\ j.subints \in Seq([scan : DOMAIN j.scans, offset : Int])

VARIABLES
  job,
  filesread, readscan, readtime,  \* of the reader
  bufferinfo,      \* label of each segment, and its validbytes
  databuffer,
  subint,          \* number of subints asked for so far
  promised,        \* places and times of the valid parts being sent
  stored, lost     \* history: parts read, and parts of invalid subints

reading == <<filesread, readscan, readtime, bufferinfo, databuffer, stored>>
sending == <<subint, promised, lost>>
dsvars == <<segvars, job, reading, sending>>

Torn == -1
Places(i) == i * segmentunits .. (i + 1) * segmentunits - 1
Lesser(a, b) == IF a < b THEN a ELSE b

NumScans == Len(job.scans)
ScanEnd(s) == job.scans[s].start + job.scans[s].dur
NoScan == NumScans + 1

\* The first scan from s on that is correlated.
Correlated(s) ==
  LET later == {r \in s .. NumScans : job.scans[r].correlated}
  IN IF later = {} THEN NoScan ELSE CHOOSE r \in later : \A q \in later : r <= q

DsInit ==
  /\ SegInit
  /\ job \in Jobs
  /\ filesread = 0 /\ readscan = Correlated(1) /\ readtime = 0
  /\ bufferinfo = [i \in Segments |-> [scan |-> readscan, time |-> 0, valid |-> 0]]
  /\ databuffer = [p \in UNION {Places(i) : i \in Segments} |-> Torn]
  /\ subint = 0
  /\ promised = [i \in Segments |-> {}]
  /\ stored = {} /\ lost = {}

-----------------------------------------------------------------------------
(* The reader: openfile, initialiseFile, diskToMemory *)

dataremaining == filesread > 0 /\ readtime < job.files[filesread].to

\* The files openfile finds, from the next one on, that have data.
GoodFiles == {f \in filesread + 1 .. Len(job.files) :
                job.files[f].from < job.files[f].to}
NextGoodFile == CHOOSE f \in GoodFiles : \A g \in GoodFiles : f <= g

\* initialiseFile of the base class looks for the scan of the header's time.
ScanOfHeader(s, t) ==
  LET up == CHOOSE r \in s .. NumScans :
              /\ r = NumScans \/ ScanEnd(r) >= t
              /\ \A q \in s .. r - 1 : ScanEnd(q) < t
  IN CHOOSE r \in 1 .. up :
       /\ r = 1 \/ job.scans[r].start <= t
       /\ \A q \in r + 1 .. up : job.scans[q].start > t

OpenFile(f, s) ==
  /\ filesread' = f
  /\ readtime' = job.files[f].from
  /\ readscan' = IF job.format = "lba" /\ job.files[f].from < job.files[f].to
                 THEN ScanOfHeader(s, readtime') ELSE s

\* Only the base class waits with the unlock of the segment before.
Held == job.format = "lba"

OpenFirst ==
  /\ IF GoodFiles # {}
     THEN Open(TRUE, Held) /\ OpenFile(NextGoodFile, readscan)
     ELSE Open(FALSE, Held) /\ UNCHANGED <<filesread, readtime, readscan>>
  /\ UNCHANGED <<job, bufferinfo, databuffer, stored, sending>>

\* waitForBuffer labels the segment; from here on its data is being replaced.
Label ==
  /\ WaitForBuffer
  /\ bufferinfo' = [bufferinfo EXCEPT
       ![buffersegment].scan = readscan,
       ![buffersegment].time = readtime - job.scans[readscan].start]
  /\ databuffer' = [p \in DOMAIN databuffer |->
       IF p \in Places(buffersegment) THEN Torn ELSE databuffer[p]]
  /\ UNCHANGED <<job, filesread, readscan, readtime, stored, sending>>

\* What input.read finds.
Got == IF dataremaining
       THEN Lesser(segmentunits, job.files[filesread].to - readtime) ELSE 0

ScanIsOver ==
  readtime + segmentunits - job.scans[readscan].start >= job.scans[readscan].dur

\* The base class goes on to the next scan whatever it is, the others to the
\* next that is correlated; NoScan means that keepreading becomes false.
ScanAfterRead == CASE ~ScanIsOver -> readscan
                   [] ScanIsOver /\ job.format = "lba" -> readscan + 1
                   [] OTHER -> Correlated(readscan + 1)

\* The end of the job, as the label of the segment that would be next.
EndMark(infos) ==
  [infos EXCEPT ![After(lastvalidsegment, 1)].scan = NumScans,
                ![After(lastvalidsegment, 1)].time = job.scans[NumScans].dur]

\* diskToMemory "copies some data into the previous segment to make sure it
\* stays contiguous": from behind as many bytes as that has, to its beginning.
CopyBack(buffer) ==
  LET last == bufferinfo[Previous(buffersegment)]
      this == bufferinfo[buffersegment]
      into == Previous(buffersegment) * segmentunits
      bytestocopy == Lesser(Lesser(segmentunits - last.valid, sendunits), Got)
      fits == /\ numread > 0 /\ last.valid < sendunits
              /\ this.scan = last.scan /\ this.time = last.time + last.valid
  IN IF ~fits \/ job.format # "lba" THEN buffer
     ELSE [p \in DOMAIN buffer |->
             IF p \in into .. into + bytestocopy - 1
             THEN buffer[p - into + buffersegment * segmentunits + last.valid]
             ELSE buffer[p]]

\* The rest of diskToMemory; "next" is the action of the ring.
Fill(next) ==
  LET filled == [bufferinfo EXCEPT ![buffersegment].valid = Got]
      marked == IF ScanAfterRead = NoScan /\ job.format = "mark5b"
                THEN EndMark(filled) ELSE filled
  IN /\ next
     \* loopfileread of Mark5B changes the mark once more
     /\ bufferinfo' = IF job.format = "mark5b" /\ numread = 3 /\ ~keepreading'
                      THEN [marked EXCEPT ![After(lastvalidsegment, 1)].time =
                              ScanEnd(NumScans) - job.scans[1].start]
                      ELSE marked
     /\ databuffer' = CopyBack([p \in DOMAIN databuffer |->
          IF p \in Places(buffersegment)
          THEN LET t == readtime + p - buffersegment * segmentunits
               IN IF t < readtime + Got THEN t ELSE Torn
          ELSE databuffer[p]])
     /\ stored' = stored \cup {<<readscan, readtime + k>> : k \in 0 .. Got - 1}
     /\ UNCHANGED <<job, sending>>

StaysInFile ==
  /\ readtime' = readtime + segmentunits
  /\ readscan' = Lesser(ScanAfterRead, NumScans)
  /\ UNCHANGED filesread

\* The base class looks for more data after the first segment only; if there is
\* none, it does not read the second.
FillFirst ==
  LET keep == ScanAfterRead # NoScan
      empty == readtime + segmentunits >= job.files[filesread].to
      opens == job.format = "lba" /\ numread = 0 /\ keep /\ empty
  IN /\ rpc = "read" /\ numread < 2
     /\ IF opens /\ GoodFiles # {}
        THEN OpenFile(NextGoodFile, Lesser(ScanAfterRead, NumScans))
        ELSE StaysInFile
     /\ LET more == keep /\ (opens => GoodFiles # {})
        IN Fill(FinishFirst(more, job.format = "lba" /\ numread = 0 /\ ~more,
                            isnewfile))

FillNext ==
  /\ rpc = "read" /\ numread >= 2
  /\ Fill(FinishRead(ScanAfterRead # NoScan))
  /\ StaysInFile

GoOnReading ==
  /\ dataremaining
  /\ NextSegment
  /\ UNCHANGED <<job, reading, sending>>

\* The base class first passes over scans that are not correlated.
GoToNextFile ==
  LET s == IF job.format = "lba" THEN Correlated(readscan) ELSE readscan
      f == filesread + 1
  IN /\ rpc = "loop" /\ ~dataremaining
     /\ CASE s = NoScan ->
               /\ NextFile(FALSE, isnewfile)
               /\ bufferinfo' = EndMark(bufferinfo)
               /\ UNCHANGED <<filesread, readscan, readtime>>
          [] s # NoScan /\ f > Len(job.files) ->
               /\ NextFile(FALSE, isnewfile)
               /\ bufferinfo' =
                    IF job.format = "lba" THEN bufferinfo
                    ELSE [bufferinfo EXCEPT ![After(lastvalidsegment, 1)].time =
                            ScanEnd(NumScans) - job.scans[1].start]
               /\ readscan' = s
               /\ UNCHANGED <<filesread, readtime>>
          [] OTHER ->
               /\ NextFile(TRUE, isnewfile \/ (Held /\ f \in GoodFiles))
               /\ OpenFile(f, s)
               /\ UNCHANGED bufferinfo
     /\ UNCHANGED <<job, databuffer, stored, sending>>

DsLockFirst == LockFirst /\ UNCHANGED <<job, reading, sending>>

DsReader ==
  \/ OpenFirst \/ Label \/ FillFirst \/ FillNext \/ GoOnReading \/ GoToNextFile
  \/ DsLockFirst
  \/ (Start \/ LockNext \/ Exit) /\ UNCHANGED <<job, reading, sending>>

-----------------------------------------------------------------------------
(* The main thread: calculateControlParams *)

\* The scan and the time in it at which the data of the subint begins.
Wanted == [scan |-> job.subints[subint].scan,
           time |-> job.subints[subint].offset - job.delay]

nsdifference == Wanted.time - bufferinfo[atsegment].time

MutIsPast ==
  \/ Wanted.scan > bufferinfo[atsegment].scan
  \/ /\ Wanted.scan = bufferinfo[atsegment].scan
     /\ nsdifference > bufferinfo[atsegment].valid

\* Does the segment end before the data that is wanted?
IsPast ==
  \/ Wanted.scan > bufferinfo[atsegment].scan
  \/ /\ Wanted.scan = bufferinfo[atsegment].scan
     /\ nsdifference >= bufferinfo[atsegment].valid

MutAvailable ==
  LET this == bufferinfo[atsegment]
      next == bufferinfo[After(atsegment, 1)]
  IN IF this.valid = segmentunits THEN this.valid + next.valid ELSE this.valid

\* The data there is, counted from the beginning of the segment.
Available ==
  LET this == bufferinfo[atsegment]
      next == bufferinfo[After(atsegment, 1)]
  IN IF this.valid = segmentunits /\ next.time - this.time = segmentunits
     THEN this.valid + next.valid ELSE this.valid

\* Blocks before the segment are skipped; then the data starts with it.
count == IF nsdifference < 0 THEN -nsdifference ELSE 0
bufferindex == IF nsdifference < 0 THEN 0 ELSE nsdifference

Flags == {k \in count .. sendunits - 1 : bufferindex + k < Available}

\* Only the flags that fill whole integers are looked at for "somegooddata".
Valid ==
  /\ Wanted.scan = bufferinfo[atsegment].scan
  /\ count <= sendunits
  /\ \/ bufferindex + sendunits <= bufferinfo[atsegment].valid
     \/ bufferindex + sendunits < Available
     \/ \E k \in Flags : k < FLAGS_PER_INT * (sendunits \div FLAGS_PER_INT)

TimeOf(k) == job.scans[Wanted.scan].start + Wanted.time + k

\* What a valid subint promises the Core; the end of the buffer goes on with a
\* copy of its beginning.
Parts ==
  {<<(atsegment * segmentunits + bufferindex + k - count)
       % (numdatasegments * segmentunits), TimeOf(k)>> : k \in Flags}

Send(valid) ==
  /\ Issend
  /\ promised' = IF valid
                 THEN [promised EXCEPT ![atsegment] = @ \cup Parts] ELSE promised
  /\ lost' = IF valid THEN lost
             ELSE lost \cup {<<Wanted.scan, TimeOf(k)>> : k \in 0 .. sendunits - 1}
  /\ UNCHANGED <<job, reading, subint>>

GetSubint ==
  /\ Receive
  /\ subint < Len(job.subints)
  /\ subint' = subint + 1
  /\ UNCHANGED <<job, reading, promised, lost>>

Search ==
  /\ mpc \in {"calculate", "search"}
  /\ CASE mpc = "calculate" /\ Wanted.scan < bufferinfo[atsegment].scan -> ScanOver
       [] mpc = "calculate" /\ Wanted.scan >= bufferinfo[atsegment].scan -> BeginSearch
       [] mpc = "search" /\ IsPast /\ MayAdvance -> GoOn
       [] OTHER -> EndSearch
  /\ UNCHANGED <<job, reading, sending>>

DsMain ==
  \/ GetSubint \/ Search \/ Send(Valid)
  \/ /\ \/ SleepStart \/ WakeStart \/ Started \/ Advance \/ EmptySegment
        \/ Terminate \/ UnlockBoth \/ Join
        \/ \E i \in Segments : FinishSends(i)
     /\ UNCHANGED <<job, reading, sending>>

\* The data of one send has been received, and once there is no other, the
\* segment may be filled again.
Received(i) ==
  /\ Complete(i)
  /\ promised' = IF pending'[i] = 0 THEN [promised EXCEPT ![i] = {}] ELSE promised
  /\ UNCHANGED <<job, reading, subint, lost>>

Ended == mpc = "done" /\ UNCHANGED dsvars

DsNext == DsMain \/ DsReader \/ (\E i \in Segments : Received(i)) \/ Ended

\* Threads run until they block, and the Cores take what is sent to them.  While
\* the main thread waits for the reader to start it leaves the lock of segment 1
\* free for half a second at a time.
DsSpec == /\ DsInit /\ [][DsNext]_dsvars
          /\ WF_dsvars(DsMain) /\ WF_dsvars(DsReader) /\ SF_dsvars(DsLockFirst)
          /\ \A i \in Segments : WF_dsvars(Received(i))

-----------------------------------------------------------------------------
(* Properties *)

\* Whatever a Core is told to be valid is the data recorded at that time, as
\* long as MPI may read it: "now that we obviously have a lock on all the data
\* we need" (calculateControlParams).
RightData ==
  \A i \in Segments : \A part \in promised[i] : databuffer[part[1]] = part[2]

\* A subint is only sent as invalid if there is "bad or no data" for it
\* (execute): nothing of it is ever read.
SentIfRead == lost \cap stored = {}

\* Both threads come to their end, whatever the manager does.
DsEnds == <>(mpc = "done" /\ rpc = "done")
=============================================================================
