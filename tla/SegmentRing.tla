---------------------------- MODULE SegmentRing ----------------------------
(***************************************************************************)
(* The ring of data segments of a DataStream (datastream.cpp).  A reader   *)
(* thread fills the segments from files; the main thread, told by the      *)
(* manager, sends stretches of them to the Cores with MPI_Issend, which    *)
(* goes on reading the segment until the Core has taken the data.          *)
(*                                                                         *)
(* Each segment has a mutex bufferlock[i].  The main thread holds the one  *)
(* it sends from, atsegment, and the next; the reader goes round ahead of  *)
(* it, hand over hand.  Behind the main thread lie the segments whose      *)
(* sends may still be under way, the oldest of them waitsegment; no mutex  *)
(* covers those: the reader waits until their numsent is zero.             *)
(*                                                                         *)
(* This module has the locks, the indices and the counts of sends, with    *)
(* every choice that depends on the data left open; DataStream.tla         *)
(* conjoins the data.  A step takes at most one lock, and gives up the one *)
(* the code gives up right after.                                          *)
(*                                                                         *)
(* outstandingsendlock is left out: only the reader ever takes it.  Its    *)
(* waits on readcond and those of the main thread on initcond end after    *)
(* half a second if no signal comes, so they are waits for the condition.  *)
(***************************************************************************)
EXTENDS Integers

CONSTANTS
  numdatasegments,      \* NUM DATA SEGMENTS of the input file
  maxsendspersegment    \* requests there is room for in each segment

\* Configuration::consistencyCheck insists on five segments (line 2745).
ASSUME SegmentsAssumption ==
  /\ numdatasegments \in Nat /\ numdatasegments >= 5
  /\ maxsendspersegment \in Nat /\ maxsendspersegment >= 1

VARIABLES
  bufferlock,
  atsegment, waitsegment,       \* of the main thread
  lastvalidsegment, buffersegment, numread, isnewfile,  \* of the reader
  keepreading, readthreadstarted,
  numsent,      \* requests kept for the segment
  pending,      \* those of them no Core has taken yet
  mpc, rpc      \* where the main thread and the reader are

locks == <<bufferlock>>
places == <<lastvalidsegment, buffersegment, numread, isnewfile>>
sends == <<numsent, pending>>
segvars == <<bufferlock, atsegment, waitsegment, places, keepreading,
             readthreadstarted, sends, mpc, rpc>>

Segments == 0 .. numdatasegments - 1

\* The segment k after i, and how far j is ahead of i, going round.
After(i, k) == (i + k) % numdatasegments
Ahead(i, j) == (j - i + numdatasegments) % numdatasegments

\* Constructor, initialise, and the two locks initialiseMemoryBuffer takes
\* before it creates the reader thread.
SegInit ==
  /\ bufferlock = [i \in Segments |-> IF i \in {0, 1} THEN "main" ELSE "free"]
  /\ atsegment = 0 /\ waitsegment = 0
  /\ lastvalidsegment = 0 /\ buffersegment = 0 /\ numread = 0
  /\ isnewfile = FALSE
  /\ keepreading = TRUE /\ readthreadstarted = FALSE
  /\ numsent = [i \in Segments |-> 0] /\ pending = [i \in Segments |-> 0]
  /\ mpc = "init" /\ rpc = "open"

-----------------------------------------------------------------------------
(* The main thread *)

\* pthread_cond_timedwait gives up the mutex of segment 1 ...
SleepStart ==
  /\ mpc = "init" /\ ~readthreadstarted
  /\ bufferlock' = [bufferlock EXCEPT ![1] = "free"]
  /\ mpc' = "asleep"
  /\ UNCHANGED <<atsegment, waitsegment, places, keepreading, readthreadstarted,
                 sends, rpc>>

\* ... and takes it again, after a signal, half a second, or neither.
WakeStart ==
  /\ mpc = "asleep"
  /\ bufferlock[1] = "free"
  /\ bufferlock' = [bufferlock EXCEPT ![1] = "main"]
  /\ mpc' = "init"
  /\ UNCHANGED <<atsegment, waitsegment, places, keepreading, readthreadstarted,
                 sends, rpc>>

Started ==
  /\ mpc = "init" /\ readthreadstarted
  /\ mpc' = "idle"
  /\ UNCHANGED <<bufferlock, atsegment, waitsegment, places, keepreading,
                 readthreadstarted, sends, rpc>>

\* A command DS_PROCESS of the manager.
Receive ==
  /\ mpc = "idle"
  /\ mpc' = "calculate"
  /\ UNCHANGED <<bufferlock, atsegment, waitsegment, places, keepreading,
                 readthreadstarted, sends, rpc>>

\* calculateControlParams returns at once if the scan asked for is over.
ScanOver ==
  /\ mpc = "calculate"
  /\ mpc' = "send"
  /\ UNCHANGED <<bufferlock, atsegment, waitsegment, places, keepreading,
                 readthreadstarted, sends, rpc>>

MutTestOnly == atsegment \notin {After(waitsegment, numdatasegments - 2)}

\* There is room to go one segment on before the sends of waitsegment are over.
TestOnly == atsegment \notin {After(waitsegment, numdatasegments - 3),
                              After(waitsegment, numdatasegments - 2)}

\* MPI_Testall or, if there is no room, MPI_Waitall on the oldest segment; then
\* goes on with "next".
WaitForSendComplete(next) ==
  /\ mpc' = next
  /\ IF Ahead(waitsegment, atsegment) <= 2
     THEN UNCHANGED <<numsent, waitsegment>>
     ELSE \/ /\ pending[waitsegment] = 0
             /\ numsent' = [numsent EXCEPT ![waitsegment] = 0]
             /\ waitsegment' = After(waitsegment, 1)
          \/ /\ pending[waitsegment] > 0
             /\ TestOnly
             /\ UNCHANGED <<numsent, waitsegment>>
  /\ UNCHANGED <<bufferlock, atsegment, places, keepreading, readthreadstarted,
                 pending, rpc>>

BeginSearch == mpc = "calculate" /\ WaitForSendComplete("search")

MayAdvance == keepreading \/ atsegment # lastvalidsegment

\* The data is in this segment, or nowhere.
EndSearch ==
  /\ mpc = "search"
  /\ mpc' = "send"
  /\ UNCHANGED <<bufferlock, atsegment, waitsegment, places, keepreading,
                 readthreadstarted, sends, rpc>>

\* The data is past this segment: on to the next, ...
GoOn ==
  /\ mpc = "search"
  /\ MayAdvance
  /\ WaitForSendComplete("lock")

\* ... which takes the lock of the one after that, held by the reader as long
\* as there is nothing in it.
Advance ==
  /\ mpc = "lock"
  /\ bufferlock[After(atsegment, 2)] = "free"
  /\ bufferlock' = [bufferlock EXCEPT ![After(atsegment, 2)] = "main",
                                      ![atsegment] = "free"]
  /\ atsegment' = After(atsegment, 1)
  /\ mpc' = "search"
  /\ UNCHANGED <<waitsegment, places, keepreading, readthreadstarted, sends, rpc>>

MutIssend ==
  /\ mpc = "send"
  /\ pending' = [pending EXCEPT ![atsegment] = @ + 1]
  /\ mpc' = "idle"
  /\ UNCHANGED <<bufferlock, atsegment, waitsegment, places, keepreading,
                 readthreadstarted, rpc, numsent>>

\* MPI_Issend of the data and of the control buffer, valid or not.
Issend ==
  /\ mpc = "send"
  /\ numsent' = [numsent EXCEPT ![atsegment] = @ + 1]
  /\ pending' = [pending EXCEPT ![atsegment] = @ + 1]
  /\ mpc' = IF numsent'[atsegment] >= maxsendspersegment THEN "full" ELSE "idle"
  /\ UNCHANGED <<bufferlock, atsegment, waitsegment, places, keepreading,
                 readthreadstarted, rpc>>

\* No room for another request: wait for all of them.
EmptySegment ==
  /\ mpc = "full"
  /\ pending[atsegment] = 0
  /\ numsent' = [numsent EXCEPT ![atsegment] = 0]
  /\ mpc' = "idle"
  /\ UNCHANGED <<bufferlock, atsegment, waitsegment, places, keepreading,
                 readthreadstarted, pending, rpc>>

\* A command DS_TERMINATE of the manager.
Terminate ==
  /\ mpc = "idle"
  /\ keepreading' = FALSE
  /\ mpc' = "finish"
  /\ UNCHANGED <<bufferlock, atsegment, waitsegment, places, readthreadstarted,
                 sends, rpc>>

\* Waits for the sends of segment i, the segments in their order.
FinishSends(i) ==
  /\ mpc = "finish"
  /\ numsent[i] > 0 /\ \A j \in 0 .. i - 1 : numsent[j] = 0
  /\ pending[i] = 0
  /\ numsent' = [numsent EXCEPT ![i] = 0]
  /\ UNCHANGED <<bufferlock, atsegment, waitsegment, places, keepreading,
                 readthreadstarted, pending, mpc, rpc>>

UnlockBoth ==
  /\ mpc = "finish"
  /\ \A i \in Segments : numsent[i] = 0
  /\ bufferlock' = [bufferlock EXCEPT ![atsegment] = "free",
                                      ![After(atsegment, 1)] = "free"]
  /\ mpc' = "join"
  /\ UNCHANGED <<atsegment, waitsegment, places, keepreading, readthreadstarted,
                 sends, rpc>>

Join ==
  /\ mpc = "join" /\ rpc = "done"
  /\ mpc' = "done"
  /\ UNCHANGED <<bufferlock, atsegment, waitsegment, places, keepreading,
                 readthreadstarted, sends, rpc>>

-----------------------------------------------------------------------------
(* The reader thread *)

\* The first file with data in it, or none at all.  "held" says whether the
\* reader keeps the segment before a new file until it has read on.
Open(found, held) ==
  /\ rpc = "open"
  /\ IF found THEN rpc' = "wait" /\ isnewfile' = held /\ UNCHANGED keepreading
              ELSE rpc' = "start" /\ keepreading' = FALSE /\ UNCHANGED isnewfile
  /\ UNCHANGED <<bufferlock, atsegment, waitsegment, lastvalidsegment,
                 buffersegment, numread, readthreadstarted, sends, mpc>>

MutWaitForBuffer ==
  /\ rpc = "wait"
  /\ rpc' = "read"
  /\ UNCHANGED <<bufferlock, atsegment, waitsegment, places, keepreading,
                 readthreadstarted, sends, mpc>>

\* Ensures that all the sends from this segment have been made.
WaitForBuffer ==
  /\ rpc = "wait"
  /\ numsent[buffersegment] = 0
  /\ rpc' = "read"
  /\ UNCHANGED <<bufferlock, atsegment, waitsegment, places, keepreading,
                 readthreadstarted, sends, mpc>>

StopReading(keep) == keepreading' = (keepreading /\ keep)

\* The first two segments, which are read before the main thread starts.  If
\* there is only a tiny bit of data, the second is not read.
FinishFirst(keep, tiny, held) ==
  /\ rpc = "read" /\ numread < 2
  /\ StopReading(keep)
  /\ tiny => ~keep /\ numread = 0
  /\ numread' = numread + 1
  /\ IF numread = 0 /\ ~tiny
     THEN rpc' = "wait" /\ buffersegment' = 1 /\ UNCHANGED lastvalidsegment
     ELSE rpc' = "lockfirst" /\ lastvalidsegment' = numread'
          /\ UNCHANGED buffersegment
  /\ isnewfile' = held
  /\ UNCHANGED <<bufferlock, atsegment, waitsegment, readthreadstarted, sends,
                 mpc>>

LockFirst ==
  /\ rpc = "lockfirst"
  /\ bufferlock[lastvalidsegment] = "free"
  /\ bufferlock' = [bufferlock EXCEPT ![lastvalidsegment] = "reader"]
  /\ rpc' = "start"
  /\ UNCHANGED <<atsegment, waitsegment, places, keepreading, readthreadstarted,
                 sends, mpc>>

\* The main thread may begin, and if there is more, segment 2 is read.
Start ==
  /\ rpc = "start"
  /\ readthreadstarted' = TRUE
  /\ IF keepreading THEN rpc' = "wait" /\ buffersegment' = 2
                    ELSE rpc' = "loop" /\ UNCHANGED buffersegment
  /\ UNCHANGED <<bufferlock, atsegment, waitsegment, lastvalidsegment, numread,
                 isnewfile, keepreading, sends, mpc>>

NextSegment ==
  /\ rpc = "loop" /\ keepreading
  /\ lastvalidsegment' = After(lastvalidsegment, 1)
  /\ rpc' = "lock"
  /\ UNCHANGED <<bufferlock, atsegment, waitsegment, buffersegment, numread,
                 isnewfile, keepreading, readthreadstarted, sends, mpc>>

Previous(i) == After(i, numdatasegments - 1)

\* Hand over hand, except that the segment before a new file is kept.
LockNext ==
  /\ rpc = "lock"
  /\ bufferlock[lastvalidsegment] = "free"
  /\ bufferlock' = [bufferlock EXCEPT
       ![lastvalidsegment] = "reader",
       ![Previous(lastvalidsegment)] = IF isnewfile THEN @ ELSE "free"]
  /\ buffersegment' = lastvalidsegment
  /\ rpc' = "wait"
  /\ UNCHANGED <<atsegment, waitsegment, lastvalidsegment, numread, isnewfile,
                 keepreading, readthreadstarted, sends, mpc>>

\* The third segment, and all that follow it.
FinishRead(keep) ==
  /\ rpc = "read" /\ numread >= 2
  /\ StopReading(keep)
  /\ numread' = 3
  /\ rpc' = "loop"
  /\ IF numread = 3 /\ isnewfile
     THEN bufferlock' = [bufferlock EXCEPT ![Previous(buffersegment)] = "free"]
     ELSE UNCHANGED bufferlock
  /\ isnewfile' = (numread = 2 /\ isnewfile)
  /\ UNCHANGED <<atsegment, waitsegment, lastvalidsegment, buffersegment,
                 readthreadstarted, sends, mpc>>

\* The file is at its end: the next one, or no more.
NextFile(keep, held) ==
  /\ rpc = "loop" /\ keepreading
  /\ StopReading(keep)
  /\ isnewfile' = held
  /\ UNCHANGED <<bufferlock, atsegment, waitsegment, lastvalidsegment,
                 buffersegment, numread, readthreadstarted, sends, mpc, rpc>>

MutExit ==
  /\ rpc = "loop" /\ ~keepreading
  /\ rpc' = "done"
  /\ UNCHANGED <<bufferlock, atsegment, waitsegment, places, keepreading,
                 readthreadstarted, sends, mpc>>

Exit ==
  /\ rpc = "loop" /\ ~keepreading
  /\ bufferlock' = IF numread > 0
                   THEN [bufferlock EXCEPT ![lastvalidsegment] = "free"]
                   ELSE bufferlock
  /\ rpc' = "done"
  /\ UNCHANGED <<atsegment, waitsegment, places, keepreading, readthreadstarted,
                 sends, mpc>>

-----------------------------------------------------------------------------

\* A Core has received the data of one send from segment i.
Complete(i) ==
  /\ pending[i] > 0
  /\ pending' = [pending EXCEPT ![i] = @ - 1]
  /\ UNCHANGED <<bufferlock, atsegment, waitsegment, places, keepreading,
                 readthreadstarted, numsent, mpc, rpc>>

Main ==
  \/ SleepStart \/ WakeStart \/ Started \/ Receive \/ ScanOver \/ BeginSearch
  \/ EndSearch \/ GoOn \/ Advance \/ Issend \/ EmptySegment \/ Terminate
  \/ \E i \in Segments : FinishSends(i)
  \/ UnlockBoth \/ Join

Reader ==
  \/ \E found, held \in BOOLEAN : Open(found, held)
  \/ WaitForBuffer
  \/ \E keep, tiny, held \in BOOLEAN : FinishFirst(keep, tiny, held)
  \/ LockFirst \/ Start \/ NextSegment \/ LockNext
  \/ \E keep \in BOOLEAN : FinishRead(keep)
  \/ \E keep, held \in BOOLEAN : NextFile(keep, held)
  \/ Exit

SegNext == Main \/ Reader \/ \E i \in Segments : Complete(i)

SegSpec == SegInit /\ [][SegNext]_segvars

-----------------------------------------------------------------------------
(* Properties *)

\* Indices stay in the ring, every lock has at most one owner, and requests are
\* kept until their data is taken.
SegTypeOK ==
  /\ bufferlock \in [Segments -> {"free", "main", "reader"}]
  /\ atsegment \in Segments /\ waitsegment \in Segments
  /\ lastvalidsegment \in Segments /\ buffersegment \in Segments
  /\ numread \in 0 .. 3
  /\ isnewfile \in BOOLEAN
  /\ keepreading \in BOOLEAN /\ readthreadstarted \in BOOLEAN
  /\ numsent \in [Segments -> 0 .. maxsendspersegment]
  /\ pending \in [Segments -> 0 .. maxsendspersegment]
  /\ mpc \in {"init", "asleep", "idle", "calculate", "search", "lock", "send",
              "full", "finish", "join", "done"}
  /\ rpc \in {"open", "wait", "read", "lockfirst", "start", "loop", "lock", "done"}

\* The main thread works on its segment and the next.
InUse == IF mpc \in {"init", "asleep", "join", "done"} THEN {}
         ELSE {atsegment, After(atsegment, 1)}

\* The segments the reader writes to: the one it reads into and, while it reads
\* the first of a new file, the one before, which diskToMemory may complete.
Filling == IF rpc # "read" THEN {}
           ELSE {buffersegment}
                \cup IF numread = 3 /\ isnewfile THEN {Previous(buffersegment)}
                     ELSE {}

\* The reader never touches a segment the main thread is working on, nor one
\* whose data MPI may still be sending: that of a send from it, or of one from
\* the segment before, which may extend into it (waitForBuffer).
NoOverwrite ==
  \A i \in Filling :
    /\ i \notin InUse
    /\ pending[i] = 0 /\ pending[Previous(i)] = 0

MainWaitsFor == IF mpc = "lock" THEN {After(atsegment, 2)} ELSE {}

\* The main thread and the reader never wait for each other: while one waits for
\* a lock of the other, that one waits neither for a lock nor for sends that the
\* main thread would have to finish.
NoWaitCycle ==
  \A i \in MainWaitsFor :
    bufferlock[i] = "reader" =>
      /\ rpc = "wait" => numsent[buffersegment] = 0
      /\ rpc \in {"lock", "lockfirst"} => bufferlock[lastvalidsegment] # "main"
=============================================================================
