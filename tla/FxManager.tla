----------------------------- MODULE FxManager -----------------------------
(***************************************************************************)
(* The FxManager process (fxmanager.cpp): its main thread sends every      *)
(* subint of the job to some Core (sendData), receives the results in      *)
(* whatever order the Cores finish (receiveData), finds the integration    *)
(* each belongs to (locateVisIndex) and adds it there; its write thread    *)
(* writes the integrations out (loopwrite).  The locks and the indices of  *)
(* the ring of Visibility objects are those of VisRing: each action here   *)
(* is one of that module with the data conjoined.                          *)
(*                                                                         *)
(* A Core is external to this module: it answers what it was sent, in      *)
(* order (Core.tla).  DataStreams only delay the answer and are left out.  *)
(***************************************************************************)
EXTENDS VisRing, Visibility, Sequences, FiniteSets

CONSTANTS
  NumCores,
  RingLength,     \* Core::RECEIVE_RING_LENGTH: what a Core has in hand
  Skew,           \* how many subints a Core may be ahead of another
  Interruptible   \* whether SIGINT may arrive

ASSUME FxManagerAssumption ==
  NumCores \in Nat \ {0} /\ RingLength \in Nat \ {0}
    /\ Skew \in Nat /\ Interruptible \in BOOLEAN

VARIABLES
  phase,          \* "scans": the loop over scans; "drain": after terminate
  sendscan, sendtime,             \* senddata: the next subint to send
  inttime,                        \* of the scan that is being sent
  sendcount, terminatenow,
  numsent, extrareceived, coretimes,
  inflight,       \* Core -> subints it has been sent and has not answered
  left,           \* answers the loop after terminate still waits for
  current,        \* the result receiveData is handling
  difference,     \* variable of locateVisIndex
  visbuffer,
  written,        \* what was written to disk, in order
  ignored         \* subints whose results were stale

sendvars == <<phase, sendscan, sendtime, inttime, sendcount, terminatenow>>
corevars == <<numsent, extrareceived, coretimes, inflight>>
fxvars == <<sendvars, corevars, left, current, difference, visbuffer, written, ignored>>
vars == <<ringvars, fxvars>>

Cores == 0 .. NumCores - 1
Full == RingLength * NumCores

Subint(scan, t, n) == [scan |-> scan, time |-> t, num |-> n]

FxInit ==
  /\ RingInit
  /\ phase = "scans"
  /\ sendscan = InitScan /\ sendtime = InitTime
  /\ inttime = IntTime[ScanConfig[InitScan]]
  /\ sendcount = 0 /\ terminatenow = FALSE
  /\ numsent = [c \in Cores |-> 0] /\ extrareceived = [c \in Cores |-> 0]
  /\ coretimes = [s \in 0 .. RingLength - 1 |-> [c \in Cores |-> <<0, 0>>]]
  /\ inflight = [c \in Cores |-> <<>>]
  /\ left = 0
  /\ current = [core |-> 0, scan |-> 0, time |-> 0, subint |-> Subint(0, 0, 0),
                resend |-> TRUE]
  /\ difference = 0
  /\ visbuffer = [i \in Vis |-> NewVisibility(i)]
  /\ written = <<>> /\ ignored = {}

-----------------------------------------------------------------------------
(* Sending *)

\* sendData: core c gets the next subint; n is its number.
SendData(c, n) ==
  /\ coretimes' = [coretimes EXCEPT ![numsent[c] % RingLength][c] = <<sendscan, sendtime>>]
  /\ numsent' = [numsent EXCEPT ![c] = @ + 1]
  /\ inflight' = [inflight EXCEPT ![c] = Append(@, Subint(sendscan, sendtime, n))]
  /\ sendtime' = sendtime + SubintNS[ScanConfig[sendscan]]

\* The loop over the subints of a scan goes on.
MoreInScan == phase = "scans" /\ ~terminatenow /\ InScan(sendscan, sendtime)

\* "Filling up": RingLength subints for every Core, without an answer.
Fill ==
  /\ mpc = "ready"
  /\ MoreInScan
  /\ sendcount < Full
  /\ SendData(sendcount % NumCores, sendcount)
  /\ sendcount' = sendcount + 1
  /\ UNCHANGED <<ringvars, phase, sendscan, inttime, terminatenow, extrareceived,
                 left, current, difference, visbuffer, written, ignored>>

MutTerminate ==
  /\ phase' = "drain"
  /\ left' = RingLength
  /\ UNCHANGED <<sendscan, sendtime>>

Terminate ==
  /\ phase' = "drain"
  /\ left' = IF sendcount < Full THEN sendcount ELSE Full
  /\ UNCHANGED <<sendscan, sendtime>>

\* The next scan, or terminate(); inttime changes at once, for the results of
\* the scan before that are still to come as well.
NextScan ==
  LET n == NextConfigured(sendscan + 1) IN
  /\ mpc = "ready"
  /\ phase = "scans"
  /\ ~MoreInScan
  /\ IF n = NumScans
     THEN Terminate /\ UNCHANGED inttime
     ELSE /\ inttime' = IntTime[ScanConfig[n]]
          /\ IF ScanStart[n] >= ExecuteSeconds
             THEN Terminate
             ELSE /\ sendscan' = n /\ sendtime' = 0
                  /\ UNCHANGED <<phase, left>>
  /\ UNCHANGED <<ringvars, sendcount, terminatenow, corevars, current, difference,
                 visbuffer, written, ignored>>

\* interrupthandler, installed when the Cores are full.
Interrupt ==
  /\ Interruptible
  /\ phase = "scans"
  /\ sendcount >= Full
  /\ ~terminatenow
  /\ terminatenow' = TRUE
  /\ UNCHANGED <<ringvars, phase, sendscan, sendtime, inttime, sendcount, corevars,
                 left, current, difference, visbuffer, written, ignored>>

-----------------------------------------------------------------------------
(* Receiving *)

\* Where in coretimes the time of the next answer of Core c is.
InfoIndex(c) ==
  IF numsent[c] < RingLength THEN extrareceived[c]
  ELSE (numsent[c] + extrareceived[c]) % RingLength

\* Timing assumption: Core c answers only when no other Core is more than
\* Skew subints behind.
NotAhead(c) ==
  \A d \in Cores : inflight[d] # <<>> => Head(inflight[c]).num - Head(inflight[d]).num <= Skew

\* receiveData, as far as the start of locateVisIndex.
Receive(c) ==
  LET info == coretimes[InfoIndex(c)][c]
      more == MoreInScan /\ sendcount >= Full
      drain == phase = "drain" /\ left > 0
  IN
  /\ inflight[c] # <<>>
  /\ NotAhead(c)
  /\ more \/ drain
  /\ current' = [core |-> c, scan |-> info[1], time |-> info[2],
                 subint |-> Head(inflight[c]), resend |-> more]
  /\ inflight' = [inflight EXCEPT ![c] = Tail(@)]
  /\ left' = IF more THEN left ELSE left - 1
  /\ BeginLocate
  /\ UNCHANGED <<sendvars, numsent, extrareceived, coretimes, difference,
                 visbuffer, written, ignored>>

MutSendMore ==
  LET c == current.core IN
  /\ SendData(c, sendcount)
  /\ sendcount' = sendcount + 1
  /\ extrareceived' = [extrareceived EXCEPT ![c] = @ + 1]

\* Between locateVisIndex and addData: the Core gets more to do, or its
\* answer is counted.
SendMore ==
  LET c == current.core IN
  IF current.resend
  THEN /\ SendData(c, sendcount)
       /\ sendcount' = sendcount + 1
       /\ UNCHANGED extrareceived
  ELSE /\ extrareceived' = [extrareceived EXCEPT ![c] = @ + 1]
       /\ UNCHANGED <<numsent, coretimes, inflight, sendcount, sendtime>>

DifferenceAt(i) == Difference(visbuffer[i], current.scan, current.time)

InWindowAt(k) == (oldestlockedvis + k) % VisBufferLength

\* The buffers of the window whose integration the result falls in.
Matches == {k \in 0 .. WindowSize :
              DifferenceAt(InWindowAt(k)) >= 0 /\ DifferenceAt(InWindowAt(k)) < inttime}
TooOld == \A k \in 0 .. WindowSize : DifferenceAt(InWindowAt(k)) < 0

LocateFound ==
  /\ \E k \in Matches : (\A m \in Matches : k <= m) /\ FoundInWindow(InWindowAt(k))
  /\ UNCHANGED fxvars

LocateStale ==
  /\ TooOld
  /\ StaleResult
  /\ SendMore
  /\ ignored' = ignored \cup {current.subint}
  /\ UNCHANGED <<phase, sendscan, inttime, terminatenow, left, current, difference,
                 visbuffer, written>>

LocateBeyond ==
  /\ Matches = {} /\ ~TooOld
  /\ BeyondWindow
  /\ difference' = DifferenceAt(newestlockedvis)
  /\ UNCHANGED <<sendvars, corevars, left, current, visbuffer, written, ignored>>

\* A buffer was locked: caught up with the result or not.
Look == difference' = DifferenceAt(Succ(newestlockedvis))
CaughtUp == DifferenceAt(Succ(newestlockedvis)) < inttime

Extend ==
  /\ LockMore(CaughtUp)
  /\ Look
  /\ UNCHANGED <<sendvars, corevars, left, current, visbuffer, written, ignored>>

\* "difference > inttime" compares nanoseconds with seconds: any positive
\* number of ticks is more.
StillBeyond == difference > 0

Drop == StillBeyond /\ DropOldest /\ UNCHANGED fxvars
DropNoMore == ~StillBeyond /\ StopDropping /\ UNCHANGED fxvars

ExtendDropped ==
  /\ LockDropped(CaughtUp)
  /\ Look
  /\ UNCHANGED <<sendvars, corevars, left, current, visbuffer, written, ignored>>

\* addData, and what follows from its answer.
Deliver ==
  LET v == AddData(visbuffer[visindex], current.subint) IN
  /\ IF IsComplete(v) THEN AddLast ELSE AddIncomplete
  /\ visbuffer' = [visbuffer EXCEPT ![visindex] = v]
  /\ SendMore
  /\ UNCHANGED <<phase, sendscan, inttime, terminatenow, left, current, difference,
                 written, ignored>>

\* What does not involve the data.
Advance == AdvanceOldest /\ UNCHANGED fxvars
LockNextAhead == LockAhead /\ UNCHANGED fxvars
Finish == phase = "drain" /\ left = 0 /\ StopWriting /\ UNCHANGED fxvars
Unlock == LastUnlock /\ UNCHANGED fxvars
Join == JoinWriter /\ UNCHANGED fxvars

-----------------------------------------------------------------------------
(* The write thread *)

WriteOut(i) ==
  IF Writes(visbuffer[i])
  THEN written' = Append(written, [scan |-> visbuffer[i].scan, start |-> visbuffer[i].start,
                                   results |-> visbuffer[i].results, atend |-> ~keepwriting])
  ELSE UNCHANGED written

Write ==
  /\ WriterWrite
  /\ WriteOut(writesegment)
  /\ UNCHANGED <<sendvars, corevars, left, current, difference, visbuffer, ignored>>

Recycle ==
  /\ WriterIncrement
  /\ visbuffer' = [visbuffer EXCEPT ![writesegment] = Increment(@, VisBufferLength)]
  /\ UNCHANGED <<sendvars, corevars, left, current, difference, written, ignored>>

Flush ==
  /\ WriterFlush
  /\ WriteOut((writesegment + flushed) % VisBufferLength)
  /\ UNCHANGED <<sendvars, corevars, left, current, difference, visbuffer, ignored>>

CheckWriting == WriterCheck /\ UNCHANGED fxvars
LockWriting == WriterLock /\ UNCHANGED fxvars

Done == RingDone /\ UNCHANGED fxvars

-----------------------------------------------------------------------------

Manager ==
  \/ Fill
  \/ NextScan
  \/ \E c \in Cores : Receive(c)
  \/ LocateFound
  \/ LocateStale
  \/ LocateBeyond
  \/ Extend
  \/ Drop
  \/ DropNoMore
  \/ ExtendDropped
  \/ Deliver
  \/ Advance
  \/ LockNextAhead
  \/ Finish
  \/ Unlock
  \/ Join

Writer == CheckWriting \/ LockWriting \/ Write \/ Recycle \/ Flush

FxNext == Manager \/ Writer \/ Interrupt \/ Done

FxSpec == FxInit /\ [][FxNext]_vars

(* A Core answers in the end what it was sent, both threads run on, and    *)
(* nobody is obliged to interrupt.  Only one thread ever waits for a lock  *)
(* of the ring, so weak fairness is what the operating system gives.  A    *)
(* step of the write thread is a step of it in the ring, so its fairness   *)
(* is stated there.                                                        *)
FairFxSpec == FxSpec /\ WF_vars(Manager) /\ WF_ringvars(RingWriter)

-----------------------------------------------------------------------------
(* Properties *)

\* Every variable has its type.
FxTypeOK ==
  /\ RingTypeOK
  /\ phase \in {"scans", "drain"}
  /\ sendscan \in Scans /\ sendtime \in Nat /\ inttime \in Nat
  /\ sendcount \in Nat /\ left \in 0 .. Full /\ terminatenow \in BOOLEAN
  /\ \A c \in Cores : Len(inflight[c]) <= RingLength /\ extrareceived[c] \in 0 .. RingLength

\* The time the manager takes for that of a result, from the ring coretimes
\* by numsent and extrareceived, is the time of the subint the Core worked on:
\* while filling, in the steady state and while draining, also when a short
\* job never filled the Cores.
LabelIsResult ==
  current.scan = current.subint.scan /\ current.time = current.subint.time

\* A result is only ever added to the integration its middle falls in.
RightIntegration ==
  \A i \in Vis : \A s \in visbuffer[i].results : Belongs(visbuffer[i], s.scan, s.time)

\* A result is only added to a buffer whose mutex the main thread holds.
AddsLocked ==
  [][\A i \in Vis : visbuffer'[i].subints > visbuffer[i].subints
                      => bufferlock[i] = "manager"]_vars

WrittenResults == UNION {written[i].results : i \in 1 .. Len(written)}

\* When the manager is done, every result has been written, whether the job
\* ran to its end, was short or was interrupted.
NothingLost ==
  mpc = "done" => {s.num : s \in WrittenResults} = 0 .. sendcount - 1

\* Results that were added to a buffer past the last scan, which nobody writes.
Outside == UNION {visbuffer[i].results : i \in {j \in Vis : visbuffer[j].scan >= NumScans}}

\* However far apart the Cores are and however many buffers are given up for
\* them: in the end each subint that was sent has its result in one place.  It
\* is on disk once, or was ignored as stale, or locateVisIndex went past the
\* last scan with it.
Accounted ==
  mpc = "done" =>
    /\ {s.num : s \in WrittenResults \cup ignored \cup Outside} = 0 .. sendcount - 1
    /\ \A i, j \in 1 .. Len(written) : i # j => written[i].results \cap written[j].results = {}
    /\ WrittenResults \cap ignored = {} /\ WrittenResults \cap Outside = {} /\ ignored \cap Outside = {}

\* Integrations are written in the order of time, none of them twice, also
\* when buffers are given up before they are complete.
InOrder ==
  \A i \in 1 .. Len(written) - 1 :
    \/ written[i].scan < written[i + 1].scan
    \/ /\ written[i].scan = written[i + 1].scan
       /\ written[i].start < written[i + 1].start

\* Before the flush at the end, an integration is written only with the
\* results of all of its subints.
WholeIntegrations ==
  \A i \in 1 .. Len(written) :
    ~written[i].atend =>
      \A t \in SubintStarts(written[i].scan) :
        Belongs(written[i], written[i].scan, t)
          => \E s \in written[i].results : s.scan = written[i].scan /\ s.time = t

\* The manager comes to its end: it never waits for a buffer, an answer or
\* the write thread in vain.
Terminates == <>(mpc = "done")

\* The subints of the job, as records of their scan and time ...
JobSubints ==
  UNION {{[scan |-> n, time |-> t] : t \in SubintStarts(n)} :
           n \in {m \in Scans : m >= InitScan /\ ScanConfig[m] >= 0}}
Place(s) == [scan |-> s.scan, time |-> s.time]

\* ... and the number of the integration of each: scan first, then time.
IntegrationNumber ==
  [s \in JobSubints |->
     s.scan * ExecuteSeconds
       + (Centre(s.scan, s.time) - (IF s.scan = InitScan THEN InitTime ELSE 0))
            \div IntTime[ScanConfig[s.scan]]]

\* receiveData is between taking a result and handing out the next subint.
Pending == \/ mpc \in {"locate", "extend", "dropping", "lockdropped", "deliver"}
           \/ mpc = "advance" /\ after # "ready"

\* FxManager implements Accumulator: what went out is what the Cores have, the
\* result in the manager's hands, what is in the buffers, written or ignored.
InCores == UNION {{inflight[c][k] : k \in 1 .. Len(inflight[c])} : c \in Cores}
InBuffers == UNION {visbuffer[i].results : i \in Vis}
SentOut ==
  InCores \cup (IF Pending THEN {current.subint} ELSE {})
    \cup InBuffers \cup WrittenResults \cup ignored
Sent == {Place(s) : s \in SentOut}
Promise == INSTANCE Accumulator WITH
  Subints <- JobSubints, Integration <- IntegrationNumber,
  sent <- Sent,
  output <- [i \in 1 .. Len(written) |-> {Place(s) : s \in written[i].results}]
KeepsPromise == Promise!Spec
=============================================================================
