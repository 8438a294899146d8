-------------------------- MODULE FxManagerProofs --------------------------
(***************************************************************************)
(* Proofs about FxManager, for every number of Cores, every job and every  *)
(* timing.                                                                 *)
(*                                                                         *)
(* First, FxManager implements VisRing: whatever the data are, each of its *)
(* steps is a step of the ring or leaves the ring alone, and what          *)
(* VisRingProofs proves of the ring holds of FxManager.                    *)
(*                                                                         *)
(* Then, which result is which.  The manager looks the time of an answer   *)
(* up in coretimes[.][core], a ring it indexes by how many subints the     *)
(* Core was sent and how many answers it has given since it was last sent  *)
(* one.  The invariant says that the last entries are those of the subints *)
(* the Core has in hand (LabelInv), which needs that it never has more in  *)
(* hand than the ring has slots: that follows from how many it was sent    *)
(* (TurnsInv) and from a balance of what it was sent, has in hand, and has *)
(* given back (CountInv), with the result the manager is just handling     *)
(* counted (PendingInv).                                                   *)
(*                                                                         *)
(* Then, the order of what is written.  All the data the order depends on  *)
(* are the clocks of the Visibility objects.  Each is as many integrations *)
(* after that of the buffer the write thread is at as it is ahead of it    *)
(* (ClocksInv), so that going round the ring is going on in time; and what *)
(* was written last is earlier than what comes next (LastInv).             *)
(*                                                                         *)
(* Last, that nothing is lost, of a job whose integrations are whole       *)
(* subints (RegularJob) and of Cores that the ring of buffers keeps        *)
(* between (Spread).  The subints are numbered as they are sent, and the   *)
(* k-th integration of the job is to have the numbers in Span(k).  The     *)
(* invariant GatherInv says which numbers are where: with the Cores or in  *)
(* the main thread's hands (HandsInv), else in the buffer of their         *)
(* integration (ResultsInv) or on disk (WrittenInv); and that a buffer is  *)
(* locked just as long as a result of it has still to come (WindowInv), so *)
(* that the write thread takes whole integrations only.  The window stays  *)
(* short, and none is ever dropped, because it was extended for a result   *)
(* that had come (FrontInv), and no other is far behind that (SkewInv).    *)
(* With this the manager implements the Accumulator: what is sent is new,  *)
(* what is written next is of a later integration than all before it, and  *)
(* a buffer that is used again has been written.                           *)
(***************************************************************************)
EXTENDS FxManager, VisRingProofs, SequenceTheorems, FiniteSetTheorems

\* The main thread's steps.
LEMMA ManagerStep == RingTypeOK /\ Manager => RingNext \/ UNCHANGED ringvars
  <1> SUFFICES ASSUME RingTypeOK, Manager PROVE RingManager \/ UNCHANGED ringvars
    BY DEF RingNext
  <1>1. CASE Fill
    BY <1>1 DEF Fill
  <1>2. CASE NextScan
    BY <1>2 DEF NextScan
  <1>3. ASSUME NEW c \in Cores, Receive(c) PROVE RingManager
    <2>1. BeginLocate
      BY <1>3 DEF Receive
    <2> QED BY <2>1 DEF RingManager
  <1>4. CASE LocateFound
    <2>1. PICK k \in Matches : FoundInWindow(InWindowAt(k))
      BY <1>4 DEF LocateFound
    <2>2. InWindowAt(k) \in Vis
      BY VisBufferLengthAssumption DEF InWindowAt, Matches, RingTypeOK, Vis
    <2> QED BY <2>1, <2>2 DEF RingManager
  <1>5. CASE LocateStale
    BY <1>5 DEF LocateStale, RingManager
  <1>6. CASE LocateBeyond
    BY <1>6 DEF LocateBeyond, RingManager
  <1>7. CASE Extend
    <2>1. LockMore(CaughtUp)
      BY <1>7 DEF Extend
    <2>2. LockMore(TRUE) \/ LockMore(FALSE)
      <3> HIDE DEF CaughtUp
      <3>1. CASE CaughtUp
        BY <2>1, <3>1 DEF LockMore
      <3>2. CASE ~CaughtUp
        BY <2>1, <3>2 DEF LockMore
      <3> QED BY <3>1, <3>2
    <2> QED BY <2>2 DEF RingManager
  <1>8. CASE Drop \/ DropNoMore
    BY <1>8 DEF Drop, DropNoMore, RingManager
  <1>9. CASE ExtendDropped
    <2>1. LockDropped(CaughtUp)
      BY <1>9 DEF ExtendDropped
    <2>2. LockDropped(TRUE) \/ LockDropped(FALSE)
      <3> HIDE DEF CaughtUp
      <3>1. CASE CaughtUp
        BY <2>1, <3>1 DEF LockDropped
      <3>2. CASE ~CaughtUp
        BY <2>1, <3>2 DEF LockDropped
      <3> QED BY <3>1, <3>2
    <2> QED BY <2>2 DEF RingManager
  <1>10. CASE Deliver
    BY <1>10 DEF Deliver, RingManager
  <1>11. CASE Advance \/ LockNextAhead \/ Finish \/ Unlock \/ Join
    BY <1>11 DEF Advance, LockNextAhead, Finish, Unlock, Join, RingManager
  <1> QED BY <1>1, <1>2, <1>3, <1>4, <1>5, <1>6, <1>7, <1>8, <1>9, <1>10, <1>11 DEF Manager

\* The write thread's steps.
LEMMA WriterStep == Writer => RingNext
  BY DEF Writer, CheckWriting, LockWriting, Write, Recycle, Flush, RingNext, RingWriter

\* Any step.
LEMMA RingStep == Inv /\ [FxNext]_vars => [RingNext]_ringvars
  <1>1. UNCHANGED vars => UNCHANGED ringvars
    BY DEF vars
  <1>2. Interrupt => UNCHANGED ringvars
    BY DEF Interrupt
  <1>3. Done => RingNext
    BY DEF Done, RingNext
  <1> QED BY <1>1, <1>2, <1>3, ManagerStep, WriterStep DEF FxNext, Inv

\* So what was proved of the ring holds of FxManager.
LEMMA FxUsesRing == FxSpec => RingSpec
  <1>1. FxInit => RingInit
    BY DEF FxInit
  <1>2. Inv /\ [RingNext]_ringvars => Inv'
    BY StepInv
  <1> QED BY <1>1, <1>2, RingStep, InitInv, PTL DEF FxSpec, RingSpec

\* The write thread never writes or recycles a Visibility the main thread may
\* be adding a result to, or reading the time of.
THEOREM FxNoRace == FxSpec => []NoRace
  <1> QED BY FxUsesRing, RingNoRace, PTL

\* The two threads of FxManager never wait for each other.
THEOREM FxNoDeadlock == FxSpec => []NoDeadlock
  <1> QED BY FxUsesRing, RingNoDeadlock, PTL

-----------------------------------------------------------------------------
(* The scans of the job *)

Correlated(n) == n \in Scans /\ ScanConfig[n] \in Configs

\* The configuration of a scan is a number, and not negative just if it is correlated.
LEMMA ConfigNumber ==
  ASSUME NEW n \in Scans
  PROVE  ScanConfig[n] \in Int /\ (ScanConfig[n] >= 0 <=> Correlated(n))
  <1>1. ScanConfig[n] \in Configs \cup {-1} /\ Configs \subseteq Nat
    BY JobAssumption
  <1>2. CASE ScanConfig[n] \in Configs
    <2>1. ScanConfig[n] \in Nat
      BY <1>1, <1>2
    <2> QED BY <1>2, <2>1 DEF Correlated
  <1>3. CASE ScanConfig[n] = -1 /\ ScanConfig[n] \notin Configs
    BY <1>3 DEF Correlated
  <1> QED BY <1>1, <1>2, <1>3

\* NextConfigured finds the first scan that is correlated.
LEMMA NextConfiguredIs ==
  ASSUME NEW s \in 0 .. NumScans
  PROVE  /\ NextConfigured(s) \in s .. NumScans
         /\ NextConfigured(s) = NumScans \/ Correlated(NextConfigured(s))
         /\ \A m \in s .. NextConfigured(s) - 1 : ~Correlated(m)
  <1> DEFINE Found(n) == n = NumScans \/ ScanConfig[n] >= 0
             T == {n \in s .. NumScans : Found(n)}
             IsFirst(n) == Found(n) /\ \A m \in s .. n - 1 : m = NumScans \/ ScanConfig[m] < 0
             c == NextConfigured(s)
  <1>0. NumScans \in Nat \ {0} /\ s \in Nat /\ s <= NumScans
    BY JobAssumption
  <1>1. PICK n \in T : \A m \in T : n <= m
    <2>1. T \in SUBSET Nat /\ NumScans \in T
      BY <1>0
    <2> HIDE DEF T
    <2> QED BY <2>1, Least
  <1>2. n \in s .. NumScans /\ Found(n)
    BY <1>1
  <1>3. ASSUME NEW m \in s .. n - 1 PROVE m = NumScans \/ ScanConfig[m] < 0
    <2>1. m \in Scans /\ m \in s .. NumScans /\ m < n
      BY <1>0, <1>2 DEF Scans
    <2>2. ~Found(m)
      BY <1>0, <1>1, <1>2, <2>1
    <2> QED BY <2>1, <2>2, ConfigNumber
  <1>4. c \in s .. NumScans /\ IsFirst(c)
    <2>1. IsFirst(n)
      BY <1>2, <1>3
    <2>2. c = CHOOSE k \in s .. NumScans : IsFirst(k)
      BY DEF NextConfigured
    <2> HIDE DEF IsFirst
    <2> QED BY <1>2, <2>1, <2>2
  <1>5. \A m \in s .. c - 1 : m \in Scans /\ ScanConfig[m] < 0
    BY <1>0, <1>4 DEF Scans
  <1>6. c = NumScans \/ (c \in Scans /\ ScanConfig[c] >= 0)
    BY <1>0, <1>4 DEF Scans
  <1> HIDE DEF c
  <1>7. \A m \in s .. c - 1 : ~Correlated(m)
    BY <1>5, ConfigNumber
  <1>8. c = NumScans \/ Correlated(c)
    BY <1>6, ConfigNumber
  <1> QED BY <1>4, <1>7, <1>8 DEF c

\* The first scan there is something to do in.
LEMMA InitScanIs == Correlated(InitScan) /\ InitTime \in Nat
  <1> DEFINE Ends(m) == ScanStart[m] + ScanDuration[m] >= 0
             T == {m \in Scans : Ends(m)}
             IsFirst(n) == Ends(n) /\ \A m \in 0 .. n - 1 : ScanStart[m] + ScanDuration[m] < 0
  <1>0. /\ NumScans \in Nat \ {0} /\ Scans \subseteq Nat
        /\ ScanStart \in [Scans -> Int] /\ ScanDuration \in [Scans -> Nat] /\ StartNS \in Nat
    BY JobAssumption DEF Scans
  <1>10. PICK n \in Scans : Correlated(n) /\ \E m \in 0 .. n : Ends(m)
    BY StartAssumption, ConfigNumber
  <1>11. PICK m \in 0 .. n : Ends(m)
    BY <1>10
  <1>1. n \in Scans /\ m \in 0 .. n /\ Correlated(n) /\ Ends(m)
    BY <1>10, <1>11
  <1>2. m \in Scans
    BY <1>0, <1>1 DEF Scans
  <1>3. PICK f \in T : \A k \in T : f <= k
    <2>1. T \in SUBSET Nat /\ T # {}
      BY <1>0, <1>1, <1>2
    <2> HIDE DEF T
    <2> QED BY <2>1, Least
  <1>4. IsFirst(f)
    <2>1. ASSUME NEW k \in 0 .. f - 1 PROVE ScanStart[k] + ScanDuration[k] < 0
      <3>1. k \in Scans /\ k < f
        BY <1>0, <1>3 DEF Scans
      <3>2. ~Ends(k)
        BY <1>0, <1>3, <3>1
      <3> QED BY <1>0, <3>1, <3>2
    <2> QED BY <1>3, <2>1
  <1>5. FirstScan \in Scans /\ IsFirst(FirstScan)
    <2>1. FirstScan = CHOOSE k \in Scans : IsFirst(k)
      BY DEF FirstScan
    <2> HIDE DEF IsFirst
    <2> QED BY <1>3, <1>4, <2>1
  <1>6. FirstScan <= n
    <2>1. ~(m < FirstScan)
      BY <1>0, <1>1, <1>2, <1>5
    <2> QED BY <1>0, <1>1, <1>2, <1>5, <2>1
  <1>7. FirstScan \in 0 .. NumScans
    BY <1>0, <1>5 DEF Scans
  <1>8. Correlated(InitScan)
    <2> DEFINE c == NextConfigured(FirstScan)
    <2>1. c \in FirstScan .. NumScans /\ (c = NumScans \/ Correlated(c))
            /\ \A k \in FirstScan .. c - 1 : ~Correlated(k)
      BY <1>7, NextConfiguredIs
    <2>2. c # NumScans
      <3> SUFFICES ASSUME c = NumScans PROVE FALSE
        OBVIOUS
      <3>1. n \in FirstScan .. NumScans - 1
        BY <1>0, <1>1, <1>5, <1>6 DEF Scans
      <3> HIDE DEF c
      <3> QED BY <1>1, <2>1, <3>1
    <2> HIDE DEF c
    <2> QED BY <2>1, <2>2 DEF InitScan, c
  <1>9. InitTime \in Nat
    <2>1. ScanStart[InitScan] \in Int
      BY <1>0, <1>8 DEF Correlated
    <2> QED BY <1>0, <2>1 DEF InitTime
  <1> QED BY <1>8, <1>9

-----------------------------------------------------------------------------
(* Which result is which *)

Subints == [scan : Nat, time : Nat, num : Nat]

\* The types of the manager's own variables.
SendTypes ==
  /\ phase \in {"scans", "drain"}
  /\ Correlated(sendscan) /\ sendtime \in Nat /\ inttime \in Nat
  /\ sendcount \in Nat /\ left \in 0 .. Full /\ terminatenow \in BOOLEAN

\* The types of what it knows of the Cores.
CoreTypes ==
  /\ numsent \in [Cores -> Nat] /\ extrareceived \in [Cores -> Nat]
  /\ coretimes \in [0 .. RingLength - 1 -> [Cores -> Nat \X Nat]]
  /\ inflight \in [Cores -> Seq(Subints)]
  /\ current \in [core : Cores, scan : Nat, time : Nat, subint : Subints, resend : BOOLEAN]

\* While the Cores are filled up they get subints in turn; then they are full.
TurnsInv ==
  \A c \in Cores : IF sendcount < Full THEN numsent[c] = Turns(c, sendcount, NumCores)
                   ELSE numsent[c] >= RingLength

\* A Core has as many subints in hand as it was given, or as it has slots,
\* but for those whose results were taken and not replaced.
CountOf(c) ==
  /\ Len(inflight[c]) + extrareceived[c] + (IF Pending /\ current.core = c THEN 1 ELSE 0)
       = IF numsent[c] < RingLength THEN numsent[c] ELSE RingLength
  /\ phase = "scans" => extrareceived[c] = 0
CountInv == \A c \in Cores : CountOf(c)

\* A result taken before the end is replaced, one taken after it is not.
PendingInv == Pending => /\ current.resend <=> phase = "scans"
                         /\ phase = "scans" => sendcount >= Full

\* The last subints a Core was sent are those it has in hand, and coretimes
\* has the time of each.
LabelOf(c) ==
  \A k \in 1 .. Len(inflight[c]) :
    coretimes[(numsent[c] - Len(inflight[c]) + k - 1) % RingLength][c]
      = <<inflight[c][k].scan, inflight[c][k].time>>
LabelInv == \A c \in Cores : LabelOf(c)

FxInv ==
  /\ Inv /\ SendTypes /\ CoreTypes /\ TurnsInv /\ CountInv /\ PendingInv /\ LabelInv
  /\ LabelIsResult

\* The sizes that the proofs compute with.
LEMMA FxConstants ==
  /\ NumCores \in Nat \ {0} /\ RingLength \in Nat \ {0} /\ Full \in Nat
  /\ Cores = 0 .. NumCores - 1
  /\ Full = RingLength * NumCores
  <1>1. NumCores \in Nat \ {0} /\ RingLength \in Nat \ {0}
    BY FxManagerAssumption
  <1>2. RingLength * NumCores \in Nat
    BY <1>1, SMT
  <1> QED BY <1>1, <1>2 DEF Full, Cores

\* The configuration of a correlated scan has its times.
LEMMA ScanTimes ==
  ASSUME NEW n, Correlated(n)
  PROVE  n \in Nat /\ n \in Scans /\ IntTime[ScanConfig[n]] \in Nat /\ SubintNS[ScanConfig[n]] \in Nat
  <1>1. n \in Scans /\ ScanConfig[n] \in Configs
    BY DEF Correlated
  <1>2. n \in Nat
    <2>1. NumScans \in Nat
      BY JobAssumption
    <2> QED BY <1>1, <2>1 DEF Scans
  <1>3. IntTime[ScanConfig[n]] \in Nat
    <2>1. IntTime \in [Configs -> Nat \ {0}]
      BY JobAssumption
    <2> QED BY <1>1, <2>1
  <1>4. SubintNS[ScanConfig[n]] \in Nat
    <2>1. SubintNS \in [Configs -> Nat \ {0}]
      BY JobAssumption
    <2> QED BY <1>1, <2>1
  <1> QED BY <1>1, <1>2, <1>3, <1>4

\* Nothing was sent yet.
LEMMA FxInitInv == FxInit => FxInv
  <1> SUFFICES ASSUME FxInit PROVE FxInv
    OBVIOUS
  <1> USE FxConstants DEF FxInit
  <1>1. Inv
    BY InitInv
  <1>2. ~Pending
    BY DEF RingInit, Pending
  <1>3. SendTypes
    <2>1. Correlated(InitScan) /\ InitTime \in Nat
      BY InitScanIs
    <2>2. IntTime[ScanConfig[InitScan]] \in Nat
      BY <2>1, ScanTimes
    <2>3. 0 \in 0 .. Full
      BY FxConstants
    <2> QED BY <2>1, <2>2, <2>3 DEF SendTypes
  <1>4. CoreTypes
    <2>1. Subint(0, 0, 0) \in Subints /\ <<>> \in Seq(Subints) /\ <<0, 0>> \in Nat \X Nat
      BY DEF Subints, Subint
    <2>2. 0 \in Cores
      OBVIOUS
    <2> QED BY <2>1, <2>2 DEF CoreTypes
  <1>5. TurnsInv
    <2>1. ASSUME NEW c \in Cores PROVE 0 = Turns(c, 0, NumCores)
      <3>1. 0 = NumCores * 0 + 0 /\ 0 \in 0 .. NumCores - 1
        OBVIOUS
      <3>2. 0 \div NumCores = 0 /\ 0 % NumCores = 0
        BY <3>1, Divided
      <3> QED BY <3>2 DEF Turns
    <2>2. 0 < Full
      BY SMT
    <2> QED BY <2>1, <2>2 DEF TurnsInv
  <1>6. CountInv
    BY <1>2 DEF CountInv, CountOf
  <1>7. PendingInv
    BY <1>2 DEF PendingInv
  <1>8. LabelInv
    BY DEF LabelInv, LabelOf
  <1>9. LabelIsResult
    BY DEF LabelIsResult, Subint
  <1> QED BY <1>1, <1>3, <1>4, <1>5, <1>6, <1>7, <1>8, <1>9 DEF FxInv

\* What most steps leave alone.
Unsent == UNCHANGED <<phase, sendscan, sendtime, sendcount, corevars, current>>

\* They keep what the invariant says of sending.
LEMMA UnsentStep ==
  ASSUME FxInv, Inv', SendTypes', Unsent, Pending' <=> Pending
  PROVE  FxInv'
  <1> USE DEF Unsent, corevars
  <1>1. CoreTypes' /\ TurnsInv'
    BY DEF FxInv, CoreTypes, TurnsInv
  <1>2. CountInv' /\ PendingInv'
    BY DEF FxInv, CountInv, CountOf, PendingInv
  <1>3. LabelInv' /\ LabelIsResult'
    BY DEF FxInv, LabelInv, LabelOf, LabelIsResult
  <1> QED BY <1>1, <1>2, <1>3 DEF FxInv

\* A Core with less in hand than it has slots is sent a subint: no time is
\* overwritten that is still needed.
LEMMA SendStep ==
  ASSUME FxInv, NEW c \in Cores, NEW n \in Nat, SendData(c, n),
         Len(inflight[c]) < RingLength
  PROVE  /\ LabelInv'
         /\ numsent' = [numsent EXCEPT ![c] = @ + 1]
         /\ inflight' \in [Cores -> Seq(Subints)]
         /\ \A d \in Cores : Len(inflight'[d]) = Len(inflight[d]) + (IF d = c THEN 1 ELSE 0)
         /\ coretimes' \in [0 .. RingLength - 1 -> [Cores -> Nat \X Nat]]
         /\ sendtime' \in Nat
  <1> DEFINE R == RingLength
             ns == numsent[c]
             q == inflight[c]
             L == Len(q)
             s == Subint(sendscan, sendtime, n)
  <1>0. /\ R \in Nat \ {0} /\ ns \in Nat /\ q \in Seq(Subints) /\ L \in Nat /\ L < R
        /\ numsent \in [Cores -> Nat] /\ inflight \in [Cores -> Seq(Subints)]
        /\ coretimes \in [0 .. R - 1 -> [Cores -> Nat \X Nat]]
        /\ \A d \in Cores : inflight[d] \in Seq(Subints) /\ Len(inflight[d]) \in Nat
                              /\ numsent[d] \in Nat
    <2>1. CoreTypes
      BY DEF FxInv
    <2>2. R \in Nat \ {0} /\ L < R
      BY FxConstants
    <2>3. /\ numsent \in [Cores -> Nat] /\ inflight \in [Cores -> Seq(Subints)]
          /\ coretimes \in [0 .. R - 1 -> [Cores -> Nat \X Nat]]
      BY <2>1 DEF CoreTypes
    <2>4. \A d \in Cores : inflight[d] \in Seq(Subints) /\ Len(inflight[d]) \in Nat
                              /\ numsent[d] \in Nat
      <3> TAKE d \in Cores
      <3>1. inflight[d] \in Seq(Subints) /\ numsent[d] \in Nat
        BY <2>3
      <3>2. Len(inflight[d]) \in Nat
        BY <3>1, LenProperties
      <3> QED BY <3>1, <3>2
    <2> QED BY <2>2, <2>3, <2>4
  <1>1. /\ sendscan \in Nat /\ sendtime \in Nat /\ SubintNS[ScanConfig[sendscan]] \in Nat
        /\ s \in Subints /\ s.scan = sendscan /\ s.time = sendtime
    BY ScanTimes DEF FxInv, SendTypes, Subints, Subint
  <1>2. ns % R \in 0 .. R - 1
    <2>1. R \in Nat \ {0} /\ ns \in Int
      BY <1>0
    <2> HIDE DEF R, ns
    <2> QED BY <2>1, Division
  <1>3. /\ numsent' = [numsent EXCEPT ![c] = ns + 1]
        /\ inflight' = [inflight EXCEPT ![c] = Append(q, s)]
        /\ coretimes' = [coretimes EXCEPT ![ns % R] =
                           [coretimes[ns % R] EXCEPT ![c] = <<sendscan, sendtime>>]]
        /\ sendtime' = sendtime + SubintNS[ScanConfig[sendscan]]
    BY DEF SendData
  <1> HIDE DEF s
  <1>4. /\ Append(q, s) \in Seq(Subints) /\ Len(Append(q, s)) = L + 1
        /\ Append(q, s)[L + 1] = s
        /\ \A k \in 1 .. L : Append(q, s)[k] = q[k]
    BY <1>0, <1>1, AppendProperties
  <1>5. ASSUME NEW d \in Cores PROVE LabelOf(d)'
    <2>1. CASE d # c
      <3>1. numsent'[d] = numsent[d] /\ inflight'[d] = inflight[d]
        BY <1>0, <1>3, <2>1
      <3>2. \A j \in 0 .. R - 1 : coretimes'[j][d] = coretimes[j][d]
        BY <1>0, <1>2, <1>3, <2>1
      <3>3. \A k \in 1 .. Len(inflight[d]) :
              (numsent[d] - Len(inflight[d]) + k - 1) % R \in 0 .. R - 1
        <4> TAKE k \in 1 .. Len(inflight[d])
        <4> DEFINE x == numsent[d] - Len(inflight[d]) + k - 1
        <4>1. x \in Int
          <5>1. numsent[d] \in Nat /\ Len(inflight[d]) \in Nat
            BY <1>0
          <5>2. k \in Int
            BY <5>1
          <5> QED BY <5>1, <5>2
        <4> HIDE DEF x
        <4>2. x % R \in 0 .. R - 1
          BY <1>0, <4>1, Division
        <4> QED BY <4>2 DEF x
      <3>4. LabelOf(d)
        BY DEF FxInv, LabelInv
      <3> QED BY <3>1, <3>2, <3>3, <3>4 DEF LabelOf
    <2>2. CASE d = c
      <3>1. numsent'[d] = ns + 1 /\ inflight'[d] = Append(q, s)
        BY <1>0, <1>3, <2>2
      <3>2. LabelOf(c)
        BY DEF FxInv, LabelInv
      <3>3. coretimes'[ns % R][c] = <<sendscan, sendtime>>
        BY <1>0, <1>2, <1>3
      <3>4. \A j \in 0 .. R - 1 : j # ns % R => coretimes'[j][c] = coretimes[j][c]
        BY <1>0, <1>2, <1>3
      <3>5. ASSUME NEW k \in 1 .. L
            PROVE  coretimes'[(ns - L + k - 1) % R][c] = <<q[k].scan, q[k].time>>
        <4> DEFINE x == ns - L + k - 1
        <4>1. x \in Int /\ -R < x - ns /\ x - ns < 0
          <5>1. ns \in Nat /\ L \in Nat /\ R \in Nat /\ L < R
            BY <1>0
          <5> HIDE DEF ns, L, R
          <5>2. k \in Nat /\ k >= 1 /\ k <= L
            BY <5>1
          <5> QED BY <5>1, <5>2
        <4>2. coretimes[x % R][c] = <<q[k].scan, q[k].time>>
          BY <3>2 DEF LabelOf
        <4> HIDE DEF x
        <4>3. x % R \in 0 .. R - 1
          BY <1>0, <4>1, Division
        <4>4. x % R # ns % R
          <5> SUFFICES ASSUME x % R = ns % R PROVE FALSE
            OBVIOUS
          <5>1. ns \in Int /\ x - ns < R
            BY <1>0, <4>1
          <5>2. x = ns
            BY <1>0, <4>1, <5>1, SameRemainder
          <5> QED BY <1>0, <4>1, <5>2
        <4>5. coretimes'[x % R][c] = <<q[k].scan, q[k].time>>
          BY <3>4, <4>2, <4>3, <4>4
        <4> QED BY <4>5 DEF x
      <3>6. ASSUME NEW k \in 1 .. L + 1
            PROVE  coretimes'[((ns + 1) - (L + 1) + k - 1) % R][c]
                     = <<Append(q, s)[k].scan, Append(q, s)[k].time>>
        <4>0. ns \in Nat /\ L \in Nat /\ k \in Nat
          <5>1. ns \in Nat /\ L \in Nat
            BY <1>0
          <5> HIDE DEF ns, L
          <5> QED BY <5>1
        <4>1. (ns + 1) - (L + 1) + k - 1 = ns - L + k - 1
          <5> HIDE DEF ns, L
          <5> QED BY <4>0
        <4>2. CASE k \in 1 .. L
          BY <1>4, <3>5, <4>1, <4>2
        <4>3. CASE k = L + 1
          <5>1. (ns + 1) - (L + 1) + k - 1 = ns
            <6> HIDE DEF ns, L
            <6> QED BY <4>0, <4>3
          <5>2. Append(q, s)[k] = s
            <6> HIDE DEF q, L
            <6> QED BY <1>4, <4>3
          <5>3. <<Append(q, s)[k].scan, Append(q, s)[k].time>> = <<sendscan, sendtime>>
            <6> HIDE DEF q, L
            <6> QED BY <1>1, <5>2
          <5>4. coretimes'[((ns + 1) - (L + 1) + k - 1) % R][c] = coretimes'[ns % R][c]
            BY <5>1
          <5> QED BY <3>3, <5>3, <5>4
        <4>4. k \in 1 .. L \/ k = L + 1
          <5>1. k \in 1 .. L + 1
            OBVIOUS
          <5> HIDE DEF ns, L
          <5> QED BY <4>0, <5>1
        <4> QED BY <4>2, <4>3, <4>4
      <3> HIDE DEF L, q
      <3>7. \A k \in 1 .. Len(inflight'[d]) :
              coretimes'[(numsent'[d] - Len(inflight'[d]) + k - 1) % RingLength][d]
                = <<inflight'[d][k].scan, inflight'[d][k].time>>
        BY <1>4, <2>2, <3>1, <3>6
      <3> QED BY <3>7 DEF LabelOf
    <2> QED BY <2>1, <2>2
  <1>6. inflight' \in [Cores -> Seq(Subints)]
    BY <1>0, <1>3, <1>4
  <1>7. \A d \in Cores : Len(inflight'[d]) = Len(inflight[d]) + (IF d = c THEN 1 ELSE 0)
    BY <1>0, <1>3, <1>4
  <1>8. coretimes' \in [0 .. R - 1 -> [Cores -> Nat \X Nat]]
    <2>1. <<sendscan, sendtime>> \in Nat \X Nat
      BY <1>1
    <2>2. [coretimes[ns % R] EXCEPT ![c] = <<sendscan, sendtime>>] \in [Cores -> Nat \X Nat]
      BY <1>0, <1>2, <2>1
    <2> QED BY <1>0, <1>2, <1>3, <2>2
  <1>9. sendtime' \in Nat
    BY <1>1, <1>3
  <1> QED BY <1>3, <1>5, <1>6, <1>7, <1>8, <1>9 DEF LabelInv


\* When the time of the next result of a Core is looked up, the place is that
\* of the first subint it has in hand.
LEMMA InfoIndexIs ==
  ASSUME FxInv, ~Pending, NEW c \in Cores, inflight[c] # <<>>
  PROVE  /\ InfoIndex(c) = (numsent[c] - Len(inflight[c])) % RingLength
         /\ InfoIndex(c) \in 0 .. RingLength - 1
  <1> DEFINE ns == numsent[c]
             L == Len(inflight[c])
             e == extrareceived[c]
             R == RingLength
             x == ns - L
  <1>1. R \in Nat \ {0} /\ ns \in Nat /\ L \in Nat \ {0} /\ e \in Nat
    <2>1. inflight[c] \in Seq(Subints) /\ ns \in Nat /\ e \in Nat
      BY DEF FxInv, CoreTypes
    <2>2. L \in Nat \ {0}
      BY <2>1, LenProperties, EmptySeq
    <2> QED BY <2>1, <2>2, FxConstants
  <1>2. L + e = IF ns < R THEN ns ELSE R
    <2>1. CountOf(c)
      BY DEF FxInv, CountInv
    <2>2. L + e + 0 = IF ns < R THEN ns ELSE R
      BY <2>1 DEF CountOf
    <2> HIDE DEF ns, L, e, R
    <2> QED BY <1>1, <2>2
  <1>3. InfoIndex(c) = IF ns < R THEN e ELSE (ns + e) % R
    BY DEF InfoIndex
  <1> HIDE DEF ns, L, e, R
  <1>4. x \in Int
    BY <1>1
  <1>5. InfoIndex(c) = x % R
    <2>1. CASE ns < R
      <3>1. x = e /\ e \in 0 .. 2 * R - 1 /\ e < R
        BY <1>1, <1>2, <2>1
      <3>2. e % R = e
        BY <1>1, <3>1, ModOnce
      <3> QED BY <1>3, <2>1, <3>1, <3>2
    <2>2. CASE ~(ns < R)
      <3>1. ns + e = x + R
        BY <1>1, <1>2, <2>2
      <3> HIDE DEF x
      <3>2. (x + R) % R = x % R
        BY <1>1, <1>4, OneTurn
      <3> QED BY <1>3, <2>2, <3>1, <3>2
    <2> QED BY <2>1, <2>2
  <1>6. x % R \in 0 .. R - 1
    <2> HIDE DEF x
    <2> QED BY <1>1, <1>4, Division
  <1> QED BY <1>5, <1>6 DEF x, ns, L, R

\* While the Cores are filled up, the one whose turn it is has a free slot.
LEMMA FillStep ==
  ASSUME FxInv, Inv', Fill
  PROVE  FxInv'
  <1> DEFINE c == sendcount % NumCores
  <1>0. /\ sendcount \in Nat /\ sendcount < Full /\ sendcount' = sendcount + 1
        /\ RingLength \in Nat \ {0} /\ NumCores \in Nat \ {0}
        /\ Cores = 0 .. NumCores - 1 /\ Full = RingLength * NumCores
    BY FxConstants DEF Fill, FxInv, SendTypes
  <1>1. c \in Cores
    BY <1>0, Division
  <1>2. /\ SendData(c, sendcount)
        /\ UNCHANGED <<mpc, after, phase, sendscan, inttime, terminatenow,
                       extrareceived, left, current>>
        /\ mpc = "ready"
    BY DEF Fill, ringvars, mvars
  <1>3. ~Pending /\ ~Pending'
    BY <1>2 DEF Pending
  <1>4. \A d \in Cores : numsent[d] = Turns(d, sendcount, NumCores)
    BY <1>0 DEF FxInv, TurnsInv
  <1>5. numsent[c] < RingLength
    <2>1. Turns(c, sendcount, NumCores) < RingLength
      BY <1>0, TurnsBound
    <2> HIDE DEF c
    <2> QED BY <1>1, <1>4, <2>1
  <1> HIDE DEF c
  <1>6. /\ numsent \in [Cores -> Nat] /\ extrareceived \in [Cores -> Nat]
        /\ \A d \in Cores : Len(inflight[d]) \in Nat
    <2>1. CoreTypes
      BY DEF FxInv
    <2>2. /\ numsent \in [Cores -> Nat] /\ extrareceived \in [Cores -> Nat]
          /\ inflight \in [Cores -> Seq(Subints)]
      BY <2>1 DEF CoreTypes
    <2>3. \A d \in Cores : Len(inflight[d]) \in Nat
      BY <2>2, LenProperties
    <2> QED BY <2>2, <2>3
  <1>7. Len(inflight[c]) < RingLength
    <2>1. Len(inflight[c]) + extrareceived[c] + 0 = numsent[c]
      BY <1>1, <1>3, <1>5 DEF FxInv, CountInv, CountOf
    <2>2. numsent[c] \in Nat /\ extrareceived[c] \in Nat /\ Len(inflight[c]) \in Nat
      BY <1>1, <1>6
    <2> QED BY <1>0, <1>5, <2>1, <2>2
  <1>8. /\ LabelInv'
        /\ numsent' = [numsent EXCEPT ![c] = @ + 1]
        /\ inflight' \in [Cores -> Seq(Subints)]
        /\ \A d \in Cores : Len(inflight'[d]) = Len(inflight[d]) + (IF d = c THEN 1 ELSE 0)
        /\ coretimes' \in [0 .. RingLength - 1 -> [Cores -> Nat \X Nat]]
        /\ sendtime' \in Nat
    BY <1>0, <1>1, <1>2, <1>7, SendStep
  <1>9. \A d \in Cores : numsent'[d] = numsent[d] + (IF d = c THEN 1 ELSE 0)
    BY <1>6, <1>8
  <1>10. SendTypes'
    BY <1>0, <1>2, <1>8 DEF FxInv, SendTypes, Correlated
  <1>11. CoreTypes'
    <2>1. numsent' \in [Cores -> Nat]
      BY <1>1, <1>6, <1>8
    <2> QED BY <1>2, <1>8, <2>1 DEF FxInv, CoreTypes
  <1>12. TurnsInv'
    <2>1. ASSUME NEW d \in Cores
          PROVE  IF sendcount' < Full THEN numsent'[d] = Turns(d, sendcount', NumCores)
                 ELSE numsent'[d] >= RingLength
      <3>1. Turns(d, sendcount + 1, NumCores)
              = Turns(d, sendcount, NumCores) + (IF sendcount % NumCores = d THEN 1 ELSE 0)
        BY <1>0, TurnsStep
      <3>2. numsent'[d] = Turns(d, sendcount', NumCores)
        BY <1>0, <1>4, <1>9, <3>1 DEF c
      <3>3. ~(sendcount' < Full) => sendcount' = RingLength * NumCores
        BY <1>0, FxConstants
      <3>4. Turns(d, RingLength * NumCores, NumCores) = RingLength
        BY <1>0, TurnsFull
      <3>5. ~(sendcount' < Full) => numsent'[d] = RingLength
        BY <3>2, <3>3, <3>4
      <3> QED BY <1>0, <3>2, <3>5
    <2> QED BY <2>1 DEF TurnsInv
  <1>13. CountInv'
    <2>1. ASSUME NEW d \in Cores PROVE CountOf(d)'
      <3>1. /\ numsent[d] \in Nat /\ extrareceived[d] \in Nat /\ Len(inflight[d]) \in Nat
            /\ numsent'[d] = numsent[d] + (IF d = c THEN 1 ELSE 0)
            /\ Len(inflight'[d]) = Len(inflight[d]) + (IF d = c THEN 1 ELSE 0)
            /\ extrareceived'[d] = extrareceived[d]
        BY <1>2, <1>6, <1>8, <1>9
      <3>2. /\ Len(inflight[d]) + extrareceived[d] + 0
                 = IF numsent[d] < RingLength THEN numsent[d] ELSE RingLength
            /\ phase = "scans" => extrareceived[d] = 0
        BY <1>3 DEF FxInv, CountInv, CountOf
      <3>3. Len(inflight'[d]) + extrareceived'[d] + 0
              = IF numsent'[d] < RingLength THEN numsent'[d] ELSE RingLength
        <4>1. CASE d = c
          <5>1. numsent[d] < RingLength
            BY <1>5, <4>1
          <5>2. numsent'[d] = numsent[d] + 1 /\ Len(inflight'[d]) = Len(inflight[d]) + 1
            BY <3>1, <4>1
          <5>3. Len(inflight[d]) + extrareceived[d] = numsent[d]
            BY <3>1, <3>2, <5>1
          <5>4. Len(inflight'[d]) + extrareceived'[d] + 0 = numsent'[d]
            <6> DEFINE L == Len(inflight[d])
                       e == extrareceived[d]
                       ns == numsent[d]
            <6>1. L \in Nat /\ e \in Nat /\ ns \in Nat /\ L + e = ns
              BY <3>1, <5>3
            <6>2. /\ Len(inflight'[d]) = L + 1 /\ numsent'[d] = ns + 1
                  /\ extrareceived'[d] = e
              BY <3>1, <5>2
            <6> HIDE DEF L, e, ns
            <6>3. (L + 1) + e + 0 = ns + 1
              BY <6>1
            <6> QED BY <6>2, <6>3
          <5>5. numsent'[d] < RingLength \/ numsent'[d] = RingLength
            BY <1>0, <3>1, <5>1, <5>2
          <5> QED BY <5>4, <5>5
        <4>2. CASE d # c
          BY <1>0, <3>1, <3>2, <4>2
        <4> QED BY <4>1, <4>2
      <3> QED BY <1>2, <1>3, <3>2, <3>3 DEF CountOf
    <2> QED BY <2>1 DEF CountInv
  <1>14. PendingInv'
    BY <1>3 DEF PendingInv
  <1>15. LabelIsResult'
    BY <1>2 DEF FxInv, LabelIsResult
  <1> QED BY <1>8, <1>10, <1>11, <1>12, <1>13, <1>14, <1>15 DEF FxInv

\* Going on to the next scan, or to the end, sends nothing.
LEMMA NextScanStep ==
  ASSUME FxInv, Inv', NextScan
  PROVE  FxInv'
  <1> DEFINE n == NextConfigured(sendscan + 1)
  <1>0. /\ phase = "scans" /\ mpc = "ready"
        /\ UNCHANGED <<mpc, after, sendcount, terminatenow, corevars, current>>
        /\ IF n = NumScans
           THEN Terminate /\ UNCHANGED inttime
           ELSE /\ inttime' = IntTime[ScanConfig[n]]
                /\ IF ScanStart[n] >= ExecuteSeconds
                   THEN Terminate
                   ELSE /\ sendscan' = n /\ sendtime' = 0
                        /\ UNCHANGED <<phase, left>>
    BY DEF NextScan, ringvars, mvars
  <1>1. ~Pending /\ ~Pending'
    BY <1>0 DEF Pending
  <1>2. n = NumScans \/ Correlated(n)
    <2>1. Correlated(sendscan)
      BY DEF FxInv, SendTypes
    <2>2. sendscan + 1 \in 0 .. NumScans
      <3>1. NumScans \in Nat /\ sendscan \in 0 .. NumScans - 1
        BY <2>1, JobAssumption DEF Correlated, Scans
      <3> QED BY <3>1
    <2> QED BY <2>2, NextConfiguredIs
  <1> HIDE DEF n
  <1>3. SendTypes
    BY DEF FxInv
  <1>4. Terminate => phase' = "drain" /\ left' \in 0 .. Full /\ UNCHANGED <<sendscan, sendtime>>
    <2> SUFFICES ASSUME Terminate PROVE left' \in 0 .. Full
      BY DEF Terminate
    <2>1. sendcount \in Nat /\ Full \in Nat
      BY <1>3, FxConstants DEF SendTypes
    <2> QED BY <2>1 DEF Terminate
  <1>5. phase' \in {"scans", "drain"} /\ left' \in 0 .. Full
    BY <1>0, <1>3, <1>4 DEF SendTypes
  <1>6. Correlated(sendscan)' /\ sendtime' \in Nat
    <2>1. CASE UNCHANGED <<sendscan, sendtime>>
      BY <1>3, <2>1 DEF SendTypes, Correlated
    <2>2. CASE sendscan' = n /\ sendtime' = 0 /\ n # NumScans
      BY <1>2, <2>2 DEF Correlated
    <2> QED BY <1>0, <1>4, <2>1, <2>2
  <1>7. inttime' \in Nat
    <2>1. CASE n = NumScans
      BY <1>0, <1>3, <2>1 DEF SendTypes
    <2>2. CASE n # NumScans
      BY <1>0, <1>2, <2>2, ScanTimes
    <2> QED BY <2>1, <2>2
  <1>8. SendTypes'
    BY <1>0, <1>3, <1>5, <1>6, <1>7 DEF SendTypes
  <1>9. CoreTypes' /\ TurnsInv' /\ LabelInv' /\ LabelIsResult'
    BY <1>0 DEF FxInv, CoreTypes, TurnsInv, LabelInv, LabelOf, LabelIsResult, corevars
  <1>10. CountInv'
    <2>1. ASSUME NEW d \in Cores PROVE CountOf(d)'
      <3>1. CountOf(d)
        BY DEF FxInv, CountInv
      <3> QED BY <1>0, <1>1, <3>1 DEF CountOf, corevars
    <2> QED BY <2>1 DEF CountInv
  <1>11. PendingInv'
    BY <1>1 DEF PendingInv
  <1> QED BY <1>8, <1>9, <1>10, <1>11 DEF FxInv

\* The time of a result is looked up before the Core is sent another subint.
LEMMA ReceiveStep ==
  ASSUME FxInv, Inv', NEW c \in Cores, Receive(c)
  PROVE  FxInv'
  <1> DEFINE q == inflight[c]
             info == coretimes[InfoIndex(c)][c]
             more == MoreInScan /\ sendcount >= Full
  <1>0. /\ mpc = "ready" /\ q # <<>>
        /\ Pending'
        /\ more \/ (phase = "drain" /\ left > 0)
        /\ left' = IF more THEN left ELSE left - 1
        /\ current' = [core |-> c, scan |-> info[1], time |-> info[2],
                       subint |-> Head(q), resend |-> more]
        /\ inflight' = [inflight EXCEPT ![c] = Tail(q)]
        /\ UNCHANGED <<phase, sendscan, sendtime, inttime, sendcount, terminatenow,
                       numsent, extrareceived, coretimes>>
    BY DEF Receive, BeginLocate, AbandonOldest, Pending, sendvars
  <1>1. ~Pending
    BY <1>0 DEF Pending
  <1>2. CoreTypes /\ SendTypes
    BY DEF FxInv
  <1>3. /\ inflight \in [Cores -> Seq(Subints)] /\ numsent \in [Cores -> Nat]
        /\ extrareceived \in [Cores -> Nat]
        /\ \A d \in Cores : inflight[d] \in Seq(Subints) /\ Len(inflight[d]) \in Nat
    <2>1. /\ inflight \in [Cores -> Seq(Subints)] /\ numsent \in [Cores -> Nat]
          /\ extrareceived \in [Cores -> Nat]
      BY <1>2 DEF CoreTypes
    <2>2. \A d \in Cores : inflight[d] \in Seq(Subints) /\ Len(inflight[d]) \in Nat
      BY <2>1, LenProperties
    <2> QED BY <2>1, <2>2
  <1>4. /\ q \in Seq(Subints) /\ Len(q) \in Nat \ {0} /\ Head(q) \in Subints /\ Head(q) = q[1]
        /\ Tail(q) \in Seq(Subints) /\ Len(Tail(q)) = Len(q) - 1
        /\ \A k \in 1 .. Len(q) - 1 : Tail(q)[k] = q[k + 1]
    <2>1. q \in Seq(Subints) /\ q # <<>>
      BY <1>0, <1>3
    <2> HIDE DEF q
    <2> QED BY <2>1, LenProperties, EmptySeq, HeadTailProperties
  <1>5. /\ InfoIndex(c) = (numsent[c] - Len(q)) % RingLength
        /\ InfoIndex(c) \in 0 .. RingLength - 1
    BY <1>0, <1>1, InfoIndexIs
  <1>6. info = <<Head(q).scan, Head(q).time>> /\ Head(q).scan \in Nat /\ Head(q).time \in Nat
    <2>1. LabelOf(c)
      BY DEF FxInv, LabelInv
    <2>2. 1 \in 1 .. Len(q) /\ numsent[c] - Len(q) + 1 - 1 = numsent[c] - Len(q)
      BY <1>3, <1>4
    <2>3. coretimes[(numsent[c] - Len(q) + 1 - 1) % RingLength][c] = <<q[1].scan, q[1].time>>
      BY <2>1, <2>2 DEF LabelOf
    <2>4. info = <<q[1].scan, q[1].time>>
      BY <1>5, <2>2, <2>3
    <2>5. \A t \in Subints : t.scan \in Nat /\ t.time \in Nat
      BY DEF Subints
    <2> HIDE DEF info, q
    <2> QED BY <1>4, <2>4, <2>5
  <1>7. more \in BOOLEAN
    BY DEF MoreInScan
  <1> HIDE DEF info, q, more
  <1>8. SendTypes'
    <2>1. left' \in 0 .. Full
      <3>1. left \in 0 .. Full /\ Full \in Nat
        BY <1>2, FxConstants DEF SendTypes
      <3> QED BY <1>0, <3>1
    <2> QED BY <1>0, <1>2, <2>1 DEF SendTypes, Correlated
  <1>9. LabelIsResult'
    BY <1>0, <1>6 DEF LabelIsResult
  <1>10. inflight' \in [Cores -> Seq(Subints)]
    BY <1>0, <1>3, <1>4
  <1>11. CoreTypes'
    <2>1. current' \in [core : Cores, scan : Nat, time : Nat, subint : Subints, resend : BOOLEAN]
      <3>1. info[1] \in Nat /\ info[2] \in Nat
        BY <1>6
      <3> QED BY <1>0, <1>4, <1>7, <3>1
    <2> QED BY <1>0, <1>2, <1>10, <2>1 DEF CoreTypes
  <1>12. TurnsInv'
    BY <1>0 DEF FxInv, TurnsInv
  <1>13. CountInv'
    <2>1. ASSUME NEW d \in Cores PROVE CountOf(d)'
      <3>1. /\ Len(inflight[d]) + extrareceived[d] + 0
                 = IF numsent[d] < RingLength THEN numsent[d] ELSE RingLength
            /\ phase = "scans" => extrareceived[d] = 0
        BY <1>1 DEF FxInv, CountInv, CountOf
      <3>2. /\ numsent[d] \in Nat /\ extrareceived[d] \in Nat /\ Len(inflight[d]) \in Nat
            /\ numsent'[d] = numsent[d] /\ extrareceived'[d] = extrareceived[d]
            /\ current'.core = c
        BY <1>0, <1>3
      <3>3. CASE d = c
        <4>1. Len(inflight'[d]) = Len(inflight[d]) - 1
          BY <1>0, <1>3, <1>4, <3>3 DEF q
        <4>2. Len(inflight'[d]) + extrareceived'[d] + 1
                = IF numsent'[d] < RingLength THEN numsent'[d] ELSE RingLength
          BY <3>1, <3>2, <4>1
        <4> QED BY <1>0, <3>1, <3>2, <3>3, <4>2 DEF CountOf
      <3>4. CASE d # c
        <4>1. inflight'[d] = inflight[d]
          BY <1>0, <1>3, <3>4
        <4>2. Len(inflight'[d]) + extrareceived'[d] + 0
                = IF numsent'[d] < RingLength THEN numsent'[d] ELSE RingLength
          BY <3>1, <3>2, <4>1
        <4> QED BY <1>0, <3>1, <3>2, <3>4, <4>2 DEF CountOf
      <3> QED BY <3>3, <3>4
    <2> QED BY <2>1 DEF CountInv
  <1>14. PendingInv'
    <2>1. phase = "scans" => more
      BY <1>0
    <2>2. more => phase = "scans" /\ sendcount >= Full
      BY DEF more, MoreInScan
    <2> QED BY <1>0, <2>1, <2>2 DEF PendingInv
  <1>15. LabelInv'
    <2>1. ASSUME NEW d \in Cores PROVE LabelOf(d)'
      <3>1. LabelOf(d)
        BY DEF FxInv, LabelInv
      <3>2. CASE d # c
        <4>1. inflight'[d] = inflight[d] /\ numsent'[d] = numsent[d]
          BY <1>0, <1>3, <3>2
        <4> QED BY <1>0, <3>1, <4>1 DEF LabelOf
      <3>3. CASE d = c
        <4>1. inflight'[d] = Tail(q) /\ numsent'[d] = numsent[d] /\ inflight[d] = q
          BY <1>0, <1>3, <3>3 DEF q
        <4>2. ASSUME NEW k \in 1 .. Len(Tail(q))
              PROVE  coretimes[(numsent[d] - Len(Tail(q)) + k - 1) % RingLength][d]
                       = <<Tail(q)[k].scan, Tail(q)[k].time>>
          <5>1. k \in 1 .. Len(q) - 1 /\ k + 1 \in 1 .. Len(q)
            BY <1>4
          <5>2. numsent[d] - Len(Tail(q)) + k - 1 = numsent[d] - Len(q) + (k + 1) - 1
            BY <1>3, <1>4, <5>1
          <5>3. coretimes[(numsent[d] - Len(q) + (k + 1) - 1) % RingLength][d]
                  = <<q[k + 1].scan, q[k + 1].time>>
            BY <3>1, <4>1, <5>1 DEF LabelOf
          <5>4. Tail(q)[k] = q[k + 1]
            BY <1>4, <5>1
          <5> QED BY <5>2, <5>3, <5>4
        <4> QED BY <1>0, <4>1, <4>2 DEF LabelOf
      <3> QED BY <3>2, <3>3
    <2> QED BY <2>1 DEF LabelInv
  <1> QED BY <1>8, <1>9, <1>11, <1>12, <1>13, <1>14, <1>15 DEF FxInv

\* The result is dealt with: its Core gets another subint, or none any more.
LEMMA SendMoreStep ==
  ASSUME FxInv, Inv', SendMore, Pending, ~Pending',
         UNCHANGED <<phase, sendscan, inttime, terminatenow, left, current>>
  PROVE  FxInv'
  <1> DEFINE c == current.core
  <1>0. CoreTypes /\ SendTypes /\ PendingInv
    BY DEF FxInv
  <1>1. /\ numsent \in [Cores -> Nat] /\ extrareceived \in [Cores -> Nat]
        /\ \A d \in Cores : Len(inflight[d]) \in Nat
        /\ c \in Cores /\ sendcount \in Nat /\ Full \in Nat /\ RingLength \in Nat \ {0}
    <2>1. /\ numsent \in [Cores -> Nat] /\ extrareceived \in [Cores -> Nat]
          /\ inflight \in [Cores -> Seq(Subints)] /\ c \in Cores
      BY <1>0 DEF CoreTypes
    <2>2. \A d \in Cores : Len(inflight[d]) \in Nat
      BY <2>1, LenProperties
    <2> QED BY <1>0, <2>1, <2>2, FxConstants DEF SendTypes
  <1>2. \A d \in Cores :
          /\ Len(inflight[d]) + extrareceived[d] + (IF c = d THEN 1 ELSE 0)
               = IF numsent[d] < RingLength THEN numsent[d] ELSE RingLength
          /\ phase = "scans" => extrareceived[d] = 0
    BY DEF FxInv, CountInv, CountOf
  <1>3. PendingInv' /\ LabelIsResult'
    BY DEF FxInv, PendingInv, LabelIsResult
  <1>4. current'.core = c
    OBVIOUS
  <1>5. CASE current.resend
    <2>1. /\ SendData(c, sendcount) /\ sendcount' = sendcount + 1
          /\ extrareceived' = extrareceived
      BY <1>5 DEF SendMore
    <2>2. phase = "scans" /\ sendcount >= Full /\ ~(sendcount < Full)
      BY <1>0, <1>1, <1>5 DEF PendingInv
    <2>3. \A d \in Cores : numsent[d] >= RingLength
      BY <2>2 DEF FxInv, TurnsInv
    <2> HIDE DEF c
    <2>4. Len(inflight[c]) + 1 = RingLength
      <3>1. ~(numsent[c] < RingLength) /\ extrareceived[c] = 0
        BY <1>1, <1>2, <2>2, <2>3
      <3>2. Len(inflight[c]) + extrareceived[c] + 1 = RingLength
        BY <1>1, <1>2, <3>1
      <3> QED BY <1>1, <3>1, <3>2
    <2>5. /\ LabelInv'
          /\ numsent' = [numsent EXCEPT ![c] = @ + 1]
          /\ inflight' \in [Cores -> Seq(Subints)]
          /\ \A d \in Cores : Len(inflight'[d]) = Len(inflight[d]) + (IF d = c THEN 1 ELSE 0)
          /\ coretimes' \in [0 .. RingLength - 1 -> [Cores -> Nat \X Nat]]
          /\ sendtime' \in Nat
      <3>1. Len(inflight[c]) < RingLength
        BY <1>1, <2>4
      <3> QED BY <1>1, <2>1, <3>1, SendStep
    <2>6. SendTypes'
      <3>1. sendcount' \in Nat
        BY <1>1, <2>1
      <3> QED BY <1>0, <2>5, <3>1 DEF SendTypes, Correlated
    <2>7. CoreTypes'
      <3>1. numsent' \in [Cores -> Nat]
        BY <1>1, <2>5
      <3> QED BY <1>0, <2>1, <2>5, <3>1 DEF CoreTypes
    <2>8. \A d \in Cores : numsent'[d] = numsent[d] + (IF d = c THEN 1 ELSE 0)
      <3> TAKE d \in Cores
      <3>0. numsent \in [Cores -> Nat] /\ numsent[d] \in Nat
              /\ numsent' = [numsent EXCEPT ![c] = @ + 1]
        BY <1>1, <2>5
      <3>1. CASE d = c
        BY <3>0, <3>1
      <3>2. CASE d # c
        BY <3>0, <3>2
      <3> QED BY <3>1, <3>2
    <2>9. TurnsInv'
      <3>1. ~(sendcount' < Full)
        BY <1>1, <2>1, <2>2
      <3>2. \A d \in Cores : numsent'[d] >= RingLength
        BY <1>1, <2>3, <2>8
      <3> QED BY <3>1, <3>2 DEF TurnsInv
    <2>10. CountInv'
      <3>1. ASSUME NEW d \in Cores PROVE CountOf(d)'
        <4>1. /\ numsent[d] \in Nat /\ extrareceived[d] = 0 /\ Len(inflight[d]) \in Nat
              /\ numsent[d] >= RingLength
              /\ numsent'[d] = numsent[d] + (IF d = c THEN 1 ELSE 0)
              /\ Len(inflight'[d]) = Len(inflight[d]) + (IF d = c THEN 1 ELSE 0)
              /\ extrareceived'[d] = 0
          BY <1>1, <1>2, <2>1, <2>2, <2>3, <2>5, <2>8
        <4>2. Len(inflight[d]) + 0 + (IF c = d THEN 1 ELSE 0) = RingLength
          <5>1. ~(numsent[d] < RingLength)
            BY <1>1, <4>1
          <5> QED BY <1>2, <4>1, <5>1
        <4>3. ~(numsent'[d] < RingLength) /\ Len(inflight'[d]) + extrareceived'[d] + 0 = RingLength
          <5> DEFINE L == Len(inflight[d])
                     ns == numsent[d]
                     one == IF c = d THEN 1 ELSE 0
          <5>1. /\ L \in Nat /\ ns \in Nat /\ one \in {0, 1} /\ L + 0 + one = RingLength
                /\ ns >= RingLength
            BY <4>1, <4>2
          <5>2. /\ Len(inflight'[d]) = L + one /\ numsent'[d] = ns + one
                /\ extrareceived'[d] = 0
            BY <4>1
          <5> HIDE DEF L, ns, one
          <5>3. ~(ns + one < RingLength) /\ (L + one) + 0 + 0 = RingLength
            BY <1>1, <5>1
          <5> QED BY <5>2, <5>3
        <4> QED BY <4>1, <4>3 DEF CountOf
      <3> QED BY <3>1 DEF CountInv
    <2> QED BY <1>3, <2>5, <2>6, <2>7, <2>9, <2>10 DEF FxInv
  <1>6. CASE ~current.resend
    <2>1. /\ extrareceived' = [extrareceived EXCEPT ![c] = @ + 1]
          /\ UNCHANGED <<numsent, coretimes, inflight, sendcount, sendtime>>
      BY <1>6 DEF SendMore
    <2>2. phase = "drain"
      BY <1>0, <1>6 DEF PendingInv, SendTypes
    <2>3. SendTypes'
      BY <1>0, <2>1 DEF SendTypes, Correlated
    <2>4. CoreTypes'
      <3>1. extrareceived' \in [Cores -> Nat]
        BY <1>1, <2>1
      <3> QED BY <1>0, <2>1, <3>1 DEF CoreTypes
    <2>5. TurnsInv' /\ LabelInv'
      BY <2>1 DEF FxInv, TurnsInv, LabelInv, LabelOf
    <2> HIDE DEF c
    <2>6. CountInv'
      <3>1. ASSUME NEW d \in Cores PROVE CountOf(d)'
        <4>1. /\ numsent[d] \in Nat /\ extrareceived[d] \in Nat /\ Len(inflight[d]) \in Nat
              /\ extrareceived'[d] = extrareceived[d] + (IF c = d THEN 1 ELSE 0)
              /\ numsent'[d] = numsent[d] /\ inflight'[d] = inflight[d]
          BY <1>1, <2>1
        <4>2. Len(inflight'[d]) + extrareceived'[d] + 0
                = Len(inflight[d]) + extrareceived[d] + (IF c = d THEN 1 ELSE 0)
          BY <4>1
        <4>3. Len(inflight'[d]) + extrareceived'[d] + 0
                = IF numsent'[d] < RingLength THEN numsent'[d] ELSE RingLength
          BY <1>2, <4>1, <4>2
        <4> QED BY <2>2, <4>3 DEF CountOf
      <3> QED BY <3>1 DEF CountInv
    <2> QED BY <1>3, <2>3, <2>4, <2>5, <2>6 DEF FxInv
  <1> QED BY <1>5, <1>6

\* No step forgets which result is which.
LEMMA FxStepInv == FxInv /\ [FxNext]_vars => FxInv'
  <1> SUFFICES ASSUME FxInv, [FxNext]_vars PROVE FxInv'
    OBVIOUS
  <1>1. Inv'
    BY RingStep, StepInv DEF FxInv
  <1>2. SendTypes
    BY DEF FxInv
  <1>3. ASSUME Unsent, UNCHANGED <<mpc, after, inttime, left>>, terminatenow' \in BOOLEAN
        PROVE  FxInv'
    <2>1. SendTypes'
      BY <1>2, <1>3 DEF SendTypes, Unsent, Correlated
    <2>2. Pending' <=> Pending
      BY <1>3 DEF Pending, Unsent
    <2> QED BY <1>1, <1>3, <2>1, <2>2, UnsentStep
  <1>4. ASSUME Unsent, UNCHANGED <<inttime, left, terminatenow>>, Pending' <=> Pending
        PROVE  FxInv'
    <2>1. SendTypes'
      BY <1>2, <1>4 DEF SendTypes, Unsent, Correlated
    <2> QED BY <1>1, <1>4, <2>1, UnsentStep
  <1>5. CASE Fill
    BY <1>1, <1>5, FillStep
  <1>6. CASE NextScan
    BY <1>1, <1>6, NextScanStep
  <1>7. ASSUME NEW c \in Cores, Receive(c) PROVE FxInv'
    BY <1>1, <1>7, ReceiveStep
  <1>8. CASE LocateStale
    <2>1. Pending /\ ~Pending'
      BY <1>8 DEF LocateStale, StaleResult, Pending
    <2> QED BY <1>1, <1>8, <2>1, SendMoreStep DEF LocateStale
  <1>9. CASE Deliver
    <2>1. mpc = "deliver" /\ (mpc' \in {"ready", "lockahead"} \/ (mpc' = "advance" /\ after' = "ready"))
      BY <1>9 DEF Deliver, AddLast, AddIncomplete, Release
    <2>2. Pending /\ ~Pending'
      BY <2>1 DEF Pending
    <2> QED BY <1>1, <1>9, <2>2, SendMoreStep DEF Deliver
  <1>10. CASE LocateFound
    <2>1. mpc = "locate" /\ mpc' = "deliver"
      BY <1>10 DEF LocateFound, FoundInWindow
    <2> QED BY <1>4, <1>10, <2>1 DEF LocateFound, Unsent, Pending, fxvars, sendvars
  <1>11. CASE LocateBeyond
    <2>1. mpc = "locate" /\ mpc' \in {"extend", "dropping"}
      BY <1>11 DEF LocateBeyond, BeyondWindow
    <2> QED BY <1>4, <1>11, <2>1 DEF LocateBeyond, Unsent, Pending, sendvars
  <1>12. CASE Extend
    <2>1. mpc = "extend" /\ mpc' \in {"deliver", "extend", "dropping"}
      BY <1>12 DEF Extend, LockMore
    <2> QED BY <1>4, <1>12, <2>1 DEF Extend, Unsent, Pending, sendvars
  <1>13. CASE Drop
    <2>1. mpc = "dropping" /\ mpc' = "advance" /\ after' = "lockdropped"
      BY <1>13 DEF Drop, DropOldest, AbandonOldest
    <2> QED BY <1>4, <1>13, <2>1 DEF Drop, Unsent, Pending, fxvars, sendvars
  <1>14. CASE DropNoMore
    <2>1. mpc = "dropping" /\ mpc' = "deliver"
      BY <1>14 DEF DropNoMore, StopDropping
    <2> QED BY <1>4, <1>14, <2>1 DEF DropNoMore, Unsent, Pending, fxvars, sendvars
  <1>15. CASE ExtendDropped
    <2>1. mpc = "lockdropped" /\ mpc' \in {"dropping", "lockdropped"}
      BY <1>15 DEF ExtendDropped, LockDropped
    <2> QED BY <1>4, <1>15, <2>1 DEF ExtendDropped, Unsent, Pending, sendvars
  <1>16. CASE Advance
    <2>1. mpc = "advance" /\ after' = after /\ mpc' \in {"advance", after}
            /\ after \in {"ready", "locate", "lockdropped"}
      BY <1>16 DEF Advance, AdvanceOldest, FxInv, Inv, RingTypeOK
    <2> QED BY <1>4, <1>16, <2>1 DEF Advance, Unsent, Pending, fxvars, sendvars
  <1>17. CASE LockNextAhead
    <2>1. mpc = "lockahead" /\ (mpc' = "ready" \/ (mpc' = "advance" /\ after' = "ready"))
      BY <1>17 DEF LockNextAhead, LockAhead, Release
    <2> QED BY <1>4, <1>17, <2>1 DEF LockNextAhead, Unsent, Pending, fxvars, sendvars
  <1>18. CASE Finish
    <2>1. mpc = "ready" /\ mpc' = "lastunlock"
      BY <1>18 DEF Finish, StopWriting
    <2> QED BY <1>4, <1>18, <2>1 DEF Finish, Unsent, Pending, fxvars, sendvars
  <1>19. CASE Unlock
    <2>1. mpc = "lastunlock" /\ mpc' \in {"join", "lastunlock"}
      BY <1>19 DEF Unlock, LastUnlock
    <2> QED BY <1>4, <1>19, <2>1 DEF Unlock, Unsent, Pending, fxvars, sendvars
  <1>20. CASE Join
    <2>1. mpc = "join" /\ mpc' = "done"
      BY <1>20 DEF Join, JoinWriter
    <2> QED BY <1>4, <1>20, <2>1 DEF Join, Unsent, Pending, fxvars, sendvars
  <1>21. CASE Writer
    <2>1. UNCHANGED <<mpc, after, sendvars, corevars, left, current>>
      BY <1>21 DEF Writer, CheckWriting, LockWriting, Write, Recycle, Flush, WriterCheck,
                   WriterLock, WriterWrite, WriterIncrement, WriterFlush, mvars, fxvars
    <2> QED BY <1>2, <1>3, <2>1 DEF Unsent, sendvars, SendTypes
  <1>22. CASE Interrupt
    <2>1. UNCHANGED <<mpc, after, inttime, left>> /\ Unsent /\ terminatenow' \in BOOLEAN
      BY <1>22 DEF Interrupt, Unsent, ringvars, mvars
    <2> QED BY <1>3, <2>1
  <1>23. CASE Done \/ UNCHANGED vars
    <2>1. UNCHANGED <<mpc, after, sendvars, corevars, left, current>>
      BY <1>23 DEF Done, RingDone, vars, ringvars, mvars, fxvars
    <2> QED BY <1>2, <1>3, <2>1 DEF Unsent, sendvars, SendTypes
  <1> QED BY <1>5, <1>6, <1>7, <1>8, <1>9, <1>10, <1>11, <1>12, <1>13, <1>14, <1>15, <1>16,
             <1>17, <1>18, <1>19, <1>20, <1>21, <1>22, <1>23 DEF FxNext, Manager

\* The invariant of FxManager's dealings with the Cores, with that of the ring.
THEOREM FxInvariant == FxSpec => []FxInv
  <1> QED BY FxInitInv, FxStepInv, PTL DEF FxSpec

\* Every variable of FxManager has its type, and no Core ever has more in hand
\* than its receive ring has slots.
THEOREM FxTypeCorrect == FxSpec => []FxTypeOK
  <1>1. FxInv => FxTypeOK
    <2> SUFFICES ASSUME FxInv PROVE FxTypeOK
      OBVIOUS
    <2>1. RingTypeOK /\ SendTypes /\ CoreTypes
      BY DEF FxInv, Inv
    <2>2. ASSUME NEW c \in Cores
          PROVE  Len(inflight[c]) <= RingLength /\ extrareceived[c] \in 0 .. RingLength
      <3> DEFINE L == Len(inflight[c])
                 e == extrareceived[c]
                 ns == numsent[c]
                 p == IF Pending /\ current.core = c THEN 1 ELSE 0
      <3>1. L \in Nat /\ e \in Nat /\ ns \in Nat /\ p \in {0, 1}
        <4>1. inflight[c] \in Seq(Subints) /\ e \in Nat /\ ns \in Nat
          BY <2>1 DEF CoreTypes
        <4>2. L \in Nat
          BY <4>1, LenProperties
        <4> QED BY <4>1, <4>2
      <3>2. L + e + p = IF ns < RingLength THEN ns ELSE RingLength
        BY DEF FxInv, CountInv, CountOf
      <3> HIDE DEF L, e, ns, p
      <3>3. L <= RingLength /\ e \in 0 .. RingLength
        BY <3>1, <3>2, FxConstants
      <3> QED BY <3>3 DEF L, e
    <2> QED BY <2>1, <2>2 DEF FxTypeOK, SendTypes, Correlated
  <1> QED BY <1>1, FxInvariant, PTL

\* The manager keeps a result's time and the Core that worked on it together:
\* what it looks up in coretimes is the time of the subint answered, while the
\* Cores are filled up, while they are kept full and while they run empty, for
\* every number of Cores and slots and in every order of answers.
THEOREM FxLabelIsResult == FxSpec => []LabelIsResult
  <1>1. FxInv => LabelIsResult
    BY DEF FxInv
  <1> QED BY <1>1, FxInvariant, PTL

-----------------------------------------------------------------------------
(* The integrations of a job, one after another *)

\* The objects of the ring: of a scan that is correlated, or past the last one.
Visibilities ==
  {v \in [scan : Nat, start : Int, config : Configs, offset : Int, expected : Int,
          subints : Nat, results : SUBSET Subints] :
     v.scan = NumScans \/ Correlated(v.scan)}

\* A Visibility without what it has accumulated.
Clock(v) == [v EXCEPT !.subints = 0, !.results = {}]

Earlier(v, w) == v.scan < w.scan \/ (v.scan = w.scan /\ v.start < w.start)

\* What is left of the ring's order: each buffer is as many integrations after
\* the one the write thread is at as it is ahead of it.
ClocksInv ==
  \A j \in Vis :
    /\ visbuffer[j] \in Visibilities
    /\ Clock(visbuffer[j])
         = UpdateTimes(Clock(visbuffer[writesegment]), Ahead(writesegment, j))

Records == [scan : Nat, start : Int, results : SUBSET Subints, atend : BOOLEAN]

\* The last integration written is earlier than the one that comes next.
LastInv ==
  written # <<>> =>
    LET w == written[Len(written)]
        v == visbuffer[writesegment]
    IN /\ wpc \in {"check", "lock", "write"} => Earlier(w, v)
       /\ wpc = "increment" =>
            \/ Earlier(w, v)
            \/ w.scan = v.scan /\ w.start = v.start /\ v.scan < NumScans
       /\ wpc = "flush" =>
            Earlier(w, visbuffer[(writesegment + flushed) % VisBufferLength])

OutInv == /\ visbuffer \in [Vis -> Visibilities] /\ ClocksInv
          /\ written \in Seq(Records) /\ InOrder /\ LastInv

\* UpdateTimes is what it says: UpdateTime, so many times.
LEMMA UpdateTimesIs ==
  ASSUME NEW v
  PROVE  /\ UpdateTimes(v, 0) = v
         /\ \A n \in Nat : UpdateTimes(v, n + 1) = UpdateTime(UpdateTimes(v, n))
  <1> DEFINE Is(f, n) == f = [k \in 0 .. n |-> IF k = 0 THEN v ELSE UpdateTime(f[k - 1])]
             Table(n) == CHOOSE f : Is(f, n)
  <1>1. ASSUME NEW n \in Nat PROVE \E f : Is(f, n)
    <2> DEFINE T == {m \in Nat : \E f : Is(f, m)}
    <2>1. 0 \in T
      <3> DEFINE f == [k \in 0 .. 0 |-> v]
      <3>1. Is(f, 0)
        OBVIOUS
      <3> QED BY <3>1
    <2>2. ASSUME NEW m \in T PROVE m + 1 \in T
      <3>1. PICK f : Is(f, m)
        BY <2>2
      <3> DEFINE g == [k \in 0 .. m + 1 |-> IF k = 0 THEN v ELSE UpdateTime(f[k - 1])]
      <3>2. \A k \in 0 .. m : g[k] = f[k]
        <4> HIDE DEF UpdateTime
        <4>1. m \in Nat /\ \A k \in 0 .. m : k \in 0 .. m + 1
          BY <2>2
        <4>2. \A k \in 0 .. m : g[k] = IF k = 0 THEN v ELSE UpdateTime(f[k - 1])
          BY <4>1
        <4>3. \A k \in 0 .. m : f[k] = IF k = 0 THEN v ELSE UpdateTime(f[k - 1])
          BY <3>1
        <4> QED BY <4>2, <4>3
      <3>3. \A k \in 0 .. m + 1 : k # 0 => k - 1 \in 0 .. m
        BY <2>2
      <3>4. Is(g, m + 1)
        BY <3>2, <3>3
      <3> HIDE DEF Is
      <3> QED BY <2>2, <3>4
    <2> HIDE DEF Is
    <2>3. T \in SUBSET Nat
      OBVIOUS
    <2> HIDE DEF T
    <2>4. T = Nat
      BY <2>1, <2>2, <2>3, SetInduction
    <2> QED BY <2>4 DEF T
  <1>2. ASSUME NEW n \in Nat PROVE Is(Table(n), n)
    <2> HIDE DEF Is
    <2> QED BY <1>1
  <1>3. ASSUME NEW n \in Nat PROVE UpdateTimes(v, n) = Table(n)[n]
    BY DEF UpdateTimes
  <1> HIDE DEF Table
  <1>4. ASSUME NEW n \in Nat, NEW k \in 0 .. n
        PROVE  Table(n)[k] = IF k = 0 THEN v ELSE UpdateTime(Table(n)[k - 1])
    BY <1>2
  <1>5. ASSUME NEW n \in Nat PROVE \A k \in 0 .. n : Table(n + 1)[k] = Table(n)[k]
    <2> DEFINE T == {m \in Nat : m \in 0 .. n => Table(n + 1)[m] = Table(n)[m]}
    <2>1. 0 \in T
      <3>1. n + 1 \in Nat /\ 0 \in 0 .. n /\ 0 \in 0 .. n + 1
        OBVIOUS
      <3>2. Table(n + 1)[0] = v /\ Table(n)[0] = v
        BY <1>4, <3>1
      <3> QED BY <3>2
    <2>2. ASSUME NEW m \in T PROVE m + 1 \in T
      <3> SUFFICES ASSUME m + 1 \in 0 .. n PROVE Table(n + 1)[m + 1] = Table(n)[m + 1]
        OBVIOUS
      <3>1. /\ n + 1 \in Nat /\ m \in 0 .. n /\ m + 1 \in 0 .. n + 1
            /\ m + 1 # 0 /\ (m + 1) - 1 = m
        OBVIOUS
      <3>2. /\ Table(n + 1)[m + 1] = UpdateTime(Table(n + 1)[m])
            /\ Table(n)[m + 1] = UpdateTime(Table(n)[m])
        BY <1>4, <3>1
      <3>3. Table(n + 1)[m] = Table(n)[m]
        BY <3>1
      <3> QED BY <3>2, <3>3
    <2>3. T \in SUBSET Nat
      OBVIOUS
    <2> HIDE DEF T
    <2>4. T = Nat
      BY <2>1, <2>2, <2>3, SetInduction
    <2>5. ASSUME NEW k \in 0 .. n PROVE Table(n + 1)[k] = Table(n)[k]
      <3>1. k \in T
        BY <2>4
      <3> QED BY <3>1 DEF T
    <2> QED BY <2>5
  <1>6. UpdateTimes(v, 0) = v
    BY <1>3, <1>4
  <1>7. ASSUME NEW n \in Nat PROVE UpdateTimes(v, n + 1) = UpdateTime(UpdateTimes(v, n))
    <2>1. /\ n + 1 \in Nat /\ n + 1 \in 0 .. n + 1 /\ n + 1 # 0 /\ (n + 1) - 1 = n
          /\ n \in 0 .. n
      OBVIOUS
    <2>2. Table(n + 1)[n + 1] = UpdateTime(Table(n + 1)[n])
      BY <1>4, <2>1
    <2>3. Table(n + 1)[n] = Table(n)[n]
      BY <1>5, <2>1
    <2> QED BY <1>3, <2>1, <2>2, <2>3
  <1> QED BY <1>6, <1>7

\* One more at the front is one more at the end.
LEMMA UpdateTimesFirst ==
  ASSUME NEW v, NEW n \in Nat
  PROVE  UpdateTimes(v, n + 1) = UpdateTimes(UpdateTime(v), n)
  <1> DEFINE w == UpdateTime(v)
             T == {m \in Nat : UpdateTimes(v, m + 1) = UpdateTimes(w, m)}
  <1>1. 0 \in T
    <2>1. UpdateTimes(v, 0 + 1) = UpdateTime(UpdateTimes(v, 0))
      BY UpdateTimesIs
    <2>2. UpdateTimes(v, 0) = v /\ UpdateTimes(w, 0) = w
      BY UpdateTimesIs
    <2> QED BY <2>1, <2>2
  <1>2. ASSUME NEW m \in T PROVE m + 1 \in T
    <2>1. m + 1 \in Nat /\ m \in Nat
      OBVIOUS
    <2>2. UpdateTimes(v, (m + 1) + 1) = UpdateTime(UpdateTimes(v, m + 1))
      BY <2>1, UpdateTimesIs
    <2>3. UpdateTimes(w, m + 1) = UpdateTime(UpdateTimes(w, m))
      BY <2>1, UpdateTimesIs
    <2> QED BY <2>1, <2>2, <2>3
  <1>3. T \in SUBSET Nat
    OBVIOUS
  <1> HIDE DEF T
  <1>4. n \in T
    BY <1>1, <1>2, <1>3, SetInduction
  <1> QED BY <1>4 DEF T

\* The next scan is later, whether or not there is one.
LEMMA NextScanIs ==
  ASSUME NEW n, Correlated(n)
  PROVE  LET m == NextConfigured(n + 1) IN
         m \in Nat /\ n < m /\ (m = NumScans \/ Correlated(m))
  <1>1. n \in Nat /\ n + 1 \in 0 .. NumScans /\ NumScans \in Nat
    <2>1. NumScans \in Nat /\ n \in 0 .. NumScans - 1
      BY JobAssumption DEF Correlated, Scans
    <2> QED BY <2>1
  <1> DEFINE m == NextConfigured(n + 1)
  <1>2. m \in n + 1 .. NumScans /\ (m = NumScans \/ Correlated(m))
    BY <1>1, NextConfiguredIs
  <1> HIDE DEF m
  <1>3. m \in Nat /\ n < m
    BY <1>1, <1>2
  <1> QED BY <1>2, <1>3 DEF m

\* What the remainder of an integration time comes to is a number.
LEMMA CarryType ==
  ASSUME NEW g \in Configs, NEW o \in Int
  PROVE  Carry(g, o).offset \in Int /\ Carry(g, o).subints \in Int
  <1> DEFINE S == SubintNS[g]
             I == IntTime[g]
             r == I % S
             w == I \div S
             h == S \div 2
  <1>1. S \in Nat \ {0} /\ I \in Int
    BY JobAssumption
  <1>2. r \in Int /\ w \in Int /\ h \in Int
    <2> HIDE DEF S, I
    <2> QED BY <1>1, SMT
  <1>3. Carry(g, o) = IF o + r > h THEN [offset |-> (o + r) - S, subints |-> w + 1]
                      ELSE [offset |-> o + r, subints |-> w]
    BY DEF Carry
  <1> HIDE DEF S, I, r, w, h
  <1> QED BY <1>1, <1>2, <1>3

\* One step of the calendar: it goes on in the scan or enters the next one.
LEMMA UpdateTimeIs ==
  ASSUME NEW v \in Visibilities
  PROVE  /\ UpdateTime(v) \in Visibilities
         /\ v.scan < NumScans => Earlier(v, UpdateTime(v))
         /\ v.scan >= NumScans => UpdateTime(v) = v
         /\ Clock(v) \in Visibilities
         /\ Clock(UpdateTime(v)) = UpdateTime(Clock(v))
  <1> DEFINE start == v.start + IntTime[v.config]
             next == Carry(v.config, v.offset)
             first == Carry(v.config, 0)
             scan == NextConfigured(v.scan + 1)
             cut == CutShort(v, start, next.subints)
             u == UpdateTime(v)
  <1>0. /\ v \in [scan : Nat, start : Int, config : Configs, offset : Int, expected : Int,
                  subints : Nat, results : SUBSET Subints]
        /\ v.scan = NumScans \/ Correlated(v.scan)
        /\ v.scan \in Nat /\ v.start \in Int /\ v.config \in Configs /\ v.offset \in Int
        /\ NumScans \in Nat
    BY JobAssumption DEF Visibilities
  <1>1. IntTime[v.config] \in Nat \ {0} /\ SubintNS[v.config] \in Nat \ {0}
    BY <1>0, JobAssumption
  <1>2. start \in Int /\ v.start < start
    BY <1>0, <1>1
  <1>3. next.offset \in Int /\ next.subints \in Int /\ first.offset \in Int /\ first.subints \in Int
    BY <1>0, CarryType
  <1>4. Clock(v) \in Visibilities
    BY <1>0 DEF Clock, Visibilities
  <1>5. CASE v.scan >= NumScans
    <2>1. u = v /\ UpdateTime(Clock(v)) = Clock(v)
      BY <1>0, <1>5 DEF UpdateTime, Clock
    <2>2. ~(v.scan < NumScans)
      BY <1>0, <1>5
    <2> QED BY <1>4, <2>1, <2>2
  <1>6. CASE ~(v.scan >= NumScans)
    <2>1. Correlated(v.scan) /\ v.scan \in Scans
      BY <1>0, <1>6 DEF Correlated
    <2>2. scan \in Nat /\ v.scan < scan /\ (scan = NumScans \/ Correlated(scan))
      BY <2>1, NextScanIs
    <2>3. Clock(v).scan = v.scan /\ Clock(v).start = v.start /\ Clock(v).config = v.config
            /\ Clock(v).offset = v.offset
      BY <1>0 DEF Clock
    <2>4. CASE start >= ScanDuration[v.scan]
      <3> DEFINE g == IF scan < NumScans THEN ScanConfig[scan] ELSE v.config
      <3>1. u = [v EXCEPT !.scan = scan, !.start = 0, !.config = g,
                          !.offset = first.offset, !.expected = first.subints]
        BY <1>6, <2>4 DEF UpdateTime, EnterScan
      <3>2. UpdateTime(Clock(v)) =
              [Clock(v) EXCEPT !.scan = scan, !.start = 0, !.config = g,
                               !.offset = first.offset, !.expected = first.subints]
        BY <1>6, <2>3, <2>4 DEF UpdateTime, EnterScan
      <3>3. g \in Configs
        <4>1. CASE scan < NumScans
          BY <1>0, <2>2, <4>1 DEF Correlated
        <4>2. CASE ~(scan < NumScans)
          BY <1>0, <4>2
        <4> QED BY <4>1, <4>2
      <3> HIDE DEF g, scan, first, u
      <3>4. u \in Visibilities
        <4>1. u \in [scan : Nat, start : Int, config : Configs, offset : Int, expected : Int,
                     subints : Nat, results : SUBSET Subints]
          <5>1. u = [scan |-> scan, start |-> 0, config |-> g, offset |-> first.offset,
                     expected |-> first.subints, subints |-> v.subints, results |-> v.results]
            BY <1>0, <3>1
          <5>2. v.subints \in Nat /\ v.results \in SUBSET Subints
            BY <1>0
          <5> QED BY <1>3, <2>2, <3>3, <5>1, <5>2
        <4>2. u.scan = scan
          BY <1>0, <3>1
        <4> QED BY <2>2, <4>1, <4>2 DEF Visibilities
      <3>5. Earlier(v, u)
        BY <1>0, <2>2, <3>1 DEF Earlier
      <3>6. Clock(u) = UpdateTime(Clock(v))
        BY <1>0, <3>1, <3>2 DEF Clock
      <3> QED BY <1>4, <1>6, <3>4, <3>5, <3>6 DEF u
    <2>5. CASE ~(start >= ScanDuration[v.scan])
      <3>1. u = [v EXCEPT !.start = start, !.offset = next.offset, !.expected = cut]
        BY <1>6, <2>5 DEF UpdateTime
      <3>2. UpdateTime(Clock(v)) =
              [Clock(v) EXCEPT !.start = start, !.offset = next.offset, !.expected = cut]
        <4>1. CutShort(Clock(v), start, next.subints) = cut
          BY <2>3 DEF CutShort
        <4> QED BY <1>6, <2>3, <2>5, <4>1 DEF UpdateTime
      <3>3. cut \in Int
        <4> DEFINE over == start + IntTime[v.config] - ScanDuration[v.scan]
        <4>1. ScanDuration[v.scan] \in Nat
          BY <2>1, JobAssumption
        <4>2. over \in Int
          BY <1>1, <1>2, <4>1
        <4>3. cut = IF over > 0 THEN next.subints - (over \div SubintNS[v.config])
                    ELSE next.subints
          BY DEF CutShort
        <4> DEFINE d == over \div SubintNS[v.config]
        <4> HIDE DEF over, cut, next
        <4>4. d \in Int
          BY <1>1, <4>2, Division
        <4>5. cut = IF over > 0 THEN next.subints - d ELSE next.subints
          BY <4>3
        <4> HIDE DEF d
        <4> QED BY <1>3, <4>4, <4>5
      <3> HIDE DEF start, next, cut, u
      <3>4. u \in Visibilities
        BY <1>0, <1>2, <1>3, <3>1, <3>3 DEF Visibilities
      <3>5. Earlier(v, u)
        BY <1>0, <1>2, <3>1 DEF Earlier
      <3>6. Clock(u) = UpdateTime(Clock(v))
        BY <1>0, <3>1, <3>2 DEF Clock
      <3> QED BY <1>4, <1>6, <3>4, <3>5, <3>6 DEF u
    <2> QED BY <2>4, <2>5
  <1> QED BY <1>5, <1>6

\* The same of many steps.
LEMMA UpdateTimesKeep ==
  ASSUME NEW v \in Visibilities, NEW n \in Nat
  PROVE  /\ UpdateTimes(v, n) \in Visibilities
         /\ Clock(UpdateTimes(v, n)) = UpdateTimes(Clock(v), n)
         /\ v.scan >= NumScans => UpdateTimes(v, n) = v
  <1> DEFINE T == {m \in Nat : /\ UpdateTimes(v, m) \in Visibilities
                               /\ Clock(UpdateTimes(v, m)) = UpdateTimes(Clock(v), m)
                               /\ v.scan >= NumScans => UpdateTimes(v, m) = v}
  <1>1. 0 \in T
    BY UpdateTimesIs
  <1>2. ASSUME NEW m \in T PROVE m + 1 \in T
    <2> DEFINE w == UpdateTimes(v, m)
    <2>1. m \in Nat /\ m + 1 \in Nat /\ w \in Visibilities /\ Clock(w) = UpdateTimes(Clock(v), m)
            /\ (v.scan >= NumScans => w = v)
      OBVIOUS
    <2>2. /\ UpdateTimes(v, m + 1) = UpdateTime(w)
          /\ UpdateTimes(Clock(v), m + 1) = UpdateTime(UpdateTimes(Clock(v), m))
      BY <2>1, UpdateTimesIs
    <2> HIDE DEF w
    <2>3. /\ UpdateTime(w) \in Visibilities
          /\ Clock(UpdateTime(w)) = UpdateTime(Clock(w))
          /\ w.scan >= NumScans => UpdateTime(w) = w
      BY <2>1, UpdateTimeIs
    <2> QED BY <2>1, <2>2, <2>3
  <1>3. T \in SUBSET Nat
    OBVIOUS
  <1> HIDE DEF T
  <1>4. n \in T
    BY <1>1, <1>2, <1>3, SetInduction
  <1> QED BY <1>4 DEF T

-----------------------------------------------------------------------------
(* The order of the integrations written *)

\* What is earlier than an integration, or is that one, is earlier than the next.
LEMMA EarlierThan ==
  ASSUME NEW w, NEW v \in Visibilities, w.scan \in Nat, w.start \in Int,
         \/ Earlier(w, v)
         \/ w.scan = v.scan /\ w.start = v.start /\ v.scan < NumScans
  PROVE  Earlier(w, UpdateTime(v))
  <1> DEFINE u == UpdateTime(v)
  <1>1. /\ u \in Visibilities
        /\ v.scan < NumScans => Earlier(v, u)
        /\ v.scan >= NumScans => u = v
    BY UpdateTimeIs
  <1> HIDE DEF u
  <1>2. /\ v.scan \in Nat /\ v.start \in Int /\ u.scan \in Nat /\ u.start \in Int
        /\ NumScans \in Nat
    BY <1>1, JobAssumption DEF Visibilities
  <1>3. Earlier(w, u)
    <2>1. CASE v.scan < NumScans
      BY <1>1, <1>2, <2>1 DEF Earlier
    <2>2. CASE ~(v.scan < NumScans)
      <3>1. u = v /\ Earlier(w, v)
        BY <1>1, <1>2, <2>2
      <3> QED BY <3>1
    <2> QED BY <2>1, <2>2
  <1> QED BY <1>3 DEF u

\* A Visibility is taken for its Clock when times are compared.
LEMMA ClockIs ==
  ASSUME NEW v \in Visibilities
  PROVE  /\ Clock(v).scan = v.scan /\ Clock(v).start = v.start
         /\ Clock(v) \in Visibilities
         /\ \A w : Earlier(w, Clock(v)) <=> Earlier(w, v)
  <1>1. Clock(v).scan = v.scan /\ Clock(v).start = v.start
    BY DEF Clock, Visibilities
  <1>2. Clock(v) \in Visibilities
    BY UpdateTimeIs
  <1> QED BY <1>1, <1>2 DEF Earlier

\* The buffer after the one that is k ahead of the write thread is one
\* integration later.
LEMMA NextBuffer ==
  ASSUME FxInv, visbuffer \in [Vis -> Visibilities], ClocksInv,
         NEW k \in 0 .. VisBufferLength - 2
  PROVE  LET p == (writesegment + k) % VisBufferLength
             q == (writesegment + (k + 1)) % VisBufferLength
         IN p \in Vis /\ q \in Vis /\ Clock(visbuffer[q]) = UpdateTime(Clock(visbuffer[p]))
  <1> DEFINE N == VisBufferLength
             ws == writesegment
             p == (ws + k) % N
             q == (ws + (k + 1)) % N
  <1>0. N \in Nat \ {0} /\ ws \in 0 .. N - 1 /\ Vis = 0 .. N - 1 /\ k \in Nat /\ k + 1 < N
    BY VisBufferLengthAssumption DEF FxInv, Inv, RingTypeOK, Vis
  <1>1. p = IF ws + k < N THEN ws + k ELSE ws + k - N
    <2> DEFINE x == ws + k
    <2>1. x \in 0 .. 2 * N - 1
      BY <1>0
    <2> HIDE DEF x
    <2>2. x % N = IF x < N THEN x ELSE x - N
      BY <1>0, <2>1, ModOnce
    <2> QED BY <1>0, <2>2 DEF x
  <1>2. q = IF ws + (k + 1) < N THEN ws + (k + 1) ELSE ws + (k + 1) - N
    <2> DEFINE x == ws + (k + 1)
    <2>1. x \in 0 .. 2 * N - 1
      BY <1>0
    <2> HIDE DEF x
    <2>2. x % N = IF x < N THEN x ELSE x - N
      BY <1>0, <2>1, ModOnce
    <2> QED BY <1>0, <2>2 DEF x
  <1> HIDE DEF p, q
  <1>3. p \in Vis /\ q \in Vis
    BY <1>0, <1>1, <1>2
  <1>4. Ahead(ws, p) = k /\ Ahead(ws, q) = k + 1
    <2>1. /\ Ahead(ws, p) = IF ws <= p THEN p - ws ELSE p - ws + N
          /\ Ahead(ws, q) = IF ws <= q THEN q - ws ELSE q - ws + N
      BY <1>0, <1>3, AheadValue
    <2> QED BY <1>0, <1>1, <1>2, <2>1
  <1>5. /\ Clock(visbuffer[p]) = UpdateTimes(Clock(visbuffer[ws]), k)
        /\ Clock(visbuffer[q]) = UpdateTimes(Clock(visbuffer[ws]), k + 1)
    BY <1>3, <1>4 DEF ClocksInv
  <1>6. UpdateTimes(Clock(visbuffer[ws]), k + 1) = UpdateTime(UpdateTimes(Clock(visbuffer[ws]), k))
    BY <1>0, UpdateTimesIs
  <1> QED BY <1>3, <1>5, <1>6 DEF p, q

\* The buffers begin with consecutive integrations.
LEMMA OutInit == FxInit => OutInv
  <1> SUFFICES ASSUME FxInit PROVE OutInv
    OBVIOUS
  <1> DEFINE g == ScanConfig[InitScan]
             S == SubintNS[g]
             I == IntTime[g]
             r == I % S
             h == S \div 2
             w == I \div S
             o == IF r > h THEN r - h ELSE r
             e == w + (IF r > h THEN 1 ELSE 0)
             v == [scan |-> InitScan, start |-> InitTime, config |-> g,
                   offset |-> o, expected |-> e,
                   subints |-> 0, results |-> {}]
  <1>1. Correlated(InitScan) /\ InitTime \in Nat
    BY InitScanIs
  <1>2. InitScan \in Nat /\ g \in Configs
    BY <1>1, ScanTimes DEF Correlated
  <1>3. I \in Nat \ {0} /\ S \in Nat \ {0}
    BY <1>2, JobAssumption
  <1>4. r \in Int /\ h \in Int /\ w \in Int
    <2> HIDE DEF I, S
    <2> QED BY <1>3, SMT
  <1>5. \A i : NewVisibility(i) = UpdateTimes(v, i)
    BY DEF NewVisibility
  <1>13. o \in Int /\ e \in Int
    <2> HIDE DEF r, h, w
    <2> QED BY <1>4
  <1> HIDE DEF g, o, e
  <1>6. v \in Visibilities
    BY <1>1, <1>2, <1>13 DEF Visibilities
  <1>7. Clock(v) = v
    <2>1. v.subints = 0 /\ v.results = {}
      OBVIOUS
    <2> HIDE DEF v
    <2>2. v \in [scan : Nat, start : Int, config : Configs, offset : Int, expected : Int,
                 subints : Nat, results : SUBSET Subints]
      BY <1>6 DEF Visibilities
    <2> QED BY <2>1, <2>2 DEF Clock
  <1> HIDE DEF v
  <1>8. \A i \in Vis : i \in Nat
    BY RingArithmetic
  <1>9. visbuffer = [i \in Vis |-> UpdateTimes(v, i)]
    BY <1>5 DEF FxInit
  <1>10. visbuffer \in [Vis -> Visibilities]
    BY <1>6, <1>8, <1>9, UpdateTimesKeep
  <1>11. ClocksInv
    <2>1. writesegment = 0 /\ 0 \in Vis
      BY VisBufferLengthAssumption DEF FxInit, RingInit, Vis
    <2>2. UpdateTimes(v, 0) = v
      BY UpdateTimesIs
    <2>3. Clock(visbuffer[0]) = v
      BY <1>7, <1>9, <2>1, <2>2
    <2>4. ASSUME NEW j \in Vis
          PROVE  Clock(visbuffer[j]) = UpdateTimes(Clock(visbuffer[0]), Ahead(0, j))
      <3>1. Ahead(0, j) = j
        BY <2>1, RingArithmetic
      <3>2. Clock(visbuffer[j]) = UpdateTimes(Clock(v), j)
        BY <1>6, <1>8, <1>9, UpdateTimesKeep
      <3> QED BY <1>7, <2>3, <3>1, <3>2
    <2> QED BY <1>10, <2>1, <2>4 DEF ClocksInv
  <1>12. written = <<>> /\ written \in Seq(Records) /\ InOrder /\ LastInv
    BY DEF FxInit, InOrder, LastInv
  <1> QED BY <1>10, <1>11, <1>12 DEF OutInv

\* Something is written that is later than all before.
LEMMA WriteOutStep ==
  ASSUME OutInv, NEW i \in Vis, WriteOut(i), FxInv,
         written # <<>> => Earlier(written[Len(written)], visbuffer[i])
  PROVE  /\ written' \in Seq(Records) /\ InOrder'
         /\ written' # <<>> =>
              LET w == written'[Len(written')] IN
              /\ w.scan \in Nat /\ w.start \in Int
              /\ \/ Earlier(w, visbuffer[i])
                 \/ /\ w.scan = visbuffer[i].scan /\ w.start = visbuffer[i].start
                    /\ visbuffer[i].scan < NumScans
  <1> DEFINE v == visbuffer[i]
             r == [scan |-> v.scan, start |-> v.start, results |-> v.results,
                   atend |-> ~keepwriting]
             n == Len(written)
  <1>1. v \in Visibilities /\ written \in Seq(Records) /\ InOrder
    BY DEF OutInv
  <1>2. CASE Writes(v)
    <2>1. written' = Append(written, r) /\ v.scan < NumScans
      BY <1>2 DEF WriteOut, Writes
    <2>2. r \in Records /\ r.scan = v.scan /\ r.start = v.start /\ r.scan \in Nat /\ r.start \in Int
      <3>1. keepwriting \in BOOLEAN
        BY DEF FxInv, Inv, RingTypeOK
      <3> QED BY <1>1, <3>1 DEF Visibilities, Records
    <2> HIDE DEF r
    <2>3. /\ written' \in Seq(Records) /\ Len(written') = n + 1 /\ n \in Nat
          /\ written'[n + 1] = r
          /\ \A k \in 1 .. n : written'[k] = written[k]
      BY <1>1, <2>1, <2>2, AppendProperties, LenProperties
    <2>4. InOrder'
      <3>1. ASSUME NEW k \in 1 .. Len(written') - 1
            PROVE  Earlier(written'[k], written'[k + 1])
        <4>1. CASE k = n
          <5>1. n \in 1 .. n /\ written # <<>>
            BY <1>1, <2>3, <4>1, EmptySeq
          <5>2. written'[k] = written[n] /\ written'[k + 1] = r
            BY <2>3, <4>1, <5>1
          <5> QED BY <2>2, <5>1, <5>2 DEF Earlier
        <4>2. CASE k # n
          <5>1. k \in 1 .. n - 1 /\ k \in 1 .. n /\ k + 1 \in 1 .. n
            BY <2>3, <4>2
          <5>2. written'[k] = written[k] /\ written'[k + 1] = written[k + 1]
            BY <2>3, <5>1
          <5> QED BY <1>1, <5>1, <5>2 DEF InOrder, Earlier
        <4> QED BY <4>1, <4>2
      <3> QED BY <3>1 DEF InOrder, Earlier
    <2>5. written'[Len(written')] = r
      BY <2>3
    <2> QED BY <2>1, <2>2, <2>3, <2>4, <2>5
  <1>3. CASE ~Writes(v)
    <2>1. written' = written
      BY <1>3 DEF WriteOut
    <2>2. InOrder'
      BY <1>1, <2>1 DEF InOrder
    <2>3. written # <<>> => written[n].scan \in Nat /\ written[n].start \in Int
      <3> SUFFICES ASSUME written # <<>> PROVE written[n] \in Records
        BY DEF Records
      <3>1. n \in 1 .. n
        BY <1>1, EmptySeq, LenProperties
      <3> QED BY <1>1, <3>1, ElementOfSeq
    <2> QED BY <1>1, <2>1, <2>2, <2>3
  <1> QED BY <1>2, <1>3

\* The main thread adds to a buffer, but does not change what time it is for.
LEMMA DeliverOut ==
  ASSUME FxInv, OutInv, Deliver
  PROVE  OutInv'
  <1> DEFINE d == visindex
             s == current.subint
             u == AddData(visbuffer[d], s)
  <1>0. /\ visbuffer' = [visbuffer EXCEPT ![d] = u]
        /\ UNCHANGED <<written, wpc, writesegment, flushed>>
    BY DEF Deliver, AddLast, AddIncomplete, wvars
  <1>1. /\ d \in Vis /\ writesegment \in Vis /\ s \in Subints
        /\ visbuffer \in [Vis -> Visibilities] /\ ClocksInv
    BY DEF FxInv, Inv, RingTypeOK, CoreTypes, OutInv
  <1>2. /\ u \in Visibilities /\ Clock(u) = Clock(visbuffer[d])
        /\ u.scan = visbuffer[d].scan /\ u.start = visbuffer[d].start
    <2> DEFINE v == visbuffer[d]
    <2>1. v \in Visibilities
      BY <1>1
    <2>2. /\ v \in [scan : Nat, start : Int, config : Configs, offset : Int, expected : Int,
                    subints : Nat, results : SUBSET Subints]
          /\ v.scan = NumScans \/ Correlated(v.scan)
      BY <2>1 DEF Visibilities
    <2>3. u = [v EXCEPT !.subints = v.subints + 1, !.results = v.results \cup {s}]
      BY DEF AddData
    <2> HIDE DEF v, u, s
    <2>4. u \in [scan : Nat, start : Int, config : Configs, offset : Int, expected : Int,
                 subints : Nat, results : SUBSET Subints] /\ u.scan = v.scan /\ u.start = v.start
      <3>1. v.subints + 1 \in Nat /\ v.results \cup {s} \in SUBSET Subints
        BY <1>1, <2>2
      <3>2. u = [scan |-> v.scan, start |-> v.start, config |-> v.config, offset |-> v.offset,
                 expected |-> v.expected, subints |-> v.subints + 1,
                 results |-> v.results \cup {s}]
        BY <2>2, <2>3
      <3> QED BY <2>2, <3>1, <3>2
    <2>5. u \in Visibilities
      BY <2>2, <2>4 DEF Visibilities
    <2>6. Clock(u) = Clock(v)
      BY <2>2, <2>3 DEF Clock
    <2> QED BY <2>4, <2>5, <2>6 DEF v
  <1> HIDE DEF u, d, s
  <1>3. visbuffer' \in [Vis -> Visibilities]
    BY <1>0, <1>1, <1>2
  <1>4. \A j \in Vis : /\ Clock(visbuffer'[j]) = Clock(visbuffer[j])
                       /\ visbuffer'[j].scan = visbuffer[j].scan
                       /\ visbuffer'[j].start = visbuffer[j].start
    BY <1>0, <1>1, <1>2
  <1>5. ClocksInv'
    <2>1. ASSUME NEW j \in Vis
          PROVE  Clock(visbuffer'[j])
                   = UpdateTimes(Clock(visbuffer'[writesegment]), Ahead(writesegment, j))
      BY <1>1, <1>4 DEF ClocksInv
    <2> QED BY <1>0, <1>3, <2>1 DEF ClocksInv
  <1>6. LastInv'
    <2>1. (writesegment + flushed) % VisBufferLength \in Vis
      <3> DEFINE x == writesegment + flushed
      <3>1. x \in Int /\ VisBufferLength \in Nat \ {0}
        BY VisBufferLengthAssumption DEF FxInv, Inv, RingTypeOK, Vis
      <3> HIDE DEF x
      <3>2. x % VisBufferLength \in 0 .. VisBufferLength - 1
        BY <3>1, Division
      <3> QED BY <3>2 DEF x, Vis
    <2>2. LastInv
      BY DEF OutInv
    <2> QED BY <1>0, <1>1, <1>4, <2>1, <2>2 DEF LastInv, Earlier
  <1>7. InOrder' /\ written' \in Seq(Records)
    BY <1>0 DEF OutInv, InOrder
  <1> QED BY <1>3, <1>5, <1>6, <1>7 DEF OutInv

\* A buffer that was written is moved on by a whole turn of the ring: it comes
\* right after the one before it, and is the last to be written now.
LEMMA RecycleOut ==
  ASSUME FxInv, OutInv, Recycle
  PROVE  OutInv'
  <1> DEFINE N == VisBufferLength
             ws == writesegment
             v == visbuffer[ws]
             c == Clock(v)
             u == Increment(v, N)
  <1>0. /\ visbuffer' = [visbuffer EXCEPT ![ws] = u] /\ writesegment' = Succ(ws)
        /\ wpc = "increment" /\ wpc' = "check" /\ UNCHANGED written
    BY DEF Recycle, WriterIncrement
  <1>1. /\ ws \in Vis /\ visbuffer \in [Vis -> Visibilities] /\ v \in Visibilities
        /\ N \in Nat /\ N >= 4 /\ Vis = 0 .. N - 1 /\ Succ(ws) \in Vis
    BY RingArithmetic DEF FxInv, Inv, RingTypeOK, OutInv, Vis
  <1>2. /\ c \in Visibilities /\ c.scan = v.scan
    BY <1>1, ClockIs
  <1>3. u \in Visibilities /\ Clock(u) = UpdateTimes(c, N)
    <2>1. /\ UpdateTimes(c, N) \in Visibilities
          /\ Clock(UpdateTimes(c, N)) = UpdateTimes(Clock(c), N)
          /\ c.scan >= NumScans => UpdateTimes(c, N) = c
      BY <1>1, <1>2, UpdateTimesKeep
    <2>2. Clock(c) = c
      BY <1>1 DEF Clock, Visibilities
    <2>3. u = IF v.scan >= NumScans THEN v ELSE UpdateTimes(c, N)
      BY DEF Increment, Clock
    <2> HIDE DEF c, u, v, N
    <2>4. CASE v.scan >= NumScans
      BY <1>1, <1>2, <2>1, <2>3, <2>4 DEF c
    <2>5. CASE ~(v.scan >= NumScans)
      BY <2>1, <2>2, <2>3, <2>5
    <2> QED BY <2>4, <2>5
  <1> HIDE DEF u
  <1>4. visbuffer' \in [Vis -> Visibilities]
    BY <1>0, <1>1, <1>3
  <1>5. Clock(visbuffer'[Succ(ws)]) = UpdateTime(c) /\ visbuffer'[Succ(ws)] = visbuffer[Succ(ws)]
    <2>1. Succ(ws) # ws /\ Ahead(ws, Succ(ws)) = 1
      <3>1. Succ(ws) = IF ws = N - 1 THEN 0 ELSE ws + 1
        BY <1>1, SuccValue
      <3>2. Ahead(ws, Succ(ws)) = IF ws <= Succ(ws) THEN Succ(ws) - ws ELSE Succ(ws) - ws + N
        BY <1>1, AheadValue
      <3>3. ws \in Nat /\ ws < N
        BY <1>1
      <3> QED BY <1>1, <3>1, <3>2, <3>3
    <2>2. Clock(visbuffer[Succ(ws)]) = UpdateTimes(c, 1)
      BY <1>1, <2>1 DEF OutInv, ClocksInv
    <2>3. UpdateTimes(c, 0 + 1) = UpdateTime(UpdateTimes(c, 0)) /\ UpdateTimes(c, 0) = c
      BY UpdateTimesIs
    <2> QED BY <1>0, <1>1, <2>1, <2>2, <2>3
  <1>6. ASSUME NEW j \in Vis
        PROVE  Clock(visbuffer'[j])
                 = UpdateTimes(Clock(visbuffer'[Succ(ws)]), Ahead(Succ(ws), j))
    <2> HIDE DEF c, v
    <2>1. CASE j = ws
      <3>1. Ahead(Succ(ws), j) = N - 1 /\ N - 1 \in Nat /\ (N - 1) + 1 = N
        <4>1. Succ(ws) = IF ws = N - 1 THEN 0 ELSE ws + 1
          BY <1>1, SuccValue
        <4>2. Ahead(Succ(ws), ws) = IF Succ(ws) <= ws THEN ws - Succ(ws) ELSE ws - Succ(ws) + N
          BY <1>1, AheadValue
        <4>3. ws \in Nat /\ ws < N
          BY <1>1
        <4> QED BY <1>1, <2>1, <4>1, <4>2, <4>3
      <3>2. UpdateTimes(c, (N - 1) + 1) = UpdateTimes(UpdateTime(c), N - 1)
        BY <3>1, UpdateTimesFirst
      <3>3. Clock(visbuffer'[j]) = UpdateTimes(c, N)
        BY <1>0, <1>1, <1>3, <2>1
      <3> QED BY <1>5, <3>1, <3>2, <3>3
    <2>2. CASE j # ws
      <3> DEFINE a == Ahead(ws, j)
      <3>1. a \in Nat /\ a >= 1 /\ Ahead(Succ(ws), j) = a - 1
        BY <1>1, <2>2, AheadMoves
      <3>2. Clock(visbuffer'[j]) = UpdateTimes(c, a)
        BY <1>0, <1>1, <2>2 DEF OutInv, ClocksInv, c, v
      <3> HIDE DEF a
      <3>3. a - 1 \in Nat /\ (a - 1) + 1 = a
        BY <3>1
      <3>4. UpdateTimes(c, (a - 1) + 1) = UpdateTimes(UpdateTime(c), a - 1)
        BY <3>3, UpdateTimesFirst
      <3> QED BY <1>5, <3>1, <3>2, <3>3, <3>4
    <2> QED BY <2>1, <2>2
  <1>7. ClocksInv'
    BY <1>0, <1>4, <1>6 DEF ClocksInv
  <1>8. LastInv'
    <2> SUFFICES ASSUME written # <<>>
                 PROVE  Earlier(written[Len(written)], visbuffer[Succ(ws)])
      BY <1>0, <1>5 DEF LastInv
    <2> DEFINE w == written[Len(written)]
    <2>1. w.scan \in Nat /\ w.start \in Int
      <3>1. written \in Seq(Records) /\ Len(written) \in 1 .. Len(written)
        BY EmptySeq, LenProperties DEF OutInv
      <3>2. w \in Records
        BY <3>1, ElementOfSeq
      <3> QED BY <3>2 DEF Records
    <2>2. Earlier(w, v) \/ (w.scan = v.scan /\ w.start = v.start /\ v.scan < NumScans)
      BY <1>0 DEF OutInv, LastInv
    <2>3. /\ Earlier(w, c) \/ (w.scan = c.scan /\ w.start = c.start /\ c.scan < NumScans)
      <3>1. c.scan = v.scan /\ c.start = v.start /\ (Earlier(w, c) <=> Earlier(w, v))
        BY <1>1, ClockIs
      <3> QED BY <2>2, <3>1
    <2> HIDE DEF w, c
    <2>4. Earlier(w, UpdateTime(c))
      BY <1>2, <2>1, <2>3, EarlierThan
    <2>5. Earlier(w, Clock(visbuffer[Succ(ws)]))
      BY <1>5, <2>4
    <2>6. visbuffer[Succ(ws)] \in Visibilities
      BY <1>1
    <2> QED BY <2>5, <2>6, ClockIs DEF w
  <1>9. InOrder' /\ written' \in Seq(Records)
    BY <1>0 DEF OutInv, InOrder
  <1> QED BY <1>4, <1>7, <1>8, <1>9 DEF OutInv

\* The flush at the end goes on round the ring in the same order.
LEMMA FlushOut ==
  ASSUME FxInv, OutInv, Flush
  PROVE  OutInv'
  <1> DEFINE N == VisBufferLength
             p == (writesegment + flushed) % N
             q == (writesegment + (flushed + 1)) % N
  <1>0. /\ wpc = "flush" /\ WriteOut(p) /\ UNCHANGED <<visbuffer, writesegment>>
        /\ flushed' = flushed + 1 /\ wpc' = IF flushed + 1 = N THEN "done" ELSE "flush"
    BY DEF Flush, WriterFlush
  <1>1. flushed \in Nat /\ flushed < N /\ N \in Nat /\ N >= 4 /\ writesegment \in Vis
    BY <1>0, RingArithmetic DEF FxInv, Inv, RingTypeOK, EndInv
  <1>2. p \in Vis
    <2> DEFINE x == writesegment + flushed
    <2>1. x \in Int /\ N \in Nat \ {0}
      BY <1>1 DEF Vis
    <2> HIDE DEF x
    <2>2. x % N \in 0 .. N - 1
      BY <2>1, Division
    <2> QED BY <2>2 DEF x, Vis
  <1>3. written # <<>> => Earlier(written[Len(written)], visbuffer[p])
    BY <1>0 DEF OutInv, LastInv
  <1>4. /\ written' \in Seq(Records) /\ InOrder'
        /\ written' # <<>> =>
             LET w == written'[Len(written')] IN
             /\ w.scan \in Nat /\ w.start \in Int
             /\ \/ Earlier(w, visbuffer[p])
                \/ /\ w.scan = visbuffer[p].scan /\ w.start = visbuffer[p].start
                   /\ visbuffer[p].scan < NumScans
    <2> HIDE DEF p
    <2> QED BY <1>0, <1>2, <1>3, WriteOutStep
  <1>5. visbuffer' \in [Vis -> Visibilities] /\ ClocksInv'
    BY <1>0 DEF OutInv, ClocksInv
  <1>6. LastInv'
    <2>1. CASE flushed + 1 = N
      BY <1>0, <2>1 DEF LastInv
    <2>2. CASE flushed + 1 # N
      <3>1. flushed \in 0 .. N - 2
        BY <1>1, <2>2
      <3>2. q \in Vis /\ Clock(visbuffer[q]) = UpdateTime(Clock(visbuffer[p]))
        BY <3>1, NextBuffer DEF OutInv
      <3>3. visbuffer[p] \in Visibilities /\ visbuffer[q] \in Visibilities
        BY <1>2, <3>2 DEF OutInv
      <3> HIDE DEF p
      <3>4. ASSUME written' # <<>>
            PROVE  Earlier(written'[Len(written')], visbuffer[q])
        <4> DEFINE w == written'[Len(written')]
                   c == Clock(visbuffer[p])
        <4>1. /\ w.scan \in Nat /\ w.start \in Int
              /\ \/ Earlier(w, visbuffer[p])
                 \/ /\ w.scan = visbuffer[p].scan /\ w.start = visbuffer[p].start
                    /\ visbuffer[p].scan < NumScans
          BY <1>4, <3>4
        <4>2. /\ c \in Visibilities /\ c.scan = visbuffer[p].scan /\ c.start = visbuffer[p].start
              /\ Earlier(w, c) <=> Earlier(w, visbuffer[p])
          BY <3>3, ClockIs
        <4> HIDE DEF w, c, q
        <4>3. Earlier(w, UpdateTime(c))
          BY <4>1, <4>2, EarlierThan
        <4>4. Earlier(w, Clock(visbuffer[q]))
          BY <3>2, <4>3 DEF c
        <4> QED BY <3>3, <4>4, ClockIs DEF w
      <3> QED BY <1>0, <2>2, <3>4 DEF LastInv
    <2> QED BY <2>1, <2>2
  <1> QED BY <1>4, <1>5, <1>6 DEF OutInv

\* No step writes anything out of order.
LEMMA OutStep == FxInv /\ OutInv /\ [FxNext]_vars => OutInv'
  <1> SUFFICES ASSUME FxInv, OutInv, [FxNext]_vars PROVE OutInv'
    OBVIOUS
  <1>1. ASSUME UNCHANGED <<visbuffer, written, wpc, writesegment, flushed>> PROVE OutInv'
    BY <1>1 DEF OutInv, ClocksInv, InOrder, LastInv
  <1>2. ASSUME UNCHANGED <<visbuffer, written, wvars>> PROVE OutInv'
    BY <1>1, <1>2 DEF wvars
  <1>3. CASE Deliver
    BY <1>3, DeliverOut
  <1>4. CASE Recycle
    BY <1>4, RecycleOut
  <1>5. CASE Flush
    BY <1>5, FlushOut
  <1>6. CASE Write
    <2>1. /\ wpc = "write" /\ wpc' = "increment" /\ WriteOut(writesegment)
          /\ UNCHANGED <<visbuffer, writesegment>>
      BY <1>6 DEF Write, WriterWrite
    <2>2. writesegment \in Vis
      BY DEF FxInv, Inv, RingTypeOK
    <2>3. written # <<>> => Earlier(written[Len(written)], visbuffer[writesegment])
      BY <2>1 DEF OutInv, LastInv
    <2>4. /\ written' \in Seq(Records) /\ InOrder'
          /\ written' # <<>> =>
               LET w == written'[Len(written')]
                   v == visbuffer[writesegment]
               IN \/ Earlier(w, v)
                  \/ w.scan = v.scan /\ w.start = v.start /\ v.scan < NumScans
      BY <2>1, <2>2, <2>3, WriteOutStep
    <2>5. LastInv'
      BY <2>1, <2>4 DEF LastInv
    <2> QED BY <2>1, <2>4, <2>5 DEF OutInv, ClocksInv
  <1>7. CASE CheckWriting
    <2>1. /\ wpc = "check" /\ wpc' \in {"lock", "flush"}
          /\ UNCHANGED <<visbuffer, written, writesegment, flushed>>
      BY <1>7 DEF CheckWriting, WriterCheck, fxvars
    <2>2. flushed = 0
      BY <2>1 DEF FxInv, Inv, EndInv
    <2>3. (writesegment + flushed) % VisBufferLength = writesegment
      <3>1. VisBufferLength \in Nat \ {0} /\ writesegment \in 0 .. 2 * VisBufferLength - 1
              /\ writesegment < VisBufferLength /\ writesegment \in Int
        <4>1. VisBufferLength \in Nat /\ VisBufferLength >= 4
          BY VisBufferLengthAssumption
        <4>2. writesegment \in 0 .. VisBufferLength - 1
          BY DEF FxInv, Inv, RingTypeOK, Vis
        <4> QED BY <4>1, <4>2
      <3>2. writesegment % VisBufferLength = writesegment
        BY <3>1, ModOnce
      <3> QED BY <2>2, <3>1, <3>2
    <2>4. LastInv'
      BY <2>1, <2>3 DEF OutInv, LastInv
    <2> QED BY <2>1, <2>4 DEF OutInv, ClocksInv, InOrder
  <1>8. CASE LockWriting
    <2>1. /\ wpc = "lock" /\ wpc' = "write"
          /\ UNCHANGED <<visbuffer, written, writesegment, flushed>>
      BY <1>8 DEF LockWriting, WriterLock, fxvars
    <2>2. LastInv'
      BY <2>1 DEF OutInv, LastInv
    <2> QED BY <2>1, <2>2 DEF OutInv, ClocksInv, InOrder
  <1>9. CASE Fill \/ NextScan \/ LocateFound \/ LocateStale \/ LocateBeyond
    BY <1>2, <1>9 DEF Fill, NextScan, LocateFound, LocateStale, LocateBeyond, FoundInWindow,
                      StaleResult, BeyondWindow, ringvars, fxvars, wvars
  <1>10. ASSUME NEW c \in Cores, Receive(c) PROVE OutInv'
    BY <1>2, <1>10 DEF Receive, BeginLocate
  <1>11. CASE Extend \/ Drop \/ DropNoMore \/ ExtendDropped
    BY <1>2, <1>11 DEF Extend, Drop, DropNoMore, ExtendDropped, LockMore, DropOldest,
                       StopDropping, LockDropped, fxvars, wvars
  <1>12. CASE Advance \/ LockNextAhead \/ Finish \/ Unlock \/ Join
    BY <1>2, <1>12 DEF Advance, LockNextAhead, Finish, Unlock, Join, AdvanceOldest, LockAhead,
                       StopWriting, LastUnlock, JoinWriter, fxvars, wvars
  <1>13. CASE Interrupt \/ Done \/ UNCHANGED vars
    BY <1>2, <1>13 DEF Interrupt, Done, RingDone, vars, fxvars, ringvars
  <1> QED BY <1>3, <1>4, <1>5, <1>6, <1>7, <1>8, <1>9, <1>10, <1>11, <1>12, <1>13
          DEF FxNext, Manager, Writer

\* Integrations are written in the order of time, each at most once, for every
\* job, ring and number of Cores: also when buffers are given up, and in the
\* flush at the end.
THEOREM FxInOrder == FxSpec => []InOrder
  <1>1. OutInv => InOrder
    BY DEF OutInv
  <1> QED BY <1>1, FxInvariant, OutInit, OutStep, PTL DEF FxSpec

-----------------------------------------------------------------------------
(* The integrations of a regular job, and which results each has *)

\* Where a scan is sent from.
From(n) == IF n = InitScan THEN InitTime ELSE 0

\* The scans that are sent.
Coming(n) == Correlated(n) /\ n >= InitScan

\* The durations of the configuration the job starts with.
SubintLength == SubintNS[ScanConfig[InitScan]]
IntLength == IntTime[ScanConfig[InitScan]]

\* A regular job: one configuration, integrations of whole subints, scans of
\* whole subints and whole seconds, each at least one integration long, and
\* none after the end of the job.
RegularJob ==
  /\ IntLength % SubintLength = 0
  /\ \A n \in Scans : Coming(n) =>
       /\ ScanConfig[n] = ScanConfig[InitScan]
       /\ ScanDuration[n] % Second = 0
       /\ (ScanDuration[n] - From(n)) % SubintLength = 0
       /\ ScanDuration[n] - From(n) >= IntLength
       /\ ScanStart[n] + ScanDuration[n] <= ExecuteSeconds

\* The k-th integration of the job, as a Visibility with nothing in it.
Calendar(k) == NewVisibility(k)

\* It lies after the last scan.
Over(k) == Calendar(k).scan = NumScans

\* How many subints it has, how many all before it have (a sum, written as the
\* size of a disjoint union), and the numbers of its own.
Size(k) == IF Over(k) THEN 0 ELSE Calendar(k).expected
Before(k) == Cardinality(UNION {{m} \X (0 .. Size(m) - 1) : m \in 0 .. k - 1})
Span(k) == Before(k) .. Before(k + 1) - 1

\* A Core is never so far ahead of another that the ring of buffers, but for
\* the five that the locks may take, is too short for what lies between.
Spread ==
  \A k \in Nat : ~Over(k + (VisBufferLength - 5)) =>
     Skew <= Before(k + (VisBufferLength - 5)) - Before(k)

\* Subint s belongs to the k-th integration, and is labelled so.
Placed(s, k) ==
  /\ k \in Nat /\ ~Over(k) /\ s \in Subints
  /\ s.num \in Span(k)
  /\ s.scan = Calendar(k).scan
  /\ s.time = Calendar(k).start + SubintLength * (s.num - Before(k))

\* The subints the Cores have, the one whose result the main thread has but
\* has not put away, and all the others that were sent.
InHand == UNION {{inflight[c][k].num : k \in 1 .. Len(inflight[c])} : c \in Cores}
Taken == IF Pending THEN {current.subint.num} ELSE {}
Answered == (0 .. sendcount - 1) \ (InHand \cup Taken)

\* What the Cores have in hand are different subints, in the order they were sent.
QueueInv ==
  \A c \in Cores : \A k \in 1 .. Len(inflight[c]) :
    /\ inflight[c][k].num < sendcount
    /\ \E n \in Nat : Placed(inflight[c][k], n)
    /\ \A d \in Cores : \A l \in 1 .. Len(inflight[d]) :
         inflight[c][k].num = inflight[d][l].num => c = d /\ k = l
    /\ \A l \in 1 .. k - 1 : inflight[c][l].num < inflight[c][k].num

\* So is the one the main thread is handling.
TakenInv ==
  Pending => /\ current.subint.num < sendcount
             /\ \E n \in Nat : Placed(current.subint, n)
             /\ current.subint.num \notin InHand

\* The next subint to be sent is one of the k-th integration ...
Going(k) == Placed(Subint(sendscan, sendtime, sendcount), k)

\* ... or would be, were the scan not at its end.
AtEnd(scan, t, n, k) ==
  /\ n = Before(k) /\ t = ScanDuration[scan] /\ k \in Nat
  /\ Calendar(k).scan = NextConfigured(scan + 1)
  /\ Calendar(k).start = 0
ScanEnds(k) == AtEnd(sendscan, sendtime, sendcount, k)

\* Which subint is sent next.
NextInv ==
  /\ inttime = IntLength
  /\ sendscan >= InitScan
  /\ ~terminatenow => \E k \in Nat : Going(k) \/ ScanEnds(k)
  /\ Pending /\ current.resend => \E k \in Nat : Going(k)

\* Nothing was answered that is far ahead of what was not.
SkewInv == \A a \in Answered \cup Taken : \A u \in InHand \cup Taken : a <= u + Skew

\* How much the Cores have in hand.
LeftInv ==
  /\ IF phase = "scans"
     THEN Cardinality(InHand \cup Taken) = IF sendcount < Full THEN sendcount ELSE Full
     ELSE Cardinality(InHand) = left
  /\ mpc \in {"lastunlock", "join", "done"} => phase = "drain" /\ left = 0

\* What was sent and not put away.
HandsInv == QueueInv /\ TakenInv /\ NextInv /\ SkewInv /\ LeftInv

\* The integrations of the buffers, of the newest and the oldest of the window,
\* when b is that of the buffer the write thread is at.
Number(b, i) == b + Ahead(writesegment, i)
Newest(b) == Number(b, newestlockedvis)
Oldest(b) == Newest(b) - WindowSize

\* Round the ring the integrations follow each other.
CalendarInv(b) == \A i \in Vis : Clock(visbuffer[i]) = Calendar(Number(b, i))

\* A buffer has the results of its integration that have come, and no others.
ResultsInv(b) ==
  \A i \in Vis : LET v == visbuffer[i] IN
    /\ IsFiniteSet(v.results) /\ v.subints = Cardinality(v.results)
    /\ \A s \in v.results : Placed(s, Number(b, i))
    /\ {s.num : s \in v.results} = Answered \cap Span(Number(b, i))

\* None has come for an integration that has no buffer yet.
ReachInv(b) == \A n \in Answered : n < Before(b + VisBufferLength)

\* Before the window everything has come; in it the buffers are locked whose
\* integrations lack a result; after it nothing has come.
WindowInv(b) ==
  /\ Oldest(b) \in Nat
  /\ \A n \in Answered : n < Before(Newest(b) + 1)
  /\ \A n \in 0 .. Before(Oldest(b)) - 1 : n \in Answered
  /\ \A i \in Vis : InWindow(i) /\ ~islocked[i] =>
       Span(Newest(b) - Ahead(i, newestlockedvis)) \subseteq Answered
  /\ \A i \in Vis : islocked[i] /\ ~(mpc = "lockahead" /\ i = visindex) =>
       Over(Number(b, i)) \/ \E n \in Span(Number(b, i)) : n \notin Answered

\* The newest buffer was locked because a result of it or of the one before
\* it had come.
FrontInv(b) ==
  Newest(b) <= 1 \/ \E n \in Answered \cup Taken : n >= Before(Newest(b) - 1)

\* What the main thread knows of the result it is handling.
PlaceInv(b) ==
  /\ mpc = "extend" => current.subint.num >= Before(Newest(b) + 1)
  /\ mpc = "deliver" => current.subint.num \in Span(Number(b, visindex))
  /\ mpc = "lockahead" => Span(Newest(b)) \subseteq Answered /\ ~Over(Newest(b))
  /\ mpc \notin {"dropping", "lockdropped"}
  /\ mpc = "advance" => after = "ready"

\* The window, while results still come.
OpenInv(b) == keepwriting => WindowInv(b) /\ FrontInv(b) /\ PlaceInv(b)

\* The numbers of the results on disk.
WrittenNums == {s.num : s \in WrittenResults}

\* Record w is of the k-th integration, and has results of it only, ...
PartOf(w, k) ==
  /\ ~Over(k)
  /\ w.scan = Calendar(k).scan /\ w.start = Calendar(k).start
  /\ \A s \in w.results : Placed(s, k)

\* ... or all of them.
Whole(w, k) == PartOf(w, k) /\ Span(k) \subseteq {s.num : s \in w.results}

\* Record w is of one of the first n integrations, and whole but for the flush at the end.
Recorded(w, n) == \E k \in Nat : k < n /\ PartOf(w, k) /\ (~w.atend => Whole(w, k))

\* The integration that is written next.
Outgoing(b) == b + flushed + (IF wpc = "increment" THEN 1 ELSE 0)

\* All that came for the integrations before that one is on disk, and nothing else.
WrittenInv(b) ==
  /\ \A n \in Answered : n < Before(Outgoing(b)) => n \in WrittenNums
  /\ WrittenNums \subseteq Answered
  /\ \A i \in 1 .. Len(written) : Recorded(written[i], Outgoing(b))

\* The data, when b is the integration of the buffer the write thread is at.
DataInv(b) == CalendarInv(b) /\ ResultsInv(b) /\ ReachInv(b) /\ OpenInv(b) /\ WrittenInv(b)

\* The main thread is done only after the write thread, and that after a whole flush.
DoneInv == /\ mpc = "done" => wpc = "done"
           /\ wpc = "done" => flushed = VisBufferLength

\* The invariant.
GatherInv == HandsInv /\ DoneInv /\ \E b \in Nat : DataInv(b)

\* A job and Cores it holds for.
Fits == RegularJob /\ Spread

\* The subints of a whole integration.
PerInt == IntLength \div SubintLength

\* execute is past its last result.
Ending == mpc \in {"lastunlock", "join", "done"}

\* The times of a regular job are whole subints.
LEMMA RegularTimes ==
  ASSUME RegularJob
  PROVE  /\ SubintLength \in Nat \ {0} /\ IntLength \in Nat \ {0} /\ PerInt \in Nat \ {0}
         /\ IntLength = SubintLength * PerInt
         /\ NumScans \in Nat /\ Second \in Nat \ {0} /\ ExecuteSeconds \in Nat
         /\ InitScan \in Nat /\ InitTime \in Nat /\ Coming(InitScan)
         /\ \A n : Coming(n) =>
              /\ n \in Nat /\ n \in Scans /\ n < NumScans /\ Correlated(n) /\ From(n) \in Nat
              /\ ScanDuration[n] \in Nat /\ ScanStart[n] \in Int
              /\ ScanConfig[n] = ScanConfig[InitScan] /\ ScanConfig[n] \in Configs
              /\ IntTime[ScanConfig[n]] = IntLength /\ SubintNS[ScanConfig[n]] = SubintLength
              /\ From(n) + IntLength <= ScanDuration[n]
              /\ ScanDuration[n] % Second = 0
              /\ ScanStart[n] + ScanDuration[n] <= ExecuteSeconds
              /\ \E m \in Nat : ScanDuration[n] = From(n) + SubintLength * m /\ PerInt <= m
  <1>1. /\ InitScan \in Scans /\ ScanConfig[InitScan] \in Configs /\ InitScan \in Nat
        /\ Correlated(InitScan) /\ InitTime \in Nat
    BY InitScanIs, ScanTimes DEF Correlated
  <1>2. SubintLength \in Nat \ {0} /\ IntLength \in Nat \ {0}
    BY <1>1, JobAssumption DEF SubintLength, IntLength
  <1>3. PerInt \in Int /\ IntLength = SubintLength * PerInt + 0
    <2>1. IntLength % SubintLength = 0
      BY DEF RegularJob
    <2> QED BY <1>2, <2>1, Division DEF PerInt
  <1>4. PerInt \in Nat \ {0} /\ IntLength = SubintLength * PerInt
    <2>1. SubintLength * 0 < SubintLength * PerInt <=> 0 < PerInt
      BY <1>2, <1>3, SmallerFactor
    <2>2. SubintLength * 0 = 0 /\ SubintLength * PerInt = IntLength
      <3>1. SubintLength * PerInt \in Int
        BY <1>2, <1>3, SmallerFactor
      <3> QED BY <1>2, <1>3, <3>1
    <2> QED BY <1>2, <1>3, <2>1, <2>2
  <1>5. Coming(InitScan)
    BY <1>1 DEF Coming
  <1>6. NumScans \in Nat /\ Second \in Nat \ {0} /\ ExecuteSeconds \in Nat
    BY JobAssumption
  <1>7. ASSUME NEW n, Coming(n)
        PROVE  /\ n \in Nat /\ n \in Scans /\ n < NumScans /\ Correlated(n) /\ From(n) \in Nat
               /\ ScanDuration[n] \in Nat /\ ScanStart[n] \in Int
               /\ ScanConfig[n] = ScanConfig[InitScan] /\ ScanConfig[n] \in Configs
               /\ IntTime[ScanConfig[n]] = IntLength /\ SubintNS[ScanConfig[n]] = SubintLength
               /\ From(n) + IntLength <= ScanDuration[n]
               /\ ScanDuration[n] % Second = 0
               /\ ScanStart[n] + ScanDuration[n] <= ExecuteSeconds
               /\ \E m \in Nat : ScanDuration[n] = From(n) + SubintLength * m /\ PerInt <= m
    <2>1. n \in Scans /\ Correlated(n) /\ n \in Nat
      BY <1>7, ScanTimes DEF Coming
    <2>2. n < NumScans
      BY <1>6, <2>1 DEF Scans
    <2>3. ScanDuration[n] \in Nat /\ ScanStart[n] \in Int
      BY <2>1, JobAssumption
    <2>4. From(n) \in Nat
      BY <1>1 DEF From
    <2>5. /\ ScanConfig[n] = ScanConfig[InitScan] /\ ScanDuration[n] % Second = 0
          /\ (ScanDuration[n] - From(n)) % SubintLength = 0
          /\ ScanDuration[n] - From(n) >= IntLength
          /\ ScanStart[n] + ScanDuration[n] <= ExecuteSeconds
      BY <1>7, <2>1 DEF RegularJob
    <2>6. IntTime[ScanConfig[n]] = IntLength /\ SubintNS[ScanConfig[n]] = SubintLength
      BY <2>5 DEF IntLength, SubintLength
    <2> DEFINE d == ScanDuration[n] - From(n)
    <2>7. d \in Int /\ ScanDuration[n] = From(n) + d
      BY <2>3, <2>4
    <2>8. PICK m \in Int : d = SubintLength * m
      BY <1>2, <2>5, <2>7, MultipleIs
    <2>9. ~(m < PerInt)
      <3>1. SubintLength * m < SubintLength * PerInt <=> m < PerInt
        BY <1>2, <1>4, SmallerFactor
      <3> QED BY <1>2, <1>4, <2>5, <2>8, <3>1
    <2>10. m \in Nat /\ PerInt <= m
      BY <1>4, <2>9
    <2> QED BY <1>1, <1>2, <2>1, <2>2, <2>3, <2>4, <2>5, <2>6, <2>7, <2>8, <2>10
  <1> QED BY <1>1, <1>2, <1>4, <1>5, <1>6, <1>7

\* The first integration, and how the others come of it.
LEMMA CalendarFirst ==
  LET v == Calendar(0) IN
  /\ v \in Visibilities /\ Clock(v) = v
  /\ v.scan = InitScan /\ v.start = InitTime /\ v.config = ScanConfig[InitScan]
  /\ RegularJob => v.offset = 0 /\ v.expected = PerInt
  /\ \A k : Calendar(k) = UpdateTimes(v, k)
  <1> DEFINE g == ScanConfig[InitScan]
             s == SubintNS[g]
             I == IntTime[g]
             r == I % s
             h == s \div 2
             w == I \div s
             o == IF r > h THEN r - h ELSE r
             e == w + (IF r > h THEN 1 ELSE 0)
             v == [scan |-> InitScan, start |-> InitTime, config |-> g,
                   offset |-> o, expected |-> e,
                   subints |-> 0, results |-> {}]
  <1>1. Correlated(InitScan) /\ InitTime \in Nat
    BY InitScanIs
  <1>2. InitScan \in Nat /\ g \in Configs
    BY <1>1, ScanTimes DEF Correlated
  <1>3. I \in Nat \ {0} /\ s \in Nat \ {0}
    BY <1>2, JobAssumption
  <1>4. r \in Int /\ h \in Nat /\ w \in Int
    <2> HIDE DEF I, s
    <2> QED BY <1>3, SMT
  <1>5. \A i : NewVisibility(i) = UpdateTimes(v, i)
    BY DEF NewVisibility
  <1>6. o \in Int /\ e \in Int
    <2> HIDE DEF r, h, w
    <2> QED BY <1>4
  <1>7. RegularJob => o = 0 /\ e = PerInt
    <2> SUFFICES ASSUME RegularJob PROVE o = 0 /\ e = PerInt
      OBVIOUS
    <2>1. r = 0 /\ w = PerInt
      BY DEF RegularJob, IntLength, SubintLength, PerInt
    <2> HIDE DEF r, h, w
    <2> QED BY <1>4, <2>1
  <1> HIDE DEF g, o, e
  <1>8. v \in Visibilities
    BY <1>1, <1>2, <1>6 DEF Visibilities
  <1>9. Clock(v) = v
    <2>1. v.subints = 0 /\ v.results = {}
      OBVIOUS
    <2> HIDE DEF v
    <2>2. v \in [scan : Nat, start : Int, config : Configs, offset : Int, expected : Int,
                 subints : Nat, results : SUBSET Subints]
      BY <1>8 DEF Visibilities
    <2> QED BY <2>1, <2>2 DEF Clock
  <1>10. /\ v.scan = InitScan /\ v.start = InitTime /\ v.config = g
         /\ v.offset = o /\ v.expected = e
    OBVIOUS
  <1> HIDE DEF v
  <1>11. NewVisibility(0) = v
    BY <1>5, UpdateTimesIs
  <1> QED BY <1>5, <1>7, <1>8, <1>9, <1>10, <1>11 DEF Calendar, g

\* One integration after another.
LEMMA CalendarNext ==
  ASSUME NEW k \in Nat
  PROVE  /\ Calendar(k) \in Visibilities /\ Clock(Calendar(k)) = Calendar(k)
         /\ Calendar(k + 1) = UpdateTime(Calendar(k))
  <1> DEFINE v == Calendar(0)
  <1>1. v \in Visibilities /\ Clock(v) = v /\ \A i : Calendar(i) = UpdateTimes(v, i)
    BY CalendarFirst
  <1> HIDE DEF v, Calendar
  <1>2. Calendar(k) = UpdateTimes(v, k) /\ Calendar(k + 1) = UpdateTimes(v, k + 1)
    BY <1>1
  <1>3. Calendar(k) \in Visibilities /\ Clock(Calendar(k)) = Calendar(k)
    <2>1. UpdateTimes(v, k) \in Visibilities /\ Clock(UpdateTimes(v, k)) = UpdateTimes(Clock(v), k)
      BY <1>1, UpdateTimesKeep
    <2> QED BY <1>1, <1>2, <2>1
  <1>4. UpdateTimes(v, k + 1) = UpdateTime(UpdateTimes(v, k))
    BY UpdateTimesIs
  <1> QED BY <1>2, <1>3, <1>4

\* What a carry comes to when integrations are whole subints.
LEMMA NoCarry ==
  ASSUME RegularJob
  PROVE  Carry(ScanConfig[InitScan], 0) = [offset |-> 0, subints |-> PerInt]
  <1>1. SubintLength \in Nat \ {0} /\ IntLength % SubintLength = 0
    BY RegularTimes DEF RegularJob
  <1>2. SubintLength \div 2 \in Int /\ ~(0 + 0 > SubintLength \div 2)
    <2>1. SubintLength = 2 * (SubintLength \div 2) + (SubintLength % 2)
            /\ SubintLength % 2 \in 0 .. 1 /\ SubintLength \div 2 \in Int
      BY <1>1, Division
    <2> DEFINE h == SubintLength \div 2
    <2> HIDE DEF h
    <2> QED BY <1>1, <2>1 DEF h
  <1> DEFINE s == SubintNS[ScanConfig[InitScan]]
             r == IntTime[ScanConfig[InitScan]] % s
             w == IntTime[ScanConfig[InitScan]] \div s
  <1>3. Carry(ScanConfig[InitScan], 0) =
          IF 0 + r > s \div 2 THEN [offset |-> (0 + r) - s, subints |-> w + 1]
          ELSE [offset |-> 0 + r, subints |-> w]
    BY DEF Carry
  <1>4. r = 0 /\ w = PerInt /\ s = SubintLength
    BY <1>1 DEF SubintLength, IntLength, PerInt
  <1> HIDE DEF r, w, s
  <1> QED BY <1>2, <1>3, <1>4

\* An integration of a regular job: it begins whole subints into its scan, and
\* expects a full number of them or as many as are left.
RegularAt(v) ==
  /\ v.config = ScanConfig[InitScan] /\ v.offset = 0
  /\ v.scan # NumScans =>
       /\ Coming(v.scan)
       /\ \E a \in Nat : \E m \in Nat \ {0} :
            /\ v.start = From(v.scan) + SubintLength * a
            /\ ScanDuration[v.scan] = v.start + SubintLength * m
            /\ v.expected = IF PerInt <= m THEN PerInt ELSE m

\* What follows an integration: the next of the scan, or the next scan.
GoesOn(v, u) ==
  \/ u.scan = v.scan /\ u.start = v.start + IntLength /\ v.expected = PerInt
  \/ /\ u.scan = NextConfigured(v.scan + 1) /\ u.start = 0
     /\ v.start + SubintLength * v.expected = ScanDuration[v.scan]

\* Multiples of the length of a subint.
LEMMA Pieces ==
  ASSUME NEW n \in Nat \ {0}, NEW p \in Int, NEW q \in Int
  PROVE  /\ n * p \in Int /\ n * q \in Int /\ n * (p + q) = n * p + n * q
         /\ n * (p - q) = n * p - n * q /\ n * (p + 1) = n * p + n
         /\ n * 0 = 0 /\ (p >= 0 => n * p >= 0)
         /\ (p <= q <=> n * p <= n * q) /\ (p < q <=> n * p < n * q)
         /\ (p < q => n * p + n <= n * q)
  <1>1. /\ n * p \in Int /\ n * q \in Int /\ n * (p + q) = n * p + n * q
        /\ n * (p - q) = n * p - n * q /\ n * (p + 1) = n * p + n /\ n * 0 = 0
    BY SMT
  <1>2. (n * p < n * q <=> p < q) /\ (n * q < n * p <=> q < p)
    BY SmallerFactor
  <1>3. (n * (p + 1) < n * q <=> p + 1 < q) /\ (n * q < n * (p + 1) <=> q < p + 1)
    BY SmallerFactor
  <1>4. (n * p < n * 0 <=> p < 0)
    BY SmallerFactor
  <1> DEFINE x == n * p
             y == n * q
  <1> HIDE DEF x, y
  <1>5. (p >= 0 => x >= 0) /\ (p <= q <=> x <= y) /\ (p < q <=> x < y) /\ (p < q => x + n <= y)
    BY <1>1, <1>2, <1>3, <1>4 DEF x, y
  <1> QED BY <1>1, <1>5 DEF x, y

\* updateTime in a regular job.
LEMMA RegularGoesOn ==
  ASSUME RegularJob, NEW v \in Visibilities, RegularAt(v), v.scan # NumScans
  PROVE  /\ RegularAt(UpdateTime(v)) /\ GoesOn(v, UpdateTime(v))
         /\ v.start \in Nat /\ v.expected \in Nat \ {0} /\ v.expected <= PerInt
         /\ SubintLength * v.expected <= IntLength
         /\ v.start + SubintLength * v.expected <= ScanDuration[v.scan]
         /\ \E a \in Nat : v.start = From(v.scan) + SubintLength * a
         /\ \E m \in Nat \ {0} :
              /\ ScanDuration[v.scan] = v.start + SubintLength * m
              /\ v.expected = IF PerInt <= m THEN PerInt ELSE m
  <1> DEFINE u == UpdateTime(v)
             L == SubintLength
             q == PerInt
             D == ScanDuration[v.scan]
             start == v.start + IntLength
  <1>1. /\ L \in Nat \ {0} /\ q \in Nat \ {0} /\ IntLength = L * q /\ IntLength \in Nat
        /\ D \in Nat /\ From(v.scan) \in Nat /\ v.scan \in Nat /\ v.scan < NumScans
        /\ IntTime[v.config] = IntLength /\ SubintNS[v.config] = L
        /\ NumScans \in Nat /\ InitScan \in Nat /\ v.scan >= InitScan /\ Correlated(v.scan)
    BY RegularTimes DEF RegularAt, Coming
  <1>2. PICK a \in Nat : \E m \in Nat \ {0} :
          /\ v.start = From(v.scan) + SubintLength * a
          /\ ScanDuration[v.scan] = v.start + SubintLength * m
          /\ v.expected = IF PerInt <= m THEN PerInt ELSE m
    BY DEF RegularAt
  <1>3. PICK m \in Nat \ {0} :
          /\ v.start = From(v.scan) + L * a
          /\ D = v.start + L * m
          /\ v.expected = IF q <= m THEN q ELSE m
    BY <1>2
  <1>4. L * a \in Nat /\ v.start \in Nat
    BY <1>1, <1>3, Pieces
  <1>5. v.expected \in Nat \ {0} /\ v.expected <= q /\ v.expected <= m
    BY <1>1, <1>3
  <1>6. L * v.expected <= L * q /\ L * v.expected <= L * m /\ L * v.expected \in Int /\ L * m \in Int
    BY <1>1, <1>5, Pieces
  <1>7. v.start + L * v.expected <= D
    <2> DEFINE x == L * v.expected
               y == L * m
    <2>1. x <= y /\ x \in Int /\ y \in Int /\ D = v.start + y
      BY <1>3, <1>6
    <2> HIDE DEF x, y
    <2>2. v.start + x <= D
      BY <1>4, <2>1
    <2> QED BY <2>2 DEF x
  <1>8. v.offset = 0 /\ Carry(v.config, 0) = [offset |-> 0, subints |-> q]
    BY NoCarry DEF RegularAt
  <1>9. v \in [scan : Nat, start : Int, config : Configs, offset : Int, expected : Int,
               subints : Nat, results : SUBSET Subints]
    BY DEF Visibilities
  <1>10. RegularAt(u) /\ GoesOn(v, u)
    <2>1. CASE q < m
      <3>1. start < D /\ L * (m - q) = L * m - L * q /\ L * (m - q) \in Int
        <4>1. L * q < L * m /\ L * q \in Int /\ L * m \in Int /\ L * (m - q) = L * m - L * q
          BY <1>1, <2>1, Pieces
        <4> DEFINE x == L * q
                   y == L * m
                   z == L * (m - q)
        <4>2. x < y /\ x \in Int /\ y \in Int /\ z = y - x /\ D = v.start + y /\ start = v.start + x
          BY <1>1, <1>3, <4>1
        <4> HIDE DEF x, y, z
        <4>3. start < D /\ z \in Int
          BY <1>4, <4>2
        <4> QED BY <4>1, <4>3 DEF z
      <3>2. u = [v EXCEPT !.start = start, !.offset = 0, !.expected = CutShort(v, start, q)]
        <4>1. ~(v.scan >= NumScans) /\ ~(start >= D)
          BY <1>1, <1>4, <3>1
        <4>2. u = [v EXCEPT !.start = start, !.offset = Carry(v.config, v.offset).offset,
                            !.expected = CutShort(v, start, Carry(v.config, v.offset).subints)]
          BY <1>1, <4>1 DEF UpdateTime
        <4>3. Carry(v.config, v.offset).offset = 0 /\ Carry(v.config, v.offset).subints = q
          BY <1>8
        <4> HIDE DEF u, start
        <4> QED BY <4>2, <4>3
      <3>3. CutShort(v, start, q) = IF q <= m - q THEN q ELSE m - q
        <4> DEFINE over == start + IntLength - D
                   p == q - (m - q)
        <4>1. CutShort(v, start, q) = IF over > 0 THEN q - (over \div L) ELSE q
          BY <1>1 DEF CutShort
        <4>2. p \in Int /\ m - q \in Int
          BY <1>1, <1>3
        <4>3. L * p = L * q - L * (m - q) /\ L * p \in Int
          BY <1>1, <4>2, Pieces
        <4>4. over = L * p
          <5> DEFINE x == L * q
                     y == L * m
                     z == L * (m - q)
          <5>1. /\ x \in Int /\ y \in Int /\ z = y - x /\ z \in Int /\ D = v.start + y
                /\ start = v.start + x /\ IntLength = x /\ L * p = x - z
            BY <1>1, <1>3, <1>6, <3>1, <4>3
          <5> HIDE DEF x, y, z, p
          <5>2. over = x - z
            BY <1>4, <5>1
          <5> QED BY <5>1, <5>2
        <4>5. over > 0 <=> p > 0
          <5>1. L * 0 < L * p <=> 0 < p
            BY <1>1, <4>2, Pieces
          <5>2. L * 0 = 0
            BY <1>1
          <5> HIDE DEF p, over
          <5> QED BY <4>2, <4>3, <4>4, <5>1, <5>2
        <4>6. over \div L = p
          <5>1. L * p + 0 = L * p
            BY <4>3
          <5>2. (L * p + 0) \div L = p
            BY <1>1, <4>2, Divided
          <5> QED BY <4>4, <5>1, <5>2
        <4> HIDE DEF over
        <4> QED BY <1>1, <4>1, <4>2, <4>5, <4>6
      <3>4. start = From(v.scan) + L * (a + q) /\ a + q \in Nat
        <4>1. L * (a + q) = L * a + L * q /\ L * q \in Int
          BY <1>1, Pieces
        <4> DEFINE x == L * q
                   y == L * a
        <4>2. x \in Int /\ y \in Int /\ start = v.start + x /\ v.start = From(v.scan) + y
                /\ L * (a + q) = y + x
          BY <1>1, <1>3, <1>4, <4>1
        <4> HIDE DEF x, y, start
        <4> QED BY <1>1, <4>2
      <3>5. D = start + L * (m - q) /\ m - q \in Nat \ {0}
        <4> DEFINE x == L * q
                   y == L * m
        <4>1. x \in Int /\ y \in Int /\ L * (m - q) = y - x /\ D = v.start + y /\ start = v.start + x
          BY <1>1, <1>3, <1>6, <3>1, Pieces
        <4> HIDE DEF x, y
        <4>2. D = start + L * (m - q)
          BY <1>4, <4>1
        <4> QED BY <1>1, <2>1, <4>2
      <3>6. u.start = start /\ u.scan = v.scan /\ u.config = v.config /\ u.offset = 0
              /\ u.expected = IF q <= m - q THEN q ELSE m - q
        BY <1>9, <3>2, <3>3
      <3> HIDE DEF u, start
      <3>7. RegularAt(u)
        BY <3>4, <3>5, <3>6 DEF RegularAt
      <3>8. GoesOn(v, u)
        BY <1>1, <1>3, <2>1, <3>6 DEF GoesOn, start
      <3> QED BY <3>7, <3>8
    <2>2. CASE ~(q < m)
      <3>1. v.expected = m
        BY <1>1, <1>3, <2>2
      <3>2. start >= D
        <4>1. L * m <= L * q /\ L * m \in Int /\ L * q \in Int
          BY <1>1, <2>2, Pieces
        <4> DEFINE x == L * q
                   y == L * m
        <4>2. y <= x /\ x \in Int /\ y \in Int /\ D = v.start + y /\ start = v.start + x
          BY <1>1, <1>3, <4>1
        <4> HIDE DEF x, y
        <4> QED BY <1>4, <4>2
      <3> DEFINE n == NextConfigured(v.scan + 1)
      <3>3. n \in Nat /\ v.scan < n /\ (n = NumScans \/ Correlated(n))
        BY <1>1, NextScanIs
      <3>4. u = [v EXCEPT !.scan = n, !.start = 0,
                          !.config = IF n < NumScans THEN ScanConfig[n] ELSE @,
                          !.offset = 0, !.expected = q]
        <4>1. ~(v.scan < NumScans) <=> v.scan >= NumScans
          BY <1>1
        <4>2. u = EnterScan(v, start)
          BY <1>1, <3>2, <4>1 DEF UpdateTime
        <4>3. Carry(v.config, 0).offset = 0 /\ Carry(v.config, 0).subints = q
          BY <1>8
        <4>4. u = [v EXCEPT !.scan = n, !.start = 0,
                            !.config = IF n < NumScans THEN ScanConfig[n] ELSE @,
                            !.offset = Carry(v.config, 0).offset,
                            !.expected = Carry(v.config, 0).subints]
          BY <4>2 DEF EnterScan
        <4> HIDE DEF u, n
        <4> QED BY <4>3, <4>4
      <3> HIDE DEF n
      <3>5. n = NumScans \/ (Coming(n) /\ n < NumScans /\ n # InitScan)
        <4>1. n # NumScans => Coming(n)
          BY <1>1, <3>3 DEF Coming
        <4> QED BY <1>1, <3>3, <4>1, RegularTimes
      <3>6. u.start = 0 /\ u.scan = n /\ u.offset = 0 /\ u.expected = q
              /\ u.config = ScanConfig[InitScan]
        <4>1. n < NumScans => ScanConfig[n] = ScanConfig[InitScan]
          BY <1>1, <3>5, RegularTimes
        <4> HIDE DEF u
        <4> QED BY <1>9, <3>4, <4>1 DEF RegularAt
      <3> HIDE DEF u
      <3>7. n # NumScans => \E b \in Nat : \E k \in Nat \ {0} :
              /\ 0 = From(n) + L * b /\ ScanDuration[n] = 0 + L * k
              /\ q = IF q <= k THEN q ELSE k
        <4> SUFFICES ASSUME n # NumScans
                     PROVE  \E b \in Nat : \E k \in Nat \ {0} :
                              /\ 0 = From(n) + L * b /\ ScanDuration[n] = 0 + L * k
                              /\ q = IF q <= k THEN q ELSE k
          OBVIOUS
        <4>1. PICK k \in Nat : ScanDuration[n] = From(n) + L * k /\ q <= k
          BY <3>5, RegularTimes
        <4>2. From(n) = 0 /\ L * 0 = 0 /\ L * k \in Int /\ k \in Nat \ {0} /\ 0 \in Nat
          BY <1>1, <3>5, <4>1, Pieces DEF From
        <4> DEFINE x == L * k
        <4>3. ScanDuration[n] = 0 + x /\ 0 = 0 + L * 0
          <5>1. x \in Int /\ ScanDuration[n] = From(n) + x
            BY <4>1, <4>2
          <5> HIDE DEF x
          <5> QED BY <4>2, <5>1
        <4>4. 0 = From(n) + L * 0
          BY <4>2, <4>3
        <4> QED BY <4>1, <4>2, <4>3, <4>4
      <3>8. RegularAt(u)
        <4>1. u.scan # NumScans => Coming(u.scan)
          BY <3>5, <3>6
        <4> QED BY <3>6, <3>7, <4>1 DEF RegularAt
      <3>9. GoesOn(v, u)
        BY <1>3, <3>1, <3>6 DEF GoesOn, n
      <3> QED BY <3>8, <3>9
    <2> QED BY <2>1, <2>2
  <1> HIDE DEF u
  <1>11. L * v.expected <= IntLength
    BY <1>1, <1>6
  <1> QED BY <1>3, <1>4, <1>5, <1>7, <1>10, <1>11 DEF u

\* Every integration of a regular job is regular, and after the last scan there are no more.
LEMMA CalendarRegular ==
  ASSUME RegularJob, NEW k \in Nat
  PROVE  RegularAt(Calendar(k))
  <1> DEFINE R == {n \in Nat : RegularAt(Calendar(n))}
  <1>1. 0 \in R
    <2> DEFINE v == Calendar(0)
    <2>1. /\ v.scan = InitScan /\ v.start = InitTime /\ v.config = ScanConfig[InitScan]
          /\ v.offset = 0 /\ v.expected = PerInt
      BY CalendarFirst
    <2> HIDE DEF v
    <2>2. PICK m \in Nat : ScanDuration[InitScan] = From(InitScan) + SubintLength * m /\ PerInt <= m
      BY RegularTimes
    <2>3. /\ SubintLength \in Nat \ {0} /\ PerInt \in Nat \ {0} /\ InitTime \in Nat
          /\ Coming(InitScan) /\ From(InitScan) = InitTime
      BY RegularTimes DEF From
    <2>4. SubintLength * 0 = 0 /\ m \in Nat \ {0}
      BY <2>2, <2>3
    <2>5. v.start = From(InitScan) + SubintLength * 0
      BY <2>1, <2>3, <2>4
    <2>6. RegularAt(v)
      BY <2>1, <2>2, <2>3, <2>4, <2>5 DEF RegularAt
    <2> QED BY <2>6 DEF v
  <1>2. ASSUME NEW n \in R PROVE n + 1 \in R
    <2>1. n \in Nat /\ n + 1 \in Nat /\ RegularAt(Calendar(n)) /\ Calendar(n) \in Visibilities
            /\ Calendar(n + 1) = UpdateTime(Calendar(n))
      BY CalendarNext
    <2> DEFINE v == Calendar(n)
    <2> HIDE DEF v
    <2>2. RegularAt(UpdateTime(v))
      <3>1. CASE v.scan # NumScans
        BY <2>1, <3>1, RegularGoesOn DEF v
      <3>2. CASE v.scan = NumScans
        <4>1. UpdateTime(v) = v
          <5>1. NumScans \in Nat
            BY RegularTimes
          <5>2. v.scan >= NumScans
            BY <3>2, <5>1
          <5> QED BY <2>1, <5>2, UpdateTimeIs DEF v
        <4> QED BY <2>1, <4>1 DEF v
      <3> QED BY <3>1, <3>2
    <2> QED BY <2>1, <2>2 DEF v
  <1>3. R \in SUBSET Nat
    OBVIOUS
  <1> HIDE DEF R
  <1>4. k \in R
    BY <1>1, <1>2, <1>3, SetInduction
  <1> QED BY <1>4 DEF R

\* The integrations of a regular job.
LEMMA CalendarIs ==
  ASSUME RegularJob, NEW k \in Nat
  PROVE  /\ Size(k) \in Nat
         /\ Over(k) => Over(k + 1) /\ Size(k) = 0
         /\ ~Over(k) =>
              /\ Coming(Calendar(k).scan) /\ Calendar(k).start \in Nat
              /\ Size(k) = Calendar(k).expected /\ Size(k) \in Nat \ {0} /\ Size(k) <= PerInt
              /\ SubintLength * Size(k) <= IntLength
              /\ Calendar(k).start + SubintLength * Size(k) <= ScanDuration[Calendar(k).scan]
              /\ \E a \in Nat :
                   Calendar(k).start = From(Calendar(k).scan) + SubintLength * a
              /\ \E m \in Nat \ {0} :
                   /\ ScanDuration[Calendar(k).scan] = Calendar(k).start + SubintLength * m
                   /\ Size(k) = IF PerInt <= m THEN PerInt ELSE m
              /\ \/ /\ Calendar(k + 1).scan = Calendar(k).scan
                    /\ Calendar(k + 1).start = Calendar(k).start + IntLength
                    /\ Size(k) = PerInt
                 \/ /\ Calendar(k + 1).scan = NextConfigured(Calendar(k).scan + 1)
                    /\ Calendar(k + 1).start = 0
                    /\ Calendar(k).start + SubintLength * Size(k)
                         = ScanDuration[Calendar(k).scan]
  <1> DEFINE v == Calendar(k)
             u == Calendar(k + 1)
  <1>1. v \in Visibilities /\ u = UpdateTime(v) /\ RegularAt(v) /\ NumScans \in Nat
    BY CalendarNext, CalendarRegular, RegularTimes
  <1>2. CASE v.scan = NumScans
    <2>1. v.scan >= NumScans
      BY <1>1, <1>2
    <2>2. u = v
      BY <1>1, <2>1, UpdateTimeIs
    <2> QED BY <1>2, <2>2 DEF Over, Size
  <1>3. CASE v.scan # NumScans
    <2>1. /\ GoesOn(v, u) /\ Coming(v.scan)
          /\ v.start \in Nat /\ v.expected \in Nat \ {0} /\ v.expected <= PerInt
          /\ SubintLength * v.expected <= IntLength
          /\ v.start + SubintLength * v.expected <= ScanDuration[v.scan]
          /\ \E a \in Nat : v.start = From(v.scan) + SubintLength * a
          /\ \E m \in Nat \ {0} :
               /\ ScanDuration[v.scan] = v.start + SubintLength * m
               /\ v.expected = IF PerInt <= m THEN PerInt ELSE m
      BY <1>1, <1>3, RegularGoesOn DEF RegularAt
    <2>2. ~Over(k) /\ Size(k) = v.expected
      BY <1>3 DEF Over, Size
    <2> HIDE DEF Calendar
    <2> QED BY <2>1, <2>2 DEF GoesOn
  <1> QED BY <1>2, <1>3

\* Later integrations are of later scans, or begin after the end of the earlier.
LEMMA CalendarOrder ==
  ASSUME RegularJob, NEW k \in Nat, NEW l \in Nat, k < l, ~Over(k)
  PROVE  /\ Calendar(k).scan \in Nat /\ Calendar(l).scan \in Nat /\ Calendar(l).start \in Int
         /\ \/ Calendar(k).scan < Calendar(l).scan
            \/ /\ Calendar(k).scan = Calendar(l).scan
               /\ Calendar(k).start + IntLength <= Calendar(l).start
  <1> DEFINE P(n) == \/ Calendar(k).scan < Calendar(n).scan
                     \/ /\ Calendar(k).scan = Calendar(n).scan
                        /\ Calendar(k).start + IntLength <= Calendar(n).start
             R == {d \in Nat : P(k + (d + 1))}
  <1>1. \A n \in Nat : Calendar(n).scan \in Nat /\ Calendar(n).start \in Int
    <2> SUFFICES ASSUME NEW n \in Nat
                 PROVE  Calendar(n).scan \in Nat /\ Calendar(n).start \in Int
      OBVIOUS
    <2>1. Calendar(n) \in Visibilities
      BY CalendarNext
    <2> QED BY <2>1 DEF Visibilities
  <1>2. IntLength \in Nat /\ NumScans \in Nat
    BY RegularTimes
  <1> HIDE DEF Calendar
  <1>3. ASSUME NEW n \in Nat, ~Over(n)
        PROVE  \/ Calendar(n).scan < Calendar(n + 1).scan
               \/ /\ Calendar(n).scan = Calendar(n + 1).scan
                  /\ Calendar(n).start + IntLength <= Calendar(n + 1).start
    <2>1. Coming(Calendar(n).scan)
      BY <1>3, CalendarIs
    <2>2. Calendar(n).scan < NextConfigured(Calendar(n).scan + 1)
      BY <2>1, NextScanIs DEF Coming
    <2>3. n + 1 \in Nat /\ Calendar(n + 1).start \in Int
      BY <1>1
    <2>4. \/ /\ Calendar(n + 1).scan = Calendar(n).scan
             /\ Calendar(n + 1).start = Calendar(n).start + IntLength
          \/ Calendar(n + 1).scan = NextConfigured(Calendar(n).scan + 1)
      BY <1>3, CalendarIs
    <2> QED BY <1>2, <2>2, <2>3, <2>4
  <1>4. 0 \in R
    <2>1. P(k + 1)
      BY <1>3
    <2> QED BY <2>1
  <1>5. ASSUME NEW d \in R PROVE d + 1 \in R
    <2> DEFINE n == k + (d + 1)
    <2>1. n \in Nat /\ n + 1 = k + ((d + 1) + 1) /\ d + 1 \in Nat /\ P(n) /\ n + 1 \in Nat
      OBVIOUS
    <2> HIDE DEF n
    <2>2. CASE Over(n)
      <3>1. Over(n + 1)
        BY <2>1, <2>2, CalendarIs
      <3>2. Calendar(k).scan < NumScans
        <4>1. Coming(Calendar(k).scan)
          BY CalendarIs
        <4> QED BY <4>1, RegularTimes
      <3>3. P(n + 1)
        BY <3>1, <3>2 DEF Over
      <3> QED BY <2>1, <3>3
    <2>3. CASE ~Over(n)
      <3>1. P(n + 1)
        <4>1. \/ Calendar(n).scan < Calendar(n + 1).scan
              \/ /\ Calendar(n).scan = Calendar(n + 1).scan
                 /\ Calendar(n).start + IntLength <= Calendar(n + 1).start
          BY <1>3, <2>1, <2>3
        <4>2. /\ Calendar(k).scan \in Nat /\ Calendar(n).scan \in Nat /\ Calendar(n + 1).scan \in Nat
              /\ Calendar(k).start \in Int /\ Calendar(n).start \in Int /\ Calendar(n + 1).start \in Int
          BY <1>1, <2>1
        <4> QED BY <1>2, <2>1, <4>1, <4>2
      <3> QED BY <2>1, <3>1
    <2> QED BY <2>2, <2>3
  <1>6. R \in SUBSET Nat
    OBVIOUS
  <1>7. l - (k + 1) \in Nat /\ k + ((l - (k + 1)) + 1) = l
    OBVIOUS
  <1> HIDE DEF R, P
  <1>8. l - (k + 1) \in R
    BY <1>4, <1>5, <1>6, <1>7, SetInduction
  <1>9. P(l)
    BY <1>7, <1>8 DEF R
  <1> QED BY <1>1, <1>9 DEF P

-----------------------------------------------------------------------------
(* The numbers of the subints *)

\* There are no subints before the first integration; each integration has its own.
LEMMA BeforeIs ==
  ASSUME RegularJob
  PROVE  Before(0) = 0 /\ \A k \in Nat : Before(k) \in Nat /\ Before(k + 1) = Before(k) + Size(k)
  <1> DEFINE Slots(m) == {m} \X (0 .. Size(m) - 1)
             All(k) == UNION {Slots(m) : m \in 0 .. k - 1}
             R == {n \in Nat : IsFiniteSet(All(n))}
  <1>1. \A k : Before(k) = Cardinality(All(k))
    BY DEF Before
  <1>2. All(0) = {}
    OBVIOUS
  <1>3. \A m \in Nat : IsFiniteSet(Slots(m)) /\ Cardinality(Slots(m)) = Size(m)
    <2> SUFFICES ASSUME NEW m \in Nat
                 PROVE  IsFiniteSet(Slots(m)) /\ Cardinality(Slots(m)) = Size(m)
      OBVIOUS
    <2>1. Size(m) \in Nat
      BY CalendarIs
    <2> HIDE DEF Size
    <2>2. IsFiniteSet(0 .. Size(m) - 1) /\ Cardinality(0 .. Size(m) - 1) = Size(m)
      <3>1. IsFiniteSet(0 .. Size(m) - 1) /\ Cardinality(0 .. Size(m) - 1)
              = IF 0 > Size(m) - 1 THEN 0 ELSE (Size(m) - 1) - 0 + 1
        <4> DEFINE h == Size(m) - 1
        <4>1. h \in Int /\ 0 \in Int
          BY <2>1
        <4> HIDE DEF h
        <4>2. IsFiniteSet(0 .. h) /\ Cardinality(0 .. h) = IF 0 > h THEN 0 ELSE h - 0 + 1
          BY <4>1, FS_Interval
        <4> QED BY <4>2 DEF h
      <3> QED BY <2>1, <3>1
    <2>3. IsFiniteSet({m}) /\ Cardinality({m}) = 1
      BY FS_Singleton
    <2>4. IsFiniteSet(Slots(m)) /\ Cardinality(Slots(m)) = 1 * Size(m)
      BY <2>2, <2>3, FS_Product
    <2> QED BY <2>1, <2>4
  <1>4. \A k \in Nat : All(k + 1) = All(k) \cup Slots(k) /\ All(k) \cap Slots(k) = {}
    <2> SUFFICES ASSUME NEW k \in Nat
                 PROVE  All(k + 1) = All(k) \cup Slots(k) /\ All(k) \cap Slots(k) = {}
      OBVIOUS
    <2>1. 0 .. (k + 1) - 1 = (0 .. k - 1) \cup {k} /\ k \notin 0 .. k - 1
      OBVIOUS
    <2> HIDE DEF Size
    <2> QED BY <2>1
  <1> HIDE DEF All, Slots
  <1>5. ASSUME NEW k \in R
        PROVE  k + 1 \in R /\ Cardinality(All(k + 1)) = Cardinality(All(k)) + Size(k)
                 /\ Cardinality(All(k)) \in Nat
    <2>1. k \in Nat /\ k + 1 \in Nat /\ IsFiniteSet(All(k)) /\ IsFiniteSet(Slots(k))
      BY <1>3
    <2>2. /\ IsFiniteSet(All(k) \cup Slots(k))
          /\ Cardinality(All(k) \cup Slots(k))
               = Cardinality(All(k)) + Cardinality(Slots(k)) - Cardinality(All(k) \cap Slots(k))
      BY <2>1, FS_Union
    <2>3. Cardinality(All(k) \cap Slots(k)) = 0
      BY <1>4, <2>1, FS_EmptySet
    <2>4. Cardinality(All(k)) \in Nat /\ Cardinality(Slots(k)) = Size(k) /\ Size(k) \in Nat
      BY <1>3, <2>1, CalendarIs, FS_CardinalityType
    <2> HIDE DEF Size, R
    <2>5. All(k + 1) = All(k) \cup Slots(k)
      BY <1>4, <2>1
    <2>6. IsFiniteSet(All(k + 1))
      BY <2>2, <2>5
    <2>7. Cardinality(All(k + 1)) = Cardinality(All(k)) + Size(k)
      <3> DEFINE x == Cardinality(All(k))
                 y == Cardinality(Slots(k))
                 z == Cardinality(All(k) \cap Slots(k))
      <3>1. Cardinality(All(k + 1)) = x + y - z /\ x \in Nat /\ y = Size(k) /\ Size(k) \in Nat /\ z = 0
        BY <2>2, <2>3, <2>4, <2>5
      <3> HIDE DEF x, y, z
      <3>2. Cardinality(All(k + 1)) = x + Size(k)
        BY <3>1
      <3> QED BY <3>2 DEF x
    <2>8. k + 1 \in R
      BY <2>1, <2>6 DEF R
    <2> QED BY <2>4, <2>7, <2>8
  <1>6. 0 \in R /\ Cardinality(All(0)) = 0
    BY <1>2, FS_EmptySet
  <1>7. R \in SUBSET Nat
    OBVIOUS
  <1> HIDE DEF R
  <1>8. R = Nat
    BY <1>5, <1>6, <1>7, SetInduction
  <1> QED BY <1>1, <1>5, <1>6, <1>8

\* Later integrations have later subints: at least one each, if the job goes on.
LEMMA BeforeGrows ==
  ASSUME RegularJob, NEW k \in Nat, NEW l \in Nat, k <= l
  PROVE  /\ Before(k) \in Nat /\ Before(l) \in Nat /\ Before(k) <= Before(l)
         /\ ~Over(l) => ~Over(k) /\ l - k <= Before(l) - Before(k)
  <1> DEFINE P(n) == /\ Before(k) <= Before(n)
                     /\ ~Over(n) => ~Over(k) /\ n - k <= Before(n) - Before(k)
             R == {d \in Nat : P(k + d)}
  <1>1. \A n \in Nat : Before(n) \in Nat /\ Before(n + 1) = Before(n) + Size(n)
                       /\ Size(n) \in Nat
    BY BeforeIs, CalendarIs
  <1> HIDE DEF Before, Size, Over
  <1>2. 0 \in R
    <2>1. k + 0 = k /\ k - k = 0 /\ Before(k) - Before(k) = 0 /\ Before(k) <= Before(k)
      BY <1>1
    <2> QED BY <2>1
  <1>3. ASSUME NEW d \in R PROVE d + 1 \in R
    <2> DEFINE n == k + d
    <2>1. n \in Nat /\ n + 1 = k + (d + 1) /\ P(n)
      OBVIOUS
    <2> HIDE DEF n
    <2>2. ~Over(n + 1) => ~Over(n) /\ Size(n) >= 1
      BY <2>1, CalendarIs
    <2>3. P(n + 1)
      BY <1>1, <2>1, <2>2
    <2> QED BY <2>1, <2>3
  <1>4. R \in SUBSET Nat
    OBVIOUS
  <1>5. l - k \in Nat /\ k + (l - k) = l
    OBVIOUS
  <1> HIDE DEF R, P
  <1>6. l - k \in R
    BY <1>2, <1>3, <1>4, <1>5, SetInduction
  <1>7. P(l)
    BY <1>5, <1>6 DEF R
  <1> QED BY <1>1, <1>7 DEF P

\* What is known of the numbers of subints.
LEMMA SpanIs ==
  ASSUME RegularJob, NEW k \in Nat
  PROVE  /\ Before(k) \in Nat /\ Before(k + 1) \in Nat /\ Size(k) \in Nat
         /\ Before(k + 1) = Before(k) + Size(k)
         /\ Span(k) = Before(k) .. Before(k + 1) - 1 /\ Span(k) \subseteq Nat
         /\ IsFiniteSet(Span(k)) /\ Cardinality(Span(k)) = Size(k)
         /\ Over(k) => Span(k) = {}
         /\ ~Over(k) => Before(k) \in Span(k)
  <1>1. /\ Before(k) \in Nat /\ Before(k + 1) \in Nat /\ Size(k) \in Nat
        /\ Before(k + 1) = Before(k) + Size(k)
        /\ Over(k) => Size(k) = 0
        /\ ~Over(k) => Size(k) >= 1
    BY BeforeIs, CalendarIs
  <1> DEFINE b == Before(k)
             c == Before(k + 1)
  <1>2. Span(k) = b .. c - 1
    BY DEF Span
  <1> HIDE DEF b, c
  <1>3. b \in Nat /\ c \in Nat /\ c = b + Size(k)
    BY <1>1 DEF b, c
  <1> HIDE DEF Size
  <1>4. IsFiniteSet(b .. c - 1) /\ Cardinality(b .. c - 1) = IF b > c - 1 THEN 0 ELSE (c - 1) - b + 1
    <2>1. b \in Int /\ c - 1 \in Int
      BY <1>3
    <2> QED BY <2>1, FS_Interval
  <1>5. Cardinality(b .. c - 1) = Size(k)
    BY <1>1, <1>3, <1>4
  <1>6. (Over(k) => b .. c - 1 = {}) /\ (~Over(k) => b \in b .. c - 1) /\ b .. c - 1 \subseteq Nat
    BY <1>1, <1>3
  <1> QED BY <1>1, <1>2, <1>4, <1>5, <1>6 DEF b, c

\* A subint is of one integration: no other has its number.
LEMMA SpanApart ==
  ASSUME RegularJob, NEW k \in Nat, NEW l \in Nat, NEW n \in Int
  PROVE  /\ n \in Span(k) /\ n \in Span(l) => k = l
         /\ n \in Span(k) /\ n < Before(l) => k < l
         /\ n \in Span(k) /\ n >= Before(l) => k >= l
  <1>1. /\ Span(k) = Before(k) .. Before(k + 1) - 1 /\ Span(l) = Before(l) .. Before(l + 1) - 1
        /\ Before(k) \in Nat /\ Before(k + 1) \in Nat /\ Before(l) \in Nat /\ Before(l + 1) \in Nat
        /\ k + 1 \in Nat /\ l + 1 \in Nat
    BY SpanIs
  <1>2. /\ k <= l => Before(k) <= Before(l)
        /\ k + 1 <= l => Before(k + 1) <= Before(l)
        /\ l <= k => Before(l) <= Before(k)
        /\ l + 1 <= k => Before(l + 1) <= Before(k)
    BY <1>1, BeforeGrows
  <1> HIDE DEF Before, Span
  <1> QED BY <1>1, <1>2

-----------------------------------------------------------------------------
(* The place of a subint, and the one after it *)

\* Half a subint is less than one.
LEMMA HalfIs ==
  ASSUME NEW n \in Nat \ {0}
  PROVE  n \div 2 \in Nat /\ n \div 2 < n
  <1>1. n = 2 * (n \div 2) + (n % 2) /\ n % 2 \in 0 .. 1 /\ n \div 2 \in Int
    BY Division
  <1> DEFINE h == n \div 2
  <1> HIDE DEF h
  <1>2. h \in Nat /\ h < n
    BY <1>1 DEF h
  <1> QED BY <1>2 DEF h

\* The place of a subint in its integration.
LEMMA PlaceIs ==
  ASSUME RegularJob, NEW s, NEW k, Placed(s, k)
  PROVE  /\ k \in Nat /\ ~Over(k) /\ Coming(s.scan) /\ s.scan = Calendar(k).scan
         /\ s \in Subints /\ s.num \in Nat /\ s.num \in Span(k) /\ s.time \in Nat
         /\ Calendar(k).start \in Nat
         /\ \E j \in Nat :
              /\ s.num = Before(k) + j /\ j < Size(k)
              /\ s.time = Calendar(k).start + SubintLength * j
              /\ SubintLength * j \in Nat /\ SubintLength * j + SubintLength <= IntLength
              /\ s.time + SubintLength <= ScanDuration[s.scan]
  <1>1. /\ k \in Nat /\ ~Over(k) /\ s \in Subints /\ s.num \in Span(k)
        /\ s.scan = Calendar(k).scan
        /\ s.time = Calendar(k).start + SubintLength * (s.num - Before(k))
    BY DEF Placed
  <1>2. /\ Coming(Calendar(k).scan) /\ Calendar(k).start \in Nat /\ Size(k) \in Nat
        /\ SubintLength * Size(k) <= IntLength
        /\ Calendar(k).start + SubintLength * Size(k) <= ScanDuration[Calendar(k).scan]
    BY <1>1, CalendarIs
  <1>3. /\ SubintLength \in Nat \ {0} /\ IntLength \in Nat
        /\ ScanDuration[Calendar(k).scan] \in Nat
    BY <1>2, RegularTimes
  <1> DEFINE j == s.num - Before(k)
  <1>4. j \in Nat /\ s.num = Before(k) + j /\ j < Size(k) /\ s.num \in Nat
    <2>1. /\ Before(k) \in Nat /\ Before(k + 1) = Before(k) + Size(k)
          /\ Span(k) = Before(k) .. Before(k + 1) - 1
      BY <1>1, SpanIs
    <2> HIDE DEF Before, Size, Span
    <2> QED BY <1>1, <1>2, <2>1
  <1> HIDE DEF j
  <1>5. s.time = Calendar(k).start + SubintLength * j
    BY <1>1 DEF j
  <1>6. /\ SubintLength * j \in Int /\ SubintLength * Size(k) \in Int /\ SubintLength * j >= 0
        /\ SubintLength * j + SubintLength <= SubintLength * Size(k)
    BY <1>2, <1>3, <1>4, Pieces
  <1> DEFINE x == SubintLength * j
             y == SubintLength * Size(k)
  <1> HIDE DEF x, y, Calendar
  <1>7. /\ x \in Nat /\ x + SubintLength <= IntLength /\ s.time = Calendar(k).start + x
        /\ s.time \in Nat
        /\ s.time + SubintLength <= ScanDuration[Calendar(k).scan]
    BY <1>2, <1>3, <1>5, <1>6 DEF x, y
  <1> QED BY <1>1, <1>2, <1>4, <1>7 DEF x

\* locateVisIndex takes a subint for one of its own integration, and sees
\* of any other whether it is earlier or later.
LEMMA PlaceDifference ==
  ASSUME RegularJob, NEW s, NEW k, Placed(s, k), NEW l \in Nat, NEW v,
         v.scan = Calendar(l).scan, v.start = Calendar(l).start
  PROVE  LET d == Difference(v, s.scan, s.time) IN
         /\ k = l => 0 <= d /\ d < IntLength
         /\ l < k => d >= IntLength
         /\ k < l => d < 0
  <1> DEFINE L == SubintLength
             h == SubintNS[ScanConfig[s.scan]] \div 2
             d == Difference(v, s.scan, s.time)
             c == s.time + h
  <1>1. /\ k \in Nat /\ ~Over(k) /\ Coming(s.scan) /\ s.scan = Calendar(k).scan
        /\ s.time \in Nat /\ Calendar(k).start \in Nat
    BY PlaceIs
  <1>2. PICK x \in Nat : /\ s.time = Calendar(k).start + x
                         /\ x + L <= IntLength
    BY PlaceIs
  <1>3. h \in Nat /\ h < L /\ L \in Nat /\ IntLength \in Nat /\ s.scan \in Nat
    <2>1. SubintNS[ScanConfig[s.scan]] = L /\ L \in Nat \ {0} /\ IntLength \in Nat /\ s.scan \in Nat
      BY <1>1, RegularTimes
    <2> QED BY <2>1, HalfIs
  <1>4. Never \in Int /\ Never > 0 /\ Never >= IntLength
    <2>1. /\ ExecuteSeconds \in Nat /\ Second \in Nat \ {0} /\ ScanStart[InitScan] \in Int
          /\ ScanStart[InitScan] + ScanDuration[InitScan] <= ExecuteSeconds
          /\ From(InitScan) + IntLength <= ScanDuration[InitScan]
          /\ ScanDuration[InitScan] \in Nat /\ InitTime \in Nat
      BY RegularTimes
    <2>2. ScanStart[InitScan] + InitTime >= 0 /\ From(InitScan) = InitTime
      <3>1. StartNS \in Nat
        BY JobAssumption
      <3> QED BY <2>1, <3>1 DEF InitTime, From
    <2>3. IntLength <= ExecuteSeconds
      BY <1>3, <2>1, <2>2
    <2>4. Never = 10 * (ExecuteSeconds + Second)
      BY DEF Never
    <2> QED BY <1>3, <2>1, <2>3, <2>4
  <1>5. d = IF s.scan > v.scan THEN Never
            ELSE IF s.scan < v.scan THEN -Never ELSE c - v.start
    BY DEF Difference, Centre
  <1> HIDE DEF d, h, Calendar
  <1>6. c \in Nat /\ c = Calendar(k).start + x + h
    BY <1>1, <1>2, <1>3
  <1> HIDE DEF c
  <1>7. CASE k = l
    <2>1. d = x + h
      BY <1>1, <1>3, <1>5, <1>6, <1>7
    <2> QED BY <1>2, <1>3, <1>7, <2>1 DEF d
  <1>8. CASE l < k
    <2>1. ~Over(l)
      <3>1. k - l <= k
        BY <1>1
      <3> QED BY <1>1, <1>8, BeforeGrows
    <2>2. /\ Calendar(l).scan \in Nat /\ Calendar(k).scan \in Nat /\ Calendar(k).start \in Int
          /\ \/ Calendar(l).scan < Calendar(k).scan
             \/ /\ Calendar(l).scan = Calendar(k).scan
                /\ Calendar(l).start + IntLength <= Calendar(k).start
      BY <1>1, <1>8, <2>1, CalendarOrder
    <2>3. Calendar(l).start \in Nat
      BY <2>1, CalendarIs
    <2>4. CASE s.scan > v.scan
      BY <1>1, <1>4, <1>5, <1>8, <2>4 DEF d
    <2>5. CASE ~(s.scan > v.scan)
      <3>1. d = c - v.start /\ Calendar(l).start + IntLength <= Calendar(k).start
        BY <1>1, <1>5, <2>2, <2>5
      <3>2. d >= IntLength
        BY <1>1, <1>2, <1>3, <1>6, <2>3, <3>1
      <3> QED BY <1>1, <1>8, <3>2 DEF d
    <2> QED BY <2>4, <2>5
  <1>9. CASE k < l
    <2>2. /\ Calendar(k).scan \in Nat /\ Calendar(l).scan \in Nat /\ Calendar(l).start \in Int
          /\ \/ Calendar(k).scan < Calendar(l).scan
             \/ /\ Calendar(k).scan = Calendar(l).scan
                /\ Calendar(k).start + IntLength <= Calendar(l).start
      BY <1>1, <1>9, CalendarOrder
    <2>4. CASE s.scan < v.scan
      <3>1. d = -Never
        BY <1>1, <1>5, <2>2, <2>4
      <3> QED BY <1>1, <1>4, <1>9, <3>1 DEF d
    <2>5. CASE ~(s.scan < v.scan)
      <3>1. d = c - v.start /\ Calendar(k).start + IntLength <= Calendar(l).start
        BY <1>1, <1>5, <2>2, <2>5
      <3>2. d < 0
        BY <1>1, <1>2, <1>3, <1>6, <2>2, <3>1
      <3> QED BY <1>1, <1>9, <3>2 DEF d
    <2> QED BY <2>4, <2>5
  <1> QED BY <1>1, <1>7, <1>8, <1>9 DEF d

\* A scan is sent as long as there is a whole subint left of it.
LEMMA InScanIs ==
  ASSUME RegularJob, NEW n, Coming(n), NEW t \in Nat
  PROVE  /\ t + SubintLength <= ScanDuration[n] => InScan(n, t)
         /\ t = ScanDuration[n] => ~InScan(n, t)
  <1> DEFINE D == ScanDuration[n]
             sec == t \div Second
             s == Second * sec
             r == t % Second
             L == SubintLength
             h == SubintNS[ScanConfig[n]] \div 2
  <1>1. /\ D \in Nat /\ ScanStart[n] \in Int /\ Second \in Nat \ {0} /\ D % Second = 0
        /\ ScanStart[n] + D <= ExecuteSeconds /\ ExecuteSeconds \in Nat
        /\ SubintNS[ScanConfig[n]] = L /\ L \in Nat \ {0}
    BY RegularTimes
  <1>2. h \in Nat /\ h < L
    BY <1>1, HalfIs
  <1>3. /\ s \in Int /\ Second * (sec + 1) = s + Second
        /\ s <= t /\ t < s + Second /\ t = s + r /\ r \in 0 .. Second - 1
        /\ s < D => s + Second <= D
    BY <1>1, WholePieces
  <1>4. InScan(n, t) <=>
          /\ s < D /\ ScanStart[n] + s < ExecuteSeconds
          /\ \/ Second * (sec + 1) = D
             \/ ScanStart[n] + Second * (sec + 1) = ExecuteSeconds
             => Second - r > h
    BY DEF InScan
  <1> HIDE DEF s, sec, r, h
  <1>5. ASSUME t + L <= D PROVE InScan(n, t)
    <2>1. s < D /\ ScanStart[n] + s < ExecuteSeconds
      BY <1>1, <1>3, <1>5
    <2>2. ASSUME s + Second = D \/ ScanStart[n] + (s + Second) = ExecuteSeconds
          PROVE  Second - r > h
      <3>1. s + Second >= D
        BY <1>1, <1>3, <2>2
      <3> QED BY <1>1, <1>2, <1>3, <1>5, <3>1
    <2> QED BY <1>3, <1>4, <2>1, <2>2
  <1>6. ASSUME t = D, InScan(n, t) PROVE FALSE
    <2>1. s < D /\ s + Second <= D
      BY <1>3, <1>4, <1>6
    <2> QED BY <1>1, <1>3, <1>6, <2>1
  <1> QED BY <1>5, <1>6

\* After a subint comes the next of its integration, the first of the
\* next integration of the scan, or the end of the scan.
LEMMA NextPlace ==
  ASSUME RegularJob, NEW s, NEW k, Placed(s, k)
  PROVE  /\ InScan(s.scan, s.time) /\ Coming(s.scan)
         /\ LET t == s.time + SubintNS[ScanConfig[s.scan]] IN
            /\ t \in Nat
            /\ \/ Placed(Subint(s.scan, t, s.num + 1), k)
               \/ Placed(Subint(s.scan, t, s.num + 1), k + 1)
               \/ AtEnd(s.scan, t, s.num + 1, k + 1)
  <1> DEFINE L == SubintLength
             t == s.time + SubintNS[ScanConfig[s.scan]]
             n == s.num + 1
             b == Before(k)
  <1>1. /\ k \in Nat /\ ~Over(k) /\ Coming(s.scan) /\ s.scan = Calendar(k).scan
        /\ s \in Subints /\ s.num \in Nat /\ s.time \in Nat /\ Calendar(k).start \in Nat
    BY PlaceIs
  <1>2. PICK j \in Nat :
              /\ s.num = b + j /\ j < Size(k)
              /\ s.time = Calendar(k).start + L * j
              /\ L * j \in Nat /\ L * j + L <= IntLength
              /\ s.time + L <= ScanDuration[s.scan]
    BY PlaceIs
  <1>3. /\ SubintNS[ScanConfig[s.scan]] = L /\ L \in Nat \ {0} /\ s.scan \in Nat /\ IntLength \in Nat
        /\ IntLength = L * PerInt /\ PerInt \in Nat \ {0}
    BY <1>1, RegularTimes
  <1>4. InScan(s.scan, s.time)
    BY <1>1, <1>2, InScanIs
  <1>5. t = s.time + L /\ t \in Nat /\ n \in Nat
    BY <1>1, <1>3
  <1>6. /\ b \in Nat /\ Size(k) \in Nat /\ Before(k + 1) = b + Size(k)
        /\ Span(k) = b .. Before(k + 1) - 1 /\ k + 1 \in Nat
    BY <1>1, SpanIs
  <1>7. L * (j + 1) = L * j + L /\ t = Calendar(k).start + L * (j + 1)
    <2>1. L * (j + 1) = L * j + L
      BY <1>3, Pieces
    <2> DEFINE x == L * j
    <2>2. x \in Nat /\ s.time = Calendar(k).start + x
      BY <1>2
    <2> HIDE DEF x, Calendar, t
    <2>3. t = Calendar(k).start + (x + L)
      BY <1>1, <1>3, <1>5, <2>2
    <2> QED BY <2>1, <2>3 DEF x
  <1>8. Subint(s.scan, t, n) \in Subints
    BY <1>3, <1>5 DEF Subint, Subints
  <1>9. \A l : LET u == Subint(s.scan, t, n) IN u.scan = s.scan /\ u.time = t /\ u.num = n
    BY DEF Subint
  <1> HIDE DEF t, n, b, Calendar, Size
  <1>10. CASE j + 1 < Size(k)
    <2>1. n \in Span(k) /\ n - b = j + 1
      BY <1>1, <1>2, <1>6, <1>10 DEF n
    <2>2. Placed(Subint(s.scan, t, n), k)
      BY <1>1, <1>7, <1>8, <1>9, <2>1 DEF Placed, b
    <2> QED BY <1>1, <1>4, <1>5, <2>2 DEF t, n
  <1>11. CASE ~(j + 1 < Size(k))
    <2>1. j + 1 = Size(k) /\ n = Before(k + 1)
      BY <1>1, <1>2, <1>6, <1>11 DEF n
    <2>2. CASE /\ Calendar(k + 1).scan = Calendar(k).scan
               /\ Calendar(k + 1).start = Calendar(k).start + IntLength
               /\ Size(k) = PerInt
      <3>1. ~Over(k + 1)
        BY <1>1, <2>2 DEF Over
      <3>2. n \in Span(k + 1)
        BY <1>6, <2>1, <3>1, SpanIs
      <3>3. t = Calendar(k + 1).start + L * (n - Before(k + 1))
        <4>1. n - Before(k + 1) = 0 /\ L * 0 = 0
          BY <1>3, <1>5, <2>1
        <4>2. t = Calendar(k).start + IntLength
          BY <1>3, <1>7, <2>1, <2>2
        <4> QED BY <1>5, <2>2, <4>1, <4>2
      <3>4. Placed(Subint(s.scan, t, n), k + 1)
        BY <1>1, <1>6, <1>8, <1>9, <2>2, <3>1, <3>2, <3>3 DEF Placed
      <3> QED BY <1>1, <1>4, <1>5, <3>4 DEF t, n
    <2>3. CASE /\ Calendar(k + 1).scan = NextConfigured(Calendar(k).scan + 1)
               /\ Calendar(k + 1).start = 0
               /\ Calendar(k).start + L * Size(k) = ScanDuration[Calendar(k).scan]
      <3>1. AtEnd(s.scan, t, n, k + 1)
        BY <1>1, <1>6, <1>7, <2>1, <2>3 DEF AtEnd
      <3> QED BY <1>1, <1>4, <1>5, <3>1 DEF t, n
    <2> QED BY <1>1, <2>2, <2>3, CalendarIs
  <1> QED BY <1>10, <1>11

\* A scan is left at its end, and the next begins with its first subint.
LEMMA NextScanPlace ==
  ASSUME RegularJob, NEW scan, Coming(scan), NEW t, NEW n, NEW k, AtEnd(scan, t, n, k)
  PROVE  LET m == NextConfigured(scan + 1) IN
         /\ ~InScan(scan, t)
         /\ m # NumScans => Placed(Subint(m, 0, n), k) /\ Coming(m)
  <1> DEFINE m == NextConfigured(scan + 1)
  <1>1. /\ n = Before(k) /\ t = ScanDuration[scan] /\ k \in Nat
        /\ Calendar(k).scan = m /\ Calendar(k).start = 0
    BY DEF AtEnd
  <1>2. t \in Nat /\ SubintLength \in Nat \ {0}
    BY <1>1, RegularTimes
  <1>3. ~InScan(scan, t)
    BY <1>1, <1>2, InScanIs
  <1> HIDE DEF m, Calendar
  <1>4. ASSUME m # NumScans PROVE Placed(Subint(m, 0, n), k) /\ Coming(m)
    <2>1. ~Over(k)
      BY <1>1, <1>4 DEF Over
    <2>2. n \in Span(k) /\ n \in Nat /\ Coming(m)
      BY <1>1, <2>1, SpanIs, CalendarIs
    <2>3. m \in Nat
      BY <2>2, RegularTimes
    <2>4. n - Before(k) = 0 /\ SubintLength * 0 = 0
      BY <1>1, <1>2, <2>2
    <2>5. LET u == Subint(m, 0, n) IN u \in Subints /\ u.scan = m /\ u.time = 0 /\ u.num = n
      BY <2>2, <2>3 DEF Subint, Subints
    <2>6. 0 = Calendar(k).start + SubintLength * (n - Before(k))
      BY <1>1, <2>4
    <2> QED BY <1>1, <2>1, <2>2, <2>5, <2>6 DEF Placed
  <1> QED BY <1>3, <1>4 DEF m

\* One subint for each integration is enough, if the ring is long enough.
LEMMA SkewSpreads == RegularJob /\ Skew + 5 <= VisBufferLength => Spread
  <1> SUFFICES ASSUME RegularJob, Skew + 5 <= VisBufferLength, NEW k \in Nat,
                      ~Over(k + (VisBufferLength - 5))
               PROVE  Skew <= Before(k + (VisBufferLength - 5)) - Before(k)
    BY DEF Spread
  <1> DEFINE d == VisBufferLength - 5
             l == k + d
  <1>1. d \in Nat /\ Skew \in Nat /\ Skew <= d
    BY FxManagerAssumption, VisBufferLengthAssumption
  <1> HIDE DEF d
  <1>2. l \in Nat /\ k <= l /\ l - k = d
    BY <1>1
  <1> HIDE DEF l
  <1>3. Before(k) \in Nat /\ Before(l) \in Nat /\ l - k <= Before(l) - Before(k)
    <2>1. ~Over(l)
      BY DEF l, d
    <2> QED BY <1>2, <2>1, BeforeGrows
  <1>4. Skew <= Before(l) - Before(k)
    BY <1>1, <1>2, <1>3
  <1> QED BY <1>4 DEF l, d

-----------------------------------------------------------------------------
(* What is sent and not put away *)

\* What the Cores have in hand, and what the manager has taken from them, is
\* of what was sent.
LEMMA HandsAre ==
  ASSUME FxInv, QueueInv, TakenInv
  PROVE  /\ sendcount \in Nat
         /\ inflight \in [Cores -> Seq(Subints)]
         /\ \A d \in Cores : /\ inflight[d] \in Seq(Subints) /\ Len(inflight[d]) \in Nat
                             /\ \A k \in 1 .. Len(inflight[d]) :
                                  /\ inflight[d][k] \in Subints /\ inflight[d][k].num \in Nat
                                  /\ inflight[d][k].num < sendcount
         /\ current.subint \in Subints /\ current.subint.num \in Nat
         /\ InHand \subseteq 0 .. sendcount - 1 /\ Taken \subseteq 0 .. sendcount - 1
         /\ InHand \cap Taken = {}
         /\ IsFiniteSet(InHand) /\ IsFiniteSet(Taken) /\ IsFiniteSet(0 .. sendcount - 1)
  <1>1. /\ inflight \in [Cores -> Seq(Subints)] /\ sendcount \in Nat
        /\ current \in [core : Cores, scan : Nat, time : Nat, subint : Subints, resend : BOOLEAN]
    BY DEF FxInv, CoreTypes, SendTypes
  <1>2. \A s \in Subints : s.num \in Nat
    BY DEF Subints
  <1>3. current.subint \in Subints /\ current.subint.num \in Nat
    BY <1>1, <1>2
  <1>4. ASSUME NEW d \in Cores
        PROVE  /\ inflight[d] \in Seq(Subints) /\ Len(inflight[d]) \in Nat
               /\ \A k \in 1 .. Len(inflight[d]) :
                    /\ inflight[d][k] \in Subints /\ inflight[d][k].num \in Nat
                    /\ inflight[d][k].num < sendcount
    <2>1. inflight[d] \in Seq(Subints) /\ Len(inflight[d]) \in Nat
      BY <1>1, LenProperties
    <2>2. \A k \in 1 .. Len(inflight[d]) : inflight[d][k] \in Subints
      BY <2>1, ElementOfSeq
    <2> QED BY <1>2, <2>1, <2>2 DEF QueueInv
  <1>5. InHand \subseteq 0 .. sendcount - 1
    <2> SUFFICES ASSUME NEW n \in InHand PROVE n \in 0 .. sendcount - 1
      OBVIOUS
    <2>1. PICK d \in Cores : \E k \in 1 .. Len(inflight[d]) : n = inflight[d][k].num
      BY DEF InHand
    <2>2. PICK k \in 1 .. Len(inflight[d]) : n = inflight[d][k].num
      BY <2>1
    <2> QED BY <1>1, <1>4, <2>2
  <1>6. Taken \subseteq 0 .. sendcount - 1 /\ InHand \cap Taken = {}
    BY <1>1, <1>3 DEF Taken, TakenInv
  <1>7. IsFiniteSet(0 .. sendcount - 1)
    BY <1>1, FS_Interval
  <1>8. IsFiniteSet(InHand) /\ IsFiniteSet(Taken)
    BY <1>5, <1>6, <1>7, FS_Subset
  <1> QED BY <1>1, <1>3, <1>4, <1>5, <1>6, <1>7, <1>8

\* The next subint is given to a Core.
LEMMA SendHands ==
  ASSUME FxInv, QueueInv, TakenInv, NEW c \in Cores, SendData(c, sendcount),
         sendcount' = sendcount + 1, NEW m \in Nat, Going(m)
  PROVE  QueueInv' /\ InHand' = InHand \cup {sendcount}
  <1> DEFINE q == inflight[c]
             s == Subint(sendscan, sendtime, sendcount)
             L == Len(q)
  <1>1. /\ inflight \in [Cores -> Seq(Subints)] /\ sendcount \in Nat
        /\ \A d \in Cores : /\ inflight[d] \in Seq(Subints) /\ Len(inflight[d]) \in Nat
                            /\ \A k \in 1 .. Len(inflight[d]) :
                                 /\ inflight[d][k] \in Subints /\ inflight[d][k].num \in Nat
                                 /\ inflight[d][k].num < sendcount
    BY HandsAre
  <1>2. s \in Subints /\ s.num = sendcount /\ Placed(s, m)
    <2>1. Placed(s, m)
      BY DEF Going
    <2>2. s.num = sendcount
      BY DEF Subint
    <2> QED BY <2>1, <2>2 DEF Placed
  <1>3. inflight' = [inflight EXCEPT ![c] = Append(q, s)]
    BY DEF SendData
  <1> HIDE DEF s
  <1>4. /\ L \in Nat /\ Len(Append(q, s)) = L + 1
        /\ Append(q, s)[L + 1] = s
        /\ \A k \in 1 .. L : Append(q, s)[k] = q[k]
    BY <1>1, <1>2, AppendProperties
  <1>5. /\ \A d \in Cores : d # c => inflight'[d] = inflight[d]
        /\ inflight'[c] = Append(q, s)
    BY <1>1, <1>3
  <1>6. ASSUME NEW d \in Cores, NEW k \in 1 .. Len(inflight'[d])
        PROVE  \/ k \in 1 .. Len(inflight[d]) /\ inflight'[d][k] = inflight[d][k]
               \/ d = c /\ k = L + 1 /\ inflight'[d][k] = s
    <2>1. CASE d # c
      BY <1>5, <1>6, <2>1
    <2>2. CASE d = c
      <3>1. k \in 1 .. L + 1 /\ inflight'[d][k] = Append(q, s)[k]
        BY <1>4, <1>5, <1>6, <2>2
      <3>2. k \in 1 .. L \/ k = L + 1
        BY <1>4, <3>1
      <3> QED BY <1>4, <2>2, <3>1, <3>2
    <2> QED BY <2>1, <2>2
  <1>7. ASSUME NEW d \in Cores, NEW k \in 1 .. Len(inflight[d])
        PROVE  k \in 1 .. Len(inflight'[d]) /\ inflight'[d][k] = inflight[d][k]
    <2>1. CASE d # c
      BY <1>5, <1>7, <2>1
    <2>2. CASE d = c
      BY <1>4, <1>5, <1>7, <2>2
    <2> QED BY <2>1, <2>2
  <1>8. L + 1 \in 1 .. Len(inflight'[c]) /\ inflight'[c][L + 1] = s
    BY <1>4, <1>5
  <1>9. InHand' = InHand \cup {sendcount}
    <2>1. ASSUME NEW n \in InHand' PROVE n \in InHand \cup {sendcount}
      <3>1. PICK d \in Cores : \E k \in 1 .. Len(inflight'[d]) : n = inflight'[d][k].num
        BY <2>1 DEF InHand
      <3>2. PICK k \in 1 .. Len(inflight'[d]) : n = inflight'[d][k].num
        BY <3>1
      <3>3. CASE k \in 1 .. Len(inflight[d]) /\ inflight'[d][k] = inflight[d][k]
        BY <3>2, <3>3 DEF InHand
      <3>4. CASE inflight'[d][k] = s
        BY <1>2, <3>2, <3>4
      <3> QED BY <1>6, <3>2, <3>3, <3>4
    <2>2. ASSUME NEW n \in InHand PROVE n \in InHand'
      <3>1. PICK d \in Cores : \E k \in 1 .. Len(inflight[d]) : n = inflight[d][k].num
        BY <2>2 DEF InHand
      <3>2. PICK k \in 1 .. Len(inflight[d]) : n = inflight[d][k].num
        BY <3>1
      <3>3. k \in 1 .. Len(inflight'[d]) /\ n = inflight'[d][k].num
        BY <1>7, <3>2
      <3> QED BY <3>3 DEF InHand
    <2>3. sendcount \in InHand'
      BY <1>2, <1>8 DEF InHand
    <2> QED BY <2>1, <2>2, <2>3
  <1>10. QueueInv'
    <2> SUFFICES ASSUME NEW d \in Cores, NEW k \in 1 .. Len(inflight'[d])
                 PROVE  /\ inflight'[d][k].num < sendcount'
                        /\ \E n \in Nat : Placed(inflight'[d][k], n)
                        /\ \A e \in Cores : \A l \in 1 .. Len(inflight'[e]) :
                             inflight'[d][k].num = inflight'[e][l].num => d = e /\ k = l
                        /\ \A l \in 1 .. k - 1 : inflight'[d][l].num < inflight'[d][k].num
      BY DEF QueueInv
    <2>1. inflight'[d][k].num < sendcount'
      <3>1. CASE k \in 1 .. Len(inflight[d]) /\ inflight'[d][k] = inflight[d][k]
        BY <1>1, <3>1
      <3>2. CASE inflight'[d][k] = s
        BY <1>1, <1>2, <3>2
      <3> QED BY <1>6, <3>1, <3>2
    <2>2. \E n \in Nat : Placed(inflight'[d][k], n)
      <3>1. CASE k \in 1 .. Len(inflight[d]) /\ inflight'[d][k] = inflight[d][k]
        BY <3>1 DEF QueueInv
      <3>2. CASE inflight'[d][k] = s
        BY <1>2, <3>2
      <3> QED BY <1>6, <3>1, <3>2
    <2>3. ASSUME NEW e \in Cores, NEW l \in 1 .. Len(inflight'[e]),
                 inflight'[d][k].num = inflight'[e][l].num
          PROVE  d = e /\ k = l
      <3>1. CASE /\ k \in 1 .. Len(inflight[d]) /\ inflight'[d][k] = inflight[d][k]
                 /\ l \in 1 .. Len(inflight[e]) /\ inflight'[e][l] = inflight[e][l]
        BY <2>3, <3>1 DEF QueueInv
      <3>2. CASE /\ k \in 1 .. Len(inflight[d]) /\ inflight'[d][k] = inflight[d][k]
                 /\ inflight'[e][l] = s
        <4>1. inflight[d][k].num < sendcount /\ inflight[d][k].num = sendcount
          BY <1>1, <1>2, <2>3, <3>2
        <4> QED BY <1>1, <4>1
      <3>3. CASE /\ inflight'[d][k] = s
                 /\ l \in 1 .. Len(inflight[e]) /\ inflight'[e][l] = inflight[e][l]
        <4>1. inflight[e][l].num < sendcount /\ inflight[e][l].num = sendcount
          BY <1>1, <1>2, <2>3, <3>3
        <4> QED BY <1>1, <4>1
      <3>4. CASE d = c /\ k = L + 1 /\ e = c /\ l = L + 1
        BY <3>4
      <3>5. \/ k \in 1 .. Len(inflight[d]) /\ inflight'[d][k] = inflight[d][k]
            \/ d = c /\ k = L + 1 /\ inflight'[d][k] = s
        BY <1>6
      <3>6. \/ l \in 1 .. Len(inflight[e]) /\ inflight'[e][l] = inflight[e][l]
            \/ e = c /\ l = L + 1 /\ inflight'[e][l] = s
        BY <1>6
      <3> QED BY <3>1, <3>2, <3>3, <3>4, <3>5, <3>6
    <2>4. ASSUME NEW l \in 1 .. k - 1
          PROVE  inflight'[d][l].num < inflight'[d][k].num
      <3>1. CASE k \in 1 .. Len(inflight[d]) /\ inflight'[d][k] = inflight[d][k]
        <4>1. l \in 1 .. Len(inflight[d])
          BY <1>1, <3>1
        <4>2. inflight'[d][l] = inflight[d][l]
          BY <1>7, <4>1
        <4> QED BY <3>1, <4>2 DEF QueueInv
      <3>2. CASE d = c /\ k = L + 1 /\ inflight'[d][k] = s
        <4>1. l \in 1 .. Len(inflight[d])
          BY <1>4, <3>2
        <4>2. inflight'[d][l] = inflight[d][l] /\ inflight[d][l].num < sendcount
          BY <1>1, <1>7, <4>1
        <4> QED BY <1>2, <3>2, <4>2
      <3> QED BY <1>6, <3>1, <3>2
    <2> QED BY <2>1, <2>2, <2>3, <2>4
  <1> QED BY <1>9, <1>10

\* The first result of a Core is taken.
LEMMA ReceiveHands ==
  ASSUME FxInv, QueueInv, TakenInv, NEW c \in Cores, Receive(c)
  PROVE  LET s == Head(inflight[c]) IN
         /\ QueueInv' /\ s \in Subints /\ s.num \in Nat /\ s.num < sendcount
         /\ s.num \in InHand /\ InHand' = InHand \ {s.num}
         /\ \E n \in Nat : Placed(s, n)
         /\ \A u \in InHand : s.num <= u + Skew
  <1> DEFINE q == inflight[c]
             s == Head(q)
             L == Len(q)
  <1>1. /\ inflight \in [Cores -> Seq(Subints)] /\ sendcount \in Nat
        /\ \A d \in Cores : /\ inflight[d] \in Seq(Subints) /\ Len(inflight[d]) \in Nat
                            /\ \A k \in 1 .. Len(inflight[d]) :
                                 /\ inflight[d][k] \in Subints /\ inflight[d][k].num \in Nat
                                 /\ inflight[d][k].num < sendcount
    BY HandsAre
  <1>2. /\ q \in Seq(Subints) /\ L \in Nat \ {0} /\ s \in Subints /\ s = q[1]
        /\ Tail(q) \in Seq(Subints) /\ Len(Tail(q)) = L - 1
        /\ \A k \in 1 .. L - 1 : Tail(q)[k] = q[k + 1]
    <2>1. q \in Seq(Subints) /\ q # <<>>
      BY <1>1 DEF Receive
    <2> HIDE DEF q
    <2> QED BY <2>1, LenProperties, EmptySeq, HeadTailProperties
  <1> HIDE DEF s
  <1>3. 1 \in 1 .. L /\ s.num \in Nat /\ s.num < sendcount
    BY <1>1, <1>2
  <1>4. /\ \A d \in Cores : d # c => inflight'[d] = inflight[d]
        /\ inflight'[c] = Tail(q)
        /\ sendcount' = sendcount
    BY <1>1 DEF Receive, sendvars
  <1> DEFINE from(d, k) == IF d = c THEN k + 1 ELSE k
  <1>5. ASSUME NEW d \in Cores, NEW k \in 1 .. Len(inflight'[d])
        PROVE  /\ from(d, k) \in 1 .. Len(inflight[d])
               /\ inflight'[d][k] = inflight[d][from(d, k)]
               /\ d = c => from(d, k) # 1
    <2>1. CASE d # c
      BY <1>4, <1>5, <2>1
    <2>2. CASE d = c
      <3>1. k \in 1 .. L - 1 /\ inflight'[d][k] = Tail(q)[k]
        BY <1>2, <1>4, <1>5, <2>2
      <3> QED BY <1>2, <2>2, <3>1
    <2> QED BY <2>1, <2>2
  <1>6. ASSUME NEW d \in Cores, NEW k \in 1 .. Len(inflight[d])
        PROVE  \/ d = c /\ k = 1
               \/ \E l \in 1 .. Len(inflight'[d]) : inflight'[d][l] = inflight[d][k]
    <2>1. CASE d # c
      BY <1>4, <1>6, <2>1
    <2>2. CASE d = c /\ k # 1
      <3>1. k - 1 \in 1 .. L - 1 /\ (k - 1) + 1 = k
        BY <1>2, <1>6, <2>2
      <3>2. k - 1 \in 1 .. Len(inflight'[d]) /\ inflight'[d][k - 1] = inflight[d][k]
        BY <1>2, <1>4, <2>2, <3>1
      <3> QED BY <3>2
    <2> QED BY <2>1, <2>2
  <1>7. QueueInv'
    <2> SUFFICES ASSUME NEW d \in Cores, NEW k \in 1 .. Len(inflight'[d])
                 PROVE  /\ inflight'[d][k].num < sendcount'
                        /\ \E n \in Nat : Placed(inflight'[d][k], n)
                        /\ \A e \in Cores : \A l \in 1 .. Len(inflight'[e]) :
                             inflight'[d][k].num = inflight'[e][l].num => d = e /\ k = l
                        /\ \A l \in 1 .. k - 1 : inflight'[d][l].num < inflight'[d][k].num
      BY DEF QueueInv
    <2>1. from(d, k) \in 1 .. Len(inflight[d]) /\ inflight'[d][k] = inflight[d][from(d, k)]
      BY <1>5
    <2>2. k \in Int /\ Len(inflight'[d]) \in Int
      BY <1>1, <1>2, <1>4
    <2>3. inflight'[d][k].num < sendcount' /\ \E n \in Nat : Placed(inflight'[d][k], n)
      BY <1>4, <2>1 DEF QueueInv
    <2>4. ASSUME NEW e \in Cores, NEW l \in 1 .. Len(inflight'[e]),
                 inflight'[d][k].num = inflight'[e][l].num
          PROVE  d = e /\ k = l
      <3>1. from(e, l) \in 1 .. Len(inflight[e]) /\ inflight'[e][l] = inflight[e][from(e, l)]
        BY <1>5
      <3>2. l \in Int
        OBVIOUS
      <3>3. d = e /\ from(d, k) = from(e, l)
        <4> HIDE DEF from
        <4>1. inflight[d][from(d, k)].num = inflight[e][from(e, l)].num
          BY <2>1, <2>4, <3>1
        <4> QED BY <2>1, <3>1, <4>1 DEF QueueInv
      <3> QED BY <2>2, <3>2, <3>3
    <2>5. ASSUME NEW l \in 1 .. k - 1
          PROVE  inflight'[d][l].num < inflight'[d][k].num
      <3>1. l \in 1 .. Len(inflight'[d]) /\ l < k /\ l \in Int
        BY <2>2
      <3>2. /\ inflight'[d][l] = inflight[d][from(d, l)]
            /\ from(d, l) \in 1 .. Len(inflight[d])
        BY <1>5, <3>1
      <3>3. from(d, l) \in 1 .. from(d, k) - 1
        <4>1. from(d, l) \in Int /\ from(d, k) \in Int /\ from(d, l) >= 1
          BY <2>1, <3>2
        <4> QED BY <2>2, <3>1, <4>1
      <3> QED BY <2>1, <3>2, <3>3 DEF QueueInv
    <2> QED BY <2>3, <2>4, <2>5
  <1>8. s.num \in InHand
    BY <1>2, <1>3 DEF InHand
  <1>9. InHand' = InHand \ {s.num}
    <2>1. ASSUME NEW n \in InHand' PROVE n \in InHand \ {s.num}
      <3>1. PICK d \in Cores : \E k \in 1 .. Len(inflight'[d]) : n = inflight'[d][k].num
        BY <2>1 DEF InHand
      <3>2. PICK k \in 1 .. Len(inflight'[d]) : n = inflight'[d][k].num
        BY <3>1
      <3>3. /\ from(d, k) \in 1 .. Len(inflight[d]) /\ n = inflight[d][from(d, k)].num
            /\ d = c => from(d, k) # 1
        BY <1>5, <3>2
      <3>4. n \in InHand
        BY <3>3 DEF InHand
      <3>5. n # s.num
        <4>1. ASSUME n = s.num PROVE FALSE
          <5>1. inflight[d][from(d, k)].num = inflight[c][1].num
            BY <1>2, <3>3, <4>1
          <5>2. d = c /\ from(d, k) = 1
            BY <1>3, <3>3, <5>1 DEF QueueInv
          <5> QED BY <3>3, <5>2
        <4> QED BY <4>1
      <3> QED BY <3>4, <3>5
    <2>2. ASSUME NEW n \in InHand, n # s.num PROVE n \in InHand'
      <3>1. PICK d \in Cores : \E k \in 1 .. Len(inflight[d]) : n = inflight[d][k].num
        BY <2>2 DEF InHand
      <3>2. PICK k \in 1 .. Len(inflight[d]) : n = inflight[d][k].num
        BY <3>1
      <3>3. ~(d = c /\ k = 1)
        BY <1>2, <2>2, <3>2
      <3>4. PICK l \in 1 .. Len(inflight'[d]) : inflight'[d][l] = inflight[d][k]
        BY <1>6, <3>3
      <3>5. l \in 1 .. Len(inflight'[d]) /\ n = inflight'[d][l].num
        BY <3>2, <3>4
      <3> QED BY <3>5 DEF InHand
    <2> QED BY <2>1, <2>2
  <1>10. \E n \in Nat : Placed(s, n)
    BY <1>2, <1>3 DEF QueueInv
  <1>11. ASSUME NEW u \in InHand PROVE s.num <= u + Skew
    <2>1. PICK d \in Cores : \E k \in 1 .. Len(inflight[d]) : u = inflight[d][k].num
      BY <1>11 DEF InHand
    <2>2. PICK k \in 1 .. Len(inflight[d]) : u = inflight[d][k].num
      BY <2>1
    <2>3. inflight[d] # <<>> /\ Head(inflight[d]) = inflight[d][1] /\ 1 \in 1 .. Len(inflight[d])
      <3>1. inflight[d] \in Seq(Subints) /\ Len(inflight[d]) # 0 /\ 1 \in 1 .. Len(inflight[d])
        BY <1>1, <2>2
      <3> DEFINE r == inflight[d]
      <3>2. r \in Seq(Subints) /\ Len(r) # 0
        BY <3>1
      <3> HIDE DEF r
      <3>3. r # <<>> /\ Head(r) = r[1]
        BY <3>2, EmptySeq, HeadTailProperties
      <3> QED BY <3>1, <3>3 DEF r
    <2>4. s.num - inflight[d][1].num <= Skew
      BY <2>3 DEF Receive, NotAhead, s
    <2>5. inflight[d][1].num <= u
      <3>1. CASE k = 1
        BY <1>1, <2>2, <3>1
      <3>2. CASE k # 1
        <4>1. 1 \in 1 .. k - 1
          BY <1>1, <2>2, <3>2
        <4>2. inflight[d][1].num < inflight[d][k].num
          BY <2>2, <4>1 DEF QueueInv
        <4> QED BY <1>1, <2>2, <2>3, <4>2
      <3> QED BY <3>1, <3>2
    <2>6. inflight[d][1].num \in Nat /\ u \in Nat /\ Skew \in Nat
      BY <1>1, <2>2, <2>3, FxManagerAssumption
    <2> QED BY <1>3, <2>4, <2>5, <2>6
  <1> QED BY <1>3, <1>2, <1>7, <1>8, <1>9, <1>10, <1>11 DEF s

\* The other steps.
LEMMA QuietHands ==
  ASSUME HandsInv, UNCHANGED <<inflight, sendcount, current, phase, sendscan, sendtime, inttime, left>>,
         Pending' <=> Pending, terminatenow => terminatenow', terminatenow \in BOOLEAN,
         Ending' => Ending \/ (phase = "drain" /\ left = 0)
  PROVE  HandsInv' /\ InHand' = InHand /\ Taken' = Taken /\ Answered' = Answered
  <1>1. InHand' = InHand /\ Taken' = Taken
    BY DEF InHand, Taken
  <1>2. Answered' = Answered
    BY <1>1 DEF Answered
  <1>3. QueueInv'
    BY DEF HandsInv, QueueInv
  <1>4. TakenInv'
    BY <1>1 DEF HandsInv, TakenInv
  <1>5. NextInv'
    BY DEF HandsInv, NextInv, Going, ScanEnds, AtEnd
  <1>6. SkewInv'
    BY <1>1, <1>2 DEF HandsInv, SkewInv
  <1>7. LeftInv'
    BY <1>1 DEF HandsInv, LeftInv, Ending
  <1> QED BY <1>1, <1>2, <1>3, <1>4, <1>5, <1>6, <1>7 DEF HandsInv

\* A scan goes on just if the next subint has its place in it.
LEMMA MoreIsGoing ==
  ASSUME RegularJob, FxInv, NextInv, phase = "scans", ~terminatenow
  PROVE  /\ MoreInScan => \E k \in Nat : Going(k)
         /\ ~MoreInScan => \E k \in Nat : ScanEnds(k)
  <1>1. PICK k \in Nat : Going(k) \/ ScanEnds(k)
    BY DEF NextInv
  <1>2. Coming(sendscan)
    BY DEF FxInv, SendTypes, NextInv, Coming
  <1>3. ASSUME Going(k) PROVE InScan(sendscan, sendtime)
    <2> DEFINE s == Subint(sendscan, sendtime, sendcount)
    <2>1. Placed(s, k) /\ s.scan = sendscan /\ s.time = sendtime
      BY <1>3 DEF Going, Subint
    <2> HIDE DEF s
    <2> QED BY <2>1, NextPlace
  <1>4. ASSUME ScanEnds(k) PROVE ~InScan(sendscan, sendtime)
    BY <1>2, <1>4, NextScanPlace DEF ScanEnds
  <1> QED BY <1>1, <1>3, <1>4 DEF MoreInScan

\* A subint was sent: the next one has its place, or the scan ends.
LEMMA SentNext ==
  ASSUME RegularJob, FxInv, NextInv, NEW c \in Cores, SendData(c, sendcount),
         sendcount' = sendcount + 1, UNCHANGED <<sendscan, inttime>>,
         ~Pending', NEW m \in Nat, Going(m)
  PROVE  NextInv'
  <1> DEFINE s == Subint(sendscan, sendtime, sendcount)
             t == s.time + SubintNS[ScanConfig[s.scan]]
  <1>1. Placed(s, m) /\ s.scan = sendscan /\ s.time = sendtime /\ s.num = sendcount
    BY DEF Going, Subint
  <1>2. sendtime' = t /\ sendscan' = s.scan /\ sendcount' = s.num + 1
    BY <1>1 DEF SendData
  <1> HIDE DEF s
  <1>3. \/ Placed(Subint(s.scan, t, s.num + 1), m)
        \/ Placed(Subint(s.scan, t, s.num + 1), m + 1)
        \/ AtEnd(s.scan, t, s.num + 1, m + 1)
    BY <1>1, NextPlace
  <1>4. Going(m)' \/ Going(m + 1)' \/ ScanEnds(m + 1)'
    BY <1>2, <1>3 DEF Going, ScanEnds
  <1>5. \E k \in Nat : Going(k)' \/ ScanEnds(k)'
    BY <1>4
  <1>6. sendscan \in Nat /\ inttime = IntLength /\ sendscan >= InitScan
    BY DEF NextInv, FxInv, SendTypes, Correlated, Scans
  <1> QED BY <1>5, <1>6 DEF NextInv

\* Nobody is at his end while there is a subint to send or a result to take.
LEMMA FillHands ==
  ASSUME RegularJob, FxInv, HandsInv, Fill
  PROVE  HandsInv' /\ Answered' = Answered /\ Taken' = {} /\ ~Pending
  <1> DEFINE c == sendcount % NumCores
  <1>1. /\ mpc = "ready" /\ mpc' = "ready" /\ MoreInScan /\ sendcount < Full
        /\ SendData(c, sendcount) /\ sendcount' = sendcount + 1
        /\ UNCHANGED <<sendscan, inttime, terminatenow, phase, left, current>>
    BY DEF Fill, ringvars, mvars
  <1>2. ~Pending /\ ~Pending'
    BY <1>1 DEF Pending
  <1>3. c \in Cores
    <2>1. sendcount \in Int /\ NumCores \in Nat \ {0}
      BY FxConstants DEF FxInv, SendTypes
    <2> QED BY <2>1, Division DEF Cores
  <1> HIDE DEF c
  <1>4. PICK m \in Nat : Going(m)
    BY <1>1, MoreIsGoing DEF HandsInv, MoreInScan
  <1>5. QueueInv' /\ InHand' = InHand \cup {sendcount}
    BY <1>1, <1>3, <1>4, SendHands DEF HandsInv
  <1>6. TakenInv' /\ Taken = {} /\ Taken' = {}
    BY <1>2 DEF TakenInv, Taken
  <1>7. NextInv'
    BY <1>1, <1>2, <1>3, <1>4, SentNext DEF HandsInv
  <1>8. /\ sendcount \in Nat /\ InHand \subseteq 0 .. sendcount - 1
        /\ IsFiniteSet(InHand)
    BY HandsAre DEF HandsInv
  <1>9. Answered' = Answered
    BY <1>1, <1>5, <1>6, <1>8 DEF Answered
  <1>10. SkewInv'
    <2> SUFFICES ASSUME NEW a \in Answered, NEW u \in InHand \cup {sendcount}
                 PROVE  a <= u + Skew
      BY <1>5, <1>6, <1>9 DEF SkewInv
    <2>1. a \in 0 .. sendcount - 1 /\ Skew \in Nat
      BY <1>8, FxManagerAssumption DEF Answered
    <2>2. CASE u \in InHand
      BY <2>2 DEF HandsInv, SkewInv
    <2> QED BY <1>8, <2>1, <2>2
  <1>11. LeftInv'
    <2>1. phase = "scans" /\ phase' = "scans"
      BY <1>1 DEF MoreInScan
    <2>2. Cardinality(InHand) = sendcount
      BY <1>1, <1>6, <2>1 DEF HandsInv, LeftInv
    <2>3. Cardinality(InHand') = sendcount + 1
      <3>1. sendcount \notin InHand
        BY <1>8
      <3> QED BY <1>5, <1>8, <2>2, <3>1, FS_AddElement
    <2>4. sendcount + 1 = IF sendcount + 1 < Full THEN sendcount + 1 ELSE Full
      BY <1>1, <1>8, FxConstants
    <2>5. InHand' \cup Taken' = InHand'
      BY <1>6
    <2> HIDE DEF Full
    <2>6. Full' = Full
      BY DEF Full
    <2> QED BY <1>1, <2>1, <2>3, <2>4, <2>5, <2>6 DEF LeftInv
  <1> QED BY <1>2, <1>5, <1>6, <1>7, <1>9, <1>10, <1>11 DEF HandsInv

\* The result of a subint is taken.
LEMMA TakeHands ==
  ASSUME RegularJob, FxInv, HandsInv, NEW c \in Cores, Receive(c)
  PROVE  /\ HandsInv' /\ Answered' = Answered /\ Taken = {} /\ ~Pending /\ Pending'
         /\ current'.subint.num \in InHand
  <1> DEFINE s == Head(inflight[c])
             more == MoreInScan /\ sendcount >= Full
  <1>1. /\ mpc = "ready" /\ Pending'
        /\ more \/ (phase = "drain" /\ left > 0)
        /\ left' = IF more THEN left ELSE left - 1
        /\ current'.subint = s /\ current'.resend = more
        /\ UNCHANGED <<phase, sendscan, sendtime, inttime, sendcount, terminatenow>>
        /\ mpc' \in {"locate", "advance"}
    BY DEF Receive, BeginLocate, AbandonOldest, Pending, sendvars
  <1>2. ~Pending
    BY <1>1 DEF Pending
  <1>3. /\ QueueInv' /\ s.num \in Nat /\ s.num < sendcount
        /\ s.num \in InHand /\ InHand' = InHand \ {s.num}
        /\ \E n \in Nat : Placed(s, n)
        /\ \A u \in InHand : s.num <= u + Skew
    BY ReceiveHands DEF HandsInv
  <1>4. more => phase = "scans" /\ ~terminatenow /\ MoreInScan /\ sendcount >= Full
    BY DEF MoreInScan
  <1>5. more \in BOOLEAN
    BY DEF MoreInScan
  <1> HIDE DEF s, more
  <1>6. Taken = {} /\ Taken' = {s.num}
    BY <1>1, <1>2 DEF Taken
  <1>7. TakenInv'
    BY <1>1, <1>3 DEF TakenInv
  <1>8. NextInv'
    <2>1. \A k : Going(k)' <=> Going(k)
      BY <1>1 DEF Going
    <2>2. \A k : ScanEnds(k)' <=> ScanEnds(k)
      BY <1>1 DEF ScanEnds
    <2>3. more => \E k \in Nat : Going(k)
      BY <1>4, MoreIsGoing DEF HandsInv
    <2> QED BY <1>1, <2>1, <2>2, <2>3 DEF HandsInv, NextInv
  <1>9. /\ sendcount \in Nat /\ InHand \subseteq 0 .. sendcount - 1
        /\ IsFiniteSet(InHand)
    BY HandsAre DEF HandsInv
  <1>10. Answered' = Answered
    BY <1>1, <1>3, <1>6, <1>9 DEF Answered
  <1>11. SkewInv'
    <2> SUFFICES ASSUME NEW a \in Answered \cup {s.num}, NEW u \in InHand
                 PROVE  a <= u + Skew
      BY <1>3, <1>6, <1>10 DEF SkewInv
    <2>1. CASE a \in Answered
      BY <2>1 DEF HandsInv, SkewInv
    <2> QED BY <1>3, <2>1
  <1>12. LeftInv'
    <2>1. CASE more
      <3>1. InHand' \cup Taken' = InHand \cup Taken
        BY <1>3, <1>6
      <3>2. Full' = Full
        BY DEF Full
      <3>3. phase = "scans" /\ phase' = "scans"
        BY <1>1, <1>4, <2>1
      <3> HIDE DEF Full
      <3>4. Cardinality(InHand' \cup Taken') = IF sendcount < Full THEN sendcount ELSE Full
        BY <3>1, <3>3 DEF HandsInv, LeftInv
      <3> QED BY <1>1, <3>2, <3>3, <3>4 DEF LeftInv
    <2>2. CASE ~more
      <3>1. phase = "drain" /\ phase' = "drain" /\ left > 0 /\ left' = left - 1
        BY <1>1, <2>2
      <3>2. Cardinality(InHand) = left
        BY <3>1 DEF HandsInv, LeftInv
      <3>3. Cardinality(InHand') = left - 1
        BY <1>3, <1>9, <3>2, FS_RemoveElement
      <3> QED BY <1>1, <3>1, <3>3 DEF LeftInv
    <2> QED BY <2>1, <2>2
  <1>13. current'.subint.num \in InHand
    BY <1>1, <1>3
  <1> QED BY <1>1, <1>2, <1>3, <1>6, <1>7, <1>8, <1>10, <1>11, <1>12, <1>13 DEF HandsInv

\* The result was dealt with.
LEMMA GiveHands ==
  ASSUME RegularJob, FxInv, HandsInv, SendMore, Pending, ~Pending', ~Ending',
         UNCHANGED <<phase, sendscan, inttime, terminatenow, left, current>>
  PROVE  /\ HandsInv' /\ Answered' = Answered \cup {current.subint.num} /\ Taken' = {}
         /\ current.subint.num \in 0 .. sendcount - 1 /\ current.subint.num \notin Answered
         /\ current.subint.num \notin InHand
  <1> DEFINE n == current.subint.num
             c == current.core
  <1>1. /\ sendcount \in Nat /\ InHand \subseteq 0 .. sendcount - 1
        /\ IsFiniteSet(InHand) /\ n \in Nat
    BY HandsAre DEF HandsInv
  <1>2. /\ Taken = {n} /\ n < sendcount /\ n \notin InHand /\ Taken' = {} /\ TakenInv'
    BY DEF Taken, HandsInv, TakenInv
  <1>3. n \in 0 .. sendcount - 1 /\ n \notin Answered
    BY <1>1, <1>2 DEF Answered
  <1>4. c \in Cores
    BY DEF FxInv, CoreTypes
  <1>5. CASE current.resend
    <2>1. SendData(c, sendcount) /\ sendcount' = sendcount + 1
      BY <1>5 DEF SendMore
    <2>2. PICK m \in Nat : Going(m)
      BY <1>5 DEF HandsInv, NextInv
    <2>3. phase = "scans" /\ sendcount >= Full
      BY <1>5 DEF FxInv, PendingInv
    <2>4. QueueInv' /\ InHand' = InHand \cup {sendcount}
      BY <1>4, <2>1, <2>2, SendHands DEF HandsInv
    <2>5. NextInv'
      BY <1>4, <2>1, <2>2, SentNext DEF HandsInv
    <2> HIDE DEF n, c
    <2>6. Answered' = Answered \cup {n}
      <3>1. Answered' = (0 .. sendcount) \ (InHand \cup {sendcount})
        BY <1>1, <1>2, <2>1, <2>4 DEF Answered
      <3>2. Answered = (0 .. sendcount - 1) \ (InHand \cup {n})
        BY <1>2 DEF Answered
      <3>3. (0 .. sendcount) \ (InHand \cup {sendcount}) = (0 .. sendcount - 1) \ InHand
        BY <1>1
      <3> QED BY <1>2, <1>3, <3>1, <3>2, <3>3
    <2>7. SkewInv'
      <3> SUFFICES ASSUME NEW a \in Answered \cup {n}, NEW u \in InHand \cup {sendcount}
                   PROVE  a <= u + Skew
        BY <1>2, <2>4, <2>6 DEF SkewInv
      <3>1. a \in 0 .. sendcount - 1 /\ Skew \in Nat
        BY <1>1, <1>3, FxManagerAssumption DEF Answered
      <3>2. CASE u \in InHand
        BY <1>2, <3>2 DEF HandsInv, SkewInv
      <3> QED BY <1>1, <3>1, <3>2
    <2>8. LeftInv'
      <3>1. Cardinality(InHand \cup {n}) = Full
        <4>1. Cardinality(InHand \cup {n}) = IF sendcount < Full THEN sendcount ELSE Full
          BY <1>2, <2>3 DEF HandsInv, LeftInv
        <4>2. Full \in Nat
          BY FxConstants
        <4> HIDE DEF Full
        <4> QED BY <1>1, <2>3, <4>1, <4>2
      <3>2. Cardinality(InHand \cup {sendcount}) = Full
        <4>1. Cardinality(InHand \cup {n}) = Cardinality(InHand) + 1
          BY <1>1, <1>2, FS_AddElement
        <4>2. sendcount \notin InHand
          BY <1>1
        <4>3. Cardinality(InHand \cup {sendcount}) = Cardinality(InHand) + 1
          BY <1>1, <4>2, FS_AddElement
        <4> QED BY <3>1, <4>1, <4>3
      <3>3. InHand' \cup Taken' = InHand \cup {sendcount} /\ Full' = Full
        BY <1>2, <2>4 DEF Full
      <3>4. Full \in Nat /\ ~(sendcount' < Full)
        BY <1>1, <2>1, <2>3, FxConstants
      <3> HIDE DEF Full
      <3>5. Cardinality(InHand' \cup Taken') = IF sendcount' < Full' THEN sendcount' ELSE Full'
        BY <3>2, <3>3, <3>4
      <3> QED BY <2>3, <3>5 DEF LeftInv, Ending
    <2> QED BY <1>2, <1>3, <2>4, <2>5, <2>6, <2>7, <2>8 DEF HandsInv, n
  <1>6. CASE ~current.resend
    <2>1. UNCHANGED <<inflight, sendcount, sendtime>>
      BY <1>6 DEF SendMore
    <2>2. phase # "scans"
      BY <1>6 DEF FxInv, PendingInv
    <2>3. InHand' = InHand
      BY <2>1 DEF InHand
    <2> HIDE DEF n, c
    <2>4. Answered' = Answered \cup {n}
      BY <1>2, <1>3, <2>1, <2>3 DEF Answered
    <2>5. QueueInv'
      BY <2>1 DEF HandsInv, QueueInv
    <2>6. NextInv'
      BY <2>1 DEF HandsInv, NextInv, Going, ScanEnds, AtEnd
    <2>7. SkewInv'
      BY <1>2, <2>3, <2>4 DEF HandsInv, SkewInv
    <2>8. LeftInv'
      BY <2>2, <2>3 DEF HandsInv, LeftInv, Ending
    <2> QED BY <1>2, <1>3, <2>4, <2>5, <2>6, <2>7, <2>8 DEF HandsInv, n
  <1>7. current.resend \in BOOLEAN
    BY DEF FxInv, CoreTypes
  <1> QED BY <1>5, <1>6, <1>7

\* A scan, or the job, is at its end.
LEMMA NextScanHands ==
  ASSUME RegularJob, FxInv, HandsInv, NextScan
  PROVE  HandsInv' /\ Answered' = Answered /\ InHand' = InHand /\ Taken' = Taken
  <1> DEFINE n == NextConfigured(sendscan + 1)
  <1>1. /\ mpc = "ready" /\ mpc' = "ready" /\ phase = "scans" /\ ~MoreInScan
        /\ UNCHANGED <<inflight, sendcount, current, terminatenow>>
    BY DEF NextScan, ringvars, mvars, corevars
  <1>2. ~Pending /\ ~Pending'
    BY <1>1 DEF Pending
  <1>3. InHand' = InHand /\ Taken = {} /\ Taken' = {}
    BY <1>1, <1>2 DEF InHand, Taken
  <1>4. Answered' = Answered
    BY <1>1, <1>3 DEF Answered
  <1>5. QueueInv' /\ TakenInv' /\ SkewInv'
    BY <1>1, <1>2, <1>3, <1>4 DEF HandsInv, QueueInv, TakenInv, SkewInv
  <1>6. \/ Terminate /\ UNCHANGED inttime
        \/ n # NumScans /\ inttime' = IntTime[ScanConfig[n]] /\ Terminate
        \/ n # NumScans /\ inttime' = IntTime[ScanConfig[n]] /\ sendscan' = n /\ sendtime' = 0
             /\ UNCHANGED <<phase, left>>
    BY DEF NextScan
  <1>7. Coming(sendscan) /\ sendscan \in Nat /\ inttime = IntLength /\ InitScan \in Nat
    BY RegularTimes DEF FxInv, SendTypes, Coming, HandsInv, NextInv, Correlated, Scans
  <1> HIDE DEF n
  <1>8. n # NumScans => Coming(n) /\ IntTime[ScanConfig[n]] = IntLength /\ n >= InitScan
    <2>1. ASSUME n # NumScans PROVE Coming(n)
      <3>1. Correlated(sendscan) /\ sendscan >= InitScan
        BY <1>7 DEF Coming
      <3>2. n \in Nat /\ sendscan < n /\ Correlated(n)
        BY <2>1, <3>1, NextScanIs DEF n
      <3> QED BY <1>7, <3>1, <3>2 DEF Coming
    <2> QED BY <2>1, RegularTimes DEF Coming
  <1>9. NextInv'
    <2>1. CASE Terminate
      <3>1. UNCHANGED <<sendscan, sendtime, sendcount, inttime>>
        BY <1>1, <1>6, <1>7, <1>8, <2>1 DEF Terminate
      <3> QED BY <1>1, <1>2, <3>1 DEF HandsInv, NextInv, Going, ScanEnds
    <2>2. CASE n # NumScans /\ inttime' = IntTime[ScanConfig[n]] /\ sendscan' = n /\ sendtime' = 0
      <3>1. ASSUME ~terminatenow PROVE \E k \in Nat : Going(k)'
        <4>1. PICK k \in Nat : ScanEnds(k)
          BY <1>1, <3>1, MoreIsGoing DEF HandsInv
        <4>2. Placed(Subint(n, 0, sendcount), k)
          BY <1>7, <2>2, <4>1, NextScanPlace DEF ScanEnds, n
        <4> QED BY <1>1, <2>2, <4>2 DEF Going
      <3> QED BY <1>1, <1>2, <1>8, <2>2, <3>1 DEF NextInv
    <2> QED BY <1>6, <2>1, <2>2
  <1>10. LeftInv'
    <2>1. Cardinality(InHand) = IF sendcount < Full THEN sendcount ELSE Full
      <3>1. InHand \cup Taken = InHand
        BY <1>3
      <3> QED BY <1>1, <3>1 DEF HandsInv, LeftInv
    <2>2. Full' = Full
      BY DEF Full
    <2> HIDE DEF Full
    <2>3. InHand' \cup Taken' = InHand
      BY <1>3
    <2>4. CASE Terminate
      BY <1>1, <1>3, <2>1, <2>4 DEF Terminate, LeftInv
    <2>5. CASE UNCHANGED <<phase, left>>
      BY <1>1, <1>3, <2>1, <2>2, <2>3, <2>5 DEF LeftInv
    <2> QED BY <1>6, <2>4, <2>5
  <1> QED BY <1>3, <1>4, <1>5, <1>9, <1>10 DEF HandsInv

-----------------------------------------------------------------------------
(* The numbers of the buffers *)

\* Distances on the ring add up.
LEMMA AheadSum ==
  ASSUME NEW i \in Vis, NEW j \in Vis, NEW k \in Vis
  PROVE  /\ Ahead(i, j) \in Nat /\ Ahead(i, j) <= VisBufferLength - 1
         /\ Ahead(i, j) <= Ahead(i, k) => Ahead(i, k) = Ahead(i, j) + Ahead(j, k)
         /\ Ahead(i, j) + Ahead(j, k) < VisBufferLength => Ahead(i, k) = Ahead(i, j) + Ahead(j, k)
         /\ Ahead(i, j) = 0 <=> i = j
         /\ Ahead(i, j) = Ahead(i, k) => j = k
         /\ Ahead(i, k) = Ahead(j, k) => i = j
  <1>1. /\ Ahead(i, j) = IF i <= j THEN j - i ELSE j - i + VisBufferLength
        /\ Ahead(j, k) = IF j <= k THEN k - j ELSE k - j + VisBufferLength
        /\ Ahead(i, k) = IF i <= k THEN k - i ELSE k - i + VisBufferLength
        /\ VisBufferLength \in Nat /\ i \in Nat /\ j \in Nat /\ k \in Nat
        /\ i < VisBufferLength /\ j < VisBufferLength /\ k < VisBufferLength
    BY RingArithmetic
  <1> HIDE DEF Ahead
  <1> QED BY <1>1

\* The numbers of the integrations in the window, of which the oldest is
\* locked but while the main thread looks for the next one that is.
LEMMA WindowNumbers ==
  ASSUME Inv, keepwriting, NEW b \in Nat
  PROVE  /\ Newest(b) \in Nat /\ Oldest(b) \in Int /\ WindowSize \in Nat
         /\ Newest(b) = Oldest(b) + WindowSize
         /\ newestlockedvis \in Vis /\ oldestlockedvis \in Vis /\ writesegment \in Vis
         /\ InWindow(newestlockedvis) /\ islocked[newestlockedvis]
         /\ \A i \in Vis : islocked[i] =>
              /\ InWindow(i) /\ Number(b, i) = Newest(b) - Ahead(i, newestlockedvis)
              /\ Number(b, i) <= Newest(b)
         /\ mpc # "advance" =>
              /\ Oldest(b) = Number(b, oldestlockedvis) /\ Oldest(b) \in Nat
              /\ islocked[oldestlockedvis] /\ InWindow(oldestlockedvis)
              /\ \A i \in Vis : InWindow(i) =>
                   /\ Number(b, i) = Newest(b) - Ahead(i, newestlockedvis)
                   /\ Number(b, i) = Oldest(b) + Ahead(oldestlockedvis, i)
                   /\ Number(b, i) <= Newest(b)
         /\ mpc # "advance" /\ wpc \in {"write", "increment"} =>
              ~InWindow(writesegment) /\ b < Oldest(b)
         /\ wpc \in {"write", "increment"} => ~islocked[writesegment]
  <1> DEFINE e == newestlockedvis
             o == oldestlockedvis
             w == writesegment
             N(i) == b + Ahead(w, i)
  <1>1. /\ e \in Vis /\ o \in Vis /\ w \in Vis
        /\ LocksInv /\ OrderInv
    BY DEF Inv, RingTypeOK
  <1>2. /\ islocked[e] /\ (mpc # "advance" => islocked[o])
        /\ \A i \in Vis : islocked[i] => Ahead(o, i) <= Ahead(o, e) /\ Ahead(w, i) <= Ahead(w, e)
    BY <1>1 DEF OrderInv, InWindow, WindowSize
  <1>3. wpc \in {"write", "increment"} => ~islocked[w]
    <2>1. wpc \in {"write", "increment"} => Held = w
      BY DEF Held
    <2> QED BY <1>1, <2>1 DEF LocksInv
  <1>4. \A i, j \in Vis : Ahead(i, j) \in Nat
    BY AheadSum
  <1>5. \A i \in Vis : islocked[i] => N(i) = N(e) - Ahead(i, e) /\ N(i) <= N(e)
    <2> SUFFICES ASSUME NEW i \in Vis, islocked[i] PROVE N(i) = N(e) - Ahead(i, e) /\ N(i) <= N(e)
      OBVIOUS
    <2>1. Ahead(w, e) = Ahead(w, i) + Ahead(i, e)
      BY <1>1, <1>2, AheadSum
    <2>2. Ahead(w, e) \in Nat /\ Ahead(w, i) \in Nat /\ Ahead(i, e) \in Nat
      BY <1>1, <1>4
    <2> QED BY <2>1, <2>2
  <1>6. ASSUME mpc # "advance"
        PROVE  /\ N(o) = N(e) - Ahead(o, e) /\ N(o) \in Nat
               /\ \A i \in Vis : Ahead(o, i) <= Ahead(o, e) =>
                    /\ N(i) = N(e) - Ahead(i, e) /\ N(i) = N(o) + Ahead(o, i) /\ N(i) <= N(e)
    <2>1. N(o) = N(e) - Ahead(o, e) /\ N(o) \in Nat
      BY <1>1, <1>2, <1>4, <1>5, <1>6
    <2>2. ASSUME NEW i \in Vis, Ahead(o, i) <= Ahead(o, e)
          PROVE  N(i) = N(e) - Ahead(i, e) /\ N(i) = N(o) + Ahead(o, i) /\ N(i) <= N(e)
      <3>1. Ahead(o, e) = Ahead(o, i) + Ahead(i, e)
        BY <1>1, <2>2, AheadSum
      <3>2. /\ Ahead(w, e) \in Nat /\ Ahead(w, i) \in Nat /\ Ahead(i, e) \in Nat
            /\ Ahead(o, e) \in Nat /\ Ahead(o, i) \in Nat /\ Ahead(w, o) \in Nat
        BY <1>1, <1>4
      <3>3. Ahead(w, e) = Ahead(w, o) + Ahead(o, e) /\ Ahead(w, e) < VisBufferLength
        <4>1. Ahead(w, e) <= VisBufferLength - 1
          BY <1>1, AheadSum
        <4> QED BY <2>1, <3>2, <4>1, VisBufferLengthAssumption
      <3>4. Ahead(w, i) = Ahead(w, o) + Ahead(o, i)
        <4>1. Ahead(w, o) + Ahead(o, i) < VisBufferLength
          BY <3>1, <3>2, <3>3, VisBufferLengthAssumption
        <4> QED BY <1>1, <4>1, AheadSum
      <3> QED BY <3>1, <3>2, <3>3, <3>4
    <2> QED BY <2>1, <2>2
  <1>7. ASSUME mpc # "advance", wpc \in {"write", "increment"}
        PROVE  ~(Ahead(o, w) <= Ahead(o, e)) /\ b < N(o)
    <2>1. o # w
      BY <1>2, <1>3, <1>7
    <2>2. Ahead(w, o) # 0 /\ Ahead(w, o) \in Nat
      BY <1>1, <2>1, AheadSum
    <2>3. ASSUME Ahead(o, w) <= Ahead(o, e) PROVE FALSE
      <3>1. N(w) = N(o) + Ahead(o, w)
        BY <1>1, <1>6, <1>7, <2>3
      <3>2. Ahead(w, w) = 0 /\ Ahead(o, w) \in Nat
        BY <1>1, AheadSum
      <3> QED BY <2>2, <3>1, <3>2
    <2> QED BY <2>2, <2>3
  <1>8. Ahead(o, e) \in Nat /\ N(e) \in Nat
    BY <1>1, <1>4
  <1>9. Newest(b) = N(e) /\ Oldest(b) = N(e) - Ahead(o, e) /\ WindowSize = Ahead(o, e)
    BY DEF Newest, Oldest, Number, WindowSize
  <1>10. \A i : Number(b, i) = N(i) /\ (InWindow(i) <=> Ahead(o, i) <= Ahead(o, e))
    BY DEF Number, InWindow, WindowSize
  <1>11. Ahead(o, o) = 0
    BY <1>1, AheadSum
  <1> HIDE DEF N
  <1> QED BY <1>1, <1>2, <1>3, <1>5, <1>6, <1>7, <1>8, <1>9, <1>10, <1>11

\* Different buffers are for different integrations.
LEMMA NumbersApart ==
  ASSUME RingTypeOK, NEW b \in Nat, NEW i \in Vis, NEW j \in Vis
  PROVE  /\ Number(b, i) \in Nat /\ b <= Number(b, i) /\ Number(b, i) <= b + VisBufferLength - 1
         /\ Number(b, i) = Number(b, j) => i = j
         /\ Number(b, i) = b <=> i = writesegment
  <1>1. writesegment \in Vis /\ VisBufferLength \in Nat
    BY VisBufferLengthAssumption DEF RingTypeOK
  <1> DEFINE x == Ahead(writesegment, i)
             y == Ahead(writesegment, j)
  <1>2. /\ x \in Nat /\ x <= VisBufferLength - 1 /\ y \in Nat
        /\ (x = y => i = j) /\ (x = 0 <=> writesegment = i)
    BY <1>1, AheadSum
  <1> HIDE DEF x, y
  <1>3. Number(b, i) = b + x /\ Number(b, j) = b + y
    BY DEF Number, x, y
  <1> QED BY <1>1, <1>2, <1>3

\* The buffers of the window by their place in it.
LEMMA InWindowIs ==
  ASSUME Inv, keepwriting, NEW b \in Nat, mpc # "advance", NEW k \in 0 .. WindowSize
  PROVE  /\ InWindowAt(k) \in Vis /\ InWindow(InWindowAt(k))
         /\ Number(b, InWindowAt(k)) = Oldest(b) + k
  <1> DEFINE o == oldestlockedvis
             i == InWindowAt(k)
  <1>1. /\ o \in Vis /\ WindowSize \in Nat /\ WindowSize <= VisBufferLength - 2 /\ k \in Nat
    BY WindowNumbers DEF Inv, EndInv
  <1>2. i = IF o + k < VisBufferLength THEN o + k ELSE o + k - VisBufferLength
    <2> DEFINE x == o + k
    <2>1. VisBufferLength \in Nat \ {0} /\ x \in 0 .. 2 * VisBufferLength - 1
      BY <1>1, VisBufferLengthAssumption DEF Vis
    <2>2. i = x % VisBufferLength
      BY DEF InWindowAt
    <2> HIDE DEF x
    <2>3. i = IF x < VisBufferLength THEN x ELSE x - VisBufferLength
      BY <2>1, <2>2, ModOnce
    <2>4. x = o + k
      BY DEF x
    <2>5. o \in Int
      BY <1>1 DEF Vis
    <2> QED BY <1>1, <2>3, <2>4, <2>5, VisBufferLengthAssumption
  <1>3. i \in Vis /\ o \in Nat /\ i \in Nat /\ i < VisBufferLength /\ o < VisBufferLength
    BY <1>1, <1>2, VisBufferLengthAssumption DEF Vis
  <1>4. Ahead(o, i) = IF o <= i THEN i - o ELSE i - o + VisBufferLength
    BY <1>1, <1>3, RingArithmetic
  <1> HIDE DEF i
  <1>5. Ahead(o, i) = k
    BY <1>1, <1>2, <1>3, <1>4, VisBufferLengthAssumption
  <1>6. InWindow(i)
    BY <1>5 DEF InWindow
  <1>7. Number(b, i) = Oldest(b) + Ahead(o, i)
    BY <1>3, <1>6, WindowNumbers
  <1> QED BY <1>3, <1>5, <1>6, <1>7 DEF i

\* Some integrations later.
LEMMA CalendarLater ==
  ASSUME NEW k \in Nat, NEW n \in Nat
  PROVE  Calendar(k + n) = UpdateTimes(Calendar(k), n)
  <1> DEFINE v == Calendar(k)
             T == {m \in Nat : Calendar(k + m) = UpdateTimes(v, m)}
  <1>1. 0 \in T
    <2>1. UpdateTimes(v, 0) = v
      BY UpdateTimesIs
    <2>2. k + 0 = k
      OBVIOUS
    <2> QED BY <2>1, <2>2
  <1>2. ASSUME NEW m \in T PROVE m + 1 \in T
    <2>1. m \in Nat /\ k + m \in Nat /\ k + (m + 1) = (k + m) + 1 /\ m + 1 \in Nat
      OBVIOUS
    <2>2. Calendar((k + m) + 1) = UpdateTime(Calendar(k + m))
      BY <2>1, CalendarNext
    <2>3. UpdateTimes(v, m + 1) = UpdateTime(UpdateTimes(v, m))
      BY <2>1, UpdateTimesIs
    <2> HIDE DEF Calendar, v
    <2>4. Calendar(k + m) = UpdateTimes(v, m)
      BY <1>2
    <2> QED BY <2>1, <2>2, <2>3, <2>4
  <1>3. T \in SUBSET Nat
    OBVIOUS
  <1> HIDE DEF T
  <1>4. n \in T
    BY <1>1, <1>2, <1>3, SetInduction
  <1> QED BY <1>4 DEF T

\* After the last scan there is nothing to come.
LEMMA BeforeOver ==
  ASSUME RegularJob, NEW k \in Nat, Over(k), NEW l \in Nat
  PROVE  Before(l) <= Before(k) /\ Before(k) \in Nat /\ Before(l) \in Nat
  <1> DEFINE P(d) == Over(k + d) /\ Before(k + d) = Before(k)
             T == {d \in Nat : P(d)}
  <1>1. \A n \in Nat : /\ Before(n) \in Nat /\ Before(n + 1) = Before(n) + Size(n)
                       /\ Over(n) => Over(n + 1) /\ Size(n) = 0
    BY BeforeIs, CalendarIs
  <1> HIDE DEF Before, Over, Size
  <1>2. 0 \in T
    <2>1. k + 0 = k
      OBVIOUS
    <2> QED BY <2>1
  <1>3. ASSUME NEW d \in T PROVE d + 1 \in T
    <2>1. d \in Nat /\ k + d \in Nat /\ k + (d + 1) = (k + d) + 1 /\ d + 1 \in Nat
      OBVIOUS
    <2>2. P(d)
      BY <1>3
    <2>3. Over((k + d) + 1) /\ Before((k + d) + 1) = Before(k)
      BY <1>1, <2>1, <2>2
    <2>4. P(d + 1)
      BY <2>1, <2>3
    <2> HIDE DEF P
    <2> QED BY <2>1, <2>4
  <1>4. T \in SUBSET Nat
    OBVIOUS
  <1>5. \A d \in Nat : P(d)
    <2> HIDE DEF P
    <2>1. T = Nat
      <3> HIDE DEF T
      <3> QED BY <1>2, <1>3, <1>4, SetInduction
    <2> QED BY <2>1
  <1>6. CASE l <= k
    BY <1>1, <1>6, BeforeGrows
  <1>7. CASE k < l
    <2>1. l - k \in Nat /\ k + (l - k) = l
      BY <1>7
    <2>2. Before(k + (l - k)) = Before(k)
      BY <1>5, <2>1
    <2> QED BY <1>1, <2>1, <2>2
  <1> QED BY <1>6, <1>7

\* The results of an integration are all it expects just if there are that many.
LEMMA Gathered ==
  ASSUME RegularJob, NEW k \in Nat, NEW R, IsFiniteSet(R), \A s \in R : Placed(s, k)
  PROVE  /\ Size(k) \in Nat /\ Cardinality(R) \in Nat
         /\ Cardinality(R) >= Size(k) <=> Span(k) \subseteq {s.num : s \in R}
  <1> DEFINE f == [s \in R |-> s.num]
  <1>1. /\ IsFiniteSet(Span(k)) /\ Cardinality(Span(k)) = Size(k) /\ Size(k) \in Nat
    BY SpanIs
  <1>2. \A s \in R : /\ s \in Subints /\ s.num \in Span(k) /\ s.scan = Calendar(k).scan
                     /\ s.time = Calendar(k).start + SubintLength * (s.num - Before(k))
    BY DEF Placed
  <1>3. \A s, t \in R : s.num = t.num => s = t
    <2> SUFFICES ASSUME NEW s \in R, NEW t \in R, s.num = t.num PROVE s = t
      OBVIOUS
    <2> DEFINE a == Calendar(k).scan
               x == Calendar(k).start + SubintLength * (s.num - Before(k))
    <2>1. s.scan = a /\ t.scan = a /\ s.time = x /\ t.time = x /\ s \in Subints /\ t \in Subints
      BY <1>2
    <2> HIDE DEF a, x
    <2> QED BY <2>1 DEF Subints
  <1>4. f \in Injection(R, Span(k))
    <2> HIDE DEF Span
    <2> QED BY <1>2, <1>3 DEF Injection, IsInjective
  <1>5. f \in Surjection(R, Span(k)) <=> Span(k) \subseteq {s.num : s \in R}
    <2>1. f \in [R -> Span(k)]
      BY <1>2
    <2> HIDE DEF Span
    <2>2. f \in Surjection(R, Span(k)) <=> \A n \in Span(k) : \E s \in R : f[s] = n
      BY <2>1 DEF Surjection
    <2> QED BY <2>2
  <1> HIDE DEF f, Span, Size
  <1>6. /\ Cardinality(R) <= Cardinality(Span(k))
        /\ Cardinality(R) = Cardinality(Span(k)) <=> f \in Surjection(R, Span(k))
    BY <1>1, <1>4, FS_Injection
  <1>7. Cardinality(R) \in Nat
    BY FS_CardinalityType
  <1> QED BY <1>1, <1>5, <1>6, <1>7

\* The answers do not spread over more integrations than the ring has room for.
LEMMA RoomIs ==
  ASSUME Fits, FxInv, HandsInv, NEW o \in Nat, NEW e \in Nat, NEW x \in Nat,
         \A n \in Answered : n < Before(x),
         Over(o) \/ \E n \in Span(o) : n \notin Answered,
         e <= 1 \/ \E n \in Answered \cup Taken : n >= Before(e - 1)
  PROVE  e - o <= VisBufferLength - 4
  <1> DEFINE V == VisBufferLength
  <1>0. RegularJob /\ Spread
    BY DEF Fits
  <1>1. V \in Nat /\ V >= 4 /\ Skew \in Nat
    BY VisBufferLengthAssumption, FxManagerAssumption
  <1>2. V >= 5
    <2> SUFFICES ASSUME V = 4 PROVE FALSE
      BY <1>1
    <2>1. ~Over(0)
      <3>1. Calendar(0).scan = InitScan /\ InitScan < NumScans /\ InitScan \in Nat
        BY <1>0, CalendarFirst, RegularTimes
      <3> QED BY <3>1, RegularTimes, <1>0 DEF Over
    <2>2. Before(0) = 0 /\ Before(0 + 1) \in Nat /\ Before(0) \in Nat /\ Before(0) \in Span(0)
          /\ Span(0) = Before(0) .. Before(0 + 1) - 1
      BY <1>0, <2>1, BeforeIs, SpanIs
    <2>3. Skew <= Before(0) - Before(1)
      <3>1. 1 + (V - 5) = 0
        OBVIOUS
      <3> HIDE DEF Before, Over
      <3> QED BY <1>0, <2>1, <3>1 DEF Spread
    <2>4. 0 + 1 = 1
      OBVIOUS
    <2> HIDE DEF Before, Span
    <2> QED BY <1>1, <2>2, <2>3, <2>4
  <1> HIDE DEF V
  <1> SUFFICES ASSUME ~(e - o <= V - 4) PROVE FALSE
    BY DEF V
  <1>3. e - o >= V - 3 /\ e >= 2 /\ e - 1 \in Nat /\ o + 1 \in Nat /\ o + 1 <= e - 1 /\ o <= e - 1
    BY <1>1, <1>2
  <1>4. PICK a \in Answered \cup Taken : a >= Before(e - 1)
    BY <1>3
  <1>5. /\ sendcount \in Nat /\ Answered \cup Taken \subseteq 0 .. sendcount - 1
    BY HandsAre DEF HandsInv, Answered
  <1>6. \E y \in Nat : a < Before(y)
    <2>1. CASE a \in Answered
      BY <2>1
    <2>2. CASE a \in Taken
      <3>1. PICK m \in Nat : Placed(current.subint, m)
        BY <2>2 DEF Taken, HandsInv, TakenInv
      <3>2. a \in Span(m)
        BY <2>2, <3>1 DEF Taken, Placed
      <3>3. a < Before(m + 1) /\ m + 1 \in Nat
        <4>1. Span(m) = Before(m) .. Before(m + 1) - 1 /\ Before(m + 1) \in Nat /\ Before(m) \in Nat
          BY <1>0, SpanIs
        <4> HIDE DEF Before, Span
        <4> QED BY <3>2, <4>1
      <3> QED BY <3>3
    <2> QED BY <2>1, <2>2
  <1>7. ~Over(e - 1)
    <2> SUFFICES ASSUME Over(e - 1) PROVE FALSE
      OBVIOUS
    <2>1. PICK y \in Nat : a < Before(y)
      BY <1>6
    <2>2. Before(y) <= Before(e - 1) /\ Before(e - 1) \in Nat /\ Before(y) \in Nat
      BY <1>0, <1>3, BeforeOver
    <2> HIDE DEF Before, Over
    <2> QED BY <1>4, <1>5, <2>1, <2>2
  <1>8. ~Over(o)
    BY <1>0, <1>3, <1>7, BeforeGrows
  <1>9. PICK u \in Span(o) : u \notin Answered
    BY <1>8
  <1>10. u \in Nat /\ u < Before(o + 1) /\ Before(o + 1) \in Nat
    <2>1. Span(o) = Before(o) .. Before(o + 1) - 1 /\ Before(o) \in Nat /\ Before(o + 1) \in Nat
      BY <1>0, SpanIs
    <2> HIDE DEF Before, Span
    <2> QED BY <2>1
  <1>11. Before(o + 1) <= Before(e - 1) /\ Before(e - 1) \in Nat
    BY <1>0, <1>3, BeforeGrows
  <1> DEFINE p == (o + 1) + (V - 5)
  <1>12. p \in Nat /\ p <= e - 1 /\ o + 1 <= p
    BY <1>1, <1>2, <1>3
  <1>13. ~Over(p) /\ Before(p) \in Nat /\ Before(p) <= Before(e - 1)
    BY <1>0, <1>3, <1>7, <1>12, BeforeGrows
  <1>14. Skew <= Before(p) - Before(o + 1)
    BY <1>0, <1>3, <1>13 DEF Spread, V
  <1> HIDE DEF p, Before, Over, Span
  <1>15. a \in 0 .. sendcount - 1
    BY <1>5
  <1>16. CASE u \in 0 .. sendcount - 1
    <2>1. u \in InHand \cup Taken
      BY <1>9, <1>16 DEF Answered
    <2>2. a <= u + Skew
      BY <2>1 DEF HandsInv, SkewInv
    <2> QED BY <1>1, <1>4, <1>5, <1>10, <1>11, <1>13, <1>14, <1>15, <2>2
  <1>17. CASE u \notin 0 .. sendcount - 1
    <2>1. u >= sendcount
      BY <1>5, <1>10, <1>17
    <2> QED BY <1>4, <1>5, <1>10, <1>11, <1>15, <2>1
  <1> QED BY <1>16, <1>17

-----------------------------------------------------------------------------
(* Steps that add no result *)

\* What the buffers have is only looked at.
LEMMA KeepsResults ==
  ASSUME NEW b, UNCHANGED <<visbuffer, writesegment>>, Answered' = Answered,
         CalendarInv(b), ResultsInv(b), ReachInv(b)
  PROVE  CalendarInv(b)' /\ ResultsInv(b)' /\ ReachInv(b)' /\ \A i : Number(b, i)' = Number(b, i)
  <1>1. \A i : Number(b, i)' = Number(b, i)
    BY DEF Number
  <1>2. CalendarInv(b)'
    BY <1>1 DEF CalendarInv
  <1>3. ResultsInv(b)'
    BY <1>1 DEF ResultsInv
  <1>4. ReachInv(b)'
    BY DEF ReachInv
  <1> QED BY <1>1, <1>2, <1>3, <1>4

\* Nothing is written.
LEMMA KeepsWritten ==
  ASSUME NEW b, UNCHANGED <<written, flushed>>, wpc' = "increment" <=> wpc = "increment",
         Answered' = Answered, WrittenInv(b)
  PROVE  WrittenInv(b)'
  <1>1. WrittenNums' = WrittenNums
    BY DEF WrittenNums, WrittenResults
  <1>2. Outgoing(b)' = Outgoing(b)
    BY DEF Outgoing
  <1> QED BY <1>1, <1>2 DEF WrittenInv

\* The window stays as it is.
LEMMA KeepsWindow ==
  ASSUME NEW b, UNCHANGED <<window, writesegment>>, Answered' = Answered, WindowInv(b),
         mpc # "lockahead" \/ UNCHANGED <<mpc, visindex>>
  PROVE  WindowInv(b)' /\ Newest(b)' = Newest(b) /\ Oldest(b)' = Oldest(b)
         /\ \A i : Number(b, i)' = Number(b, i)
  <1>1. /\ Newest(b)' = Newest(b) /\ Oldest(b)' = Oldest(b) /\ \A i : Number(b, i)' = Number(b, i)
        /\ \A i : InWindow(i)' <=> InWindow(i)
        /\ UNCHANGED <<islocked, newestlockedvis>>
    BY DEF Newest, Oldest, Number, WindowSize, InWindow, window
  <1>2. \A i : islocked'[i] /\ ~(mpc' = "lockahead" /\ i = visindex') =>
               islocked[i] /\ ~(mpc = "lockahead" /\ i = visindex)
    BY <1>1
  <1> QED BY <1>1, <1>2 DEF WindowInv

\* A step that does not touch the buffers.
LEMMA QuietData ==
  ASSUME NEW b, DataInv(b), UNCHANGED <<window, visbuffer, writesegment, written, flushed>>,
         wpc' = "increment" <=> wpc = "increment", keepwriting' => keepwriting,
         Answered' = Answered, Taken \subseteq Taken',
         keepwriting' => UNCHANGED <<mpc, visindex, after>> /\ (UNCHANGED current \/ mpc = "ready")
  PROVE  DataInv(b)'
  <1>1. CalendarInv(b)' /\ ResultsInv(b)' /\ ReachInv(b)' /\ WrittenInv(b)'
    BY KeepsResults, KeepsWritten DEF DataInv
  <1>2. ASSUME keepwriting' PROVE WindowInv(b)' /\ FrontInv(b)' /\ PlaceInv(b)'
    <2>1. WindowInv(b) /\ FrontInv(b) /\ PlaceInv(b)
      BY <1>2 DEF DataInv, OpenInv
    <2>2. WindowInv(b)' /\ Newest(b)' = Newest(b) /\ \A i : Number(b, i)' = Number(b, i)
      BY <1>2, <2>1, KeepsWindow
    <2>3. FrontInv(b)'
      BY <2>1, <2>2 DEF FrontInv
    <2>4. PlaceInv(b)'
      BY <1>2, <2>1, <2>2 DEF PlaceInv
    <2> QED BY <2>2, <2>3, <2>4
  <1> QED BY <1>1, <1>2 DEF DataInv, OpenInv

\* There is room when a result arrives, so nothing is abandoned for it.
LEMMA ReceiveData ==
  ASSUME Fits, FxInv, HandsInv, NEW b \in Nat, DataInv(b), NEW c \in Cores, Receive(c)
  PROVE  DataInv(b)'
  <1>1. /\ mpc = "ready" /\ BeginLocate
        /\ UNCHANGED <<newestlockedvis, oldestlockedvis, keepwriting, visbuffer, writesegment,
                       written, flushed, wpc, visindex>>
    BY DEF Receive, BeginLocate, wvars
  <1>2. Inv /\ RegularJob
    BY DEF FxInv, Fits
  <1>3. Answered' = Answered /\ Taken = {}
    BY <1>2, TakeHands
  <1>4. keepwriting /\ RingTypeOK
    BY <1>1, <1>2 DEF Inv, EndInv
  <1>5. WindowInv(b) /\ FrontInv(b)
    BY <1>4 DEF DataInv, OpenInv
  <1> DEFINE o == Oldest(b)
             e == Newest(b)
  <1>6. /\ e \in Nat /\ o \in Nat /\ e = o + WindowSize /\ WindowSize \in Nat
        /\ oldestlockedvis \in Vis /\ islocked[oldestlockedvis] /\ o = Number(b, oldestlockedvis)
    BY <1>1, <1>2, <1>4, WindowNumbers
  <1>7. WindowSize <= VisBufferLength - 4
    <2>1. \A n \in Answered : n < Before(e + 1)
      BY <1>5 DEF WindowInv
    <2>2. Over(o) \/ \E n \in Span(o) : n \notin Answered
      BY <1>1, <1>5, <1>6 DEF WindowInv
    <2>3. e <= 1 \/ \E n \in Answered \cup Taken : n >= Before(e - 1)
      BY <1>5 DEF FrontInv
    <2> HIDE DEF o, e
    <2>4. e + 1 \in Nat
      BY <1>6
    <2>5. e - o <= VisBufferLength - 4
      BY <1>6, <2>1, <2>2, <2>3, <2>4, RoomIs
    <2> QED BY <1>6, <2>5, VisBufferLengthAssumption
  <1>8. mpc' = "locate" /\ UNCHANGED <<window, bufferlock, islocked, after>>
    <2>1. ~WindowFull
      BY <1>6, <1>7, VisBufferLengthAssumption DEF WindowFull
    <2> QED BY <1>1, <2>1 DEF BeginLocate, window
  <1>9. CalendarInv(b)' /\ ResultsInv(b)' /\ ReachInv(b)' /\ WrittenInv(b)'
    BY <1>1, <1>3, KeepsResults, KeepsWritten DEF DataInv
  <1>10. WindowInv(b)' /\ Newest(b)' = Newest(b)
    BY <1>1, <1>3, <1>5, <1>8, KeepsWindow
  <1>11. FrontInv(b)'
    BY <1>3, <1>5, <1>10 DEF FrontInv
  <1>12. PlaceInv(b)'
    BY <1>8 DEF PlaceInv
  <1> QED BY <1>9, <1>10, <1>11, <1>12 DEF DataInv, OpenInv

\* How far the middle of the result is from the start of the integration of a buffer.
LEMMA DifferenceIs ==
  ASSUME RegularJob, FxInv, NextInv, NEW b \in Nat, CalendarInv(b), NEW i \in Vis,
         visbuffer \in [Vis -> Visibilities],
         NEW m \in Nat, Placed(current.subint, m)
  PROVE  /\ m = Number(b, i) => 0 <= DifferenceAt(i) /\ DifferenceAt(i) < inttime
         /\ Number(b, i) < m => DifferenceAt(i) >= inttime
         /\ m < Number(b, i) => DifferenceAt(i) < 0
  <1> DEFINE s == current.subint
             v == visbuffer[i]
             l == Number(b, i)
  <1>1. current.scan = s.scan /\ current.time = s.time
    BY DEF FxInv, LabelIsResult
  <1>2. inttime = IntLength
    BY DEF NextInv
  <1>3. v \in Visibilities
    OBVIOUS
  <1>4. Clock(v) = Calendar(l)
    BY DEF CalendarInv
  <1>5. v.scan = Calendar(l).scan /\ v.start = Calendar(l).start
    BY <1>3, <1>4, ClockIs
  <1>6. l \in Nat
    BY NumbersApart DEF FxInv, Inv
  <1>7. DifferenceAt(i) = Difference(v, s.scan, s.time)
    BY <1>1 DEF DifferenceAt
  <1>8. LET d == Difference(v, s.scan, s.time) IN
        /\ m = l => 0 <= d /\ d < IntLength
        /\ l < m => d >= IntLength
        /\ m < l => d < 0
    <2> HIDE DEF s, v, l
    <2> QED BY <1>5, <1>6, PlaceDifference DEF s
  <1> QED BY <1>2, <1>7, <1>8

\* What holds when locateVisIndex looks at the window.
LEMMA Locating ==
  ASSUME Fits, FxInv, HandsInv, NEW b \in Nat, DataInv(b), Pending, mpc \in {"locate", "extend", "deliver"}
  PROVE  /\ keepwriting /\ RegularJob /\ Inv /\ RingTypeOK
         /\ WindowInv(b) /\ FrontInv(b) /\ PlaceInv(b) /\ NextInv /\ CalendarInv(b)
         /\ Newest(b) \in Nat /\ Oldest(b) \in Nat /\ WindowSize \in Nat
         /\ Newest(b) = Oldest(b) + WindowSize
         /\ current.subint.num \in Nat /\ current.subint.num \notin Answered
         /\ Taken = {current.subint.num}
         /\ \E m \in Nat : /\ Placed(current.subint, m) /\ current.subint.num \in Span(m)
                           /\ Before(m) \in Nat /\ Before(m) <= current.subint.num
                           /\ current.subint.num < Before(m + 1) /\ Before(m + 1) \in Nat
  <1>1. Inv /\ RegularJob /\ keepwriting /\ RingTypeOK
    BY DEF FxInv, Fits, Inv, EndInv
  <1>2. WindowInv(b) /\ FrontInv(b) /\ PlaceInv(b) /\ CalendarInv(b)
    BY <1>1 DEF DataInv, OpenInv
  <1>3. /\ Newest(b) \in Nat /\ Oldest(b) \in Nat /\ WindowSize \in Nat
        /\ Newest(b) = Oldest(b) + WindowSize
    BY <1>1, WindowNumbers
  <1>4. Taken = {current.subint.num} /\ current.subint.num \notin Answered
    BY DEF Taken, Answered
  <1>5. PICK m \in Nat : Placed(current.subint, m)
    BY DEF HandsInv, TakenInv
  <1>6. current.subint.num \in Span(m) /\ current.subint.num \in Nat
    BY <1>5, HandsAre DEF Placed, HandsInv
  <1>7. Span(m) = Before(m) .. Before(m + 1) - 1 /\ Before(m) \in Nat /\ Before(m + 1) \in Nat
    BY <1>1, SpanIs
  <1>8. Before(m) <= current.subint.num /\ current.subint.num < Before(m + 1)
    <2> HIDE DEF Before, Span
    <2> QED BY <1>6, <1>7
  <1>9. NextInv
    BY DEF HandsInv
  <1> QED BY <1>1, <1>2, <1>3, <1>4, <1>5, <1>6, <1>7, <1>8, <1>9

\* It is a number.
LEMMA DifferenceIsInt ==
  ASSUME RegularJob, FxInv, NEW i \in Vis, visbuffer \in [Vis -> Visibilities],
         NEW m \in Nat, Placed(current.subint, m)
  PROVE  DifferenceAt(i) \in Int
  <1>1. visbuffer[i] \in Visibilities
    OBVIOUS
  <1>2. visbuffer[i].start \in Int /\ visbuffer[i].scan \in Nat
    BY <1>1 DEF Visibilities
  <1>3. /\ current.scan = current.subint.scan /\ current.time = current.subint.time
    BY DEF FxInv, LabelIsResult
  <1>4. Coming(current.subint.scan) /\ current.subint.time \in Nat
    BY PlaceIs
  <1>5. SubintNS[ScanConfig[current.subint.scan]] = SubintLength /\ SubintLength \in Nat \ {0}
    BY <1>4, RegularTimes
  <1> DEFINE h == SubintNS[ScanConfig[current.scan]] \div 2
  <1>6. h \in Int
    BY <1>3, <1>5, HalfIs
  <1>7. Centre(current.scan, current.time) = current.time + h
    BY DEF Centre
  <1> HIDE DEF h
  <1>8. Never \in Int
    BY JobAssumption DEF Never
  <1>9. current.time + h - visbuffer[i].start \in Int
    BY <1>2, <1>3, <1>4, <1>6
  <1>10. DifferenceAt(i) = IF current.scan > visbuffer[i].scan THEN Never
                           ELSE IF current.scan < visbuffer[i].scan THEN -Never
                           ELSE current.time + h - visbuffer[i].start
    BY <1>2, <1>3, <1>4, <1>6, <1>7, <1>8 DEF DifferenceAt, Difference
  <1> QED BY <1>8, <1>9, <1>10

\* A result beyond the window is not far beyond it.
LEMMA BeyondRoom ==
  ASSUME Fits, FxInv, HandsInv, NEW b \in Nat, DataInv(b), Pending, mpc \in {"locate", "extend"},
         current.subint.num >= Before(Newest(b) + 1)
  PROVE  WindowSize + 2 <= VisBufferLength - 4
  <1> DEFINE o == Oldest(b)
             e == Newest(b)
  <1>1. /\ keepwriting /\ RegularJob /\ Inv /\ WindowInv(b)
        /\ e \in Nat /\ o \in Nat /\ WindowSize \in Nat /\ e = o + WindowSize
        /\ Taken = {current.subint.num}
    BY Locating
  <1>2. \A n \in Answered : n < Before(e + 1)
    BY <1>1 DEF WindowInv
  <1>3. Over(o) \/ \E n \in Span(o) : n \notin Answered
    <2>1. oldestlockedvis \in Vis /\ islocked[oldestlockedvis] /\ o = Number(b, oldestlockedvis)
      BY <1>1, WindowNumbers
    <2> QED BY <1>1, <2>1 DEF WindowInv
  <1>4. current.subint.num \in Taken /\ current.subint.num >= Before(e + 1)
    BY <1>1
  <1> HIDE DEF o, e
  <1>5. e + 1 \in Nat /\ e + 2 \in Nat /\ (e + 2) - 1 = e + 1
    BY <1>1
  <1>6. (e + 2) - o <= VisBufferLength - 4
    <2>1. \E n \in Answered \cup Taken : n >= Before((e + 2) - 1)
      BY <1>4, <1>5
    <2> QED BY <1>1, <1>2, <1>3, <1>5, <2>1, RoomIs
  <1> QED BY <1>1, <1>6, VisBufferLengthAssumption

\* The buffer found is that of the result.
LEMMA FoundData ==
  ASSUME Fits, FxInv, HandsInv, NEW b \in Nat, DataInv(b), LocateFound,
         visbuffer \in [Vis -> Visibilities]
  PROVE  DataInv(b)'
  <1>1. PICK k \in Matches : FoundInWindow(InWindowAt(k))
    BY DEF LocateFound
  <1> DEFINE i == InWindowAt(k)
  <1>2. /\ mpc = "locate" /\ mpc' = "deliver" /\ visindex' = i
        /\ UNCHANGED <<window, bufferlock, keepwriting, after, wpc, writesegment, flushed>>
        /\ UNCHANGED <<visbuffer, written, current, inflight, sendcount, phase, sendscan, sendtime,
                       inttime, left, terminatenow>>
    BY <1>1 DEF LocateFound, FoundInWindow, wvars, fxvars, sendvars, corevars
  <1>3. Pending /\ Pending'
    BY <1>2 DEF Pending
  <1>4. Answered' = Answered /\ Taken' = Taken
    BY <1>2, <1>3, QuietHands DEF FxInv, SendTypes, Ending
  <1>5. /\ keepwriting /\ RegularJob /\ Inv /\ NextInv /\ CalendarInv(b)
        /\ WindowInv(b) /\ FrontInv(b)
    BY <1>2, <1>3, Locating
  <1>6. PICK m \in Nat : Placed(current.subint, m) /\ current.subint.num \in Span(m)
    BY <1>2, <1>3, Locating
  <1>7. /\ k \in 0 .. WindowSize /\ DifferenceAt(i) >= 0 /\ DifferenceAt(i) < inttime
    BY DEF Matches
  <1>8. i \in Vis
    BY <1>2, <1>5, <1>7, InWindowIs
  <1> HIDE DEF i
  <1>9. m = Number(b, i)
    <2>1. /\ Number(b, i) < m => DifferenceAt(i) >= inttime
          /\ m < Number(b, i) => DifferenceAt(i) < 0
      BY <1>5, <1>6, <1>8, DifferenceIs
    <2>2. Number(b, i) \in Nat
      BY <1>5, <1>8, NumbersApart DEF Inv
    <2>3. inttime \in Nat /\ DifferenceAt(i) \in Int
      <3>1. inttime \in Nat
        BY DEF FxInv, SendTypes
      <3>2. DifferenceAt(i) \in Int
        BY <1>5, <1>6, <1>8, DifferenceIsInt
      <3> QED BY <3>1, <3>2
    <2> QED BY <1>6, <1>7, <2>1, <2>2, <2>3
  <1>10. CalendarInv(b)' /\ ResultsInv(b)' /\ ReachInv(b)' /\ WrittenInv(b)'
    BY <1>2, <1>4, KeepsResults, KeepsWritten DEF DataInv
  <1>11. WindowInv(b)' /\ Newest(b)' = Newest(b) /\ \A j : Number(b, j)' = Number(b, j)
    BY <1>2, <1>4, <1>5, KeepsWindow
  <1>12. FrontInv(b)'
    BY <1>4, <1>5, <1>11 DEF FrontInv
  <1>13. PlaceInv(b)'
    BY <1>2, <1>6, <1>9, <1>11 DEF PlaceInv
  <1> QED BY <1>10, <1>11, <1>12, <1>13 DEF DataInv, OpenInv

\* No result is older than the window.
LEMMA NotStale ==
  ASSUME Fits, FxInv, HandsInv, NEW b \in Nat, DataInv(b), LocateStale,
         visbuffer \in [Vis -> Visibilities]
  PROVE  FALSE
  <1>1. mpc = "locate" /\ TooOld
    BY DEF LocateStale, StaleResult
  <1>2. Pending
    BY <1>1 DEF Pending
  <1>3. /\ keepwriting /\ RegularJob /\ Inv /\ NextInv /\ CalendarInv(b) /\ WindowInv(b)
        /\ Oldest(b) \in Nat /\ WindowSize \in Nat
        /\ current.subint.num \in Nat /\ current.subint.num \notin Answered
    BY <1>1, <1>2, Locating
  <1>4. PICK m \in Nat : /\ Placed(current.subint, m)
                         /\ current.subint.num < Before(m + 1) /\ Before(m + 1) \in Nat
    BY <1>1, <1>2, Locating
  <1> DEFINE i == InWindowAt(0)
             n == current.subint.num
  <1>5. 0 \in 0 .. WindowSize
    BY <1>3
  <1>6. i \in Vis /\ Number(b, i) = Oldest(b) + 0 /\ DifferenceAt(i) < 0
    BY <1>1, <1>3, <1>5, InWindowIs DEF TooOld
  <1>7. m < Oldest(b)
    <2>1. ~(DifferenceAt(i) >= inttime) /\ ~(0 <= DifferenceAt(i))
      <3>1. inttime \in Nat
        BY DEF FxInv, SendTypes
      <3> HIDE DEF i
      <3> DEFINE d == DifferenceAt(i)
      <3>2. d < 0
        BY <1>6
      <3>3. d \in Int
        BY <1>3, <1>4, <1>6, DifferenceIsInt
      <3> HIDE DEF d
      <3> QED BY <3>1, <3>2, <3>3 DEF d
    <2>2. /\ m = Number(b, i) => 0 <= DifferenceAt(i)
          /\ Number(b, i) < m => DifferenceAt(i) >= inttime
      <3> HIDE DEF i
      <3> QED BY <1>3, <1>4, <1>6, DifferenceIs
    <2>3. ~(m = Oldest(b)) /\ ~(Oldest(b) < m)
      BY <1>3, <1>6, <2>1, <2>2
    <2> QED BY <1>3, <2>3
  <1>8. Before(m + 1) <= Before(Oldest(b)) /\ Before(Oldest(b)) \in Nat
    <2> DEFINE o == Oldest(b)
    <2>1. o \in Nat /\ m + 1 \in Nat /\ m + 1 <= o
      BY <1>3, <1>7
    <2> HIDE DEF o
    <2>2. Before(m + 1) <= Before(o) /\ Before(o) \in Nat
      BY <1>3, <2>1, BeforeGrows
    <2> QED BY <2>2 DEF o
  <1>9. n \in 0 .. Before(Oldest(b)) - 1
    <2> HIDE DEF Before
    <2> QED BY <1>3, <1>4, <1>8
  <1> QED BY <1>3, <1>9 DEF WindowInv

-----------------------------------------------------------------------------
(* The window moves on *)

\* A result no buffer of the window is for comes after all of them.
LEMMA BeyondData ==
  ASSUME Fits, FxInv, HandsInv, NEW b \in Nat, DataInv(b), LocateBeyond,
         visbuffer \in [Vis -> Visibilities]
  PROVE  DataInv(b)'
  <1> DEFINE N == Newest(b)
             o == Oldest(b)
             num == current.subint.num
  <1>1. /\ mpc = "locate" /\ Matches = {} /\ ~TooOld /\ BeyondWindow
        /\ mpc' = IF MoreRoom(WindowSize) THEN "extend" ELSE "dropping"
        /\ UNCHANGED <<window, bufferlock, keepwriting, after, visindex, wpc, writesegment, flushed>>
        /\ UNCHANGED <<visbuffer, written, current, inflight, sendcount, phase, sendscan, sendtime,
                       inttime, left, terminatenow>>
    BY DEF LocateBeyond, BeyondWindow, wvars, sendvars, corevars
  <1>2. Pending /\ mpc' \in {"extend", "dropping"} /\ Pending'
    BY <1>1 DEF Pending
  <1>3. Answered' = Answered /\ Taken' = Taken
    BY <1>1, <1>2, QuietHands DEF FxInv, SendTypes, Ending
  <1>4. /\ keepwriting /\ RegularJob /\ Inv /\ NextInv /\ CalendarInv(b)
        /\ WindowInv(b) /\ FrontInv(b)
        /\ N \in Nat /\ o \in Nat /\ WindowSize \in Nat /\ N = o + WindowSize
        /\ num \in Nat
    BY <1>1, <1>2, Locating
  <1>5. PICK m \in Nat : /\ Placed(current.subint, m) /\ Before(m) \in Nat /\ Before(m) <= num
    BY <1>1, <1>2, Locating
  <1>6. PICK k \in 0 .. WindowSize : ~(DifferenceAt(InWindowAt(k)) < 0)
    BY <1>1 DEF TooOld
  <1> HIDE DEF N, o, num
  <1>7. m >= o
    <2> DEFINE i == InWindowAt(k)
    <2>1. i \in Vis /\ Number(b, i) = o + k
      BY <1>1, <1>4, InWindowIs DEF o
    <2> HIDE DEF i
    <2>2. m < Number(b, i) => DifferenceAt(i) < 0
      BY <1>4, <1>5, <2>1, DifferenceIs
    <2>3. ~(m < o + k)
      BY <1>6, <2>1, <2>2 DEF i
    <2> QED BY <1>4, <2>3
  <1>8. m > N
    <2> SUFFICES ASSUME m <= N PROVE FALSE
      BY <1>4
    <2> DEFINE l == m - o
               i == InWindowAt(l)
    <2>1. l \in 0 .. WindowSize /\ o + l = m
      BY <1>4, <1>7
    <2> HIDE DEF l
    <2>2. i \in Vis /\ Number(b, i) = m
      BY <1>1, <1>4, <2>1, InWindowIs DEF o
    <2>3. 0 <= DifferenceAt(i) /\ DifferenceAt(i) < inttime /\ DifferenceAt(i) \in Int
      <3> HIDE DEF i
      <3> QED BY <1>4, <1>5, <2>2, DifferenceIs, DifferenceIsInt
    <2>4. DifferenceAt(i) >= 0
      BY <2>3
    <2>5. l \in Matches
      BY <2>1, <2>3, <2>4 DEF Matches
    <2> QED BY <1>1, <2>5
  <1>9. num >= Before(N + 1)
    <2>1. Before(N + 1) <= Before(m) /\ Before(N + 1) \in Nat
      <3>1. N + 1 \in Nat /\ N + 1 <= m
        BY <1>4, <1>8
      <3> QED BY <1>4, <3>1, BeforeGrows
    <2> HIDE DEF Before
    <2> QED BY <1>4, <1>5, <2>1
  <1>10. mpc' = "extend"
    <2>1. WindowSize + 2 <= VisBufferLength - 4
      BY <1>1, <1>2, <1>9, BeyondRoom DEF num, N
    <2>2. MoreRoom(WindowSize)
      BY <1>4, <2>1, VisBufferLengthAssumption DEF MoreRoom
    <2> QED BY <1>1, <2>2
  <1>11. CalendarInv(b)' /\ ResultsInv(b)' /\ ReachInv(b)' /\ WrittenInv(b)'
    BY <1>1, <1>3, KeepsResults, KeepsWritten DEF DataInv
  <1>12. WindowInv(b)' /\ Newest(b)' = N
    BY <1>1, <1>3, <1>4, KeepsWindow DEF N
  <1>13. FrontInv(b)'
    BY <1>3, <1>4, <1>12 DEF FrontInv, N
  <1>14. PlaceInv(b)'
    BY <1>1, <1>9, <1>10, <1>12 DEF PlaceInv, num
  <1> QED BY <1>11, <1>12, <1>13, <1>14 DEF DataInv, OpenInv

\* The buffer after the newest is locked, for the next integration.
LEMMA NextLocked ==
  ASSUME Inv, keepwriting, NEW b \in Nat, WindowSize <= VisBufferLength - 3,
         bufferlock[Succ(newestlockedvis)] = "free",
         newestlockedvis' = Succ(newestlockedvis), UNCHANGED <<oldestlockedvis, writesegment>>
  PROVE  LET e == newestlockedvis
             n == Succ(newestlockedvis)
         IN /\ n \in Vis /\ n # e /\ n # oldestlockedvis /\ ~islocked[n]
            /\ Number(b, n) = Newest(b) + 1
            /\ Newest(b)' = Newest(b) + 1 /\ Oldest(b)' = Oldest(b) /\ WindowSize' = WindowSize + 1
            /\ \A i \in Vis : Number(b, i)' = Number(b, i)
            /\ \A i \in Vis : InWindow(i)' <=> InWindow(i) \/ i = n
            /\ \A i \in Vis : InWindow(i) => Ahead(i, n) = Ahead(i, e) + 1
            /\ ~InWindow(n)
  <1> DEFINE e == newestlockedvis
             n == Succ(newestlockedvis)
             o == oldestlockedvis
             w == writesegment
  <1>1. /\ e \in Vis /\ o \in Vis /\ w \in Vis /\ islocked[e] /\ LocksInv
        /\ WindowSize \in Nat
    BY WindowNumbers DEF Inv
  <1>2. n \in Vis /\ Ahead(o, n) = WindowSize + 1
    BY FreeNext
  <1>3. \A i, j \in Vis : Ahead(i, j) \in Nat
    BY AheadSum
  <1>4. ~islocked[n] /\ n # e
    BY <1>1, <1>2 DEF LocksInv
  <1>5. n # w
    <2>1. ASSUME n = w PROVE FALSE
      <3>1. Held # w
        BY <1>1, <2>1 DEF LocksInv
      <3>2. Held = Pred(w)
        BY <3>1 DEF Held
      <3>3. Pred(w) = e
        <4>1. /\ Succ(e) = IF e = VisBufferLength - 1 THEN 0 ELSE e + 1
              /\ Pred(w) = IF w = 0 THEN VisBufferLength - 1 ELSE w - 1
              /\ e \in Nat /\ e < VisBufferLength /\ w \in Nat /\ VisBufferLength \in Nat
          BY <1>1, RingArithmetic
        <4> QED BY <2>1, <4>1
      <3>4. bufferlock[e] = "writer"
        BY <1>1, <3>2, <3>3 DEF LocksInv
      <3> QED BY <1>1, <3>4 DEF LocksInv
    <2> QED BY <2>1
  <1>6. Ahead(w, n) = Ahead(w, e) + 1
    BY <1>1, <1>5, AheadMoves
  <1>7. n # o
    <2>1. Ahead(o, o) = 0
      BY <1>1, AheadSum
    <2> QED BY <1>1, <1>2, <2>1
  <1>8. \A i \in Vis : Ahead(o, i) <= WindowSize => n # i /\ Ahead(i, n) = Ahead(i, e) + 1
    <2> SUFFICES ASSUME NEW i \in Vis, Ahead(o, i) <= WindowSize
                 PROVE  n # i /\ Ahead(i, n) = Ahead(i, e) + 1
      OBVIOUS
    <2>1. n # i
      BY <1>1, <1>2
    <2> QED BY <1>1, <2>1, AheadMoves
  <1> HIDE DEF n
  <1>9. WindowSize' = WindowSize + 1
    BY <1>2 DEF WindowSize, n
  <1>10. \A i \in Vis : Number(b, i)' = Number(b, i)
    BY DEF Number
  <1>11. Number(b, n) = Newest(b) + 1 /\ Newest(b)' = Newest(b) + 1
    <2>1. Newest(b)' = b + Ahead(w, n) /\ Newest(b) = b + Ahead(w, e) /\ Number(b, n) = b + Ahead(w, n)
      BY DEF Newest, Number, n
    <2>2. Ahead(w, n) \in Nat /\ Ahead(w, e) \in Nat
      BY <1>1, <1>2, <1>3
    <2> QED BY <1>6, <2>1, <2>2
  <1>12. Oldest(b)' = Oldest(b)
    <2>1. Newest(b) \in Nat
      BY WindowNumbers
    <2>2. Oldest(b)' = Newest(b)' - WindowSize' /\ Oldest(b) = Newest(b) - WindowSize
      BY DEF Oldest
    <2> QED BY <1>1, <1>9, <1>11, <2>1, <2>2
  <1>13. \A i \in Vis : InWindow(i)' <=> InWindow(i) \/ i = n
    <2> SUFFICES ASSUME NEW i \in Vis PROVE InWindow(i)' <=> InWindow(i) \/ i = n
      OBVIOUS
    <2>1. InWindow(i)' <=> Ahead(o, i) <= WindowSize + 1
      BY <1>9 DEF InWindow
    <2>2. Ahead(o, i) \in Nat
      BY <1>1, <1>3
    <2>3. Ahead(o, i) = Ahead(o, n) => i = n
      BY <1>1, <1>2, AheadSum
    <2> QED BY <1>1, <1>2, <2>1, <2>2, <2>3 DEF InWindow
  <1>14. ~InWindow(n)
    BY <1>1, <1>2 DEF InWindow
  <1> QED BY <1>2, <1>4, <1>7, <1>8, <1>9, <1>10, <1>11, <1>12, <1>13, <1>14 DEF n, InWindow

\* What is known of the window when the next buffer was locked, and perhaps
\* the one before released that has all its results.
LEMMA LockWindow ==
  ASSUME RegularJob, Inv, keepwriting, NEW b \in Nat, WindowSize <= VisBufferLength - 3,
         bufferlock[Succ(newestlockedvis)] = "free",
         newestlockedvis' = Succ(newestlockedvis), UNCHANGED <<oldestlockedvis, writesegment>>,
         WindowInv(b), Answered' = Answered, mpc' # "lockahead",
         \A i \in Vis : islocked'[i] =>
           i = Succ(newestlockedvis) \/ (islocked[i] /\ ~(mpc = "lockahead" /\ i = visindex)),
         \A i \in Vis : ~islocked'[i] =>
           /\ i # Succ(newestlockedvis)
           /\ islocked[i] => i = newestlockedvis /\ Span(Newest(b)) \subseteq Answered
  PROVE  WindowInv(b)' /\ Newest(b)' = Newest(b) + 1 /\ \A i \in Vis : Number(b, i)' = Number(b, i)
  <1> DEFINE e == newestlockedvis
             n == Succ(newestlockedvis)
             N == Newest(b)
  <1>1. /\ n \in Vis /\ n # e
        /\ Number(b, n) = N + 1
        /\ Newest(b)' = N + 1 /\ Oldest(b)' = Oldest(b)
        /\ \A i \in Vis : Number(b, i)' = Number(b, i)
        /\ \A i \in Vis : InWindow(i)' <=> InWindow(i) \/ i = n
        /\ \A i \in Vis : InWindow(i) => Ahead(i, n) = Ahead(i, e) + 1
    BY NextLocked
  <1>2. N \in Nat /\ e \in Vis
    BY WindowNumbers
  <1> HIDE DEF N, n
  <1>3. /\ Before(N + 1) \in Nat /\ Before((N + 1) + 1) \in Nat /\ Before(N + 1) <= Before((N + 1) + 1)
        /\ ~Over(N + 1) => Before(N + 1) \in Span(N + 1)
    <2>1. N + 1 \in Nat /\ (N + 1) + 1 \in Nat /\ N + 1 <= (N + 1) + 1
      BY <1>2
    <2> QED BY <2>1, SpanIs, BeforeGrows
  <1>4. \A k \in Answered' : k < Before(Newest(b)' + 1)
    <2> SUFFICES ASSUME NEW k \in Answered PROVE k < Before((N + 1) + 1)
      BY <1>1
    <2>1. k < Before(N + 1)
      BY DEF WindowInv, N
    <2>2. k \in Nat
      BY DEF Answered
    <2> HIDE DEF Before
    <2> QED BY <1>3, <2>1, <2>2
  <1>5. ASSUME NEW i \in Vis, InWindow(i)', ~islocked'[i]
        PROVE  Span(Newest(b)' - Ahead(i, newestlockedvis')) \subseteq Answered'
    <2>1. i # n /\ InWindow(i) /\ Ahead(i, n) = Ahead(i, e) + 1
      BY <1>1, <1>5 DEF n
    <2>2. Ahead(i, e) \in Nat
      BY <1>2, AheadSum
    <2>3. Newest(b)' - Ahead(i, newestlockedvis') = N - Ahead(i, e)
      BY <1>1, <1>2, <2>1, <2>2 DEF n
    <2>4. CASE ~islocked[i]
      BY <2>1, <2>3, <2>4 DEF WindowInv, N
    <2>5. CASE islocked[i]
      <3>1. i = e /\ Span(N) \subseteq Answered
        BY <1>5, <2>5 DEF N
      <3>2. Ahead(i, e) = 0
        BY <1>2, <3>1, AheadSum
      <3>3. N - Ahead(i, e) = N
        BY <1>2, <3>2
      <3> QED BY <2>3, <3>1, <3>3
    <2> QED BY <2>4, <2>5
  <1>6. ASSUME NEW i \in Vis, islocked'[i]
        PROVE  Over(Number(b, i)') \/ \E k \in Span(Number(b, i)') : k \notin Answered'
    <2>1. CASE i = n
      <3>1. Number(b, i)' = N + 1
        BY <1>1, <2>1
      <3>2. ASSUME ~Over(N + 1) PROVE Before(N + 1) \in Span(N + 1) /\ Before(N + 1) \notin Answered
        <4>1. Before(N + 1) \in Answered => Before(N + 1) < Before(N + 1)
          BY DEF WindowInv, N
        <4> HIDE DEF Before
        <4> QED BY <1>3, <3>2, <4>1
      <3> QED BY <3>1, <3>2
    <2>2. CASE i # n
      <3>1. islocked[i] /\ ~(mpc = "lockahead" /\ i = visindex)
        BY <1>6, <2>2 DEF n
      <3> QED BY <1>1, <3>1 DEF WindowInv
    <2> QED BY <2>1, <2>2
  <1>7. Oldest(b)' \in Nat /\ \A k \in 0 .. Before(Oldest(b)') - 1 : k \in Answered'
    BY <1>1 DEF WindowInv
  <1>8. WindowInv(b)'
    BY <1>4, <1>5, <1>6, <1>7 DEF WindowInv
  <1> QED BY <1>1, <1>8 DEF N

\* One more buffer for a result beyond the window: it is for it, or there is
\* room for another one.
LEMMA ExtendData ==
  ASSUME Fits, FxInv, HandsInv, NEW b \in Nat, DataInv(b), Extend,
         visbuffer \in [Vis -> Visibilities]
  PROVE  DataInv(b)'
  <1> DEFINE N == Newest(b)
             n == Succ(newestlockedvis)
             num == current.subint.num
  <1>1. /\ mpc = "extend" /\ LockNext /\ newestlockedvis' = n
        /\ bufferlock[n] = "free" /\ islocked' = [islocked EXCEPT ![n] = TRUE]
        /\ IF CaughtUp THEN mpc' = "deliver" /\ visindex' = newestlockedvis'
           ELSE /\ mpc' = IF MoreRoom(WindowSize + 1) THEN "extend" ELSE "dropping"
                /\ UNCHANGED visindex
        /\ UNCHANGED <<oldestlockedvis, keepwriting, after, wpc, writesegment, flushed>>
        /\ UNCHANGED <<visbuffer, written, current, inflight, sendcount, phase, sendscan, sendtime,
                       inttime, left, terminatenow>>
    BY DEF Extend, LockMore, LockNext, wvars, sendvars, corevars
  <1>2. Pending /\ mpc' \in {"deliver", "extend", "dropping"} /\ Pending'
    BY <1>1 DEF Pending
  <1>3. Answered' = Answered /\ Taken' = Taken
    BY <1>1, <1>2, QuietHands DEF FxInv, SendTypes, Ending
  <1>4. /\ keepwriting /\ RegularJob /\ Inv /\ NextInv /\ CalendarInv(b)
        /\ WindowInv(b) /\ FrontInv(b) /\ PlaceInv(b)
        /\ N \in Nat /\ WindowSize \in Nat
        /\ num \in Nat /\ Taken = {num}
    BY <1>1, <1>2, Locating
  <1>5. PICK m \in Nat : /\ Placed(current.subint, m) /\ Before(m) \in Nat /\ Before(m) <= num
                         /\ num < Before(m + 1) /\ num \in Span(m)
    BY <1>1, <1>2, Locating
  <1>6. num >= Before(N + 1)
    BY <1>1, <1>4 DEF PlaceInv
  <1>7. WindowSize + 2 <= VisBufferLength - 4
    BY <1>1, <1>2, <1>6, BeyondRoom
  <1>8. WindowSize <= VisBufferLength - 3 /\ MoreRoom(WindowSize + 1)
    BY <1>4, <1>7, VisBufferLengthAssumption DEF MoreRoom
  <1>9. n \in Vis /\ Number(b, n) = N + 1
    BY <1>1, <1>4, <1>8, NextLocked
  <1>10. islocked \in [Vis -> BOOLEAN]
    BY <1>4 DEF Inv, RingTypeOK
  <1> HIDE DEF num
  <1>11. /\ \A i \in Vis : islocked'[i] =>
              i = n \/ (islocked[i] /\ ~(mpc = "lockahead" /\ i = visindex))
         /\ \A i \in Vis : ~islocked'[i] => i # n /\ ~islocked[i]
    BY <1>1, <1>9, <1>10
  <1>12. WindowInv(b)' /\ Newest(b)' = N + 1 /\ \A i \in Vis : Number(b, i)' = Number(b, i)
    <2>1. mpc' # "lockahead"
      BY <1>2
    <2> QED BY <1>1, <1>3, <1>4, <1>8, <1>11, <2>1, LockWindow
  <1> HIDE DEF N, n
  <1>13. m >= N + 1
    <2> SUFFICES ASSUME m < N + 1 PROVE FALSE
      BY <1>4
    <2>1. Before(m + 1) <= Before(N + 1) /\ Before(m + 1) \in Nat /\ Before(N + 1) \in Nat
      <3>1. m + 1 \in Nat /\ N + 1 \in Nat /\ m + 1 <= N + 1
        BY <1>4
      <3> QED BY <1>4, <3>1, BeforeGrows
    <2> HIDE DEF Before
    <2> QED BY <1>4, <1>5, <1>6, <2>1
  <1>14. CaughtUp <=> m = N + 1
    <2>1. /\ m = Number(b, n) => 0 <= DifferenceAt(n) /\ DifferenceAt(n) < inttime
          /\ Number(b, n) < m => DifferenceAt(n) >= inttime
          /\ DifferenceAt(n) \in Int
      BY <1>4, <1>5, <1>9, DifferenceIs, DifferenceIsInt
    <2>2. inttime \in Nat
      BY DEF FxInv, SendTypes
    <2>3. CaughtUp <=> DifferenceAt(n) < inttime
      BY DEF CaughtUp, n
    <2> DEFINE d == DifferenceAt(n)
    <2> HIDE DEF d
    <2>4. N + 1 = m \/ N + 1 < m
      BY <1>4, <1>13
    <2> QED BY <1>9, <2>1, <2>2, <2>3, <2>4 DEF d
  <1>15. CalendarInv(b)' /\ ResultsInv(b)' /\ ReachInv(b)' /\ WrittenInv(b)'
    BY <1>1, <1>3, KeepsResults, KeepsWritten DEF DataInv
  <1>16. FrontInv(b)'
    <2>1. Newest(b)' - 1 = N
      BY <1>4, <1>12
    <2>2. num >= Before(N)
      <3>1. Before(N) <= Before(N + 1) /\ Before(N) \in Nat /\ Before(N + 1) \in Nat
        <4>1. N \in Nat /\ N + 1 \in Nat /\ N <= N + 1
          BY <1>4
        <4> QED BY <1>4, <4>1, BeforeGrows
      <3> HIDE DEF Before
      <3> QED BY <1>4, <1>6, <3>1
    <2> QED BY <1>3, <1>4, <2>1, <2>2 DEF FrontInv
  <1>17. PlaceInv(b)'
    <2>1. CASE CaughtUp
      <3>1. PICK i \in Vis : i = n
        BY <1>9
      <3>2. mpc' = "deliver" /\ visindex' = i
        BY <1>1, <2>1, <3>1
      <3>3. Number(b, i)' = Number(b, i) /\ Number(b, i) = N + 1 /\ m = N + 1
        BY <1>9, <1>12, <1>14, <2>1, <3>1
      <3>4. Number(b, visindex)' = N + 1
        BY <3>2, <3>3 DEF Number
      <3>5. num \in Span(N + 1)
        BY <1>5, <3>3
      <3> QED BY <1>1, <3>2, <3>4, <3>5 DEF PlaceInv, num
    <2>2. CASE ~CaughtUp
      <3>1. mpc' = "extend"
        BY <1>1, <1>8, <2>2
      <3>2. num >= Before((N + 1) + 1)
        <4>1. (N + 1) + 1 \in Nat /\ (N + 1) + 1 <= m
          BY <1>4, <1>13, <1>14, <2>2
        <4>2. Before((N + 1) + 1) <= Before(m) /\ Before((N + 1) + 1) \in Nat
          BY <1>4, <4>1, BeforeGrows
        <4> HIDE DEF Before
        <4> QED BY <1>4, <1>5, <4>2
      <3> QED BY <1>1, <1>12, <3>1, <3>2 DEF PlaceInv, num
    <2> QED BY <2>1, <2>2
  <1> QED BY <1>12, <1>15, <1>16, <1>17 DEF DataInv, OpenInv

\* The oldest buffers that are not locked any more have all their results.
LEMMA AdvanceData ==
  ASSUME Fits, FxInv, HandsInv, NEW b \in Nat, DataInv(b), Advance
  PROVE  DataInv(b)'
  <1> DEFINE e == newestlockedvis
             o == oldestlockedvis
             N == Newest(b)
             O == Oldest(b)
  <1>1. /\ mpc = "advance" /\ after' = after
        /\ UNCHANGED <<newestlockedvis, islocked, keepwriting, visindex, wpc, writesegment, flushed>>
        /\ UNCHANGED <<visbuffer, written, current, inflight, sendcount, phase, sendscan, sendtime,
                       inttime, left, terminatenow>>
        /\ \/ islocked[o] /\ mpc' = after /\ oldestlockedvis' = o
           \/ ~islocked[o] /\ oldestlockedvis' = Succ(o) /\ mpc' = mpc
    BY DEF Advance, AdvanceOldest, wvars, fxvars, sendvars, corevars
  <1>2. Inv /\ RegularJob /\ keepwriting /\ after = "ready"
    <2>1. Inv /\ RegularJob /\ keepwriting
      BY <1>1 DEF FxInv, Fits, Inv, EndInv
    <2> QED BY <1>1, <2>1 DEF DataInv, OpenInv, PlaceInv
  <1>3. WindowInv(b) /\ FrontInv(b) /\ PlaceInv(b)
    BY <1>2 DEF DataInv, OpenInv
  <1>4. Pending' <=> Pending
    BY <1>1, <1>2 DEF Pending
  <1>5. Answered' = Answered /\ Taken' = Taken
    <2>1. Ending' => Ending
      BY <1>1, <1>2 DEF Ending
    <2> QED BY <1>1, <1>4, <2>1, QuietHands DEF FxInv, SendTypes
  <1>6. CalendarInv(b)' /\ ResultsInv(b)' /\ ReachInv(b)' /\ WrittenInv(b)'
    BY <1>1, <1>5, KeepsResults, KeepsWritten DEF DataInv
  <1>7. /\ N \in Nat /\ O \in Nat /\ WindowSize \in Nat /\ N = O + WindowSize
        /\ e \in Vis /\ o \in Vis /\ islocked[e] /\ InWindow(e)
    BY <1>2, <1>3, WindowNumbers DEF WindowInv
  <1>8. CASE islocked[o] /\ mpc' = after /\ oldestlockedvis' = o
    <2>1. WindowInv(b)' /\ Newest(b)' = N
      BY <1>1, <1>3, <1>5, <1>8, KeepsWindow DEF window
    <2>2. FrontInv(b)'
      BY <1>3, <1>5, <2>1 DEF FrontInv
    <2>3. PlaceInv(b)'
      BY <1>2, <1>8 DEF PlaceInv
    <2> QED BY <1>6, <2>1, <2>2, <2>3 DEF DataInv, OpenInv
  <1>9. CASE ~islocked[o] /\ oldestlockedvis' = Succ(o) /\ mpc' = mpc
    <2>1. o # e
      BY <1>7, <1>9
    <2>2. /\ Ahead(o, e) >= 1 /\ Ahead(Succ(o), e) = Ahead(o, e) - 1
          /\ Ahead(o, e) \in Nat /\ WindowSize = Ahead(o, e)
      BY <1>7, <2>1, AheadMoves DEF WindowSize
    <2>3. WindowSize' = WindowSize - 1
      BY <1>1, <1>9, <2>2 DEF WindowSize
    <2>4. Newest(b)' = N /\ \A i : Number(b, i)' = Number(b, i)
      BY <1>1 DEF Newest, Number
    <2>5. Oldest(b)' = O + 1
      <3>1. Oldest(b)' = Newest(b)' - WindowSize'
        BY DEF Oldest
      <3> HIDE DEF N, O
      <3> QED BY <1>7, <2>3, <2>4, <3>1
    <2>6. \A i \in Vis : InWindow(i)' => InWindow(i)
      <3> SUFFICES ASSUME NEW i \in Vis, InWindow(i)' PROVE InWindow(i)
        OBVIOUS
      <3>1. Ahead(Succ(o), i) <= WindowSize - 1
        BY <1>9, <2>3 DEF InWindow
      <3>2. i # o
        <4>1. ASSUME i = o PROVE FALSE
          <5>1. Succ(Pred(o)) = o /\ Succ(o) \in Vis
            BY <1>7, RingArithmetic
          <5>2. Ahead(Succ(o), o) = VisBufferLength - 1
            <6>1. /\ Succ(o) = IF o = VisBufferLength - 1 THEN 0 ELSE o + 1
                  /\ Ahead(Succ(o), o) = IF Succ(o) <= o THEN o - Succ(o) ELSE o - Succ(o) + VisBufferLength
                  /\ o \in Nat /\ o < VisBufferLength /\ VisBufferLength \in Nat
                  /\ VisBufferLength >= 4
              BY <1>7, <5>1, RingArithmetic
            <6> HIDE DEF o
            <6> QED BY <6>1
          <5>3. WindowSize <= VisBufferLength - 2
            BY <1>2 DEF Inv, EndInv
          <5> QED BY <1>7, <3>1, <4>1, <5>2, <5>3, VisBufferLengthAssumption
        <4> QED BY <4>1
      <3>3. Ahead(o, i) >= 1 /\ Ahead(Succ(o), i) = Ahead(o, i) - 1 /\ Ahead(o, i) \in Nat
        BY <1>7, <3>2, AheadMoves
      <3> QED BY <1>7, <3>1, <3>3 DEF InWindow
    <2>7. Span(O) \subseteq Answered
      <3>1. InWindow(o)
        <4>1. Ahead(o, o) = 0
          BY <1>7, AheadSum
        <4> QED BY <1>7, <4>1 DEF InWindow
      <3>2. Span(N - Ahead(o, e)) \subseteq Answered
        BY <1>3, <1>7, <1>9, <3>1 DEF WindowInv
      <3>3. N - Ahead(o, e) = O
        <4> HIDE DEF N, O
        <4> QED BY <1>7, <2>2
      <3> QED BY <3>2, <3>3
    <2> HIDE DEF N, O
    <2>8. \A n \in 0 .. Before(O + 1) - 1 : n \in Answered
      <3> SUFFICES ASSUME NEW n \in 0 .. Before(O + 1) - 1 PROVE n \in Answered
        OBVIOUS
      <3>1. Before(O) \in Nat /\ Before(O + 1) \in Nat /\ Span(O) = Before(O) .. Before(O + 1) - 1
        BY <1>2, <1>7, SpanIs
      <3>2. n \in 0 .. Before(O) - 1 => n \in Answered
        BY <1>3 DEF WindowInv, O
      <3> HIDE DEF Before, Span
      <3> QED BY <2>7, <3>1, <3>2
    <2>9. WindowInv(b)'
      <3>1. Oldest(b)' \in Nat /\ \A n \in 0 .. Before(Oldest(b)') - 1 : n \in Answered'
        BY <1>5, <1>7, <2>5, <2>8
      <3>2. \A n \in Answered' : n < Before(Newest(b)' + 1)
        BY <1>3, <1>5, <2>4 DEF WindowInv, N
      <3>3. \A i \in Vis : InWindow(i)' /\ ~islocked'[i] =>
              Span(Newest(b)' - Ahead(i, newestlockedvis')) \subseteq Answered'
        BY <1>1, <1>3, <1>5, <2>4, <2>6 DEF WindowInv, N
      <3>4. \A i \in Vis : islocked'[i] =>
              Over(Number(b, i)') \/ \E n \in Span(Number(b, i)') : n \notin Answered'
        BY <1>1, <1>3, <1>5, <2>4 DEF WindowInv
      <3> QED BY <3>1, <3>2, <3>3, <3>4 DEF WindowInv
    <2>10. FrontInv(b)'
      BY <1>3, <1>5, <2>4 DEF FrontInv, N
    <2>11. PlaceInv(b)'
      BY <1>1, <1>2, <1>9 DEF PlaceInv
    <2> QED BY <1>6, <2>9, <2>10, <2>11 DEF DataInv, OpenInv
  <1> QED BY <1>1, <1>8, <1>9

\* The newest buffer has all its results, and the next one is locked for it.
LEMMA LockAheadData ==
  ASSUME Fits, FxInv, HandsInv, NEW b \in Nat, DataInv(b), LockNextAhead
  PROVE  DataInv(b)'
  <1> DEFINE N == Newest(b)
             n == Succ(newestlockedvis)
             e == newestlockedvis
  <1>1. /\ mpc = "lockahead" /\ newestlockedvis' = n
        /\ bufferlock[n] = "free"
        /\ islocked' = [[islocked EXCEPT ![n] = TRUE] EXCEPT ![visindex] = FALSE]
        /\ mpc' = "ready" \/ (mpc' = "advance" /\ after' = "ready")
        /\ UNCHANGED <<oldestlockedvis, keepwriting, visindex, wpc, writesegment, flushed>>
        /\ UNCHANGED <<visbuffer, written, current, inflight, sendcount, phase, sendscan, sendtime,
                       inttime, left, terminatenow>>
    BY DEF LockNextAhead, LockAhead, Release, wvars, fxvars, sendvars, corevars
  <1>2. ~Pending /\ ~Pending'
    BY <1>1 DEF Pending
  <1>3. Answered' = Answered /\ Taken' = Taken
    BY <1>1, <1>2, QuietHands DEF FxInv, SendTypes, Ending
  <1>4. Inv /\ RegularJob /\ keepwriting /\ visindex = e /\ WindowSize <= VisBufferLength - 3
        /\ islocked \in [Vis -> BOOLEAN]
    <2>1. Inv /\ RegularJob /\ keepwriting
      BY <1>1 DEF FxInv, Fits, Inv, EndInv
    <2> QED BY <1>1, <2>1 DEF Inv, RingTypeOK, ChosenInv, SizeInv
  <1>5. WindowInv(b) /\ FrontInv(b) /\ Span(N) \subseteq Answered /\ ~Over(N)
    BY <1>1, <1>4 DEF DataInv, OpenInv, PlaceInv
  <1>6. n \in Vis /\ e \in Vis /\ n # e
    BY <1>1, <1>4, NextLocked, WindowNumbers
  <1>7. N \in Nat
    BY <1>4, WindowNumbers
  <1>8. /\ \A i \in Vis : islocked'[i] =>
              i = n \/ (islocked[i] /\ ~(mpc = "lockahead" /\ i = visindex))
        /\ \A i \in Vis : ~islocked'[i] =>
              /\ i # n
              /\ islocked[i] => i = e /\ Span(N) \subseteq Answered
    <2> HIDE DEF N, n
    <2> QED BY <1>1, <1>4, <1>5, <1>6
  <1>9. WindowInv(b)' /\ Newest(b)' = N + 1
    <2>1. mpc' # "lockahead"
      BY <1>1
    <2> QED BY <1>1, <1>3, <1>4, <1>5, <1>8, <2>1, LockWindow
  <1> HIDE DEF N, n
  <1>10. CalendarInv(b)' /\ ResultsInv(b)' /\ ReachInv(b)' /\ WrittenInv(b)'
    BY <1>1, <1>3, KeepsResults, KeepsWritten DEF DataInv
  <1>11. FrontInv(b)'
    <2>1. Before(N) \in Span(N) /\ Before(N) \in Nat
      BY <1>4, <1>5, <1>7, SpanIs
    <2>2. Newest(b)' - 1 = N
      BY <1>7, <1>9
    <2>3. Before(N) \in Answered' /\ Before(N) >= Before(N)
      <3> HIDE DEF Before, Span
      <3> QED BY <1>3, <1>5, <2>1
    <2> HIDE DEF Before
    <2> QED BY <2>2, <2>3 DEF FrontInv
  <1>12. PlaceInv(b)'
    BY <1>1 DEF PlaceInv
  <1> QED BY <1>9, <1>10, <1>11, <1>12 DEF DataInv, OpenInv

-----------------------------------------------------------------------------
(* A result is put away *)

\* A result is added to the buffer of its integration, which is locked, and
\* which is complete just if it has all its results.
LEMMA DeliverResults ==
  ASSUME Fits, FxInv, HandsInv, NEW b \in Nat, DataInv(b), Deliver,
         visbuffer \in [Vis -> Visibilities]
  PROVE  LET num == current.subint.num
             g == Number(b, visindex)
         IN /\ CalendarInv(b)' /\ ResultsInv(b)' /\ ReachInv(b)' /\ WrittenInv(b)'
            /\ Answered' = Answered \cup {num} /\ Taken = {num} /\ Taken' = {}
            /\ num \in Span(g) /\ num \notin Answered /\ g \in Nat /\ ~Over(g)
            /\ InWindow(visindex) /\ islocked[visindex]
            /\ IsComplete(AddData(visbuffer[visindex], current.subint)) <=> Span(g) \subseteq Answered'
  <1> DEFINE s == current.subint
             num == s.num
             v == visbuffer[visindex]
             u == AddData(v, s)
             g == Number(b, visindex)
  <1>1. /\ mpc = "deliver" /\ SendMore
        /\ mpc' \in {"ready", "lockahead"} \/ (mpc' = "advance" /\ after' = "ready")
        /\ visbuffer' = [visbuffer EXCEPT ![visindex] = u]
        /\ UNCHANGED <<newestlockedvis, oldestlockedvis, keepwriting, wpc, writesegment, flushed>>
        /\ UNCHANGED <<phase, sendscan, inttime, terminatenow, left, current, written>>
    BY DEF Deliver, AddLast, AddIncomplete, Release, wvars, window
  <1>2. Pending /\ ~Pending' /\ ~Ending'
    BY <1>1 DEF Pending, Ending
  <1>3. /\ keepwriting /\ RegularJob /\ Inv /\ RingTypeOK
        /\ WindowInv(b) /\ PlaceInv(b) /\ CalendarInv(b)
        /\ num \in Nat /\ num \notin Answered /\ Taken = {num}
    BY <1>1, <1>2, Locating
  <1>4. PICK m \in Nat : /\ Placed(s, m) /\ num \in Span(m) /\ Before(m) \in Nat /\ Before(m) <= num
                         /\ num < Before(m + 1)
    BY <1>1, <1>2, Locating
  <1>5. visindex \in Vis /\ writesegment \in Vis /\ InWindow(visindex) /\ LocksInv
    BY <1>1, <1>3 DEF Inv, RingTypeOK, ChosenInv
  <1>6. g \in Nat /\ b <= g /\ g <= b + VisBufferLength - 1
    BY <1>3, <1>5, NumbersApart
  <1>7. m = g /\ num \in Span(g)
    <2>1. num \in Span(g)
      BY <1>1, <1>3 DEF PlaceInv
    <2> QED BY <1>3, <1>4, <1>6, <2>1, SpanApart
  <1>8. ~Over(g) /\ Placed(s, g) /\ s \in Subints
    BY <1>4, <1>7 DEF Placed
  <1>9. Answered' = Answered \cup {num} /\ Taken' = {}
    BY <1>1, <1>2, <1>3, GiveHands
  <1>10. v \in Visibilities
    BY <1>5
  <1>11. /\ IsFiniteSet(v.results) /\ v.subints = Cardinality(v.results)
         /\ \A r \in v.results : Placed(r, g)
         /\ {r.num : r \in v.results} = Answered \cap Span(g)
    BY <1>5 DEF DataInv, ResultsInv
  <1>12. s \notin v.results
    <2>1. s \in v.results => s.num \in {r.num : r \in v.results}
      OBVIOUS
    <2> QED BY <1>3, <1>11, <2>1
  <1> HIDE DEF g, num, s
  <1>13. /\ u.results = v.results \cup {s} /\ u.subints = v.subints + 1 /\ u.expected = v.expected
         /\ Clock(u) = Clock(v)
    <2>1. v \in [scan : Nat, start : Int, config : Configs, offset : Int, expected : Int,
                 subints : Nat, results : SUBSET Subints]
      BY <1>10 DEF Visibilities
    <2>2. u = [v EXCEPT !.subints = v.subints + 1, !.results = v.results \cup {s}]
      BY DEF AddData
    <2> HIDE DEF u, v
    <2> QED BY <2>1, <2>2 DEF Clock
  <1>14. v.subints \in Nat /\ v.expected = Size(g)
    <2>1. v.subints \in Nat
      BY <1>10 DEF Visibilities
    <2>2. Clock(v) = Calendar(g)
      BY <1>3, <1>5 DEF CalendarInv, g
    <2>3. Clock(v).expected = v.expected
      <3>1. v \in [scan : Nat, start : Int, config : Configs, offset : Int, expected : Int,
                   subints : Nat, results : SUBSET Subints]
        BY <1>10 DEF Visibilities
      <3> HIDE DEF v
      <3> QED BY <3>1 DEF Clock
    <2>4. Size(g) = Calendar(g).expected
      BY <1>8 DEF Size
    <2> QED BY <2>1, <2>2, <2>3, <2>4
  <1> DEFINE R == v.results \cup {s}
  <1>15. /\ IsFiniteSet(R) /\ Cardinality(R) = v.subints + 1
         /\ \A r \in R : Placed(r, g)
         /\ {r.num : r \in R} = Answered' \cap Span(g)
    <2>1. IsFiniteSet(R) /\ Cardinality(R) = Cardinality(v.results) + 1
      BY <1>11, <1>12, FS_AddElement
    <2>2. {r.num : r \in R} = {r.num : r \in v.results} \cup {num}
      BY DEF num
    <2> HIDE DEF Span
    <2> QED BY <1>7, <1>8, <1>9, <1>11, <2>1, <2>2
  <1> HIDE DEF R
  <1>16. \A j \in Vis : Number(b, j)' = Number(b, j)
    BY <1>1 DEF Number
  <1>17. \A j \in Vis : /\ Clock(visbuffer'[j]) = Clock(visbuffer[j])
                        /\ j # visindex => visbuffer'[j] = visbuffer[j]
                        /\ j = visindex => visbuffer'[j].results = R
                                           /\ visbuffer'[j].subints = v.subints + 1
    <2>1. visbuffer'[visindex] = u /\ \A j \in Vis : j # visindex => visbuffer'[j] = visbuffer[j]
      BY <1>1, <1>5
    <2> HIDE DEF u
    <2> QED BY <1>13, <2>1 DEF R
  <1> HIDE DEF u, v
  <1>18. CalendarInv(b)'
    <2>1. ASSUME NEW j \in Vis PROVE Clock(visbuffer'[j]) = Calendar(Number(b, j)')
      BY <1>3, <1>16, <1>17 DEF CalendarInv
    <2> QED BY <2>1 DEF CalendarInv
  <1>19. ResultsInv(b)'
    <2>1. ASSUME NEW j \in Vis, j # visindex
          PROVE  /\ IsFiniteSet(visbuffer'[j].results)
                 /\ visbuffer'[j].subints = Cardinality(visbuffer'[j].results)
                 /\ \A r \in visbuffer'[j].results : Placed(r, Number(b, j)')
                 /\ {r.num : r \in visbuffer'[j].results} = Answered' \cap Span(Number(b, j)')
      <3>1. visbuffer'[j] = visbuffer[j] /\ Number(b, j)' = Number(b, j)
        BY <1>16, <1>17, <2>1
      <3>2. /\ IsFiniteSet(visbuffer[j].results)
            /\ visbuffer[j].subints = Cardinality(visbuffer[j].results)
            /\ \A r \in visbuffer[j].results : Placed(r, Number(b, j))
            /\ {r.num : r \in visbuffer[j].results} = Answered \cap Span(Number(b, j))
        BY DEF DataInv, ResultsInv
      <3>3. Number(b, j) # g /\ Number(b, j) \in Nat
        BY <1>3, <1>5, <2>1, NumbersApart DEF g
      <3>4. num \notin Span(Number(b, j))
        BY <1>3, <1>6, <1>7, <3>3, SpanApart
      <3> HIDE DEF Span
      <3>5. Answered' \cap Span(Number(b, j)) = Answered \cap Span(Number(b, j))
        BY <1>9, <3>4
      <3> QED BY <3>1, <3>2, <3>5
    <2>2. ASSUME NEW j \in Vis, j = visindex
          PROVE  /\ IsFiniteSet(visbuffer'[j].results)
                 /\ visbuffer'[j].subints = Cardinality(visbuffer'[j].results)
                 /\ \A r \in visbuffer'[j].results : Placed(r, Number(b, j)')
                 /\ {r.num : r \in visbuffer'[j].results} = Answered' \cap Span(Number(b, j)')
      <3>1. Number(b, j)' = g
        BY <1>16, <2>2 DEF g
      <3>2. visbuffer'[j].results = R /\ visbuffer'[j].subints = v.subints + 1
        BY <1>17, <2>2
      <3> QED BY <1>15, <3>1, <3>2
    <2>3. ASSUME NEW j \in Vis
          PROVE  /\ IsFiniteSet(visbuffer'[j].results)
                 /\ visbuffer'[j].subints = Cardinality(visbuffer'[j].results)
                 /\ \A r \in visbuffer'[j].results : Placed(r, Number(b, j)')
                 /\ {r.num : r \in visbuffer'[j].results} = Answered' \cap Span(Number(b, j)')
      <3>1. CASE j = visindex
        BY <2>2, <3>1
      <3>2. CASE j # visindex
        BY <2>1, <3>2
      <3> QED BY <3>1, <3>2
    <2> QED BY <2>3 DEF ResultsInv
  <1>20. Before(g + 1) <= Before(b + VisBufferLength) /\ Before(g + 1) \in Nat
         /\ Before(b + VisBufferLength) \in Nat
    <2>1. g + 1 \in Nat /\ b + VisBufferLength \in Nat /\ g + 1 <= b + VisBufferLength
      BY <1>6, VisBufferLengthAssumption
    <2> QED BY <1>3, <2>1, BeforeGrows
  <1>21. ReachInv(b)'
    <2>1. num < Before(b + VisBufferLength)
      <3> HIDE DEF Before
      <3> QED BY <1>3, <1>4, <1>7, <1>20
    <2>2. \A n \in Answered' : n < Before(b + VisBufferLength)
      BY <1>9, <2>1 DEF DataInv, ReachInv
    <2> QED BY <2>2 DEF ReachInv
  <1>22. WrittenInv(b)'
    <2> DEFINE k == Outgoing(b)
    <2>1. wpc \in {"check", "lock", "write", "increment"} /\ flushed = 0
      BY <1>3 DEF Inv, EndInv, RingTypeOK, WriterPCs
    <2>2. k \in Nat /\ k <= g
      <3>1. CASE wpc = "increment"
        <4>1. ~InWindow(writesegment)
          BY <1>1, <1>3, <3>1, WindowNumbers
        <4>2. visindex # writesegment
          BY <1>5, <4>1
        <4>3. g # b
          BY <1>3, <1>5, <4>2, NumbersApart DEF g
        <4>4. k = b + 1
          BY <2>1, <3>1 DEF Outgoing
        <4> QED BY <1>6, <4>3, <4>4
      <3>2. CASE wpc # "increment"
        BY <1>6, <2>1, <3>2 DEF Outgoing
      <3> QED BY <3>1, <3>2
    <2>3. k' = k /\ WrittenNums' = WrittenNums
      BY <1>1 DEF WrittenNums, WrittenResults, Outgoing
    <2> HIDE DEF k
    <2>4. ~(num < Before(k))
      <3>1. Before(k) <= Before(g) /\ Before(k) \in Nat /\ Before(g) \in Nat
        BY <1>3, <1>6, <2>2, BeforeGrows
      <3> HIDE DEF Before
      <3> QED BY <1>3, <1>4, <1>7, <3>1
    <2>5. /\ \A n \in Answered : n < Before(k) => n \in WrittenNums
          /\ WrittenNums \subseteq Answered
          /\ \A j \in 1 .. Len(written) : Recorded(written[j], k)
      BY DEF DataInv, WrittenInv, k
    <2>6. /\ \A n \in Answered' : n < Before(k') => n \in WrittenNums'
          /\ WrittenNums' \subseteq Answered'
      BY <1>9, <2>3, <2>4, <2>5
    <2>7. \A j \in 1 .. Len(written') : Recorded(written'[j], k')
      BY <1>1, <2>3, <2>5
    <2> QED BY <2>6, <2>7 DEF WrittenInv, k
  <1>23. islocked[visindex]
    <2> SUFFICES ASSUME ~islocked[visindex] PROVE FALSE
      OBVIOUS
    <2>1. Span(Newest(b) - Ahead(visindex, newestlockedvis)) \subseteq Answered
      BY <1>3, <1>5 DEF WindowInv
    <2>2. g = Newest(b) - Ahead(visindex, newestlockedvis)
      BY <1>1, <1>3, <1>5, WindowNumbers DEF g
    <2> QED BY <1>3, <1>7, <2>1, <2>2
  <1>24. IsComplete(AddData(visbuffer[visindex], current.subint)) <=> Span(g) \subseteq Answered'
    <2>1. /\ Size(g) \in Nat /\ Cardinality(R) \in Nat
          /\ Cardinality(R) >= Size(g) <=> Span(g) \subseteq {r.num : r \in R}
      BY <1>3, <1>6, <1>15, Gathered
    <2>2. IsComplete(u) <=> v.subints + 1 >= Size(g)
      BY <1>13, <1>14 DEF IsComplete
    <2>3. u = AddData(visbuffer[visindex], current.subint)
      BY DEF u, v, s
    <2> HIDE DEF Span
    <2> QED BY <1>15, <2>1, <2>2, <2>3
  <1> QED BY <1>3, <1>5, <1>6, <1>7, <1>8, <1>9, <1>18, <1>19, <1>21, <1>22, <1>23, <1>24
          DEF g, num, s

\* The integration goes on, or is complete: then it is released, or kept if it is the newest.
LEMMA DeliverData ==
  ASSUME Fits, FxInv, HandsInv, NEW b \in Nat, DataInv(b), Deliver,
         visbuffer \in [Vis -> Visibilities]
  PROVE  DataInv(b)'
  <1> DEFINE num == current.subint.num
             i == visindex
             g == Number(b, i)
             N == Newest(b)
             e == newestlockedvis
             complete == IsComplete(AddData(visbuffer[i], current.subint))
  <1>1. /\ CalendarInv(b)' /\ ResultsInv(b)' /\ ReachInv(b)' /\ WrittenInv(b)'
        /\ Answered' = Answered \cup {num} /\ Taken = {num} /\ Taken' = {}
        /\ num \in Span(g) /\ num \notin Answered /\ g \in Nat /\ ~Over(g)
        /\ InWindow(i) /\ islocked[i]
        /\ complete <=> Span(g) \subseteq Answered'
    BY DeliverResults
  <1>2. /\ mpc = "deliver" /\ visindex' = i
        /\ UNCHANGED <<newestlockedvis, oldestlockedvis, keepwriting, wpc, writesegment, flushed>>
        /\ \/ /\ ~complete /\ mpc' = "ready" /\ islocked' = islocked
           \/ /\ complete /\ i = e /\ mpc' = "lockahead" /\ islocked' = islocked
           \/ /\ complete /\ i # e /\ islocked' = [islocked EXCEPT ![i] = FALSE]
              /\ mpc' = "ready" \/ (mpc' = "advance" /\ after' = "ready")
    <2> HIDE DEF complete
    <2> QED BY DEF Deliver, AddLast, AddIncomplete, Release, wvars, window, complete
  <1>3. Pending
    BY <1>2 DEF Pending
  <1>4. /\ keepwriting /\ RegularJob /\ Inv /\ RingTypeOK /\ WindowInv(b) /\ FrontInv(b)
        /\ N \in Nat /\ Oldest(b) \in Nat /\ num \in Nat
    BY <1>2, <1>3, Locating
  <1>5. i \in Vis /\ e \in Vis /\ writesegment \in Vis /\ islocked \in [Vis -> BOOLEAN]
    BY <1>4 DEF RingTypeOK
  <1>6. /\ g = N - Ahead(i, e) /\ g <= N
        /\ \A j \in Vis : InWindow(j) => Number(b, j) = N - Ahead(j, e)
    BY <1>1, <1>2, <1>4, <1>5, WindowNumbers
  <1>7. i = e => g = N
    BY DEF Newest
  <1>8. /\ Newest(b)' = N /\ Oldest(b)' = Oldest(b) /\ \A j : Number(b, j)' = Number(b, j)
        /\ \A j : InWindow(j)' <=> InWindow(j)
    BY <1>2 DEF Newest, Oldest, Number, WindowSize, InWindow
  <1>9. ASSUME NEW j \in Vis, j # i PROVE Number(b, j) \in Nat /\ num \notin Span(Number(b, j))
    <2>1. Number(b, j) # g /\ Number(b, j) \in Nat
      BY <1>4, <1>5, <1>9, NumbersApart
    <2> HIDE DEF g, num
    <2> QED BY <1>1, <1>4, <2>1, SpanApart
  <1> HIDE DEF complete, N, g
  <1>10. \A n \in Answered' : n < Before(Newest(b)' + 1)
    <2>1. num < Before(g + 1) /\ Before(g + 1) \in Nat
      <3>1. Span(g) = Before(g) .. Before(g + 1) - 1 /\ Before(g) \in Nat /\ Before(g + 1) \in Nat
        BY <1>1, <1>4, SpanIs
      <3> HIDE DEF Span, Before, num
      <3> QED BY <1>1, <3>1
    <2>2. Before(g + 1) <= Before(N + 1) /\ Before(N + 1) \in Nat
      <3>1. g + 1 \in Nat /\ N + 1 \in Nat /\ g + 1 <= N + 1
        BY <1>1, <1>4, <1>6
      <3> QED BY <1>4, <3>1, BeforeGrows
    <2>3. num < Before(N + 1)
      <3> HIDE DEF Before, num
      <3> QED BY <1>4, <2>1, <2>2
    <2>4. \A n \in Answered : n < Before(N + 1)
      BY <1>4 DEF WindowInv, N
    <2> QED BY <1>1, <1>8, <2>3, <2>4
  <1>11. Oldest(b)' \in Nat /\ \A n \in 0 .. Before(Oldest(b)') - 1 : n \in Answered'
    <2>1. \A n \in 0 .. Before(Oldest(b)) - 1 : n \in Answered
      BY <1>4 DEF WindowInv
    <2> QED BY <1>1, <1>4, <1>8, <2>1
  <1>12. ASSUME NEW j \in Vis, InWindow(j)', ~islocked'[j]
         PROVE  Span(Newest(b)' - Ahead(j, newestlockedvis')) \subseteq Answered'
    <2>1. Newest(b)' - Ahead(j, newestlockedvis') = N - Ahead(j, e) /\ InWindow(j)
      BY <1>2, <1>8, <1>12
    <2>2. CASE ~islocked[j]
      <3>1. Span(N - Ahead(j, e)) \subseteq Answered
        BY <1>4, <2>1, <2>2 DEF WindowInv, N
      <3> QED BY <1>1, <2>1, <3>1
    <2>3. CASE islocked[j]
      <3>1. j = i /\ complete
        BY <1>2, <1>5, <1>12, <2>3
      <3> QED BY <1>1, <1>6, <2>1, <3>1
    <2> QED BY <2>2, <2>3
  <1>13. ASSUME NEW j \in Vis, islocked'[j], ~(mpc' = "lockahead" /\ j = visindex')
         PROVE  Over(Number(b, j)') \/ \E n \in Span(Number(b, j)') : n \notin Answered'
    <2>1. CASE j = i
      <3>1. ~complete
        BY <1>2, <1>5, <1>13, <2>1
      <3>2. Number(b, j)' = g
        BY <1>8, <2>1 DEF g
      <3> QED BY <1>1, <3>1, <3>2
    <2>2. CASE j # i
      <3>1. islocked[j] /\ ~(mpc = "lockahead" /\ j = visindex)
        BY <1>2, <1>5, <1>13, <2>2
      <3>2. Over(Number(b, j)) \/ \E n \in Span(Number(b, j)) : n \notin Answered
        BY <1>4, <3>1 DEF WindowInv
      <3>3. num \notin Span(Number(b, j)) /\ Number(b, j)' = Number(b, j)
        BY <1>8, <1>9, <2>2
      <3> HIDE DEF num, Span, Over
      <3> QED BY <1>1, <3>2, <3>3
    <2> QED BY <2>1, <2>2
  <1>14. WindowInv(b)'
    BY <1>10, <1>11, <1>12, <1>13 DEF WindowInv
  <1>15. FrontInv(b)'
    <2>1. Answered' \cup Taken' = Answered \cup Taken
      BY <1>1
    <2> QED BY <1>4, <1>8, <2>1 DEF FrontInv, N
  <1>16. PlaceInv(b)'
    <2>1. mpc' = "lockahead" => Span(Newest(b)') \subseteq Answered' /\ ~Over(Newest(b)')
      BY <1>1, <1>2, <1>7, <1>8
    <2> QED BY <1>2, <2>1 DEF PlaceInv
  <1> QED BY <1>1, <1>14, <1>15, <1>16 DEF DataInv, OpenInv

-----------------------------------------------------------------------------
(* The write thread *)

\* What writedata writes of a buffer is all it has, and if it writes nothing it has nothing.
LEMMA WriteOutIs ==
  ASSUME Fits, FxInv, NEW b \in Nat, CalendarInv(b), ResultsInv(b), NEW i \in Vis, WriteOut(i),
         visbuffer \in [Vis -> Visibilities], written \in Seq(Records)
  PROVE  LET k == Number(b, i) IN
         /\ WrittenNums' = WrittenNums \cup (Answered \cap Span(k))
         /\ \A j \in 1 .. Len(written') :
              \/ j \in 1 .. Len(written) /\ written'[j] = written[j]
              \/ /\ written'[j].scan = Calendar(k).scan /\ written'[j].start = Calendar(k).start
                 /\ written'[j].results = visbuffer[i].results
                 /\ ~written'[j].atend => keepwriting
                 /\ ~Over(k)
  <1> DEFINE k == Number(b, i)
             v == visbuffer[i]
             w == [scan |-> v.scan, start |-> v.start, results |-> v.results, atend |-> ~keepwriting]
  <1>1. /\ v \in Visibilities /\ Clock(v) = Calendar(k) /\ RegularJob
        /\ IsFiniteSet(v.results) /\ v.subints = Cardinality(v.results)
        /\ \A s \in v.results : Placed(s, k)
        /\ {s.num : s \in v.results} = Answered \cap Span(k)
    BY DEF CalendarInv, ResultsInv, Fits
  <1>2. v.scan = Calendar(k).scan /\ v.start = Calendar(k).start
    <2> HIDE DEF v
    <2> QED BY <1>1, ClockIs
  <1>3. /\ v.scan = NumScans \/ Correlated(v.scan)
        /\ v.scan \in Nat /\ v.start \in Int /\ NumScans \in Nat
    BY <1>1, JobAssumption DEF Visibilities
  <1> HIDE DEF k, v
  <1>4. v.results # {} => Writes(v)
    <2> SUFFICES ASSUME NEW s \in v.results PROVE Writes(v)
      OBVIOUS
    <2>1. Placed(s, k)
      BY <1>1
    <2>2. /\ ~Over(k) /\ Coming(s.scan) /\ s.scan = Calendar(k).scan /\ s.time \in Nat
          /\ Calendar(k).start \in Nat
      BY <1>1, <2>1, PlaceIs
    <2>3. PICK j \in Nat : /\ s.time = Calendar(k).start + SubintLength * j
                           /\ SubintLength * j \in Nat
                           /\ s.time + SubintLength <= ScanDuration[s.scan]
      BY <1>1, <2>1, PlaceIs
    <2>4. /\ SubintLength \in Nat \ {0}
          /\ ScanStart[s.scan] + ScanDuration[s.scan] <= ExecuteSeconds
          /\ s.scan \in Scans
      BY <1>1, <2>2, RegularTimes DEF RegularJob, Coming, Correlated
    <2>5. ScanStart[s.scan] \in Int /\ ScanDuration[s.scan] \in Nat /\ ExecuteSeconds \in Int
      BY <2>4, JobAssumption
    <2> DEFINE p == SubintLength * j
    <2>6. s.time = v.start + p /\ p \in Nat /\ s.time + SubintLength <= ScanDuration[s.scan]
      BY <1>2, <2>3
    <2> HIDE DEF p
    <2>7. v.scan = s.scan /\ ScanStart[v.scan] + v.start < ExecuteSeconds
      <3>1. v.scan = s.scan
        BY <1>2, <2>2
      <3>2. v.start < ScanDuration[s.scan]
        BY <1>3, <2>4, <2>5, <2>6
      <3> QED BY <1>3, <2>4, <2>5, <3>1, <3>2
    <2>8. v.scan < NumScans
      <3>1. v.scan \in 0 .. NumScans - 1
        BY <2>4, <2>7 DEF Scans
      <3> QED BY <1>3, <3>1
    <2>9. v.subints > 0
      <3>1. Cardinality(v.results) \in Nat /\ Cardinality(v.results) # 0
        BY <1>1, FS_CardinalityType, FS_EmptySet
      <3> QED BY <1>1, <3>1
    <2> QED BY <2>7, <2>8, <2>9 DEF Writes
  <1>5. CASE Writes(v)
    <2>1. written' = Append(written, w)
      BY <1>5 DEF WriteOut, v
    <2> DEFINE n == Len(written)
    <2>2. /\ Len(written') = n + 1 /\ n \in Nat
          /\ \A j \in 1 .. n : written'[j] = written[j]
          /\ written'[n + 1] = w
      <3> HIDE DEF w
      <3> QED BY <2>1, AppendProperties, LenProperties
    <2>3. w.scan = v.scan /\ w.start = v.start /\ w.results = v.results /\ (~w.atend => keepwriting)
      BY DEF FxInv, Inv, RingTypeOK
    <2> HIDE DEF n, w
    <2>4. WrittenResults' = WrittenResults \cup v.results
      <3>1. WrittenResults' = UNION {written'[j].results : j \in 1 .. n + 1}
        BY <2>2 DEF WrittenResults
      <3>2. ASSUME NEW s PROVE s \in WrittenResults' <=> s \in WrittenResults \cup v.results
        <4>1. s \in WrittenResults' <=> \E j \in 1 .. n + 1 : s \in written'[j].results
          BY <3>1
        <4>2. s \in WrittenResults <=> \E j \in 1 .. n : s \in written[j].results
          BY DEF WrittenResults, n
        <4>3. \A j : j \in 1 .. n + 1 <=> j \in 1 .. n \/ j = n + 1
          BY <2>2
        <4> QED BY <2>2, <2>3, <4>1, <4>2, <4>3
      <3> QED BY <3>2
    <2>5. WrittenNums' = WrittenNums \cup (Answered \cap Span(k))
      <3>1. WrittenNums' = WrittenNums \cup {s.num : s \in v.results}
        BY <2>4 DEF WrittenNums
      <3> QED BY <1>1, <3>1
    <2>6. ~Over(k)
      BY <1>2, <1>3, <1>5 DEF Writes, Over
    <2>7. ASSUME NEW j \in 1 .. Len(written')
          PROVE  \/ j \in 1 .. n /\ written'[j] = written[j]
                 \/ /\ written'[j].scan = Calendar(k).scan /\ written'[j].start = Calendar(k).start
                    /\ written'[j].results = v.results
                    /\ ~written'[j].atend => keepwriting
                    /\ ~Over(k)
      <3>1. j \in 1 .. n \/ j = n + 1
        BY <2>2
      <3> QED BY <1>2, <2>2, <2>3, <2>6, <3>1
    <2> QED BY <2>5, <2>7 DEF k, n, v
  <1>6. CASE ~Writes(v)
    <2>1. written' = written /\ v.results = {}
      BY <1>4, <1>6 DEF WriteOut, v
    <2>2. WrittenNums' = WrittenNums /\ Answered \cap Span(k) = {}
      <3>1. {s.num : s \in v.results} = {}
        BY <2>1
      <3> QED BY <1>1, <2>1, <3>1 DEF WrittenNums, WrittenResults
    <2> QED BY <2>1, <2>2 DEF k
  <1> QED BY <1>5, <1>6

\* One more buffer was written, the next to be.
LEMMA WriteOutData ==
  ASSUME Fits, FxInv, NEW b \in Nat, DataInv(b), NEW i \in Vis, WriteOut(i),
         visbuffer \in [Vis -> Visibilities], written \in Seq(Records),
         Answered' = Answered,
         Number(b, i) = Outgoing(b), Outgoing(b)' = Number(b, i) + 1,
         keepwriting => Span(Number(b, i)) \subseteq Answered
  PROVE  WrittenInv(b)'
  <1> DEFINE k == Number(b, i)
  <1>1. /\ WrittenNums' = WrittenNums \cup (Answered \cap Span(k))
        /\ \A j \in 1 .. Len(written') :
              \/ j \in 1 .. Len(written) /\ written'[j] = written[j]
              \/ /\ written'[j].scan = Calendar(k).scan /\ written'[j].start = Calendar(k).start
                 /\ written'[j].results = visbuffer[i].results
                 /\ ~written'[j].atend => keepwriting
                 /\ ~Over(k)
    BY WriteOutIs DEF DataInv
  <1>2. /\ \A n \in Answered : n < Before(k) => n \in WrittenNums
        /\ WrittenNums \subseteq Answered
        /\ \A j \in 1 .. Len(written) : Recorded(written[j], k)
    BY DEF DataInv, WrittenInv
  <1>3. k \in Nat /\ RegularJob
    BY NumbersApart DEF FxInv, Inv, Fits
  <1>4. Outgoing(b)' = k + 1
    OBVIOUS
  <1>5. /\ \A r \in visbuffer[i].results : Placed(r, k)
        /\ {r.num : r \in visbuffer[i].results} = Answered \cap Span(k)
    BY DEF DataInv, ResultsInv
  <1> HIDE DEF k
  <1>6. \A n \in Answered : n < Before(k + 1) => n \in WrittenNums'
    <2> SUFFICES ASSUME NEW n \in Answered, n < Before(k + 1), n \notin WrittenNums
                 PROVE  n \in Span(k)
      BY <1>1
    <2>1. ~(n < Before(k))
      BY <1>2
    <2>2. n \in Nat
      BY DEF Answered
    <2>3. Span(k) = Before(k) .. Before(k + 1) - 1 /\ Before(k) \in Nat /\ Before(k + 1) \in Nat
      BY <1>3, SpanIs
    <2> HIDE DEF Before, Span
    <2> QED BY <2>1, <2>2, <2>3
  <1>7. WrittenNums' \subseteq Answered
    BY <1>1, <1>2
  <1>8. ASSUME NEW j \in 1 .. Len(written') PROVE Recorded(written'[j], k + 1)
    <2>1. CASE j \in 1 .. Len(written) /\ written'[j] = written[j]
      <3>1. \A l \in Nat : l < k => l < k + 1
        BY <1>3
      <3> QED BY <1>2, <2>1, <3>1 DEF Recorded
    <2>2. CASE /\ written'[j].scan = Calendar(k).scan /\ written'[j].start = Calendar(k).start
               /\ written'[j].results = visbuffer[i].results
               /\ ~written'[j].atend => keepwriting
               /\ ~Over(k)
      <3>1. PartOf(written'[j], k)
        BY <1>5, <2>2 DEF PartOf
      <3>2. ~written'[j].atend => Whole(written'[j], k)
        <4> SUFFICES ASSUME ~written'[j].atend
                     PROVE  Span(k) \subseteq {r.num : r \in written'[j].results}
          BY <3>1 DEF Whole
        <4>1. Span(k) \subseteq Answered
          BY <2>2 DEF k
        <4> HIDE DEF Span
        <4> QED BY <1>5, <2>2, <4>1
      <3>3. k < k + 1
        BY <1>3
      <3> QED BY <1>3, <3>1, <3>2, <3>3 DEF Recorded
    <2> QED BY <1>1, <2>1, <2>2
  <1> QED BY <1>4, <1>6, <1>7, <1>8 DEF WrittenInv

\* The write thread is at a buffer: the main thread has given it up, and its integration is whole.
LEMMA WholeIsWritten ==
  ASSUME Fits, FxInv, NEW b \in Nat, keepwriting, WindowInv(b), wpc = "write"
  PROVE  Span(b) \subseteq Answered
  <1> DEFINE N == Newest(b)
             O == Oldest(b)
             ws == writesegment
             e == newestlockedvis
             o == oldestlockedvis
  <1>1. Inv /\ RegularJob
    BY DEF FxInv, Fits
  <1>2. /\ N \in Nat /\ O \in Nat /\ N = O + WindowSize /\ ~islocked[ws]
        /\ ws \in Vis /\ e \in Vis /\ o \in Vis
    BY <1>1, WindowNumbers DEF WindowInv
  <1>3. N = b + Ahead(ws, e)
    BY DEF Newest, Number
  <1>4. CASE InWindow(ws)
    <2>1. Span(N - Ahead(ws, e)) \subseteq Answered
      BY <1>2, <1>4 DEF WindowInv
    <2>2. N - Ahead(ws, e) = b
      <3>1. Ahead(ws, e) \in Nat
        BY <1>2, AheadSum
      <3> HIDE DEF N
      <3> QED BY <1>3, <3>1
    <2> QED BY <2>1, <2>2
  <1>5. CASE ~InWindow(ws)
    <2>1. b + 1 <= O
      <3>1. Ahead(o, ws) > Ahead(o, e) /\ WindowSize = Ahead(o, e)
        <4>1. Ahead(o, ws) \in Nat /\ Ahead(o, e) \in Nat
          BY <1>2, AheadSum
        <4> QED BY <1>5, <4>1 DEF InWindow, WindowSize
      <3>2. Ahead(ws, e) > Ahead(o, e)
        <4>1. /\ Ahead(o, ws) = IF o <= ws THEN ws - o ELSE ws - o + VisBufferLength
              /\ Ahead(o, e) = IF o <= e THEN e - o ELSE e - o + VisBufferLength
              /\ Ahead(ws, e) = IF ws <= e THEN e - ws ELSE e - ws + VisBufferLength
              /\ VisBufferLength \in Nat /\ o \in Nat /\ ws \in Nat /\ e \in Nat
              /\ o < VisBufferLength /\ ws < VisBufferLength /\ e < VisBufferLength
          BY <1>2, RingArithmetic
        <4> HIDE DEF o, ws, e
        <4> QED BY <3>1, <4>1
      <3>3. Ahead(ws, e) \in Nat /\ Ahead(o, e) \in Nat
        BY <1>2, AheadSum
      <3> HIDE DEF N, O
      <3> QED BY <1>2, <1>3, <3>1, <3>2, <3>3
    <2>2. Before(b + 1) <= Before(O) /\ Before(b + 1) \in Nat /\ Before(O) \in Nat
      <3>1. b + 1 \in Nat
        OBVIOUS
      <3> QED BY <1>1, <1>2, <2>1, <3>1, BeforeGrows
    <2>3. Span(b) = Before(b) .. Before(b + 1) - 1 /\ Before(b) \in Nat
      BY <1>1, SpanIs
    <2>4. \A n \in 0 .. Before(O) - 1 : n \in Answered
      BY DEF WindowInv
    <2> HIDE DEF O, Before, Span
    <2> QED BY <2>2, <2>3, <2>4
  <1> QED BY <1>4, <1>5

\* A buffer is written.
LEMMA WriteData ==
  ASSUME Fits, FxInv, HandsInv, NEW b \in Nat, DataInv(b), Write,
         visbuffer \in [Vis -> Visibilities], written \in Seq(Records)
  PROVE  DataInv(b)'
  <1>1. /\ wpc = "write" /\ wpc' = "increment" /\ WriteOut(writesegment)
        /\ UNCHANGED <<window, keepwriting, mpc, after, visindex, writesegment, flushed>>
        /\ UNCHANGED <<inflight, sendcount, current, phase, sendscan, sendtime, inttime, left,
                       terminatenow, visbuffer>>
    BY DEF Write, WriterWrite, mvars, sendvars, corevars
  <1>2. Answered' = Answered /\ Taken' = Taken
    BY <1>1, QuietHands DEF FxInv, SendTypes, Pending, Ending
  <1>3. Inv /\ writesegment \in Vis /\ flushed \in Nat
    BY DEF FxInv, Inv, RingTypeOK
  <1>4. CalendarInv(b)' /\ ResultsInv(b)' /\ ReachInv(b)'
    BY <1>1, <1>2, KeepsResults DEF DataInv
  <1>5. WrittenInv(b)'
    <2>1. Number(b, writesegment) = b /\ flushed = 0
      BY <1>1, <1>3, NumbersApart DEF Inv, EndInv
    <2>2. Outgoing(b) = b /\ Outgoing(b)' = b + 1
      BY <1>1, <2>1 DEF Outgoing
    <2>3. keepwriting => Span(b) \subseteq Answered
      BY <1>1, WholeIsWritten DEF DataInv, OpenInv
    <2> QED BY <1>1, <1>2, <1>3, <2>1, <2>2, <2>3, WriteOutData
  <1>6. OpenInv(b)'
    <2> SUFFICES ASSUME keepwriting PROVE WindowInv(b)' /\ FrontInv(b)' /\ PlaceInv(b)'
      BY <1>1 DEF OpenInv
    <2>1. WindowInv(b) /\ FrontInv(b) /\ PlaceInv(b)
      BY DEF DataInv, OpenInv
    <2>2. WindowInv(b)' /\ Newest(b)' = Newest(b) /\ \A i : Number(b, i)' = Number(b, i)
      BY <1>1, <1>2, <2>1, KeepsWindow
    <2>3. FrontInv(b)'
      BY <1>2, <2>1, <2>2 DEF FrontInv
    <2>4. PlaceInv(b)'
      BY <1>1, <1>2, <2>1, <2>2 DEF PlaceInv
    <2> QED BY <2>2, <2>3, <2>4
  <1> QED BY <1>4, <1>5, <1>6 DEF DataInv

\* The flush takes the buffers in the order of their integrations.
LEMMA FlushIs ==
  ASSUME FxInv, NEW b \in Nat, flushed < VisBufferLength
  PROVE  LET i == (writesegment + flushed) % VisBufferLength IN
         i \in Vis /\ Number(b, i) = b + flushed
  <1> DEFINE i == (writesegment + flushed) % VisBufferLength
  <1>0. writesegment \in Vis /\ flushed \in Nat /\ flushed < VisBufferLength
    BY DEF FxInv, Inv, RingTypeOK
  <1>1. /\ writesegment \in Nat /\ writesegment < VisBufferLength /\ VisBufferLength \in Nat \ {0}
        /\ writesegment + flushed \in 0 .. 2 * VisBufferLength - 1
    BY <1>0, VisBufferLengthAssumption DEF Vis
  <1>2. i = IF writesegment + flushed < VisBufferLength THEN writesegment + flushed
            ELSE writesegment + flushed - VisBufferLength
    <2>1. PICK x \in 0 .. 2 * VisBufferLength - 1 : x = writesegment + flushed
      BY <1>1
    <2>2. x % VisBufferLength = IF x < VisBufferLength THEN x ELSE x - VisBufferLength
      BY <1>1, ModOnce
    <2>3. i = x % VisBufferLength
      BY <2>1
    <2> HIDE DEF i
    <2> QED BY <1>0, <1>1, <2>1, <2>2, <2>3
  <1> HIDE DEF i
  <1>3. i \in Vis
    BY <1>0, <1>1, <1>2 DEF Vis
  <1>4. Ahead(writesegment, i) = IF writesegment <= i THEN i - writesegment
                                 ELSE i - writesegment + VisBufferLength
    BY <1>0, <1>3, RingArithmetic
  <1>5. Ahead(writesegment, i) = flushed
    BY <1>0, <1>1, <1>2, <1>4
  <1>6. i \in Vis /\ Number(b, i) = b + flushed
    BY <1>3, <1>5 DEF Number
  <1> QED BY <1>6 DEF i

\* The flush goes on with the buffer after.
LEMMA FlushData ==
  ASSUME Fits, FxInv, HandsInv, NEW b \in Nat, DataInv(b), Flush,
         visbuffer \in [Vis -> Visibilities], written \in Seq(Records)
  PROVE  DataInv(b)'
  <1> DEFINE i == (writesegment + flushed) % VisBufferLength
  <1>1. /\ wpc = "flush" /\ wpc' \in {"flush", "done"} /\ flushed' = flushed + 1 /\ WriteOut(i)
        /\ UNCHANGED <<window, keepwriting, mpc, after, visindex, writesegment>>
        /\ UNCHANGED <<inflight, sendcount, current, phase, sendscan, sendtime, inttime, left,
                       terminatenow, visbuffer>>
    BY DEF Flush, WriterFlush, mvars, sendvars, corevars
  <1>2. Answered' = Answered /\ Taken' = Taken
    BY <1>1, QuietHands DEF FxInv, SendTypes, Pending, Ending
  <1>3. /\ Inv /\ writesegment \in Vis /\ flushed \in Nat /\ flushed < VisBufferLength
        /\ ~keepwriting
    BY <1>1 DEF FxInv, Inv, RingTypeOK, EndInv
  <1>4. CalendarInv(b)' /\ ResultsInv(b)' /\ ReachInv(b)'
    BY <1>1, <1>2, KeepsResults DEF DataInv
  <1>5. i \in Vis /\ Number(b, i) = b + flushed
    BY <1>3, FlushIs
  <1> HIDE DEF i
  <1>6. WrittenInv(b)'
    <2>1. Outgoing(b) = b + flushed /\ Outgoing(b)' = b + flushed + 1
      BY <1>1, <1>3 DEF Outgoing
    <2> QED BY <1>1, <1>2, <1>3, <1>5, <2>1, WriteOutData
  <1>7. OpenInv(b)'
    BY <1>1, <1>3 DEF OpenInv
  <1> QED BY <1>4, <1>6, <1>7 DEF DataInv

\* A Visibility whose time comes again later has nothing.
LEMMA RecycledIs ==
  ASSUME RegularJob, FxInv, NEW b \in Nat, CalendarInv(b), ResultsInv(b),
         visbuffer \in [Vis -> Visibilities]
  PROVE  LET u == Increment(visbuffer[writesegment], VisBufferLength) IN
         /\ Clock(u) = Calendar(b + VisBufferLength)
         /\ u.results = {} /\ u.subints = 0
  <1> DEFINE v == visbuffer[writesegment]
             c == Clock(v)
             V == VisBufferLength
             u == Increment(v, V)
  <1>1. writesegment \in Vis /\ V \in Nat /\ Inv
    BY VisBufferLengthAssumption DEF FxInv, Inv, RingTypeOK
  <1>2. Number(b, writesegment) = b
    BY <1>1, NumbersApart DEF Inv
  <1>3. v \in Visibilities /\ c = Calendar(b)
    BY <1>1, <1>2 DEF CalendarInv
  <1>4. /\ IsFiniteSet(v.results) /\ v.subints = Cardinality(v.results)
        /\ \A s \in v.results : Placed(s, b)
    BY <1>1, <1>2 DEF ResultsInv
  <1>5. v \in [scan : Nat, start : Int, config : Configs, offset : Int, expected : Int,
               subints : Nat, results : SUBSET Subints]
        /\ (v.scan = NumScans \/ Correlated(v.scan))
    BY <1>3 DEF Visibilities
  <1>6. Calendar(b + V) = UpdateTimes(c, V)
    BY <1>1, <1>3, CalendarLater
  <1>7. /\ c \in Visibilities /\ c.scan = v.scan
    BY <1>3, ClockIs
  <1>8. /\ UpdateTimes(c, V) \in Visibilities
        /\ Clock(UpdateTimes(c, V)) = UpdateTimes(Clock(c), V)
        /\ c.scan >= NumScans => UpdateTimes(c, V) = c
    BY <1>1, <1>7, UpdateTimesKeep
  <1> HIDE DEF v, V
  <1>9. Clock(c) = c
    BY <1>5 DEF Clock
  <1>10. u = IF v.scan >= NumScans THEN v ELSE UpdateTimes(c, V)
    BY DEF Increment, Clock
  <1> HIDE DEF c, u
  <1>11. CASE v.scan >= NumScans
    <2>1. v.scan = NumScans
      <3>1. NumScans \in Nat /\ (Correlated(v.scan) => v.scan < NumScans)
        BY JobAssumption DEF Correlated, Scans
      <3> QED BY <1>5, <1>11, <3>1
    <2>2. v.results = {}
      <3> SUFFICES ASSUME NEW s \in v.results PROVE FALSE
        OBVIOUS
      <3>1. ~Over(b)
        BY <1>4 DEF Placed
      <3>2. Calendar(b).scan = NumScans
        BY <1>3, <1>7, <2>1 DEF c
      <3> QED BY <3>1, <3>2 DEF Over
    <2>3. v.subints = 0
      BY <1>4, <2>2, FS_EmptySet
    <2>4. Clock(u) = UpdateTimes(c, V)
      BY <1>7, <1>8, <1>10, <1>11 DEF c
    <2> QED BY <1>6, <1>10, <1>11, <2>2, <2>3, <2>4 DEF u, v, V
  <1>12. CASE ~(v.scan >= NumScans)
    <2>1. u = UpdateTimes(c, V) /\ u \in Visibilities
      BY <1>8, <1>10, <1>12
    <2>2. Clock(u) = u
      BY <1>8, <1>9, <2>1
    <2>3. Clock(u).results = {} /\ Clock(u).subints = 0
      <3>1. u \in [scan : Nat, start : Int, config : Configs, offset : Int, expected : Int,
                   subints : Nat, results : SUBSET Subints]
        BY <2>1 DEF Visibilities
      <3> QED BY <3>1 DEF Clock
    <2> QED BY <1>6, <2>1, <2>2, <2>3 DEF u, v, V
  <1> QED BY <1>11, <1>12

\* The write thread goes on to the next buffer, and the one it was at is for
\* the integration a turn of the ring later, of which nothing is in yet.
LEMMA RecycleData ==
  ASSUME Fits, FxInv, HandsInv, NEW b \in Nat, DataInv(b), Recycle,
         visbuffer \in [Vis -> Visibilities]
  PROVE  DataInv(b + 1)'
  <1> DEFINE V == VisBufferLength
             ws == writesegment
             u == Increment(visbuffer[ws], V)
             N == Newest(b)
  <1>1. /\ wpc = "increment" /\ wpc' = "check" /\ writesegment' = Succ(ws)
        /\ visbuffer' = [visbuffer EXCEPT ![ws] = u]
        /\ UNCHANGED <<window, keepwriting, mpc, after, visindex, flushed, written>>
        /\ UNCHANGED <<inflight, sendcount, current, phase, sendscan, sendtime, inttime, left,
                       terminatenow>>
    BY DEF Recycle, WriterIncrement, mvars, sendvars, corevars
  <1>2. Answered' = Answered /\ Taken' = Taken
    BY <1>1, QuietHands DEF FxInv, SendTypes, Pending, Ending
  <1>3. /\ Inv /\ RingTypeOK /\ RegularJob /\ ws \in Vis /\ V \in Nat /\ V >= 4 /\ flushed = 0
    BY <1>1, VisBufferLengthAssumption DEF FxInv, Inv, RingTypeOK, EndInv, Fits
  <1>4. CalendarInv(b) /\ ResultsInv(b) /\ ReachInv(b) /\ WrittenInv(b)
    BY DEF DataInv
  <1>5. Clock(u) = Calendar(b + V) /\ u.results = {} /\ u.subints = 0
    BY <1>3, <1>4, RecycledIs
  <1> HIDE DEF u
  <1>6. \A j \in Vis : /\ j # ws => Number(b + 1, j)' = Number(b, j)
                       /\ j = ws => Number(b + 1, j)' = b + V
    <2> SUFFICES ASSUME NEW j \in Vis
                 PROVE  /\ j # ws => Number(b + 1, j)' = Number(b, j)
                        /\ j = ws => Number(b + 1, j)' = b + V
      OBVIOUS
    <2>1. Number(b + 1, j)' = b + 1 + Ahead(Succ(ws), j)
      BY <1>1 DEF Number
    <2>2. CASE j # ws
      <3>1. Ahead(ws, j) \in Nat /\ Ahead(Succ(ws), j) = Ahead(ws, j) - 1
        BY <1>3, <2>2, AheadMoves
      <3>2. b + 1 + Ahead(Succ(ws), j) = b + Ahead(ws, j)
        BY <3>1
      <3> QED BY <2>1, <2>2, <3>2 DEF Number
    <2>3. CASE j = ws
      <3>1. Ahead(Succ(ws), ws) = V - 1
        <4>1. /\ Succ(ws) = IF ws = V - 1 THEN 0 ELSE ws + 1
              /\ Succ(ws) \in Vis
              /\ ws \in Nat /\ ws < V
          BY <1>3, RingArithmetic
        <4>2. Ahead(Succ(ws), ws) = IF Succ(ws) <= ws THEN ws - Succ(ws) ELSE ws - Succ(ws) + V
          BY <1>3, <4>1, RingArithmetic
        <4> HIDE DEF V, ws
        <4> QED BY <1>3, <4>1, <4>2
      <3>2. b + 1 + Ahead(Succ(ws), j) = b + V
        BY <1>3, <2>3, <3>1
      <3> QED BY <2>1, <2>3, <3>2
    <2> QED BY <2>2, <2>3
  <1>7. \A j \in Vis : visbuffer'[j] = IF j = ws THEN u ELSE visbuffer[j]
    BY <1>1, <1>3
  <1>8. CalendarInv(b + 1)'
    <2>1. ASSUME NEW j \in Vis PROVE Clock(visbuffer'[j]) = Calendar(Number(b + 1, j)')
      BY <1>4, <1>5, <1>6, <1>7 DEF CalendarInv
    <2> QED BY <2>1 DEF CalendarInv
  <1>9. Before(b + V) <= Before(b + 1 + V) /\ Before(b + V) \in Nat /\ Before(b + 1 + V) \in Nat
    <2>1. b + V \in Nat /\ b + 1 + V \in Nat /\ b + V <= b + 1 + V
      BY <1>3
    <2> QED BY <1>3, <2>1, BeforeGrows
  <1>10. \A n \in Answered : n \in Nat /\ n < Before(b + V)
    BY <1>4 DEF ReachInv, Answered
  <1>11. ReachInv(b + 1)'
    <2>1. \A n \in Answered : n < Before(b + 1 + V)
      <3> HIDE DEF Before
      <3> QED BY <1>9, <1>10
    <2> QED BY <1>2, <2>1 DEF ReachInv
  <1>12. ResultsInv(b + 1)'
    <2>1. ASSUME NEW j \in Vis
          PROVE  /\ IsFiniteSet(visbuffer'[j].results)
                 /\ visbuffer'[j].subints = Cardinality(visbuffer'[j].results)
                 /\ \A r \in visbuffer'[j].results : Placed(r, Number(b + 1, j)')
                 /\ {r.num : r \in visbuffer'[j].results} = Answered' \cap Span(Number(b + 1, j)')
      <3>1. CASE j # ws
        <4>1. visbuffer'[j] = visbuffer[j] /\ Number(b + 1, j)' = Number(b, j)
          BY <1>6, <1>7, <3>1
        <4> QED BY <1>2, <1>4, <4>1 DEF ResultsInv
      <3>2. CASE j = ws
        <4>1. visbuffer'[j].results = {} /\ visbuffer'[j].subints = 0 /\ Number(b + 1, j)' = b + V
          BY <1>5, <1>6, <1>7, <3>2
        <4>2. Answered \cap Span(b + V) = {}
          <5>1. Span(b + V) = Before(b + V) .. Before(b + V + 1) - 1
            BY DEF Span
          <5>2. Before(b + V + 1) \in Nat
            <6>1. b + V \in Nat
              BY <1>3
            <6> QED BY <1>3, <6>1, SpanIs
          <5> HIDE DEF Before, Span
          <5> QED BY <1>9, <1>10, <5>1, <5>2
        <4>3. IsFiniteSet({}) /\ Cardinality({}) = 0
          BY FS_EmptySet
        <4> QED BY <1>2, <4>1, <4>2, <4>3
      <3> QED BY <3>1, <3>2
    <2> QED BY <2>1 DEF ResultsInv
  <1>13. WrittenInv(b + 1)'
    <2>1. Outgoing(b) = b + 1 /\ Outgoing(b + 1)' = b + 1
      BY <1>1, <1>3 DEF Outgoing
    <2>2. WrittenNums' = WrittenNums
      BY <1>1 DEF WrittenNums, WrittenResults
    <2> QED BY <1>1, <1>2, <1>4, <2>1, <2>2 DEF WrittenInv
  <1>14. ASSUME keepwriting PROVE WindowInv(b + 1)' /\ FrontInv(b + 1)' /\ PlaceInv(b + 1)'
    <2>1. WindowInv(b) /\ FrontInv(b) /\ PlaceInv(b)
      BY <1>14 DEF DataInv, OpenInv
    <2>2. /\ ~islocked[ws] /\ islocked[newestlockedvis] /\ newestlockedvis \in Vis
          /\ mpc # "advance" => ~InWindow(ws)
      BY <1>1, <1>3, <1>14, WindowNumbers
    <2>3. Newest(b + 1)' = N
      <3>1. newestlockedvis # ws
        BY <2>2
      <3>2. PICK j \in Vis : j = newestlockedvis
        BY <2>2
      <3>3. Number(b + 1, j)' = Number(b, j)
        BY <1>6, <3>1, <3>2
      <3>4. newestlockedvis' = j
        BY <1>1, <3>2 DEF window
      <3> QED BY <3>2, <3>3, <3>4 DEF Newest, Number
    <2>4. /\ WindowSize' = WindowSize /\ \A j : InWindow(j)' <=> InWindow(j)
          /\ UNCHANGED <<islocked, newestlockedvis>>
      BY <1>1 DEF window, WindowSize, InWindow
    <2>5. Oldest(b + 1)' = Oldest(b)
      BY <2>3, <2>4 DEF Oldest
    <2>6. WindowInv(b + 1)'
      <3>1. \A j \in Vis : islocked'[j] /\ ~(mpc' = "lockahead" /\ j = visindex') =>
              Over(Number(b + 1, j)') \/ \E n \in Span(Number(b + 1, j)') : n \notin Answered'
        <4> SUFFICES ASSUME NEW j \in Vis, islocked[j], ~(mpc = "lockahead" /\ j = visindex)
                     PROVE  Over(Number(b + 1, j)') \/ \E n \in Span(Number(b + 1, j)') : n \notin Answered
          BY <1>1, <1>2, <2>4
        <4>1. Number(b + 1, j)' = Number(b, j)
          BY <1>6, <2>2
        <4> QED BY <2>1, <4>1 DEF WindowInv
      <3>2. /\ Oldest(b + 1)' \in Nat
            /\ \A n \in Answered' : n < Before(Newest(b + 1)' + 1)
            /\ \A n \in 0 .. Before(Oldest(b + 1)') - 1 : n \in Answered'
        BY <1>2, <2>1, <2>3, <2>5 DEF WindowInv
      <3>3. \A j \in Vis : InWindow(j)' /\ ~islocked'[j] =>
              Span(Newest(b + 1)' - Ahead(j, newestlockedvis')) \subseteq Answered'
        BY <1>2, <2>1, <2>3, <2>4 DEF WindowInv
      <3> QED BY <3>1, <3>2, <3>3 DEF WindowInv
    <2>7. FrontInv(b + 1)'
      BY <1>2, <2>1, <2>3 DEF FrontInv
    <2>8. PlaceInv(b + 1)'
      <3>1. mpc = "deliver" => current.subint.num \in Span(Number(b + 1, visindex)')
        <4> SUFFICES ASSUME mpc = "deliver"
                     PROVE  current.subint.num \in Span(Number(b + 1, visindex)')
          OBVIOUS
        <4>1. visindex \in Vis /\ InWindow(visindex) /\ ~InWindow(ws)
          BY <1>3, <1>14, <2>2 DEF Inv, RingTypeOK, ChosenInv
        <4>2. PICK j \in Vis : j = visindex
          BY <4>1
        <4>3. Number(b + 1, j)' = Number(b, j)
          BY <1>6, <4>1, <4>2
        <4>4. Number(b + 1, visindex)' = Number(b, visindex)
          BY <1>1, <4>2, <4>3 DEF Number
        <4> QED BY <2>1, <4>4 DEF PlaceInv
      <3> QED BY <1>1, <1>2, <2>1, <2>3, <3>1 DEF PlaceInv
    <2> QED BY <2>6, <2>7, <2>8
  <1> QED BY <1>1, <1>8, <1>11, <1>12, <1>13, <1>14 DEF DataInv, OpenInv

-----------------------------------------------------------------------------
(* The invariant *)

\* The main thread is done only after the write thread, which is done after a whole flush.
LEMMA DoneStep ==
  ASSUME DoneInv, Inv, [FxNext]_vars
  PROVE  DoneInv'
  <1>1. [RingNext]_ringvars
    BY RingStep
  <1>2. CASE RingManager
    <2>1. UNCHANGED <<wpc, flushed>>
      BY <1>2 DEF RingManager, BeginLocate, AdvanceOldest, FoundInWindow, StaleResult, BeyondWindow,
                  LockMore, DropOldest, StopDropping, LockDropped, AddIncomplete, AddLast, LockAhead,
                  StopWriting, LastUnlock, JoinWriter, wvars
    <2>2. mpc' = "done" => wpc = "done"
      <3>1. after \in {"ready", "locate", "lockdropped"}
        BY DEF Inv, RingTypeOK
      <3> QED BY <1>2, <3>1 DEF RingManager, BeginLocate, AbandonOldest, AdvanceOldest, FoundInWindow,
                  StaleResult, BeyondWindow, LockMore, DropOldest, StopDropping, LockDropped,
                  AddIncomplete, AddLast, LockAhead, Release, StopWriting, LastUnlock, JoinWriter
    <2> QED BY <2>1, <2>2 DEF DoneInv
  <1>3. CASE RingWriter
    <2>1. wpc # "done" /\ mpc' = mpc
      BY <1>3 DEF RingWriter, WriterCheck, WriterLock, WriterWrite, WriterIncrement, WriterFlush, mvars
    <2>2. wpc' = "done" => flushed' = VisBufferLength
      BY <1>3 DEF RingWriter, WriterCheck, WriterLock, WriterWrite, WriterIncrement, WriterFlush
    <2> QED BY <2>1, <2>2 DEF DoneInv
  <1>4. CASE RingDone \/ UNCHANGED ringvars
    BY <1>4 DEF RingDone, ringvars, mvars, wvars, DoneInv
  <1> QED BY <1>1, <1>2, <1>3, <1>4 DEF RingNext

\* The steps of the main thread at the window send nothing and take nothing.
LEMMA WindowStepQuiet ==
  ASSUME FxInv, NEW b \in Nat, DataInv(b),
         LocateFound \/ LocateBeyond \/ Extend \/ Advance \/ LockNextAhead
  PROVE  /\ UNCHANGED <<inflight, sendcount, current, phase, sendscan, sendtime, inttime, left,
                       terminatenow, visbuffer, written, ignored>>
         /\ terminatenow \in BOOLEAN
         /\ (Pending' <=> Pending) /\ ~Ending'
  <1>1. /\ UNCHANGED <<inflight, sendcount, current, phase, sendscan, sendtime, inttime, left,
                       terminatenow, visbuffer, written, ignored>>
        /\ terminatenow \in BOOLEAN
    BY DEF LocateFound, LocateBeyond, Extend, Advance, LockNextAhead, fxvars, sendvars, corevars,
           FxInv, SendTypes
  <1>2. (Pending' <=> Pending) /\ ~Ending'
    <2>1. CASE LocateFound
      BY <2>1 DEF LocateFound, FoundInWindow, Pending, Ending
    <2>2. CASE LocateBeyond
      BY <2>2 DEF LocateBeyond, BeyondWindow, Pending, Ending
    <2>3. CASE Extend
      BY <2>3 DEF Extend, LockMore, Pending, Ending
    <2>4. CASE Advance
      <3>1. mpc = "advance" /\ after' = after /\ mpc' \in {"advance", after}
        BY <2>4 DEF Advance, AdvanceOldest
      <3>2. after = "ready"
        BY <3>1 DEF DataInv, OpenInv, PlaceInv, FxInv, Inv, EndInv
      <3> QED BY <3>1, <3>2 DEF Pending, Ending
    <2>5. CASE LockNextAhead
      BY <2>5 DEF LockNextAhead, LockAhead, Release, Pending, Ending
    <2> QED BY <2>1, <2>2, <2>3, <2>4, <2>5
  <1> QED BY <1>1, <1>2

\* So all that is in hand stays there.
LEMMA WindowStepHands ==
  ASSUME Fits, FxInv, HandsInv, NEW b \in Nat, DataInv(b),
         LocateFound \/ LocateBeyond \/ Extend \/ Advance \/ LockNextAhead
  PROVE  HandsInv'
  <1> QED BY WindowStepQuiet, QuietHands

\* The steps before and after the main thread's work on a result.
LEMMA SendingStep ==
  ASSUME Fits, FxInv, HandsInv, NEW b \in Nat, DataInv(b),
         visbuffer \in [Vis -> Visibilities],
         Fill \/ NextScan \/ (\E c \in Cores : Receive(c)) \/ Deliver
  PROVE  HandsInv' /\ DataInv(b)'
  <1>0. RegularJob
    BY DEF Fits
  <1>1. CASE Fill
    <2>1. HandsInv' /\ Answered' = Answered /\ Taken' = {} /\ Taken = {}
      BY <1>0, <1>1, FillHands DEF Taken
    <2>2. UNCHANGED <<ringvars, visbuffer, written, current>>
      BY <1>1 DEF Fill
    <2>3. DataInv(b)'
      BY <2>1, <2>2, QuietData DEF ringvars, mvars, wvars
    <2> QED BY <2>1, <2>3
  <1>2. CASE NextScan
    <2>1. HandsInv' /\ Answered' = Answered /\ Taken' = Taken
      BY <1>0, <1>2, NextScanHands
    <2>2. UNCHANGED <<ringvars, visbuffer, written, current>>
      BY <1>2 DEF NextScan
    <2>3. DataInv(b)'
      BY <2>1, <2>2, QuietData DEF ringvars, mvars, wvars
    <2> QED BY <2>1, <2>3
  <1>3. ASSUME NEW c \in Cores, Receive(c) PROVE HandsInv' /\ DataInv(b)'
    BY <1>0, <1>3, TakeHands, ReceiveData
  <1>4. CASE Deliver
    <2>1. /\ mpc = "deliver" /\ SendMore
          /\ mpc' \in {"ready", "lockahead"} \/ (mpc' = "advance" /\ after' = "ready")
          /\ UNCHANGED <<phase, sendscan, inttime, terminatenow, left, current>>
      BY <1>4 DEF Deliver, AddLast, AddIncomplete, Release
    <2>2. Pending /\ ~Pending' /\ ~Ending'
      BY <2>1 DEF Pending, Ending
    <2>3. HandsInv'
      BY <1>0, <2>1, <2>2, GiveHands
    <2> QED BY <1>4, <2>3, DeliverData
  <1> QED BY <1>1, <1>2, <1>3, <1>4

\* The end of the main thread, the write thread between its buffers, and the
\* rest touch no data.
LEMMA QuietStepIs ==
  ASSUME FxInv,
         \/ Finish \/ Unlock \/ Join \/ CheckWriting \/ LockWriting
         \/ Interrupt \/ Done \/ UNCHANGED vars
  PROVE  /\ UNCHANGED <<inflight, sendcount, current, phase, sendscan, sendtime, inttime, left>>
         /\ UNCHANGED <<window, visbuffer, writesegment, written, flushed, ignored>>
         /\ terminatenow \in BOOLEAN /\ (terminatenow => terminatenow')
         /\ Pending' <=> Pending
         /\ Ending' => Ending \/ (phase = "drain" /\ left = 0)
         /\ wpc' = "increment" <=> wpc = "increment"
         /\ keepwriting' => keepwriting /\ UNCHANGED <<mpc, visindex, after>>
  <1>1. /\ UNCHANGED <<inflight, sendcount, current, phase, sendscan, sendtime, inttime, left>>
        /\ UNCHANGED <<window, visbuffer, writesegment, written, flushed, ignored>>
        /\ terminatenow \in BOOLEAN /\ (terminatenow => terminatenow')
    BY DEF Finish, Unlock, Join, CheckWriting, LockWriting, Interrupt, Done, StopWriting, LastUnlock,
           JoinWriter, WriterCheck, WriterLock, RingDone, vars, ringvars, mvars, wvars, fxvars,
           sendvars, corevars, FxInv, SendTypes, window
  <1>2. /\ Pending' <=> Pending
        /\ Ending' => Ending \/ (phase = "drain" /\ left = 0)
        /\ wpc' = "increment" <=> wpc = "increment"
        /\ keepwriting' => keepwriting /\ UNCHANGED <<mpc, visindex, after>>
    <2>1. CASE Finish
      BY <2>1 DEF Finish, StopWriting, wvars, Pending, Ending
    <2>2. CASE Unlock
      <3>1. ~keepwriting
        BY <2>2 DEF Unlock, LastUnlock, FxInv, Inv, EndInv
      <3> QED BY <2>2, <3>1 DEF Unlock, LastUnlock, wvars, Pending, Ending
    <2>3. CASE Join
      <3>1. ~keepwriting
        BY <2>3 DEF Join, JoinWriter, FxInv, Inv, EndInv
      <3> QED BY <2>3, <3>1 DEF Join, JoinWriter, wvars, Pending, Ending
    <2>4. CASE CheckWriting \/ LockWriting
      BY <2>4 DEF CheckWriting, LockWriting, WriterCheck, WriterLock, mvars, Pending, Ending
    <2>5. CASE Interrupt \/ Done \/ UNCHANGED vars
      BY <2>5 DEF Interrupt, Done, RingDone, vars, ringvars, mvars, wvars, Pending, Ending
    <2> QED BY <2>1, <2>2, <2>3, <2>4, <2>5
  <1> QED BY <1>1, <1>2

\* So they keep the invariant.
LEMMA QuietStep ==
  ASSUME Fits, FxInv, HandsInv, NEW b \in Nat, DataInv(b),
         \/ Finish \/ Unlock \/ Join \/ CheckWriting \/ LockWriting
         \/ Interrupt \/ Done \/ UNCHANGED vars
  PROVE  HandsInv' /\ DataInv(b)'
  <1>1. HandsInv' /\ Answered' = Answered /\ Taken' = Taken
    BY QuietStepIs, QuietHands
  <1>2. DataInv(b)'
    BY <1>1, QuietStepIs, QuietData
  <1> QED BY <1>1, <1>2

\* Nothing is ever dropped.
LEMMA NeverDropping ==
  ASSUME FxInv, NEW b \in Nat, DataInv(b)
  PROVE  ~Drop /\ ~DropNoMore /\ ~ExtendDropped
  <1>1. mpc \notin {"dropping", "lockdropped"}
    BY DEF DataInv, OpenInv, PlaceInv, FxInv, Inv, EndInv
  <1> QED BY <1>1 DEF Drop, DropNoMore, ExtendDropped, DropOldest, StopDropping, LockDropped

\* Every step keeps the invariant.
LEMMA GatherStep == Fits /\ FxInv /\ OutInv /\ GatherInv /\ [FxNext]_vars => GatherInv'
  <1> SUFFICES ASSUME Fits, FxInv, OutInv, GatherInv, [FxNext]_vars PROVE GatherInv'
    OBVIOUS
  <1>1. HandsInv /\ DoneInv
    BY DEF GatherInv
  <1>2. PICK b \in Nat : DataInv(b)
    BY DEF GatherInv
  <1>3. DoneInv'
    BY <1>1, DoneStep DEF FxInv
  <1>4. visbuffer \in [Vis -> Visibilities] /\ written \in Seq(Records)
    BY DEF OutInv
  <1>5. ASSUME HandsInv', DataInv(b)' PROVE GatherInv'
    BY <1>3, <1>5 DEF GatherInv
  <1>6. CASE Fill \/ NextScan \/ (\E c \in Cores : Receive(c)) \/ Deliver
    BY <1>1, <1>2, <1>4, <1>5, <1>6, SendingStep
  <1>7. CASE LocateFound \/ LocateBeyond \/ Extend \/ Advance \/ LockNextAhead
    <2>1. HandsInv'
      BY <1>1, <1>2, <1>7, WindowStepHands
    <2>2. DataInv(b)'
      BY <1>1, <1>2, <1>4, <1>7, FoundData, BeyondData, ExtendData, AdvanceData, LockAheadData
    <2> QED BY <1>5, <2>1, <2>2
  <1>8. CASE LocateStale
    BY <1>1, <1>2, <1>4, <1>8, NotStale
  <1>9. CASE Drop \/ DropNoMore \/ ExtendDropped
    BY <1>2, <1>9, NeverDropping
  <1>10. CASE \/ Finish \/ Unlock \/ Join \/ CheckWriting \/ LockWriting
              \/ Interrupt \/ Done \/ UNCHANGED vars
    BY <1>1, <1>2, <1>5, <1>10, QuietStep
  <1>11. CASE Write \/ Flush \/ Recycle
    <2>1. HandsInv'
      <3>1. /\ UNCHANGED <<inflight, sendcount, current, phase, sendscan, sendtime, inttime, left,
                           terminatenow, mpc, after>>
            /\ terminatenow \in BOOLEAN
        BY <1>11 DEF Write, Flush, Recycle, WriterWrite, WriterFlush, WriterIncrement, mvars,
                     sendvars, corevars, FxInv, SendTypes
      <3> QED BY <1>1, <3>1, QuietHands DEF Pending, Ending
    <2>2. CASE Write \/ Flush
      BY <1>1, <1>2, <1>4, <1>5, <2>1, <2>2, WriteData, FlushData
    <2>3. CASE Recycle
      <3>1. DataInv(b + 1)' /\ b + 1 \in Nat
        BY <1>1, <1>2, <1>4, <2>3, RecycleData
      <3>2. (\E k \in Nat : DataInv(k))'
        BY <3>1
      <3> QED BY <1>3, <2>1, <3>2 DEF GatherInv
    <2> QED BY <1>11, <2>2, <2>3
  <1> QED BY <1>6, <1>7, <1>8, <1>9, <1>10, <1>11 DEF FxNext, Manager, Writer

\* At the start nothing is in hand, ...
LEMMA InitHands == ASSUME Fits, FxInit PROVE HandsInv /\ Going(0) /\ Answered = {} /\ Taken = {}
  <1> USE DEF FxInit
  <1>0. RegularJob
    BY DEF Fits
  <1>1. ~Pending /\ Taken = {}
    BY DEF RingInit, Pending, Taken
  <1>2. QueueInv
    BY DEF QueueInv
  <1>3. InHand = {} /\ Answered = {}
    <2>1. ASSUME NEW n \in InHand PROVE FALSE
      <3>1. PICK c \in Cores : \E k \in 1 .. Len(inflight[c]) : n = inflight[c][k].num
        BY DEF InHand
      <3>2. inflight[c] = <<>>
        OBVIOUS
      <3> QED BY <3>1, <3>2
    <2> QED BY <2>1 DEF Answered
  <1>4. Going(0)
    <2>1. /\ Calendar(0).scan = InitScan /\ Calendar(0).start = InitTime
          /\ InitScan \in Nat /\ InitTime \in Nat
      BY <1>0, CalendarFirst, RegularTimes
    <2>2. InitScan # NumScans /\ SubintLength \in Nat
      BY <1>0, RegularTimes
    <2>3. ~Over(0)
      BY <2>1, <2>2 DEF Over
    <2>4. Before(0) = 0 /\ 0 \in Span(0)
      BY <1>0, <2>3, BeforeIs, SpanIs
    <2>5. SubintLength * (0 - 0) = 0
      BY <2>2
    <2>6. Subint(InitScan, InitTime, 0) \in Subints
      BY <2>1 DEF Subint, Subints
    <2>7. InitTime = Calendar(0).start + SubintLength * (0 - Before(0))
      <3> HIDE DEF Calendar, Before, SubintLength
      <3> QED BY <2>1, <2>4, <2>5
    <2>8. sendscan = InitScan /\ sendtime = InitTime /\ sendcount = 0
      OBVIOUS
    <2> HIDE DEF Calendar, Before, SubintLength, Span, Over, FxInit
    <2> QED BY <2>1, <2>3, <2>4, <2>6, <2>7, <2>8 DEF Going, Placed, Subint
  <1>5. NextInv
    <2>1. InitScan \in Nat
      BY <1>0, RegularTimes
    <2>2. inttime = IntLength /\ sendscan >= InitScan
      BY <2>1 DEF IntLength
    <2>3. \E k \in Nat : Going(k)
      BY <1>4
    <2> QED BY <2>2, <2>3 DEF NextInv
  <1>6. SkewInv
    BY <1>1, <1>3 DEF SkewInv
  <1>7. LeftInv
    <2>1. InHand \cup Taken = {}
      BY <1>1, <1>3
    <2>2. Cardinality(InHand \cup Taken) = 0
      BY <2>1, FS_EmptySet
    <2>3. 0 < Full
      BY FxConstants, SMT
    <2> QED BY <2>2, <2>3 DEF LeftInv, RingInit
  <1>8. TakenInv
    BY <1>1 DEF TakenInv
  <1> QED BY <1>1, <1>2, <1>3, <1>4, <1>5, <1>6, <1>7, <1>8 DEF HandsInv

\* ... the first buffers stand for the first integrations, and the window has two of them.
LEMMA InitData ==
  ASSUME Fits, FxInit, Answered = {}, Taken = {}
  PROVE  DataInv(0)
  <1>0. RegularJob
    BY DEF Fits
  <1>1. /\ writesegment = 0 /\ newestlockedvis = 1 /\ oldestlockedvis = 0 /\ mpc = "ready"
        /\ wpc = "check" /\ flushed = 0 /\ written = <<>> /\ keepwriting
        /\ \A i \in Vis : islocked[i] <=> i \in {0, 1}
        /\ \A i \in Vis : visbuffer[i] = NewVisibility(i)
    <2>1. \A i \in Vis : islocked[i] <=> i \in {0, 1}
      BY ZenonT(20) DEF FxInit, RingInit
    <2> QED BY <2>1 DEF FxInit, RingInit
  <1>2. /\ VisBufferLength \in Nat /\ VisBufferLength >= 4 /\ 0 \in Vis /\ 1 \in Vis
        /\ \A i \in Vis : i \in Nat /\ Ahead(0, i) = i
        /\ Ahead(0, 1) = 1
    BY RingArithmetic, VisBufferLengthAssumption DEF Vis
  <1>3. /\ \A i \in Vis : Number(0, i) = i
        /\ Newest(0) = 1 /\ Oldest(0) = 0
    <2>1. \A i \in Vis : Number(0, i) = i
      BY <1>1, <1>2 DEF Number
    <2>2. Newest(0) = 1
      BY <1>1, <1>2, <2>1 DEF Newest
    <2>3. WindowSize = 1
      BY <1>1, <1>2 DEF WindowSize
    <2> QED BY <2>1, <2>2, <2>3 DEF Oldest
  <1>4. \A i \in Vis : /\ Clock(visbuffer[i]) = Calendar(i)
                       /\ visbuffer[i].subints = 0 /\ visbuffer[i].results = {}
    <2> TAKE i \in Vis
    <2>1. visbuffer[i] = Calendar(i)
      BY <1>1 DEF Calendar
    <2>2. Clock(Calendar(i)) = Calendar(i) /\ Calendar(i) \in Visibilities
      BY <1>2, CalendarNext
    <2> HIDE DEF Calendar
    <2>3. Calendar(i).subints = 0 /\ Calendar(i).results = {}
      BY <2>2 DEF Clock, Visibilities
    <2> QED BY <2>1, <2>2, <2>3
  <1>5. CalendarInv(0)
    BY <1>3, <1>4 DEF CalendarInv
  <1>6. ResultsInv(0)
    <2>1. IsFiniteSet({}) /\ Cardinality({}) = 0
      BY FS_EmptySet
    <2> QED BY <1>4, <2>1 DEF ResultsInv
  <1>7. WindowInv(0)
    <2>1. Before(0) = 0
      BY <1>0, BeforeIs
    <2>2. \A i \in Vis : InWindow(i) => islocked[i]
      <3>1. WindowSize = 1
        BY <1>1, <1>2 DEF WindowSize
      <3> QED BY <1>1, <1>2, <3>1 DEF InWindow
    <2>3. \A i \in Vis : ~Over(Number(0, i)) => \E n \in Span(Number(0, i)) : TRUE
      <3> TAKE i \in Vis
      <3>1. Number(0, i) \in Nat
        BY <1>2, <1>3
      <3> QED BY <1>0, <3>1, SpanIs
    <2> HIDE DEF Before, Span, Over
    <2> QED BY <1>3, <2>1, <2>2, <2>3 DEF WindowInv
  <1>8. ReachInv(0) /\ FrontInv(0) /\ PlaceInv(0)
    BY <1>1, <1>3 DEF ReachInv, FrontInv, PlaceInv
  <1>9. WrittenInv(0)
    <2>1. WrittenNums = {}
      BY <1>1 DEF WrittenNums, WrittenResults
    <2> QED BY <1>1, <2>1 DEF WrittenInv
  <1> QED BY <1>5, <1>6, <1>7, <1>8, <1>9 DEF DataInv, OpenInv

\* The invariant holds at the start.
LEMMA GatherInit == Fits /\ FxInit => GatherInv
  <1> SUFFICES ASSUME Fits, FxInit PROVE GatherInv
    OBVIOUS
  <1>1. HandsInv /\ Answered = {} /\ Taken = {}
    BY InitHands
  <1>2. DataInv(0)
    BY <1>1, InitData
  <1>3. DoneInv
    BY DEF FxInit, RingInit, DoneInv
  <1> QED BY <1>1, <1>2, <1>3 DEF GatherInv

\* The invariant, for a regular job with Cores that are not too far apart.
THEOREM FxGathers == Fits => (FxSpec => []GatherInv)
  <1> SUFFICES ASSUME Fits PROVE FxSpec => []GatherInv
    OBVIOUS
  <1>1. FxInit => GatherInv
    BY GatherInit
  <1>2. FxInv /\ OutInv /\ GatherInv /\ [FxNext]_vars => GatherInv'
    BY GatherStep
  <1> QED BY <1>1, <1>2, FxInvariant, OutInit, OutStep, PTL DEF FxSpec

\* At the end nothing is in hand, and everything has been flushed.
LEMMA AllWritten == Fits /\ FxInv /\ GatherInv => NothingLost
  <1> SUFFICES ASSUME Fits, FxInv, GatherInv, mpc = "done" PROVE WrittenNums = 0 .. sendcount - 1
    BY DEF NothingLost, WrittenNums
  <1>1. PICK b \in Nat : DataInv(b)
    BY DEF GatherInv
  <1>2. HandsInv /\ DoneInv
    BY DEF GatherInv
  <1>3. Taken = {}
    BY DEF Taken, Pending
  <1>4. InHand = {}
    <2>1. Cardinality(InHand) = 0
      BY <1>2 DEF HandsInv, LeftInv
    <2>2. IsFiniteSet(InHand)
      BY <1>2, HandsAre DEF HandsInv
    <2> QED BY <2>1, <2>2, FS_EmptySet
  <1>5. Answered = 0 .. sendcount - 1
    BY <1>3, <1>4 DEF Answered
  <1>6. Outgoing(b) = b + VisBufferLength
    <2>1. wpc = "done" /\ flushed = VisBufferLength
      BY <1>2 DEF DoneInv
    <2> QED BY <2>1, VisBufferLengthAssumption DEF Outgoing
  <1>7. Answered = WrittenNums
    BY <1>1, <1>6 DEF DataInv, ReachInv, WrittenInv
  <1> QED BY <1>5, <1>7

\* When the manager is done, every result has been written.
THEOREM FxNothingLost == RegularJob /\ Spread => (FxSpec => []NothingLost)
  <1> SUFFICES ASSUME Fits PROVE FxSpec => []NothingLost
    BY DEF Fits
  <1>1. FxInv /\ GatherInv => NothingLost
    BY AllWritten
  <1> QED BY <1>1, FxInvariant, FxGathers, PTL

\* The subints that belong to an integration are those of its span.
LEMMA WholeHas ==
  ASSUME RegularJob, NEW w \in Records, NEW k \in Nat, Whole(w, k),
         NEW t \in SubintStarts(w.scan), Belongs(w, w.scan, t)
  PROVE  \E s \in w.results : s.scan = w.scan /\ s.time = t
  <1> DEFINE n == w.scan
             S == SubintLength
             v == Calendar(k)
             D == ScanDuration[n]
             h == S \div 2
  <1>1. /\ ~Over(k) /\ n = v.scan /\ w.start = v.start
        /\ \A s \in w.results : Placed(s, k)
        /\ Span(k) \subseteq {s.num : s \in w.results}
    BY DEF Whole, PartOf
  <1> HIDE DEF v
  <1>2. /\ Coming(n) /\ v.start \in Nat /\ Size(k) \in Nat \ {0}
        /\ \E a \in Nat : v.start = From(n) + S * a
        /\ \E m \in Nat \ {0} : D = v.start + S * m /\ Size(k) = IF PerInt <= m THEN PerInt ELSE m
    BY <1>1, CalendarIs DEF v
  <1>3. PICK a \in Nat : v.start = From(n) + S * a
    BY <1>2
  <1>4. PICK m \in Nat \ {0} : D = v.start + S * m /\ Size(k) = IF PerInt <= m THEN PerInt ELSE m
    BY <1>2
  <1>5. /\ S \in Nat \ {0} /\ PerInt \in Nat \ {0} /\ IntLength = S * PerInt
        /\ IntTime[ScanConfig[n]] = IntLength /\ SubintNS[ScanConfig[n]] = S
        /\ From(n) \in Nat /\ D \in Nat /\ n \in Nat
    BY <1>2, RegularTimes
  <1>6. h \in Nat /\ h < S
    <2> HIDE DEF S
    <2> QED BY <1>5, HalfIs
  <1> HIDE DEF S, h
  <1>7. t \in From(n) .. D /\ (t - From(n)) % S = 0 /\ InScan(n, t)
    BY <1>5 DEF SubintStarts, From
  <1>8. 0 <= t + h - v.start /\ t + h - v.start < IntLength
    <2>1. Difference(w, n, t) = t + h - v.start
      <3>1. ~(w.scan > w.scan) /\ ~(w.scan < w.scan)
        BY <1>5
      <3>2. Difference(w, n, t) = (t + h) - v.start
        BY <1>1, <1>5, <3>1 DEF Difference, Centre, h
      <3>3. t \in Int
        BY <1>5, <1>7
      <3> HIDE DEF n
      <3> QED BY <1>2, <1>6, <3>2, <3>3
    <2> QED BY <1>5, <2>1 DEF Belongs
  <1>9. PICK c \in Int : t - From(n) = S * c
    <2>1. t - From(n) \in Int
      BY <1>5, <1>7
    <2> QED BY <1>5, <1>7, <2>1, MultipleIs
  <1>10. t \in Nat /\ t < D
    <2>1. t \in Nat /\ t <= D
      BY <1>5, <1>7
    <2>2. t # D
      BY <1>2, <1>7, <2>1, InScanIs
    <2> QED BY <1>5, <2>1, <2>2
  <1> DEFINE j == c - a
  <1>11. j \in Int /\ t = v.start + S * j /\ S * j \in Int
    <2>1. /\ S * c \in Int /\ S * a \in Int /\ S * (c - a) \in Int
          /\ S * (c - a) = S * c - S * a
      BY <1>5, Pieces
    <2>2. t = From(n) + S * c
      BY <1>5, <1>9, <1>10, <2>1
    <2> HIDE DEF n
    <2> QED BY <1>3, <1>5, <2>1, <2>2
  <1> HIDE DEF j, n
  <1>12. 0 <= j
    <2>1. ASSUME j < 0 PROVE FALSE
      <3>1. S * j + S <= S * 0 /\ S * 0 = 0
        BY <1>5, <1>11, <2>1, Pieces
      <3> QED BY <1>2, <1>5, <1>6, <1>8, <1>11, <3>1
    <2> QED BY <1>11, <2>1
  <1>13. j < m
    <2>1. S * m \in Int
      BY <1>5, Pieces
    <2>2. S * j < S * m
      BY <1>2, <1>4, <1>5, <1>10, <1>11, <2>1
    <2> QED BY <1>5, <1>11, <2>2, Pieces
  <1>14. j < PerInt
    <2>1. S * j < S * PerInt
      BY <1>2, <1>5, <1>6, <1>8, <1>10, <1>11
    <2> QED BY <1>5, <1>11, <2>1, Pieces
  <1>15. j \in Nat /\ j < Size(k)
    BY <1>4, <1>5, <1>11, <1>12, <1>13, <1>14
  <1>16. Before(k) + j \in Span(k) /\ Before(k) \in Nat
    <2>1. Before(k) \in Nat /\ Size(k) \in Nat /\ Span(k) = Before(k) .. Before(k) + Size(k) - 1
      BY SpanIs
    <2> HIDE DEF Before, Size, Span
    <2> QED BY <1>15, <2>1
  <1>17. PICK s \in w.results : s.num = Before(k) + j
    BY <1>1, <1>16
  <1>18. s.scan = v.scan /\ s.time = v.start + SubintLength * (s.num - Before(k))
    BY <1>1 DEF Placed, v
  <1>19. s.num - Before(k) = j
    <2> HIDE DEF Before
    <2> QED BY <1>15, <1>16, <1>17
  <1> QED BY <1>1, <1>11, <1>18, <1>19 DEF S, n

\* Before the flush an integration is written with all of its results.
THEOREM FxWholeIntegrations == RegularJob /\ Spread => (FxSpec => []WholeIntegrations)
  <1> SUFFICES ASSUME Fits PROVE FxSpec => []WholeIntegrations
    BY DEF Fits
  <1>1. OutInv /\ GatherInv => WholeIntegrations
    <2> SUFFICES ASSUME OutInv, GatherInv, NEW i \in 1 .. Len(written), ~written[i].atend,
                        NEW t \in SubintStarts(written[i].scan),
                        Belongs(written[i], written[i].scan, t)
                 PROVE  \E s \in written[i].results : s.scan = written[i].scan /\ s.time = t
      BY DEF WholeIntegrations
    <2>1. PICK k \in Nat : Whole(written[i], k)
      BY DEF GatherInv, DataInv, WrittenInv, Recorded
    <2>2. written[i] \in Records
      BY DEF OutInv
    <2> QED BY <2>1, <2>2, WholeHas DEF Fits
  <1> QED BY <1>1, FxInvariant, OutInit, OutStep, FxGathers, PTL DEF FxSpec

\* A result is added to a buffer of the window only, which is locked.
THEOREM FxAddsLocked == RegularJob /\ Spread => (FxSpec => AddsLocked)
  <1> SUFFICES ASSUME Fits PROVE FxSpec => AddsLocked
    BY DEF Fits
  <1> DEFINE Adds == \A i \in Vis : visbuffer'[i].subints > visbuffer[i].subints
                                      => bufferlock[i] = "manager"
  <1>1. FxInv /\ OutInv /\ GatherInv /\ [FxNext]_vars => [Adds]_vars
    <2> SUFFICES ASSUME FxInv, OutInv, GatherInv, FxNext PROVE Adds
      OBVIOUS
    <2>1. HandsInv /\ visbuffer \in [Vis -> Visibilities]
      BY DEF GatherInv, OutInv
    <2>2. PICK b \in Nat : DataInv(b)
      BY DEF GatherInv
    <2>3. CASE UNCHANGED visbuffer
      <3>1. \A i \in Vis : visbuffer[i].subints \in Nat
        BY <2>1 DEF Visibilities
      <3> QED BY <2>3, <3>1
    <2>4. CASE Deliver
      <3>1. islocked[visindex] /\ InWindow(visindex)
        BY <2>1, <2>2, <2>4, DeliverResults
      <3>2. /\ keepwriting /\ visindex \in Vis
            /\ visbuffer' = [visbuffer EXCEPT ![visindex] =
                                AddData(visbuffer[visindex], current.subint)]
        BY <2>4 DEF Deliver, AddLast, AddIncomplete, FxInv, Inv, EndInv, RingTypeOK
      <3>3. bufferlock[visindex] = "manager"
        BY <3>1, <3>2 DEF FxInv, Inv, LocksInv
      <3>4. \A i \in Vis : i # visindex => visbuffer'[i] = visbuffer[i]
        BY <2>1, <3>2
      <3>5. \A i \in Vis : visbuffer[i].subints \in Nat
        BY <2>1 DEF Visibilities
      <3> QED BY <3>3, <3>4, <3>5
    <2>5. CASE Recycle
      <3> DEFINE u == Increment(visbuffer[writesegment], VisBufferLength)
      <3>1. u.subints = 0
        BY <2>1, <2>2, RecycledIs DEF Fits, DataInv
      <3>2. writesegment \in Vis
        BY DEF FxInv, Inv, RingTypeOK
      <3>3. visbuffer' = [visbuffer EXCEPT ![writesegment] = u]
        BY <2>5 DEF Recycle
      <3> HIDE DEF u
      <3>4. \A i \in Vis : visbuffer'[i] = IF i = writesegment THEN u ELSE visbuffer[i]
        BY <2>1, <3>3
      <3>5. \A i \in Vis : visbuffer[i].subints \in Nat
        BY <2>1 DEF Visibilities
      <3> QED BY <3>1, <3>4, <3>5
    <2>6. UNCHANGED visbuffer \/ Deliver \/ Recycle
      <3>1. Manager => UNCHANGED visbuffer \/ Deliver
        BY DEF Manager, Fill, NextScan, Receive, LocateFound, LocateStale, LocateBeyond, Extend, Drop,
               DropNoMore, ExtendDropped, Advance, LockNextAhead, Finish, Unlock, Join, fxvars
      <3>2. Writer => UNCHANGED visbuffer \/ Recycle
        BY DEF Writer, CheckWriting, LockWriting, Write, Flush, fxvars
      <3>3. Interrupt \/ Done => UNCHANGED visbuffer
        BY DEF Interrupt, Done, fxvars
      <3> QED BY <3>1, <3>2, <3>3 DEF FxNext
    <2> QED BY <2>3, <2>4, <2>5, <2>6
  <1> QED BY <1>1, FxInvariant, OutInit, OutStep, FxGathers, PTL DEF FxSpec, AddsLocked

-----------------------------------------------------------------------------
(* The order of the subints and of the integrations *)

\* A subint that is placed is one of the job.
LEMMA PlacedIsOfJob ==
  ASSUME RegularJob, NEW s, NEW k, Placed(s, k)
  PROVE  Place(s) \in JobSubints
  <1> DEFINE n == s.scan
             t == s.time
             S == SubintLength
  <1>1. /\ k \in Nat /\ ~Over(k) /\ Coming(n) /\ n = Calendar(k).scan /\ t \in Nat
        /\ Calendar(k).start \in Nat
    BY PlaceIs
  <1>2. PICK j \in Nat : /\ t = Calendar(k).start + S * j /\ S * j \in Nat
                         /\ t + S <= ScanDuration[n]
    BY PlaceIs
  <1>3. PICK a \in Nat : Calendar(k).start = From(n) + S * a
    BY <1>1, CalendarIs
  <1>4. /\ S \in Nat \ {0} /\ From(n) \in Nat /\ ScanDuration[n] \in Nat /\ n \in Scans /\ n \in Nat
        /\ SubintNS[ScanConfig[n]] = S /\ Correlated(n) /\ n >= InitScan
    BY <1>1, RegularTimes DEF Coming
  <1>5. InScan(n, t)
    BY NextPlace
  <1> HIDE DEF S, t, n, Calendar
  <1>6. S * a \in Nat /\ S * (a + j) = S * a + S * j /\ a + j \in Int
    <2>1. S * a \in Int /\ S * (a + j) = S * a + S * j /\ S * a >= 0
      BY <1>4, Pieces
    <2> QED BY <2>1
  <1>7. t - From(n) = S * (a + j) /\ From(n) <= t /\ t <= ScanDuration[n] /\ t - From(n) \in Int
    BY <1>1, <1>2, <1>3, <1>4, <1>6
  <1>8. (t - From(n)) % S = 0
    <2> DEFINE x == t - From(n)
               q == a + j
    <2> HIDE DEF x, q
    <2>1. x \in Int /\ q \in Int /\ x = S * q
      BY <1>6, <1>7 DEF x, q
    <2>2. x % S = 0
      BY <1>4, <2>1, MultipleIs
    <2> QED BY <2>2 DEF x
  <1>9. t \in SubintStarts(n)
    BY <1>1, <1>4, <1>5, <1>7, <1>8 DEF SubintStarts, From
  <1>10. ScanConfig[n] >= 0
    BY <1>4, ConfigNumber
  <1> QED BY <1>4, <1>9, <1>10 DEF JobSubints, Place, n, t

\* r is sent before s.
Sooner(r, s) == r.scan < s.scan \/ (r.scan = s.scan /\ r.time < s.time)

\* The numbers go with the time.
LEMMA NumbersInOrder ==
  ASSUME RegularJob, NEW s, NEW k, Placed(s, k), NEW r, NEW l, Placed(r, l)
  PROVE  /\ s.num < r.num => Sooner(s, r)
         /\ s.num = r.num => s.scan = r.scan /\ s.time = r.time /\ k = l
         /\ Sooner(s, r) => s.num < r.num
  <1>1. ASSUME NEW x, NEW y, NEW p, NEW q, Placed(x, p), Placed(y, q), x.num < y.num
        PROVE  Sooner(x, y) /\ ~Sooner(y, x)
    <2>1. /\ p \in Nat /\ ~Over(p) /\ x.scan = Calendar(p).scan /\ x.num \in Span(p) /\ x.num \in Nat
          /\ x.time \in Nat /\ Calendar(p).start \in Nat /\ Coming(x.scan)
      BY <1>1, PlaceIs
    <2>2. /\ q \in Nat /\ ~Over(q) /\ y.scan = Calendar(q).scan /\ y.num \in Span(q) /\ y.num \in Nat
          /\ y.time \in Nat /\ Calendar(q).start \in Nat /\ Coming(y.scan)
      BY <1>1, PlaceIs
    <2>3. PICK i \in Nat : /\ x.num = Before(p) + i /\ x.time = Calendar(p).start + SubintLength * i
                           /\ SubintLength * i \in Nat
                           /\ SubintLength * i + SubintLength <= IntLength
      BY <1>1, PlaceIs
    <2>4. PICK j \in Nat : /\ y.num = Before(q) + j /\ y.time = Calendar(q).start + SubintLength * j
                           /\ SubintLength * j \in Nat
      BY <1>1, PlaceIs
    <2>5. SubintLength \in Nat \ {0} /\ IntLength \in Nat /\ x.scan \in Nat /\ y.scan \in Nat
      BY <2>1, <2>2, RegularTimes
    <2>6. Before(p) \in Nat /\ Before(q) \in Nat
      BY <2>1, <2>2, SpanIs
    <2> DEFINE P == Calendar(p).start
               Q == Calendar(q).start
               u == SubintLength * i
               w == SubintLength * j
    <2> HIDE DEF P, Q
    <2>7. P \in Nat /\ Q \in Nat /\ x.time = P + u /\ y.time = Q + w
      BY <2>1, <2>2, <2>3, <2>4 DEF P, Q
    <2>8. u \in Nat /\ w \in Nat /\ u + SubintLength <= IntLength
      BY <2>3, <2>4
    <2>9. CASE p = q
      <3>1. i < j
        <4> HIDE DEF Before
        <4> QED BY <1>1, <2>3, <2>4, <2>6, <2>9
      <3>2. u < w
        BY <2>5, <3>1, SmallerFactor
      <3> HIDE DEF u, w
      <3>3. P = Q /\ x.scan = y.scan
        BY <2>1, <2>2, <2>9 DEF P, Q
      <3>4. x.time < y.time
        BY <2>7, <2>8, <3>2, <3>3
      <3> QED BY <2>1, <2>2, <2>5, <3>3, <3>4 DEF Sooner
    <2>10. CASE p < q
      <3>1. x.scan < y.scan \/ (x.scan = y.scan /\ P + IntLength <= Q)
        BY <2>1, <2>2, <2>10, CalendarOrder DEF P, Q
      <3> HIDE DEF u, w
      <3>2. P + IntLength <= Q => x.time < y.time
        BY <2>5, <2>7, <2>8
      <3> QED BY <2>1, <2>2, <2>5, <3>1, <3>2 DEF Sooner
    <2>11. p <= q
      <3>1. x.num >= Before(p) /\ x.num < Before(p + 1) /\ Before(p + 1) \in Nat
        <4>1. Span(p) = Before(p) .. Before(p + 1) - 1 /\ Before(p + 1) \in Nat
          BY <2>1, SpanIs
        <4> HIDE DEF Before, Span
        <4> QED BY <2>1, <2>6, <4>1
      <3>2. y.num >= Before(p)
        <4> HIDE DEF Before
        <4> QED BY <1>1, <2>1, <2>2, <2>6, <3>1
      <3> QED BY <2>1, <2>2, <3>2, SpanApart
    <2> QED BY <2>1, <2>2, <2>9, <2>10, <2>11
  <1>2. s.num \in Nat /\ r.num \in Nat
    BY PlaceIs
  <1>3. ASSUME s.num = r.num PROVE k = l /\ s.scan = r.scan /\ s.time = r.time
    <2>1. k \in Nat /\ l \in Nat /\ s.num \in Span(k) /\ r.num \in Span(l)
      BY PlaceIs
    <2>2. k = l
      BY <1>2, <1>3, <2>1, SpanApart
    <2> QED BY <1>3, <2>2 DEF Placed
  <1>4. ASSUME Sooner(s, r) PROVE s.num < r.num
    <2>1. ~(r.num < s.num)
      BY <1>1, <1>4
    <2>2. s.num # r.num
      <3> SUFFICES ASSUME s.num = r.num PROVE FALSE
        OBVIOUS
      <3>1. s.scan = r.scan /\ s.time = r.time
        BY <1>3
      <3>2. s.scan \in Nat /\ s.time \in Nat
        BY PlaceIs, RegularTimes
      <3> QED BY <1>4, <3>1, <3>2 DEF Sooner
    <2> QED BY <1>2, <2>1, <2>2
  <1> QED BY <1>1, <1>3, <1>4

\* Different subints have different places.
LEMMA SamePlace ==
  ASSUME RegularJob, NEW s, NEW k, Placed(s, k), NEW r, NEW l, Placed(r, l)
  PROVE  Place(s) = Place(r) <=> s.num = r.num
  <1>1. s.num \in Nat /\ r.num \in Nat
    BY PlaceIs
  <1>2. ASSUME Place(s) = Place(r) PROVE s.num = r.num
    <2>1. s.scan = r.scan /\ s.time = r.time
      BY <1>2 DEF Place
    <2>2. s.scan \in Nat /\ s.time \in Nat
      BY PlaceIs, RegularTimes
    <2>3. ~Sooner(s, r) /\ ~Sooner(r, s)
      BY <2>1, <2>2 DEF Sooner
    <2>4. ~(s.num < r.num) /\ ~(r.num < s.num)
      BY <2>3, NumbersInOrder
    <2> QED BY <1>1, <2>4
  <1>3. ASSUME s.num = r.num PROVE Place(s) = Place(r)
    BY <1>3, NumbersInOrder DEF Place
  <1> QED BY <1>2, <1>3

\* No scan is sent from a time before the start of the job.
NoneBefore == \A n \in Scans : Coming(n) => ScanStart[n] + From(n) >= 0

\* An integration begins a whole number of them after its scan.
LEMMA StartsWhole ==
  ASSUME RegularJob, NEW k \in Nat, ~Over(k)
  PROVE  \E q \in Nat : Calendar(k).start = From(Calendar(k).scan) + IntLength * q
  <1> DEFINE Whole1(n) == \E q \in Nat : Calendar(n).start = From(Calendar(n).scan) + IntLength * q
             T == {n \in Nat : Over(n) \/ Whole1(n)}
  <1>0. IntLength \in Nat \ {0} /\ InitScan \in Nat /\ InitTime \in Nat /\ NumScans \in Nat
    BY RegularTimes
  <1>1. 0 \in T
    <2>1. Calendar(0).scan = InitScan /\ Calendar(0).start = InitTime
      BY CalendarFirst
    <2>2. IntLength * 0 = 0
      BY <1>0
    <2> HIDE DEF Calendar
    <2>3. Calendar(0).start = From(Calendar(0).scan) + IntLength * 0
      BY <1>0, <2>1, <2>2 DEF From
    <2>4. Whole1(0)
      BY <2>3
    <2> QED BY <2>4
  <1>2. ASSUME NEW n \in T PROVE n + 1 \in T
    <2>0. n \in Nat /\ n + 1 \in Nat
      OBVIOUS
    <2>1. CASE Over(n)
      BY <2>0, <2>1, CalendarIs
    <2>2. CASE ~Over(n)
      <3>1. PICK q \in Nat : Calendar(n).start = From(Calendar(n).scan) + IntLength * q
        BY <2>2
      <3>2. /\ Coming(Calendar(n).scan)
            /\ \/ /\ Calendar(n + 1).scan = Calendar(n).scan
                  /\ Calendar(n + 1).start = Calendar(n).start + IntLength
               \/ /\ Calendar(n + 1).scan = NextConfigured(Calendar(n).scan + 1)
                  /\ Calendar(n + 1).start = 0
        BY <2>0, <2>2, CalendarIs
      <3> HIDE DEF Calendar
      <3>3. From(Calendar(n).scan) \in Nat /\ Calendar(n).scan \in Nat /\ Calendar(n).scan >= InitScan
            /\ Calendar(n).scan < NumScans
        BY <3>2, RegularTimes DEF Coming
      <3>4. CASE /\ Calendar(n + 1).scan = Calendar(n).scan
                 /\ Calendar(n + 1).start = Calendar(n).start + IntLength
        <4>1. IntLength * q \in Int /\ IntLength * (q + 1) = IntLength * q + IntLength
          BY <1>0, Pieces
        <4> DEFINE x == IntLength * q
                   y == IntLength * (q + 1)
                   f == From(Calendar(n).scan)
        <4>2. Calendar(n).start = f + x /\ x \in Int /\ y = x + IntLength /\ f \in Nat
          BY <3>1, <3>3, <4>1
        <4>3. Calendar(n + 1).start = f + y
          <5> HIDE DEF x, y, f
          <5> QED BY <1>0, <3>4, <4>2
        <4>4. Calendar(n + 1).start = From(Calendar(n + 1).scan) + IntLength * (q + 1)
          BY <3>4, <4>3
        <4>5. q + 1 \in Nat
          OBVIOUS
        <4> QED BY <2>0, <4>4, <4>5
      <3>5. CASE /\ Calendar(n + 1).scan = NextConfigured(Calendar(n).scan + 1)
                 /\ Calendar(n + 1).start = 0
        <4> DEFINE c == Calendar(n).scan
        <4>1. NextConfigured(c + 1) \in c + 1 .. NumScans
          <5>1. c + 1 \in 0 .. NumScans
            <6> HIDE DEF c
            <6> QED BY <1>0, <3>3 DEF c
          <5> QED BY <5>1, NextConfiguredIs
        <4>2. Calendar(n + 1).scan # InitScan
          BY <1>0, <3>3, <3>5, <4>1
        <4>3. IntLength * 0 = 0
          BY <1>0
        <4>4. Calendar(n + 1).start = From(Calendar(n + 1).scan) + IntLength * 0
          BY <3>5, <4>2, <4>3 DEF From
        <4> QED BY <2>0, <4>4
      <3> QED BY <3>2, <3>4, <3>5
    <2> QED BY <2>1, <2>2
  <1>3. T = Nat
    <2>1. T \in SUBSET Nat
      OBVIOUS
    <2> HIDE DEF T
    <2> QED BY <1>1, <1>2, <2>1, SetInduction
  <1>4. k \in T => Over(k) \/ Whole1(k)
    OBVIOUS
  <1> HIDE DEF T
  <1> QED BY <1>3, <1>4

\* The number of the integration of a subint.
LEMMA IntegrationIs ==
  ASSUME RegularJob, NoneBefore, NEW s, NEW k, Placed(s, k)
  PROVE  \E q \in Nat :
           /\ IntegrationNumber[Place(s)] = s.scan * ExecuteSeconds + q
           /\ q < ExecuteSeconds
           /\ Calendar(k).start = From(s.scan) + IntLength * q
  <1> DEFINE n == s.scan
             t == s.time
             h == SubintNS[ScanConfig[n]] \div 2
  <1>1. /\ k \in Nat /\ ~Over(k) /\ Coming(n) /\ n = Calendar(k).scan /\ t \in Nat
        /\ Calendar(k).start \in Nat
    BY PlaceIs
  <1>2. PICK j \in Nat : /\ t = Calendar(k).start + SubintLength * j /\ SubintLength * j \in Nat
                         /\ SubintLength * j + SubintLength <= IntLength
                         /\ t + SubintLength <= ScanDuration[n]
    BY PlaceIs
  <1>3. PICK q \in Nat : Calendar(k).start = From(n) + IntLength * q
    BY <1>1, StartsWhole
  <1>4. /\ SubintLength \in Nat \ {0} /\ IntLength \in Nat \ {0} /\ From(n) \in Nat
        /\ ScanDuration[n] \in Nat /\ ScanStart[n] \in Int /\ n \in Scans
        /\ IntTime[ScanConfig[n]] = IntLength /\ SubintNS[ScanConfig[n]] = SubintLength
        /\ ScanStart[n] + ScanDuration[n] <= ExecuteSeconds /\ ExecuteSeconds \in Nat
    BY <1>1, RegularTimes
  <1>5. h \in Nat /\ h < SubintLength
    BY <1>4, HalfIs
  <1>6. Place(s) \in JobSubints /\ Place(s).scan = n /\ Place(s).time = t
    BY PlacedIsOfJob DEF Place
  <1>7. IntegrationNumber[Place(s)] = n * ExecuteSeconds + (Centre(n, t) - From(n)) \div IntLength
    BY <1>4, <1>6 DEF IntegrationNumber, From
  <1>8. Centre(n, t) = t + h
    BY DEF Centre
  <1> DEFINE x == SubintLength * j
             y == IntLength * q
             r == x + h
  <1>9. x \in Nat /\ y \in Int /\ t = (From(n) + y) + x /\ x + SubintLength <= IntLength /\ y >= 0
    <2>1. IntLength * q \in Int /\ IntLength * q >= 0
      BY <1>4, Pieces
    <2> QED BY <1>2, <1>3, <2>1
  <1> HIDE DEF x, h, Calendar
  <1>10. r \in 0 .. IntLength - 1 /\ r \in Int
    BY <1>4, <1>5, <1>9
  <1>11. Centre(n, t) - From(n) = y + r
    <2> HIDE DEF y
    <2> QED BY <1>1, <1>4, <1>5, <1>8, <1>9
  <1>12. (y + r) \div IntLength = q
    <2> HIDE DEF r
    <2>1. \A a \in Nat \ {0} : \A b \in Int : \A c \in 0 .. a - 1 : (a * b + c) \div a = b
      BY Divided
    <2>2. (IntLength * q + r) \div IntLength = q
      <3> HIDE DEF IntLength, y
      <3>1. q \in Int
        OBVIOUS
      <3> QED BY <1>4, <1>10, <2>1, <3>1, Zenon
    <2> QED BY <2>2
  <1>13. q < ExecuteSeconds
    <2>1. ScanStart[n] + From(n) >= 0
      BY <1>1, <1>4 DEF NoneBefore
    <2>2. q <= y
      BY <1>4, SMT
    <2> HIDE DEF y
    <2>3. y < ScanDuration[n] - From(n)
      BY <1>1, <1>2, <1>4, <1>9
    <2>4. ScanDuration[n] - From(n) <= ExecuteSeconds
      BY <1>4, <2>1
    <2> QED BY <1>4, <1>9, <2>2, <2>3, <2>4
  <1> HIDE DEF y, r
  <1>14. IntegrationNumber[Place(s)] = n * ExecuteSeconds + q
    BY <1>7, <1>11, <1>12
  <1> QED BY <1>3, <1>13, <1>14

\* The integrations are numbered in order.
LEMMA IntegrationsInOrder ==
  ASSUME RegularJob, NoneBefore, NEW s, NEW k, Placed(s, k), NEW r, NEW l, Placed(r, l)
  PROVE  /\ k = l => IntegrationNumber[Place(s)] = IntegrationNumber[Place(r)]
         /\ k < l => IntegrationNumber[Place(s)] < IntegrationNumber[Place(r)]
  <1>1. PICK p \in Nat : /\ IntegrationNumber[Place(s)] = s.scan * ExecuteSeconds + p
                         /\ p < ExecuteSeconds
                         /\ Calendar(k).start = From(s.scan) + IntLength * p
    BY IntegrationIs
  <1>2. PICK q \in Nat : /\ IntegrationNumber[Place(r)] = r.scan * ExecuteSeconds + q
                         /\ q < ExecuteSeconds
                         /\ Calendar(l).start = From(r.scan) + IntLength * q
    BY IntegrationIs
  <1>3. /\ k \in Nat /\ l \in Nat /\ ~Over(k) /\ ~Over(l) /\ Coming(s.scan) /\ Coming(r.scan)
        /\ s.scan = Calendar(k).scan /\ r.scan = Calendar(l).scan
    BY PlaceIs
  <1>4. /\ IntLength \in Nat \ {0} /\ ExecuteSeconds \in Nat /\ From(s.scan) \in Nat
        /\ s.scan \in Nat /\ r.scan \in Nat
    BY <1>3, RegularTimes
  <1> DEFINE x == IntLength * p
             y == IntLength * q
             f == From(s.scan)
  <1>5. x \in Int /\ y \in Int /\ (p <= q <=> x <= y)
    BY <1>4, Pieces
  <1> HIDE DEF Calendar
  <1>6. CASE k = l
    <2>1. s.scan = r.scan /\ f + x = f + y /\ f \in Nat
      BY <1>1, <1>2, <1>3, <1>4, <1>6
    <2>2. x = y
      <3> HIDE DEF x, y, f
      <3> QED BY <1>5, <2>1
    <2>3. p <= q /\ q <= p
      <3>1. q <= p <=> y <= x
        BY <1>4, Pieces
      <3> HIDE DEF x, y
      <3> QED BY <1>5, <2>2, <3>1
    <2>4. p = q
      BY <2>3
    <2> QED BY <1>1, <1>2, <1>3, <1>6, <2>1, <2>4
  <1>7. CASE k < l
    <2>1. \/ s.scan < r.scan
          \/ s.scan = r.scan /\ Calendar(k).start + IntLength <= Calendar(l).start
      BY <1>3, <1>7, CalendarOrder
    <2>2. CASE s.scan < r.scan
      <3> DEFINE a == s.scan * ExecuteSeconds
                 b == r.scan * ExecuteSeconds
      <3>1. a \in Int /\ b \in Int /\ a + ExecuteSeconds <= b
        <4>1. ExecuteSeconds \in Nat \ {0}
          BY <1>1, <1>4
        <4>2. /\ ExecuteSeconds * s.scan \in Int /\ ExecuteSeconds * r.scan \in Int
              /\ ExecuteSeconds * s.scan + ExecuteSeconds <= ExecuteSeconds * r.scan
          BY <1>4, <2>2, <4>1, Pieces
        <4>3. \A u, v \in Nat : u * v = v * u
          OBVIOUS
        <4>4. s.scan * ExecuteSeconds = ExecuteSeconds * s.scan
              /\ r.scan * ExecuteSeconds = ExecuteSeconds * r.scan
          BY <1>4, <4>3
        <4> QED BY <4>2, <4>4
      <3>2. IntegrationNumber[Place(s)] = a + p /\ IntegrationNumber[Place(r)] = b + q
        BY <1>1, <1>2
      <3> HIDE DEF a, b
      <3>3. a + p < b + q
        BY <1>1, <1>2, <1>4, <3>1
      <3>4. k # l
        BY <1>3, <1>7
      <3> QED BY <1>7, <3>2, <3>3, <3>4
    <2>3. CASE s.scan = r.scan /\ Calendar(k).start + IntLength <= Calendar(l).start
      <3>1. (f + x) + IntLength <= f + y /\ f \in Nat
        BY <1>1, <1>2, <1>4, <2>3
      <3>2. x < y
        <4> HIDE DEF x, y, f
        <4> QED BY <1>4, <1>5, <3>1
      <3>3. p < q
        <4>1. p < q <=> x < y
          BY <1>4, Pieces
        <4> QED BY <3>2, <4>1
      <3> DEFINE a == s.scan * ExecuteSeconds
      <3>4. a \in Int
        BY <1>4, SMT
      <3>5. IntegrationNumber[Place(s)] = a + p /\ IntegrationNumber[Place(r)] = a + q
        BY <1>1, <1>2, <2>3
      <3> HIDE DEF a
      <3>6. a + p < a + q
        BY <3>3, <3>4
      <3>7. k # l
        BY <1>3, <1>7
      <3> QED BY <1>7, <3>5, <3>6, <3>7
    <2> QED BY <2>1, <2>2, <2>3
  <1> QED BY <1>3, <1>6, <1>7

-----------------------------------------------------------------------------
(* What went out *)

\* The elements of a sequence, ...
Elements(q) == {q[k] : k \in 1 .. Len(q)}

\* ... of a longer ...
LEMMA AppendHas ==
  ASSUME NEW S, NEW q \in Seq(S), NEW s \in S
  PROVE  Elements(Append(q, s)) = Elements(q) \cup {s}
  <1> DEFINE r == Append(q, s)
             L == Len(q)
  <1>1. /\ L \in Nat /\ Len(r) = L + 1 /\ r[L + 1] = s
        /\ \A k \in 1 .. L : r[k] = q[k]
    BY AppendProperties, LenProperties
  <1> HIDE DEF r
  <1>2. \A k : k \in 1 .. Len(r) <=> k \in 1 .. L \/ k = L + 1
    BY <1>1
  <1>3. ASSUME NEW x PROVE x \in Elements(r) <=> x \in Elements(q) \/ x = s
    <2>1. x \in Elements(r) <=> \E k \in 1 .. Len(r) : x = r[k]
      BY DEF Elements
    <2>2. x \in Elements(q) <=> \E k \in 1 .. L : x = q[k]
      BY DEF Elements
    <2> HIDE DEF L
    <2> QED BY <1>1, <1>2, <2>1, <2>2
  <1> QED BY <1>3 DEF r

\* ... and of a shorter one.
LEMMA TailHas ==
  ASSUME NEW S, NEW q \in Seq(S), q # <<>>
  PROVE  Elements(q) = Elements(Tail(q)) \cup {Head(q)}
  <1> DEFINE r == Tail(q)
             L == Len(q)
  <1>1. /\ L \in Nat \ {0} /\ r \in Seq(S) /\ Len(r) = L - 1 /\ Head(q) = q[1]
        /\ \A k \in 1 .. L - 1 : r[k] = q[k + 1]
    BY LenProperties, EmptySeq, HeadTailProperties
  <1> HIDE DEF r
  <1>2. ASSUME NEW x \in Elements(q) PROVE x \in Elements(r) \/ x = Head(q)
    <2>1. PICK k \in 1 .. L : x = q[k]
      BY DEF Elements
    <2>2. CASE k = 1
      BY <1>1, <2>1, <2>2
    <2>3. CASE k # 1
      <3>1. k - 1 \in 1 .. L - 1 /\ (k - 1) + 1 = k
        BY <1>1, <2>3
      <3>2. r[k - 1] = q[k] /\ k - 1 \in 1 .. Len(r)
        BY <1>1, <3>1
      <3> QED BY <2>1, <3>2 DEF Elements
    <2> QED BY <2>2, <2>3
  <1>3. ASSUME NEW x \in Elements(r) PROVE x \in Elements(q)
    <2>1. PICK k \in 1 .. Len(r) : x = r[k]
      BY DEF Elements
    <2>2. k + 1 \in 1 .. L /\ x = q[k + 1]
      BY <1>1, <2>1
    <2> QED BY <2>2 DEF Elements
  <1>4. Head(q) \in Elements(q)
    <2>1. 1 \in 1 .. L
      BY <1>1
    <2> QED BY <1>1, <2>1 DEF Elements
  <1> QED BY <1>2, <1>3, <1>4 DEF r

\* What the Cores have, by the queue of each.
LEMMA InCoresIs == InCores = UNION {Elements(inflight[c]) : c \in Cores}
  BY DEF InCores, Elements

\* The result that is being handled.
Handled == IF Pending THEN {current.subint} ELSE {}

\* All that went out and was not ignored has its place in the job.
LEMMA SentPlaced ==
  ASSUME FxInv, HandsInv, NEW b \in Nat, DataInv(b), ignored = {}, NEW s \in SentOut
  PROVE  s.num \in Nat /\ s.num < sendcount /\ \E k \in Nat : Placed(s, k)
  <1>1. sendcount \in Nat
    BY DEF FxInv, SendTypes
  <1>2. \A n \in Answered : n \in Nat /\ n < sendcount
    BY <1>1 DEF Answered
  <1>3. CASE s \in InCores
    <2>1. PICK c \in Cores : \E k \in 1 .. Len(inflight[c]) : s = inflight[c][k]
      BY <1>3 DEF InCores
    <2>2. PICK k \in 1 .. Len(inflight[c]) : s = inflight[c][k]
      BY <2>1
    <2>3. s.num < sendcount /\ \E n \in Nat : Placed(s, n)
      BY <2>2 DEF HandsInv, QueueInv
    <2>4. s.num \in Nat
      BY <2>2, HandsAre DEF HandsInv
    <2> QED BY <2>3, <2>4
  <1>4. CASE s \in Handled
    <2>1. s = current.subint /\ Pending
      BY <1>4 DEF Handled
    <2>2. s.num < sendcount /\ \E n \in Nat : Placed(s, n)
      BY <2>1 DEF HandsInv, TakenInv
    <2>3. s.num \in Nat
      BY <2>1, HandsAre DEF HandsInv
    <2> QED BY <2>2, <2>3
  <1>5. CASE s \in InBuffers
    <2>1. PICK i \in Vis : s \in visbuffer[i].results
      BY <1>5 DEF InBuffers
    <2>2. Placed(s, Number(b, i)) /\ s.num \in Answered
      BY <2>1 DEF DataInv, ResultsInv
    <2>3. Number(b, i) \in Nat
      BY <2>2 DEF Placed
    <2> QED BY <1>2, <2>2, <2>3
  <1>6. CASE s \in WrittenResults
    <2>1. PICK i \in 1 .. Len(written) : s \in written[i].results
      BY <1>6 DEF WrittenResults
    <2>2. PICK k \in Nat : PartOf(written[i], k)
      BY DEF DataInv, WrittenInv, Recorded
    <2>3. Placed(s, k)
      BY <2>1, <2>2 DEF PartOf
    <2>4. s.num \in Answered
      BY <1>6 DEF WrittenNums, DataInv, WrittenInv
    <2> QED BY <1>2, <2>3, <2>4
  <1> QED BY <1>3, <1>4, <1>5, <1>6 DEF SentOut, Handled

\* The next subint has not gone out, nor has another of its place.
LEMMA NextIsNew ==
  ASSUME Fits, FxInv, HandsInv, NEW b \in Nat, DataInv(b), ignored = {}, NEW k \in Nat, Going(k)
  PROVE  Place(Subint(sendscan, sendtime, sendcount)) \in JobSubints \ Sent
  <1> DEFINE u == Subint(sendscan, sendtime, sendcount)
  <1>1. Placed(u, k) /\ u.num = sendcount /\ RegularJob
    BY DEF Going, Subint, Fits
  <1> HIDE DEF u
  <1>2. Place(u) \in JobSubints
    BY <1>1, PlacedIsOfJob
  <1>3. ASSUME NEW s \in SentOut PROVE Place(s) # Place(u)
    <2>1. PICK n \in Nat : Placed(s, n)
      BY SentPlaced
    <2>2. s.num \in Nat /\ s.num < sendcount /\ sendcount \in Nat
      BY SentPlaced DEF FxInv, SendTypes
    <2>3. s.num # u.num
      BY <1>1, <2>2
    <2> QED BY <1>1, <2>1, <2>3, SamePlace
  <1> QED BY <1>2, <1>3 DEF Sent, u

\* A Core is given the next subint.
LEMMA SendGoesOut ==
  ASSUME FxInv, NEW c \in Cores, SendData(c, sendcount), NEW k \in Nat, Going(k)
  PROVE  InCores' = InCores \cup {Subint(sendscan, sendtime, sendcount)}
  <1> DEFINE u == Subint(sendscan, sendtime, sendcount)
             q == inflight[c]
  <1>1. inflight \in [Cores -> Seq(Subints)]
    BY DEF FxInv, CoreTypes
  <1>2. q \in Seq(Subints) /\ u \in Subints
    BY <1>1 DEF Going, Placed
  <1>3. inflight' = [inflight EXCEPT ![c] = Append(q, u)]
    BY DEF SendData
  <1> HIDE DEF u
  <1>4. /\ \A d \in Cores : d # c => inflight'[d] = inflight[d]
        /\ inflight'[c] = Append(q, u)
    BY <1>1, <1>3
  <1>5. Elements(inflight'[c]) = Elements(q) \cup {u}
    BY <1>2, <1>4, AppendHas
  <1>6. InCores' = UNION {Elements(inflight'[d]) : d \in Cores}
    BY DEF InCores, Elements
  <1>7. \A x : x \in InCores' <=> x \in InCores \/ x = u
    <2>1. \A d \in Cores : d # c => Elements(inflight'[d]) = Elements(inflight[d])
      BY <1>4
    <2>2. \A x : x \in InCores <=> \E d \in Cores : x \in Elements(inflight[d])
      BY InCoresIs
    <2>3. \A x : x \in InCores' <=> \E d \in Cores : x \in Elements(inflight'[d])
      BY <1>6
    <2> QED BY <1>5, <2>1, <2>2, <2>3
  <1> QED BY <1>7 DEF u

\* The manager takes a result.
LEMMA ReceiveGoesOver ==
  ASSUME FxInv, NEW c \in Cores, Receive(c)
  PROVE  InCores = InCores' \cup {current'.subint}
  <1> DEFINE q == inflight[c]
  <1>1. inflight \in [Cores -> Seq(Subints)]
    BY DEF FxInv, CoreTypes
  <1>2. /\ q \in Seq(Subints) /\ q # <<>> /\ inflight' = [inflight EXCEPT ![c] = Tail(q)]
        /\ current'.subint = Head(q)
    BY <1>1 DEF Receive
  <1>3. /\ \A d \in Cores : d # c => inflight'[d] = inflight[d]
        /\ inflight'[c] = Tail(q)
    BY <1>1, <1>2
  <1>4. Elements(q) = Elements(inflight'[c]) \cup {current'.subint}
    BY <1>2, <1>3, TailHas
  <1>5. InCores' = UNION {Elements(inflight'[d]) : d \in Cores}
    BY DEF InCores, Elements
  <1>6. \A x : x \in InCores <=> x \in InCores' \/ x = current'.subint
    <2>1. \A d \in Cores : d # c => Elements(inflight'[d]) = Elements(inflight[d])
      BY <1>3
    <2>2. \A x : x \in InCores <=> \E d \in Cores : x \in Elements(inflight[d])
      BY InCoresIs
    <2>3. \A x : x \in InCores' <=> \E d \in Cores : x \in Elements(inflight'[d])
      BY <1>5
    <2> QED BY <1>4, <2>1, <2>2, <2>3
  <1> QED BY <1>6

-----------------------------------------------------------------------------
(* The Accumulator *)

\* The output of the Accumulator: what is on disk, as sets of places.
OutputOf(w) == {Place(s) : s \in w.results}
DiskOf(q) == [i \in 1 .. Len(q) |-> {Place(s) : s \in q[i].results}]
Disk == DiskOf(written)
Places == {Place(s) : s \in Subints}

\* It is a sequence just as long.
LEMMA DiskIs ==
  ASSUME NEW q \in Seq(Records)
  PROVE  /\ DiskOf(q) \in Seq(SUBSET Places) /\ Len(DiskOf(q)) = Len(q) /\ Len(q) \in Nat
         /\ \A i \in 1 .. Len(q) : DiskOf(q)[i] = OutputOf(q[i])
         /\ q = <<>> => DiskOf(q) = <<>>
  <1> DEFINE n == Len(q)
             T == SUBSET Places
             D == DiskOf(q)
  <1>1. n \in Nat /\ \A i \in 1 .. n : q[i] \in Records
    BY LenProperties, ElementOfSeq
  <1>2. \A i \in 1 .. n : OutputOf(q[i]) \in T
    <2> SUFFICES ASSUME NEW i \in 1 .. n PROVE OutputOf(q[i]) \in T
      OBVIOUS
    <2>1. q[i].results \subseteq Subints
      BY <1>1 DEF Records
    <2> QED BY <2>1 DEF OutputOf, Places
  <1>3. D = [i \in 1 .. n |-> OutputOf(q[i])]
    BY DEF DiskOf, OutputOf
  <1>8. q = <<>> => n = 0
    BY EmptySeq
  <1> HIDE DEF n, T, D
  <1>4. D \in [1 .. n -> T] /\ DOMAIN D = 1 .. n
    BY <1>2, <1>3
  <1>5. D \in Seq(T)
    BY <1>1, <1>4, SeqDef
  <1>6. Len(D) \in Nat /\ DOMAIN D = 1 .. Len(D)
    BY <1>5, LenProperties
  <1>7. Len(D) = n
    BY <1>1, <1>4, <1>6
  <1>9. q = <<>> => D = <<>>
    BY <1>5, <1>7, <1>8, EmptySeq
  <1> QED BY <1>1, <1>3, <1>5, <1>7, <1>9 DEF n, T, D

\* What was gathered is what is on disk.
LEMMA GatheredIs ==
  ASSUME written \in Seq(Records)
  PROVE  \A p \in Promise!Gathered :
           \E j \in 1 .. Len(written) : \E r \in written[j].results : p = Place(r)
  <1> SUFFICES ASSUME NEW p \in Promise!Gathered
               PROVE  \E j \in 1 .. Len(written) : \E r \in written[j].results : p = Place(r)
    OBVIOUS
  <1>1. Promise!Gathered = UNION {Disk[j] : j \in 1 .. Len(Disk)}
    BY DEF Promise!Gathered, Disk, DiskOf
  <1>2. PICK j \in 1 .. Len(Disk) : p \in Disk[j]
    BY <1>1
  <1>3. j \in 1 .. Len(written) /\ p \in OutputOf(written[j])
    BY <1>2, DiskIs DEF Disk
  <1> QED BY <1>3 DEF OutputOf

\* One more record on disk.
LEMMA DiskGrows ==
  ASSUME written \in Seq(Records), written' \in Seq(Records), NEW w \in Records,
         written' = Append(written, w)
  PROVE  /\ Disk' = Append(Disk, OutputOf(w))
         /\ WrittenResults' = WrittenResults \cup w.results
  <1> DEFINE n == Len(written)
             T == SUBSET Places
             R == OutputOf(w)
             D == Append(Disk, R)
  <1>1. /\ Len(written') = n + 1 /\ n \in Nat
        /\ \A j \in 1 .. n : written'[j] = written[j]
        /\ written'[n + 1] = w
    BY AppendProperties, LenProperties
  <1>2. /\ Disk \in Seq(T) /\ Len(Disk) = n
        /\ \A i \in 1 .. n : Disk[i] = OutputOf(written[i])
    BY DiskIs DEF Disk
  <1>3. /\ Disk' \in Seq(T) /\ Len(Disk') = n + 1
        /\ \A i \in 1 .. n + 1 : Disk'[i] = OutputOf(written'[i])
    <2>1. /\ Disk' \in Seq(T) /\ Len(Disk') = Len(written')
          /\ \A i \in 1 .. Len(written') : Disk'[i] = OutputOf(written'[i])
      BY DiskIs DEF Disk
    <2> QED BY <1>1, <2>1
  <1>4. R \in T
    BY DEF OutputOf, Places, Records
  <1> HIDE DEF n, T, R
  <1>5. D \in Seq(T) /\ Len(D) = n + 1 /\ D[n + 1] = R /\ \A j \in 1 .. n : D[j] = Disk[j]
    BY <1>2, <1>4, AppendProperties
  <1> HIDE DEF D
  <1>6. \A j : j \in 1 .. n + 1 <=> j \in 1 .. n \/ j = n + 1
    BY <1>1 DEF n
  <1>7. Disk' = D
    <2>1. \A j \in 1 .. n + 1 : Disk'[j] = D[j]
      BY <1>1, <1>2, <1>3, <1>5, <1>6 DEF R, n
    <2> QED BY <1>3, <1>5, <2>1, SeqEqual
  <1>8. \A s : s \in WrittenResults' <=> s \in WrittenResults \cup w.results
    <2> TAKE s
    <2>1. s \in WrittenResults' <=> \E j \in 1 .. n + 1 : s \in written'[j].results
      BY <1>1 DEF WrittenResults, n
    <2>2. s \in WrittenResults <=> \E j \in 1 .. n : s \in written[j].results
      BY DEF WrittenResults, n
    <2> QED BY <1>1, <1>6, <2>1, <2>2 DEF n
  <1> QED BY <1>7, <1>8 DEF D, R

\* A buffer that is written is the next integration of the Accumulator.
LEMMA WriteIsOutput ==
  ASSUME Fits, NoneBefore, FxInv, OutInv, OutInv', HandsInv, NEW b \in Nat, DataInv(b),
         ignored = {}, NEW i \in Vis, WriteOut(i), Number(b, i) = Outgoing(b),
         UNCHANGED <<inflight, current, visbuffer, ignored>>, Pending' <=> Pending
  PROVE  Promise!Output \/ UNCHANGED <<Sent, Disk>>
  <1> DEFINE k == Number(b, i)
             v == visbuffer[i]
             w == [scan |-> v.scan, start |-> v.start, results |-> v.results, atend |-> ~keepwriting]
             R == OutputOf(w)
  <1>1. /\ v \in Visibilities /\ Clock(v) = Calendar(k) /\ RegularJob
        /\ IsFiniteSet(v.results) /\ v.subints = Cardinality(v.results)
        /\ \A s \in v.results : Placed(s, k)
    BY DEF DataInv, CalendarInv, ResultsInv, Fits, OutInv
  <1>2. \A j \in 1 .. Len(written) : Recorded(written[j], k)
    BY DEF DataInv, WrittenInv
  <1>3. written \in Seq(Records) /\ written' \in Seq(Records)
    BY DEF OutInv
  <1>4. InCores' = InCores /\ InBuffers' = InBuffers /\ Handled' = Handled
    BY DEF InCores, InBuffers, Handled
  <1>5. v.results \subseteq InBuffers
    BY DEF InBuffers
  <1>6. CASE ~Writes(v)
    <2>1. written' = written
      BY <1>6 DEF WriteOut
    <2>2. SentOut' = SentOut
      BY <1>4, <2>1 DEF SentOut, Handled, WrittenResults
    <2>3. Sent' = Sent
      BY <2>2 DEF Sent
    <2> QED BY <2>1, <2>3 DEF Disk
  <1>7. CASE Writes(v)
    <2>1. written' = Append(written, w)
      BY <1>7 DEF WriteOut
    <2>2. w \in Records /\ w.results = v.results
      <3>1. v \in [scan : Nat, start : Int, config : Configs, offset : Int, expected : Int,
                   subints : Nat, results : SUBSET Subints]
        BY <1>1 DEF Visibilities
      <3>2. keepwriting \in BOOLEAN
        BY DEF FxInv, Inv, RingTypeOK
      <3> HIDE DEF v
      <3> QED BY <3>1, <3>2 DEF Records
    <2> HIDE DEF w
    <2>3. Disk' = Append(Disk, R) /\ WrittenResults' = WrittenResults \cup v.results
      BY <1>3, <2>1, <2>2, DiskGrows
    <2>4. Sent' = Sent
      <3>1. SentOut' = SentOut
        BY <1>4, <1>5, <2>3 DEF SentOut, Handled
      <3> QED BY <3>1 DEF Sent
    <2>5. PICK s \in v.results : TRUE
      <3>1. v.results # {}
        <4> SUFFICES ASSUME v.results = {} PROVE FALSE
          OBVIOUS
        <4>1. v.subints = 0 /\ v.subints > 0
          BY <1>1, <1>7, FS_EmptySet DEF Writes
        <4> QED BY <4>1
      <3> QED BY <3>1
    <2>6. Placed(s, k) /\ k \in Nat
      BY <1>1, <2>5 DEF Placed
    <2> DEFINE g == IntegrationNumber[Place(s)]
    <2>7. g \in Promise!Numbers
      <3>1. Place(s) \in JobSubints
        BY <1>1, <2>6, PlacedIsOfJob
      <3> QED BY <3>1 DEF Promise!Numbers
    <2>8. \A j \in 1 .. Len(written) : \A r \in written[j].results :
            \E l \in Nat : l < k /\ Placed(r, l)
      BY <1>2 DEF Recorded, PartOf
    <2> HIDE DEF k, v
    <2>9. R \subseteq Promise!Waiting(g)
      <3> SUFFICES ASSUME NEW p \in R PROVE p \in Promise!Waiting(g)
        OBVIOUS
      <3>1. PICK r \in v.results : p = Place(r)
        BY <2>2 DEF OutputOf
      <3>2. Placed(r, k)
        BY <1>1
      <3>3. p \in Sent
        BY <1>5, <3>1 DEF Sent, SentOut
      <3>4. IntegrationNumber[p] = g
        BY <1>1, <2>6, <3>1, <3>2, IntegrationsInOrder
      <3>5. p \notin Promise!Gathered
        <4> SUFFICES ASSUME p \in Promise!Gathered PROVE FALSE
          OBVIOUS
        <4>1. PICK j \in 1 .. Len(written) : \E u \in written[j].results : p = Place(u)
          BY <1>3, GatheredIs
        <4>2. PICK u \in written[j].results : p = Place(u)
          BY <4>1
        <4>3. PICK l \in Nat : l < k /\ Placed(u, l)
          BY <2>8
        <4>4. r.num = u.num
          BY <1>1, <3>1, <3>2, <4>2, <4>3, SamePlace
        <4>5. k = l
          BY <1>1, <3>2, <4>3, <4>4, NumbersInOrder
        <4> QED BY <2>6, <4>3, <4>5
      <3> QED BY <3>3, <3>4, <3>5 DEF Promise!Waiting
    <2>10. R # {}
      BY <2>2, <2>5 DEF OutputOf
    <2>11. Disk # <<>> => \A p \in Disk[Len(Disk)] : IntegrationNumber[p] < g
      <3> SUFFICES ASSUME Disk # <<>>, NEW p \in Disk[Len(Disk)] PROVE IntegrationNumber[p] < g
        OBVIOUS
      <3> DEFINE n == Len(written)
      <3>1. n \in 1 .. n /\ Len(Disk) = n
        <4>1. Len(Disk) \in Nat \ {0} /\ Len(Disk) = n
          BY <1>3, DiskIs, EmptySeq DEF Disk
        <4> QED BY <4>1
      <3>2. p \in OutputOf(written[n])
        BY <1>3, <3>1, DiskIs DEF Disk
      <3>3. PICK u \in written[n].results : p = Place(u)
        BY <3>2 DEF OutputOf
      <3>4. PICK l \in Nat : l < k /\ Placed(u, l)
        BY <2>8, <3>1
      <3> QED BY <1>1, <2>6, <3>3, <3>4, IntegrationsInOrder
    <2> HIDE DEF R, g
    <2>12. \E h \in Promise!Numbers : \E Q \in SUBSET Promise!Waiting(h) :
             /\ Q # {}
             /\ Disk # <<>> => \A p \in Disk[Len(Disk)] : IntegrationNumber[p] < h
             /\ Disk' = Append(Disk, Q)
      BY <2>3, <2>7, <2>9, <2>10, <2>11
    <2> QED BY <2>4, <2>12 DEF Promise!Output, Disk, DiskOf
  <1> QED BY <1>6, <1>7

\* Steps that move nothing.
LEMMA NothingGoesOut ==
  ASSUME UNCHANGED <<inflight, current, visbuffer, written, ignored>>, Pending' <=> Pending
  PROVE  UNCHANGED <<Sent, Disk>>
  <1>1. InCores' = InCores /\ InBuffers' = InBuffers /\ WrittenResults' = WrittenResults
    BY DEF InCores, InBuffers, WrittenResults
  <1>2. SentOut' = SentOut
    BY <1>1 DEF SentOut
  <1> QED BY <1>2 DEF Sent, Disk

\* What is sent is sent by the Accumulator.
LEMMA FillIsSend ==
  ASSUME Fits, FxInv, HandsInv, NEW b \in Nat, DataInv(b), ignored = {}, Fill
  PROVE  Promise!Send
  <1> DEFINE u == Subint(sendscan, sendtime, sendcount)
             c == sendcount % NumCores
  <1>1. /\ mpc = "ready" /\ MoreInScan /\ SendData(c, sendcount) /\ phase = "scans"
        /\ ~terminatenow
        /\ UNCHANGED <<ringvars, current, visbuffer, written, ignored>>
    BY DEF Fill, MoreInScan
  <1>2. PICK k \in Nat : Going(k)
    BY <1>1, MoreIsGoing DEF Fits, HandsInv
  <1>3. Place(u) \in JobSubints \ Sent
    BY <1>2, NextIsNew
  <1>4. c \in Cores
    <2>1. sendcount \in Nat /\ NumCores \in Nat \ {0}
      BY FxConstants DEF FxInv, SendTypes
    <2> QED BY <2>1, Division DEF Cores
  <1> HIDE DEF u, c
  <1>5. InCores' = InCores \cup {u}
    BY <1>1, <1>2, <1>4, SendGoesOut DEF u
  <1>6. /\ ~Pending /\ ~Pending' /\ InBuffers' = InBuffers /\ WrittenResults' = WrittenResults
        /\ Disk' = Disk
    BY <1>1 DEF Pending, InBuffers, WrittenResults, Disk, ringvars, mvars
  <1>7. SentOut' = SentOut \cup {u}
    BY <1>1, <1>5, <1>6 DEF SentOut
  <1>8. Sent' = Sent \cup {Place(u)}
    BY <1>7 DEF Sent
  <1> QED BY <1>3, <1>6, <1>8 DEF Promise!Send, Disk, DiskOf

\* A result that is taken stays in the manager's hands.
LEMMA ReceiveSendsNothing ==
  ASSUME FxInv, NEW c \in Cores, Receive(c)
  PROVE  UNCHANGED <<Sent, Disk>>
  <1>1. mpc = "ready" /\ mpc' \in {"locate", "advance"} /\ (mpc' = "advance" => after' = "locate")
        /\ UNCHANGED <<visbuffer, written, ignored>>
    BY DEF Receive, BeginLocate, AbandonOldest, Release
  <1>2. ~Pending /\ Pending'
    BY <1>1 DEF Pending
  <1>3. InCores = InCores' \cup {current'.subint}
    BY ReceiveGoesOver
  <1>4. InBuffers' = InBuffers /\ WrittenResults' = WrittenResults /\ Disk' = Disk
    BY <1>1 DEF InBuffers, WrittenResults, Disk
  <1>5. SentOut' = SentOut
    BY <1>1, <1>2, <1>3, <1>4 DEF SentOut
  <1> QED BY <1>4, <1>5 DEF Sent

\* A result is put away, and the Core gets the next subint if there is one.
LEMMA DeliverIsSend ==
  ASSUME Fits, FxInv, OutInv, HandsInv, NEW b \in Nat, DataInv(b), ignored = {}, Deliver
  PROVE  Promise!Send \/ UNCHANGED <<Sent, Disk>>
  <1> DEFINE s == current.subint
             v == visbuffer[visindex]
             c == current.core
             u == Subint(sendscan, sendtime, sendcount)
  <1>1. /\ mpc = "deliver" /\ SendMore
        /\ mpc' \in {"ready", "lockahead"} \/ (mpc' = "advance" /\ after' = "ready")
        /\ visbuffer' = [visbuffer EXCEPT ![visindex] = AddData(v, s)]
        /\ UNCHANGED <<written, ignored>>
    BY DEF Deliver, AddLast, AddIncomplete, Release
  <1>2. Pending /\ ~Pending'
    BY <1>1 DEF Pending
  <1>3. visindex \in Vis /\ visbuffer \in [Vis -> Visibilities] /\ c \in Cores
    BY DEF FxInv, Inv, RingTypeOK, OutInv, CoreTypes
  <1>4. InBuffers' = InBuffers \cup {s}
    <2>1. AddData(v, s).results = v.results \cup {s}
      <3>1. v \in Visibilities
        BY <1>3
      <3>2. v \in [scan : Nat, start : Int, config : Configs, offset : Int, expected : Int,
                   subints : Nat, results : SUBSET Subints]
        BY <3>1 DEF Visibilities
      <3> HIDE DEF v, s
      <3> QED BY <3>2 DEF AddData
    <2>2. \A i \in Vis : visbuffer'[i] = IF i = visindex THEN AddData(v, s) ELSE visbuffer[i]
      BY <1>1, <1>3
    <2> HIDE DEF s
    <2>3. \A i \in Vis : visbuffer'[i].results =
                           IF i = visindex THEN visbuffer[i].results \cup {s} ELSE visbuffer[i].results
      BY <2>1, <2>2
    <2>4. \A x : x \in InBuffers <=> \E i \in Vis : x \in visbuffer[i].results
      BY DEF InBuffers
    <2>5. \A x : x \in InBuffers' <=> \E i \in Vis : x \in visbuffer'[i].results
      BY DEF InBuffers
    <2>6. \A x : x \in InBuffers' <=> x \in InBuffers \/ x = s
      BY <1>3, <2>3, <2>4, <2>5
    <2> QED BY <2>6
  <1>5. WrittenResults' = WrittenResults /\ Disk' = Disk
    BY <1>1 DEF WrittenResults, Disk
  <1>6. CASE ~current.resend
    <2>1. InCores' = InCores
      BY <1>1, <1>6 DEF SendMore, InCores
    <2>2. SentOut' = SentOut
      BY <1>1, <1>2, <1>4, <1>5, <2>1 DEF SentOut
    <2> QED BY <1>5, <2>2 DEF Sent
  <1>7. CASE current.resend
    <2>1. PICK k \in Nat : Going(k)
      BY <1>2, <1>7 DEF HandsInv, NextInv
    <2>2. Place(u) \in JobSubints \ Sent
      BY <2>1, NextIsNew
    <2> HIDE DEF u
    <2>3. InCores' = InCores \cup {u}
      <3>1. SendData(c, sendcount)
        BY <1>1, <1>7 DEF SendMore
      <3> QED BY <1>3, <2>1, <3>1, SendGoesOut DEF u
    <2>4. SentOut' = SentOut \cup {u}
      BY <1>1, <1>2, <1>4, <1>5, <2>3 DEF SentOut
    <2>5. Sent' = Sent \cup {Place(u)}
      BY <2>4 DEF Sent
    <2> QED BY <1>5, <2>2, <2>5 DEF Promise!Send, Disk, DiskOf
  <1> QED BY <1>6, <1>7

\* A buffer that is used again has been written.
LEMMA RecycleLosesNothing ==
  ASSUME Fits, FxInv, OutInv, HandsInv, NEW b \in Nat, DataInv(b), Recycle
  PROVE  UNCHANGED <<Sent, Disk>>
  <1> DEFINE ws == writesegment
             u == Increment(visbuffer[ws], VisBufferLength)
  <1>1. /\ wpc = "increment" /\ visbuffer' = [visbuffer EXCEPT ![ws] = u]
        /\ UNCHANGED <<mpc, after, inflight, current, written, ignored>>
    BY DEF Recycle, WriterIncrement, mvars, corevars
  <1>2. /\ RegularJob /\ Inv /\ ws \in Vis /\ visbuffer \in [Vis -> Visibilities] /\ flushed = 0
        /\ CalendarInv(b) /\ ResultsInv(b) /\ WrittenInv(b)
    BY <1>1 DEF Fits, FxInv, Inv, RingTypeOK, OutInv, DataInv, EndInv
  <1>3. u.results = {}
    BY <1>2, RecycledIs
  <1>4. Number(b, ws) = b
    BY <1>2, NumbersApart DEF Inv
  <1> HIDE DEF u
  <1>5. \A i \in Vis : visbuffer'[i] = IF i = ws THEN u ELSE visbuffer[i]
    BY <1>1, <1>2
  <1>6. /\ InCores' = InCores /\ WrittenResults' = WrittenResults /\ Disk' = Disk
        /\ (Pending' <=> Pending)
    BY <1>1 DEF InCores, WrittenResults, Disk, Pending
  <1>7. InBuffers' \subseteq InBuffers /\ InBuffers \subseteq InBuffers' \cup visbuffer[ws].results
    BY <1>2, <1>3, <1>5 DEF InBuffers
  <1>8. ASSUME NEW s \in visbuffer[ws].results
        PROVE  \E r \in WrittenResults : Place(r) = Place(s)
    <2>1. Placed(s, b) /\ s.num \in Answered
      BY <1>2, <1>4 DEF ResultsInv
    <2>2. s.num \in Span(b) /\ Outgoing(b) = b + 1
      BY <1>1, <1>2, <2>1 DEF Placed, Outgoing
    <2>3. s.num < Before(b + 1)
      <3>1. Span(b) = Before(b) .. Before(b + 1) - 1 /\ Before(b) \in Nat /\ Before(b + 1) \in Nat
        BY <1>2, SpanIs
      <3> HIDE DEF Before, Span
      <3> QED BY <2>2, <3>1
    <2>4. PICK r \in WrittenResults : r.num = s.num
      <3>1. s.num \in WrittenNums
        BY <1>2, <2>1, <2>2, <2>3 DEF WrittenInv
      <3> QED BY <3>1 DEF WrittenNums
    <2>5. PICK j \in 1 .. Len(written) : r \in written[j].results
      BY DEF WrittenResults
    <2>6. PICK l \in Nat : Placed(r, l)
      BY <1>2, <2>5 DEF WrittenInv, Recorded, PartOf
    <2>7. Place(r) = Place(s)
      BY <1>2, <2>1, <2>4, <2>6, SamePlace
    <2> QED BY <2>7
  <1>9. Sent' = Sent
    <2>1. SentOut' \subseteq SentOut
      BY <1>1, <1>6, <1>7 DEF SentOut
    <2>2. ASSUME NEW s \in SentOut PROVE \E r \in SentOut' : Place(r) = Place(s)
      <3>1. s \in SentOut' \/ s \in visbuffer[ws].results
        BY <1>1, <1>6, <1>7 DEF SentOut
      <3>2. WrittenResults \subseteq SentOut'
        BY <1>6 DEF SentOut
      <3> QED BY <1>8, <3>1, <3>2
    <2> QED BY <2>1, <2>2 DEF Sent
  <1> QED BY <1>6, <1>9

\* No result is ever ignored.
LEMMA NoneIgnored ==
  Fits /\ FxInv /\ OutInv /\ GatherInv /\ ignored = {} /\ [FxNext]_vars => ignored' = {}
  <1> SUFFICES ASSUME Fits, FxInv, OutInv, GatherInv, ignored = {}, [FxNext]_vars PROVE ignored' = {}
    OBVIOUS
  <1>1. PICK b \in Nat : DataInv(b)
    BY DEF GatherInv
  <1>2. ~LocateStale
    BY <1>1, NotStale DEF GatherInv, OutInv
  <1>3. Manager => ignored' = ignored
    BY <1>2 DEF Manager, Fill, NextScan, Receive, LocateFound, LocateBeyond, Extend, Drop, DropNoMore,
                ExtendDropped, Deliver, Advance, LockNextAhead, Finish, Unlock, Join, fxvars
  <1>4. Writer \/ Interrupt \/ Done \/ UNCHANGED vars => ignored' = ignored
    BY DEF Writer, CheckWriting, LockWriting, Write, Recycle, Flush, Interrupt, Done, vars, fxvars
  <1> QED BY <1>3, <1>4 DEF FxNext

\* Every step is one of the Accumulator, or it does not see it.
LEMMA StepIsAccumulators ==
  ASSUME Fits, NoneBefore, FxInv, OutInv, OutInv', GatherInv, ignored = {}, [FxNext]_vars
  PROVE  Promise!Next \/ UNCHANGED <<Sent, Disk>>
  <1>1. HandsInv
    BY DEF GatherInv
  <1>2. PICK b \in Nat : DataInv(b)
    BY DEF GatherInv
  <1>3. CASE Fill
    BY <1>1, <1>2, <1>3, FillIsSend DEF Promise!Next
  <1>4. CASE NextScan
    <2>1. UNCHANGED <<ringvars, inflight, current, visbuffer, written, ignored>>
      BY <1>4 DEF NextScan, corevars
    <2>2. Pending' <=> Pending
      BY <2>1 DEF ringvars, mvars, Pending
    <2> QED BY <2>1, <2>2, NothingGoesOut
  <1>5. ASSUME NEW c \in Cores, Receive(c) PROVE UNCHANGED <<Sent, Disk>>
    BY <1>5, ReceiveSendsNothing
  <1>6. CASE Deliver
    BY <1>1, <1>2, <1>6, DeliverIsSend DEF Promise!Next
  <1>7. CASE LocateFound \/ LocateBeyond \/ Extend \/ Advance \/ LockNextAhead
    BY <1>2, <1>7, WindowStepQuiet, NothingGoesOut
  <1>8. CASE LocateStale
    BY <1>1, <1>2, <1>8, NotStale DEF OutInv
  <1>9. CASE Drop \/ DropNoMore \/ ExtendDropped
    BY <1>2, <1>9, NeverDropping
  <1>10. CASE \/ Finish \/ Unlock \/ Join \/ CheckWriting \/ LockWriting
              \/ Interrupt \/ Done \/ UNCHANGED vars
    BY <1>10, QuietStepIs, NothingGoesOut
  <1>11. CASE Write
    <2>1. /\ wpc = "write" /\ WriteOut(writesegment)
          /\ UNCHANGED <<mpc, after, inflight, current, visbuffer, ignored>>
      BY <1>11 DEF Write, WriterWrite, mvars, corevars
    <2>2. Inv /\ writesegment \in Vis /\ flushed = 0
      BY <2>1 DEF FxInv, Inv, RingTypeOK, EndInv
    <2>3. Number(b, writesegment) = b /\ Outgoing(b) = b
      BY <2>1, <2>2, NumbersApart DEF Inv, Outgoing
    <2>4. Pending' <=> Pending
      BY <2>1 DEF Pending
    <2>5. Promise!Output \/ UNCHANGED <<Sent, Disk>>
      BY <1>1, <1>2, <2>1, <2>2, <2>3, <2>4, WriteIsOutput
    <2> QED BY <2>5 DEF Promise!Next
  <1>12. CASE Flush
    <2> DEFINE i == (writesegment + flushed) % VisBufferLength
    <2>1. /\ wpc = "flush" /\ WriteOut(i)
          /\ UNCHANGED <<mpc, after, inflight, current, visbuffer, ignored>>
      BY <1>12 DEF Flush, WriterFlush, mvars, corevars
    <2>2. flushed < VisBufferLength /\ flushed \in Nat
      BY <2>1 DEF FxInv, Inv, RingTypeOK, EndInv
    <2>3. i \in Vis /\ Number(b, i) = b + flushed
      BY <2>2, FlushIs
    <2> HIDE DEF i
    <2>4. Outgoing(b) = b + flushed
      BY <2>1, <2>2 DEF Outgoing
    <2>5. Pending' <=> Pending
      BY <2>1 DEF Pending
    <2>6. Promise!Output \/ UNCHANGED <<Sent, Disk>>
      BY <1>1, <1>2, <2>1, <2>3, <2>4, <2>5, WriteIsOutput
    <2> QED BY <2>6 DEF Promise!Next
  <1>13. CASE Recycle
    BY <1>1, <1>2, <1>13, RecycleLosesNothing
  <1> QED BY <1>3, <1>4, <1>5, <1>6, <1>7, <1>8, <1>9, <1>10, <1>11, <1>12, <1>13
          DEF FxNext, Manager, Writer

\* At the start nothing went out.
LEMMA InitIsAccumulators == Fits /\ FxInit => Promise!Init /\ ignored = {}
  <1> SUFFICES ASSUME Fits, FxInit PROVE Promise!Init /\ ignored = {}
    OBVIOUS
  <1>1. /\ written = <<>> /\ ignored = {} /\ \A c \in Cores : inflight[c] = <<>>
        /\ \A i \in Vis : visbuffer[i] = NewVisibility(i) /\ ~Pending
    BY DEF FxInit, RingInit, Pending
  <1>2. Disk = <<>>
    <2>1. <<>> \in Seq(Records)
      BY EmptySeq
    <2> QED BY <1>1, <2>1, DiskIs DEF Disk
  <1>3. InCores = {}
    BY <1>1 DEF InCores
  <1>4. WrittenResults = {}
    BY <1>1 DEF WrittenResults
  <1>5. InBuffers = {}
    <2>1. \A i \in Vis : visbuffer[i].results = {}
      <3> TAKE i \in Vis
      <3>1. i \in Nat
        BY RingArithmetic
      <3>2. visbuffer[i] = Calendar(i)
        BY <1>1 DEF Calendar
      <3>3. Clock(Calendar(i)) = Calendar(i) /\ Calendar(i) \in Visibilities
        BY <3>1, CalendarNext
      <3> HIDE DEF Calendar
      <3>4. Calendar(i).results = {}
        BY <3>3 DEF Clock, Visibilities
      <3> QED BY <3>2, <3>4
    <2> QED BY <2>1 DEF InBuffers
  <1>6. Sent = {}
    <2>1. ~Pending
      BY DEF FxInit, RingInit, Pending
    <2>2. SentOut = {}
      BY <1>1, <1>3, <1>4, <1>5, <2>1 DEF SentOut
    <2> QED BY <2>2 DEF Sent
  <1> QED BY <1>1, <1>2, <1>6 DEF Promise!Init, Disk, DiskOf

\* FxManager implements Accumulator: of a regular job, whose Cores are not too far
\* apart, each integration goes to disk at most once, in the order of time, with
\* results of its own subints, and no result that went out is lost on the way.
THEOREM FxKeepsPromise == RegularJob /\ Spread /\ NoneBefore => (FxSpec => KeepsPromise)
  <1> SUFFICES ASSUME Fits, NoneBefore PROVE FxSpec => KeepsPromise
    BY DEF Fits
  <1>1. FxInit => Promise!Init /\ ignored = {}
    BY InitIsAccumulators
  <1>2. FxInv /\ OutInv /\ GatherInv /\ ignored = {} /\ [FxNext]_vars => (ignored = {})'
    BY NoneIgnored
  <1>3. FxInv /\ OutInv /\ OutInv' /\ GatherInv /\ ignored = {} /\ [FxNext]_vars
          => [Promise!Next]_<<Sent, [i \in 1 .. Len(written) |-> {Place(s) : s \in written[i].results}]>>
    BY StepIsAccumulators DEF Disk, DiskOf
  <1> QED BY <1>1, <1>2, <1>3, FxInvariant, OutInit, OutStep, FxGathers, PTL
          DEF FxSpec, KeepsPromise, Promise!Spec
=============================================================================
