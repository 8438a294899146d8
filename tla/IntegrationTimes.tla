------------------------- MODULE IntegrationTimes -------------------------
(***************************************************************************)
(* The integrations of a job one after another, as the Visibility objects  *)
(* of the ring go through them: the constructor's, then updateTime again   *)
(* and again until the job is over (visibility.cpp).  The question is      *)
(* whether they fit the subints that FxManager::execute sends out: whether *)
(* each subint has an integration, and whether an integration expects as   *)
(* many subints as it will get (if fewer, it is written before its last    *)
(* results arrive; if more, it is only written when the job ends).         *)
(***************************************************************************)
EXTENDS Integers, FiniteSets

CONSTANT Jobs   \* the jobs to look at, each a record of the constants of Job

\* What Job assumes of its constants; and scans last whole seconds.
ASSUME JobsAssumption ==
  \A j \in Jobs :
    LET scans == 0 .. j.numscans - 1
        configs == DOMAIN j.inttime
    IN /\ j.numscans \in Nat \ {0} /\ j.second \in Nat \ {0}
       /\ j.start \in [scans -> Int] /\ j.duration \in [scans -> Nat]
       /\ j.config \in [scans -> configs \cup {-1}] /\ configs \subseteq Nat
       /\ j.inttime \in [configs -> Nat \ {0}] /\ j.subint \in [configs -> Nat \ {0}]
       /\ j.startns \in Nat /\ j.seconds \in Nat
       /\ \A n \in scans : j.duration[n] % j.second = 0
       /\ \E n \in scans : j.config[n] >= 0 /\ \E m \in 0 .. n : j.start[m] + j.duration[m] >= 0

VARIABLES
  job,
  vis,          \* the integration
  seen          \* the scan and start of the integrations so far

vars == <<job, vis, seen>>

\* The constants of Job are those of the job looked at.
Second == job.second
NumScans == job.numscans
ScanStart == job.start
ScanDuration == job.duration
ScanConfig == job.config
IntTime == job.inttime
SubintNS == job.subint
StartNS == job.startns
ExecuteSeconds == job.seconds

INSTANCE Visibility

Key(v) == [scan |-> v.scan, start |-> v.start]

Init ==
  /\ job \in Jobs
  /\ vis = NewVisibility(0)
  /\ seen = {Key(vis)}

Next ==
  /\ vis.scan < NumScans
  /\ vis' = UpdateTime(vis)
  /\ seen' = seen \cup {Key(vis')}
  /\ UNCHANGED job

Spec == Init /\ [][Next]_vars

-----------------------------------------------------------------------------

\* The subints that go out for the integration.
Gets(v) == {t \in SubintStarts(v.scan) : Belongs(v, v.scan, t)}

\* The part of a scan that is correlated.
Length(n) == ScanDuration[n] - (IF n = InitScan THEN InitTime ELSE 0)

\* Integrations are made of whole subints.
Whole == \A c \in Configs : IntTime[c] % SubintNS[c] = 0

\* All that is correlated is correlated in one configuration.
OneConfig ==
  \A m, n \in Scans : ScanConfig[m] >= 0 /\ ScanConfig[n] >= 0 => ScanConfig[m] = ScanConfig[n]

\* And scans are made of whole subints too, not shorter than an integration,
\* and end before the job does.
Regular ==
  /\ Whole /\ OneConfig
  /\ \A n \in Scans : ScanConfig[n] >= 0 =>
       /\ Length(n) % SubintNS[ScanConfig[n]] = 0
       /\ Length(n) >= IntTime[ScanConfig[n]]
       /\ ScanStart[n] + ScanDuration[n] <= ExecuteSeconds

\* An integration is never complete before all its results are in.
NeverEarly == vis.scan < NumScans => vis.expected >= Cardinality(Gets(vis))

\* In a regular job it is complete when they are.
ExpectedIsSent ==
  Regular /\ vis.scan < NumScans => vis.expected = Cardinality(Gets(vis))

\* Half a subint is not longer than a second, or integrations are made of
\* whole ones.
Placeable ==
  \A c \in Configs : SubintNS[c] \div 2 <= Second \/ IntTime[c] % SubintNS[c] = 0

\* When the job is over, every subint had exactly one integration.
SubintsPlaced ==
  Placeable /\ vis.scan = NumScans =>
    \A n \in Scans :
      (n >= InitScan /\ ScanConfig[n] >= 0) =>
        \A t \in SubintStarts(n) :
          Cardinality({k \in seen : k.scan < NumScans /\ Belongs(k, n, t)}) = 1
=============================================================================
