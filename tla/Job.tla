-------------------------------- MODULE Job --------------------------------
(***************************************************************************)
(* What a correlation job consists of, as FxManager and Visibility read it *)
(* from Configuration and Model: scans, the configuration of each, and the *)
(* times that cut a scan into integrations and sub-integrations (subints). *)
(*                                                                         *)
(* A time is one integer, in ticks; the code keeps seconds and nanoseconds *)
(* apart and normalised.  A tick is chosen so that half a subint, which    *)
(* the code computes in nanoseconds, is a whole number of ticks.           *)
(***************************************************************************)
EXTENDS Integers

CONSTANTS
  Second,         \* ticks in a second
  NumScans,
  ScanStart,      \* scan -> start, relative to the start of the job
  ScanDuration,   \* scan -> duration
  ScanConfig,     \* scan -> configuration, or -1 if it is not correlated
  IntTime,        \* configuration -> integration time
  SubintNS,       \* configuration -> duration of a subint
  StartNS,        \* fraction of a second at which the job starts
  ExecuteSeconds  \* duration of the job

Scans == 0 .. NumScans - 1
Configs == DOMAIN IntTime

ASSUME JobAssumption ==
  /\ NumScans \in Nat \ {0} /\ Second \in Nat \ {0}
  /\ ScanStart \in [Scans -> Int]
  /\ ScanDuration \in [Scans -> Nat]
  /\ ScanConfig \in [Scans -> Configs \cup {-1}] /\ Configs \subseteq Nat
  /\ IntTime \in [Configs -> Nat \ {0}] /\ SubintNS \in [Configs -> Nat \ {0}]
  /\ StartNS \in Nat /\ ExecuteSeconds \in Nat

\* There is a scan to correlate that does not end before the job starts, or
\* comes after one that does not: else the constructor of FxManager aborts.
ASSUME StartAssumption ==
  \E n \in Scans :
    /\ ScanConfig[n] >= 0
    /\ \E m \in 0 .. n : ScanStart[m] + ScanDuration[m] >= 0

\* The first scan from s on that is correlated, or NumScans.
NextConfigured(s) ==
  CHOOSE n \in s .. NumScans :
    /\ n = NumScans \/ ScanConfig[n] >= 0
    /\ \A m \in s .. n - 1 : m = NumScans \/ ScanConfig[m] < 0

\* The first scan that does not end before the job starts.
FirstScan ==
  CHOOSE n \in Scans :
    /\ ScanStart[n] + ScanDuration[n] >= 0
    /\ \A m \in 0 .. n - 1 : ScanStart[m] + ScanDuration[m] < 0

\* Where the job starts: initscan, and initsec and initns as one time.
InitScan == NextConfigured(FirstScan)
InitTime ==
  (IF ScanStart[InitScan] > 0 THEN 0 ELSE -ScanStart[InitScan])
    + (IF InitScan = FirstScan THEN StartNS ELSE 0)

\* The condition under which execute sends out the subint of a scan that
\* starts at t: not past the end of the scan nor of the job, and, in the last
\* second of either, with more than half of it before the end of that second.
InScan(scan, t) ==
  LET sec == t \div Second
      lastsecond == \/ Second * (sec + 1) = ScanDuration[scan]
                    \/ ScanStart[scan] + Second * (sec + 1) = ExecuteSeconds
  IN /\ Second * sec < ScanDuration[scan]
     /\ ScanStart[scan] + Second * sec < ExecuteSeconds
     /\ lastsecond => Second - (t % Second) > SubintNS[ScanConfig[scan]] \div 2

Centre(scan, t) == t + SubintNS[ScanConfig[scan]] \div 2

\* The start times of the subints a whole scan is cut into.
SubintStarts(scan) ==
  LET from == IF scan = InitScan THEN InitTime ELSE 0
      S == SubintNS[ScanConfig[scan]]
  IN {t \in from .. ScanDuration[scan] : (t - from) % S = 0 /\ InScan(scan, t)}
=============================================================================
