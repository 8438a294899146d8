----------------------- MODULE IntegrationTimesProofs -----------------------
(***************************************************************************)
(* Proofs about IntegrationTimes, for all jobs that JobsAssumption allows. *)
(*                                                                         *)
(* The integrations of a scan begin where the scan does, each where the    *)
(* one before ends, and go on until one ends after the scan (SeenOK); so   *)
(* whatever lies in the scan lies in exactly one of them.  If they are     *)
(* made of whole subints nothing is carried from one to the next, and each *)
(* expects its own number of subints less those that the end of the scan   *)
(* cuts off (ExpectOK).  All arithmetic rests on steps of the same length  *)
(* being apart by that length (StepsApart in Numbers).                     *)
(***************************************************************************)
EXTENDS IntegrationTimes, Numbers, FunctionTheorems, TLAPS

-----------------------------------------------------------------------------
(* The job *)

\* What is assumed of a job, of the one looked at.
JobOK ==
  /\ NumScans \in Nat \ {0} /\ Second \in Nat \ {0}
  /\ ScanStart \in [Scans -> Int] /\ ScanDuration \in [Scans -> Nat]
  /\ ScanConfig \in [Scans -> Configs \cup {-1}] /\ Configs \subseteq Nat
  /\ IntTime \in [Configs -> Nat \ {0}] /\ SubintNS \in [Configs -> Nat \ {0}]
  /\ StartNS \in Nat /\ ExecuteSeconds \in Nat
  /\ \A n \in Scans : ScanDuration[n] % Second = 0
  /\ \E n \in Scans : ScanConfig[n] >= 0 /\ \E m \in 0 .. n : ScanStart[m] + ScanDuration[m] >= 0

LEMMA JobIs == ASSUME job \in Jobs PROVE JobOK
  BY JobsAssumption
     DEF JobOK, NumScans, Second, ScanStart, ScanDuration, ScanConfig, IntTime, SubintNS,
         StartNS, ExecuteSeconds, Scans, Configs

\* The scan n is correlated.
Correlated(n) == n \in Scans /\ ScanConfig[n] \in Configs

\* The configuration of a scan is a number, and not negative just if it is
\* correlated.
LEMMA ConfigNumber ==
  ASSUME JobOK, NEW n \in Scans
  PROVE  ScanConfig[n] \in Int /\ (ScanConfig[n] >= 0 <=> Correlated(n))
  <1>1. ScanConfig[n] \in Configs \cup {-1} /\ Configs \subseteq Nat
    BY DEF JobOK
  <1>2. CASE ScanConfig[n] \in Configs
    <2>1. ScanConfig[n] \in Nat
      BY <1>1, <1>2
    <2> QED BY <1>2, <2>1 DEF Correlated
  <1>3. CASE ScanConfig[n] = -1 /\ ScanConfig[n] \notin Configs
    BY <1>3 DEF Correlated
  <1> QED BY <1>1, <1>2, <1>3

\* NextConfigured finds the first scan that is correlated.
LEMMA NextConfiguredIs ==
  ASSUME JobOK, NEW s \in 0 .. NumScans
  PROVE  /\ NextConfigured(s) \in s .. NumScans
         /\ NextConfigured(s) = NumScans \/ Correlated(NextConfigured(s))
         /\ \A m \in s .. NextConfigured(s) - 1 : ~Correlated(m)
  <1> DEFINE IsFirst(n) == /\ n = NumScans \/ ScanConfig[n] >= 0
                           /\ \A m \in s .. n - 1 : m = NumScans \/ ScanConfig[m] < 0
             T == {n \in s .. NumScans : n = NumScans \/ ScanConfig[n] >= 0}
             c == NextConfigured(s)
  <1>0. NumScans \in Nat /\ s \in Nat /\ s <= NumScans /\ Scans = 0 .. NumScans - 1
    BY DEF JobOK, Scans
  <1>1. PICK n \in T : \A m \in T : n <= m
    <2>1. T \in SUBSET Nat /\ NumScans \in T
      BY <1>0
    <2> HIDE DEF T
    <2> QED BY <2>1, Least
  <1>2. ASSUME NEW m \in s .. n - 1 PROVE ScanConfig[m] < 0
    <2>1. m \in Scans /\ m \in s .. NumScans /\ m \notin T
      BY <1>0, <1>1
    <2> QED BY <2>1, ConfigNumber
  <1>3. c \in s .. NumScans /\ IsFirst(c)
    <2>1. n \in s .. NumScans /\ IsFirst(n)
      BY <1>1, <1>2
    <2>2. c = CHOOSE k \in s .. NumScans : IsFirst(k)
      BY DEF NextConfigured
    <2> HIDE DEF IsFirst
    <2> QED BY <2>1, <2>2
  <1> HIDE DEF c
  <1>4. \A m \in s .. c - 1 : m \in Scans /\ m # NumScans
    BY <1>0, <1>3
  <1>5. c = NumScans \/ c \in Scans
    BY <1>0, <1>3
  <1>6. \A m \in s .. c - 1 : ~Correlated(m)
    BY <1>3, <1>4, ConfigNumber
  <1>7. c = NumScans \/ Correlated(c)
    BY <1>3, <1>5, ConfigNumber
  <1> QED BY <1>3, <1>6, <1>7 DEF c

\* The first scan there is something to do in.
LEMMA InitScanIs ==
  ASSUME JobOK
  PROVE  Correlated(InitScan) /\ InitTime \in Nat
  <1> DEFINE Ends(m) == ScanStart[m] + ScanDuration[m] >= 0
             T == {m \in Scans : Ends(m)}
             IsFirst(k) == Ends(k) /\ \A m \in 0 .. k - 1 : ScanStart[m] + ScanDuration[m] < 0
  <1>0. /\ NumScans \in Nat /\ Scans = 0 .. NumScans - 1
        /\ ScanStart \in [Scans -> Int] /\ ScanDuration \in [Scans -> Nat] /\ StartNS \in Nat
    BY DEF JobOK, Scans
  <1>n. PICK n \in Scans : ScanConfig[n] >= 0 /\ \E m \in 0 .. n : Ends(m)
    BY DEF JobOK
  <1>1. PICK m \in 0 .. n : ScanConfig[n] >= 0 /\ Ends(m)
    BY <1>n
  <1>2. m \in T
    BY <1>0, <1>1
  <1>3. PICK f \in T : \A k \in T : f <= k
    <2>1. T \in SUBSET Nat
      BY <1>0
    <2> HIDE DEF T
    <2> QED BY <1>2, <2>1, Least
  <1>4. IsFirst(f)
    <2>1. ASSUME NEW k \in 0 .. f - 1 PROVE ScanStart[k] + ScanDuration[k] < 0
      <3>1. k \in Scans /\ k \notin T
        BY <1>0, <1>3
      <3> QED BY <1>0, <3>1
    <2> QED BY <1>3, <2>1
  <1>5. FirstScan \in Scans /\ IsFirst(FirstScan)
    <2>1. FirstScan = CHOOSE k \in Scans : IsFirst(k)
      BY DEF FirstScan
    <2> HIDE DEF IsFirst
    <2> QED BY <1>3, <1>4, <2>1
  <1>6. FirstScan <= n
    <2>1. ~(m < FirstScan)
      BY <1>0, <1>1, <1>2, <1>5
    <2> QED BY <1>0, <1>1, <1>5, <2>1
  <1>7. Correlated(InitScan)
    <2> DEFINE c == InitScan
    <2>1. /\ c \in FirstScan .. NumScans /\ (c = NumScans \/ Correlated(c))
          /\ \A k \in FirstScan .. c - 1 : ~Correlated(k)
      BY <1>0, <1>5, NextConfiguredIs DEF InitScan
    <2>2. n \in FirstScan .. NumScans - 1 /\ Correlated(n)
      BY <1>0, <1>1, <1>5, <1>6, ConfigNumber
    <2> HIDE DEF c
    <2>3. c # NumScans
      BY <2>1, <2>2
    <2> QED BY <2>1, <2>3 DEF c
  <1>8. InitTime \in Nat
    <2>1. ScanStart[InitScan] \in Int
      BY <1>0, <1>7 DEF Correlated
    <2> QED BY <1>0, <2>1 DEF InitTime
  <1> QED BY <1>7, <1>8

-----------------------------------------------------------------------------
(* The integrations *)

\* Where a scan begins, in the job.
From(n) == IF n = InitScan THEN InitTime ELSE 0

\* An integration is of a scan that is correlated, in the configuration of the
\* scan, and a number of integration times from where the scan begins.
VisType ==
  [scan : InitScan .. NumScans, start : Nat, config : Configs, offset : Int, expected : Int,
   subints : {0}, results : {{}}]
VisOK(v) ==
  /\ v \in VisType
  /\ v.scan < NumScans =>
       /\ Correlated(v.scan) /\ v.config = ScanConfig[v.scan] /\ From(v.scan) <= v.start
       /\ (v.start - From(v.scan)) % IntTime[v.config] = 0

\* The numbers of a configuration.
LEMMA ConfigNumbers ==
  ASSUME JobOK, NEW c \in Configs
  PROVE  /\ IntTime[c] \in Nat \ {0} /\ SubintNS[c] \in Nat \ {0}
         /\ IntTime[c] % SubintNS[c] \in Nat /\ IntTime[c] \div SubintNS[c] \in Int
         /\ SubintNS[c] \div 2 \in Nat /\ SubintNS[c] \div 2 < SubintNS[c]
  <1> DEFINE I == IntTime[c]
             S == SubintNS[c]
  <1>1. I \in Nat \ {0} /\ S \in Nat \ {0}
    BY DEF JobOK
  <1> HIDE DEF I, S
  <1>2. I \in Int /\ S \in Int
    BY <1>1
  <1>3. I % S \in 0 .. S - 1 /\ I \div S \in Int
    BY <1>1, <1>2, Division
  <1>4. S \div 2 \in Nat /\ S \div 2 < S
    BY <1>1, SMT
  <1> QED BY <1>1, <1>3, <1>4 DEF I, S

\* The numbers of all scans.
LEMMA ScanNumbers ==
  ASSUME JobOK
  PROVE  /\ InitScan \in Nat /\ NumScans \in Nat /\ InitScan < NumScans /\ Scans = 0 .. NumScans - 1
         /\ \A n \in Scans : ScanDuration[n] \in Nat /\ ScanStart[n] \in Int
         /\ \A n : From(n) \in Nat
  <1>1. /\ NumScans \in Nat /\ Scans = 0 .. NumScans - 1
        /\ ScanStart \in [Scans -> Int] /\ ScanDuration \in [Scans -> Nat]
    BY DEF JobOK, Scans
  <1>2. InitScan \in Scans /\ InitTime \in Nat
    BY InitScanIs DEF Correlated
  <1>3. \A n : From(n) \in Nat
    BY <1>2 DEF From
  <1>4. InitScan \in Nat /\ InitScan < NumScans
    BY <1>1, <1>2
  <1>5. \A n \in Scans : ScanDuration[n] \in Nat /\ ScanStart[n] \in Int
    BY <1>1
  <1> QED BY <1>1, <1>3, <1>4, <1>5

\* Nothing is carried on from integrations of whole subints.
LEMMA CarryIs ==
  ASSUME JobOK, NEW c \in Configs, NEW o \in Int
  PROVE  /\ Carry(c, o).offset \in Int /\ Carry(c, o).subints \in Int
         /\ IntTime[c] % SubintNS[c] = 0 /\ o = 0 =>
              Carry(c, o).offset = 0 /\ Carry(c, o).subints = IntTime[c] \div SubintNS[c]
  BY ConfigNumbers DEF Carry

\* The next integration: of the same scan, or the first of the next one.
LEMMA UpdateTimeIs ==
  ASSUME JobOK, NEW v, VisOK(v), v.scan < NumScans
  PROVE  LET w == UpdateTime(v)
             end == v.start + IntTime[v.config]
             first == Carry(v.config, 0)
             next == Carry(v.config, v.offset)
         IN /\ VisOK(w)
            /\ \/ /\ end < ScanDuration[v.scan]
                  /\ w.scan = v.scan /\ w.start = end /\ w.config = v.config
                  /\ w.offset = next.offset /\ w.expected = CutShort(v, end, next.subints)
               \/ /\ end >= ScanDuration[v.scan]
                  /\ w.scan = NextConfigured(v.scan + 1) /\ w.start = 0
                  /\ w.scan > v.scan /\ \A n \in v.scan + 1 .. w.scan - 1 : ~Correlated(n)
                  /\ w.offset = first.offset /\ w.expected = first.subints
  <1> DEFINE w == UpdateTime(v)
             I == IntTime[v.config]
             S == SubintNS[v.config]
             D == ScanDuration[v.scan]
             F == From(v.scan)
             s == v.start
             end == s + I
             first == Carry(v.config, 0)
             next == Carry(v.config, v.offset)
  <1>1. /\ v \in VisType /\ Correlated(v.scan) /\ v.config = ScanConfig[v.scan] /\ F <= s
        /\ (s - F) % I = 0
    BY DEF VisOK
  <1>2. /\ v.scan \in InitScan .. NumScans /\ v.start \in Nat /\ v.config \in Configs
        /\ v.offset \in Int /\ v.expected \in Int
        /\ v = [scan |-> v.scan, start |-> v.start, config |-> v.config, offset |-> v.offset,
                expected |-> v.expected, subints |-> v.subints, results |-> v.results]
    BY <1>1 DEF VisType
  <1>3. I \in Nat \ {0} /\ S \in Nat \ {0} /\ F \in Nat /\ D \in Nat
    BY <1>1, <1>2, ConfigNumbers, ScanNumbers DEF Correlated
  <1>4. InitScan \in Nat /\ NumScans \in Nat /\ v.scan \in Nat
    BY <1>2, ScanNumbers
  <1>5. CASE end < D
    <2> DEFINE x == CutShort(v, end, next.subints)
    <2>1. w = [v EXCEPT !.start = end, !.offset = next.offset, !.expected = x]
      BY <1>2, <1>3, <1>4, <1>5 DEF UpdateTime
    <2>2. next.offset \in Int /\ x \in Int /\ end \in Nat
      <3>1. next.offset \in Int /\ next.subints \in Int
        BY <1>2, CarryIs
      <3> HIDE DEF next, I, S, D
      <3>2. x \in Int
        <4> DEFINE over == end + I - D
        <4>1. over \in Int
          BY <1>2, <1>3
        <4>2. over \div S \in Int
          <5> HIDE DEF over
          <5> QED BY <1>3, <4>1, Division
        <4> QED BY <3>1, <4>2 DEF CutShort, I, S, D
      <3> QED BY <1>2, <1>3, <3>1, <3>2
    <2> HIDE DEF next, x
    <2>3. /\ w \in VisType /\ w.scan = v.scan /\ w.start = end /\ w.config = v.config
          /\ w.offset = next.offset /\ w.expected = x
      <3> HIDE DEF w, end
      <3> QED BY <1>1, <2>1, <2>2 DEF VisType
    <2>4. (end - F) % I = 0 /\ F <= end
      <3> HIDE DEF I, F
      <3> DEFINE y == s - F
      <3>1. y \in Int /\ y % I = 0
        BY <1>1, <1>2, <1>3
      <3> HIDE DEF y
      <3>2. (y + I) % I = 0
        BY <1>3, <3>1, OneTurn
      <3>3. y + I = end - F
        BY <1>2, <1>3 DEF y
      <3> QED BY <1>1, <1>2, <1>3, <3>2, <3>3
    <2>5. VisOK(w)
      <3> HIDE DEF w, end
      <3> QED BY <1>1, <2>3, <2>4 DEF VisOK
    <2> QED BY <1>5, <2>3, <2>5 DEF x, next
  <1>6. CASE end >= D
    <2> DEFINE n == NextConfigured(v.scan + 1)
               c == IF n < NumScans THEN ScanConfig[n] ELSE v.config
    <2>1. w = [v EXCEPT !.scan = n, !.start = 0, !.config = c,
                        !.offset = first.offset, !.expected = first.subints]
      BY <1>2, <1>3, <1>4, <1>6 DEF UpdateTime, EnterScan
    <2>2. /\ n \in v.scan + 1 .. NumScans /\ (n = NumScans \/ Correlated(n))
          /\ \A m \in v.scan + 1 .. n - 1 : ~Correlated(m)
      <3>1. v.scan + 1 \in 0 .. NumScans
        BY <1>4
      <3> QED BY <3>1, NextConfiguredIs
    <2> HIDE DEF n
    <2>3. c \in Configs /\ (n < NumScans => Correlated(n) /\ c = ScanConfig[n])
      BY <1>2, <1>4, <2>2 DEF Correlated
    <2>4. first.offset \in Int /\ first.subints \in Int
      BY <1>2, CarryIs
    <2> HIDE DEF c, first
    <2>5. /\ w \in VisType /\ w.scan = n /\ w.start = 0 /\ w.config = c
          /\ w.offset = first.offset /\ w.expected = first.subints
      <3>1. n \in InitScan .. NumScans
        BY <1>2, <1>4, <2>2
      <3> HIDE DEF w
      <3> QED BY <1>1, <2>1, <2>3, <2>4, <3>1 DEF VisType
    <2>6. VisOK(w)
      <3>1. ASSUME n < NumScans PROVE From(n) = 0 /\ (0 - From(n)) % IntTime[c] = 0
        <4>1. n # InitScan
          BY <1>2, <1>4, <2>2
        <4>2. IntTime[c] \in Nat \ {0} /\ 0 - 0 = 0
          BY <2>3, ConfigNumbers
        <4>3. 0 % IntTime[c] = 0
          <5> DEFINE k == IntTime[c]
          <5>1. k \in Nat \ {0}
            BY <4>2
          <5> HIDE DEF k
          <5>2. 0 % k = 0
            BY <5>1, SMT
          <5> QED BY <5>2 DEF k
        <4> QED BY <4>1, <4>2, <4>3 DEF From
      <3> HIDE DEF w
      <3> QED BY <2>3, <2>5, <3>1 DEF VisOK
    <2>7. n > v.scan
      BY <1>4, <2>2
    <2> QED BY <1>6, <2>2, <2>5, <2>6, <2>7 DEF first, n
  <1>7. end < D \/ end >= D
    BY <1>2, <1>3
  <1> QED BY <1>5, <1>6, <1>7

\* The constructor's.
LEMMA NoUpdate == ASSUME NEW v PROVE UpdateTimes(v, 0) = v
  <1> DEFINE Is(f) == f = [k \in 0 .. 0 |-> IF k = 0 THEN v ELSE UpdateTime(f[k - 1])]
             u == CHOOSE f : Is(f)
             g == [k \in 0 .. 0 |-> v]
  <1>1. Is(g)
    <2>1. \A k \in 0 .. 0 : k = 0
      OBVIOUS
    <2> QED BY <2>1
  <1>2. Is(u)
    <2> HIDE DEF Is
    <2> QED BY <1>1
  <1>3. UpdateTimes(v, 0) = u[0]
    BY DEF UpdateTimes
  <1> HIDE DEF u
  <1>4. u[0] = v
    BY <1>2
  <1> QED BY <1>3, <1>4

\* The first integration begins where the job does.
LEMMA FirstIs ==
  ASSUME JobOK
  PROVE  LET v == NewVisibility(0)
             c == ScanConfig[InitScan]
         IN /\ VisOK(v) /\ v.scan = InitScan /\ v.start = InitTime /\ v.config = c
            /\ v.start = From(v.scan) /\ v.scan < NumScans
            /\ IntTime[c] % SubintNS[c] = 0 =>
                 v.offset = 0 /\ v.expected = IntTime[c] \div SubintNS[c]
  <1> DEFINE v == NewVisibility(0)
             c == ScanConfig[InitScan]
             I == IntTime[c]
             S == SubintNS[c]
             rest == I % S
             more == rest > S \div 2
             offset == IF more THEN rest - S \div 2 ELSE rest
             expected == I \div S + (IF more THEN 1 ELSE 0)
  <1>1. v = [scan |-> InitScan, start |-> InitTime, config |-> c, offset |-> offset,
             expected |-> expected, subints |-> 0, results |-> {}]
    BY NoUpdate DEF NewVisibility
  <1>2. /\ c \in Configs /\ Correlated(InitScan) /\ InitTime \in Nat
        /\ InitScan \in Nat /\ NumScans \in Nat /\ InitScan < NumScans
    BY InitScanIs, ScanNumbers DEF Correlated
  <1>3. I \in Nat \ {0} /\ S \in Nat \ {0} /\ rest \in Nat /\ I \div S \in Int /\ S \div 2 \in Nat
    BY <1>2, ConfigNumbers
  <1>4. offset \in Int /\ expected \in Int
    <2> HIDE DEF I, S
    <2> DEFINE q == I \div S
               h == S \div 2
    <2>1. q \in Int /\ h \in Int /\ rest \in Int
      BY <1>3
    <2> HIDE DEF q, h, rest
    <2>2. offset = (IF rest > h THEN rest - h ELSE rest) /\ expected = q + (IF rest > h THEN 1 ELSE 0)
      BY DEF q, h
    <2> HIDE DEF offset, expected
    <2> QED BY <2>1, <2>2
  <1>5. rest = 0 => offset = 0 /\ expected = I \div S
    <2> HIDE DEF I, S
    <2> DEFINE q == I \div S
               h == S \div 2
    <2>1. q \in Int /\ h \in Nat
      BY <1>3
    <2>2. offset = (IF rest > h THEN rest - h ELSE rest) /\ expected = q + (IF rest > h THEN 1 ELSE 0)
      BY DEF q, h
    <2> HIDE DEF q, h, rest, offset, expected
    <2>3. rest = 0 => offset = 0 /\ expected = q
      BY <2>1, <2>2
    <2> QED BY <2>3 DEF q
  <1>6. From(InitScan) = InitTime /\ From(InitScan) <= InitTime /\ (InitTime - From(InitScan)) % I = 0
    <2>1. InitTime - InitTime = 0 /\ InitTime <= InitTime
      BY <1>2
    <2>2. 0 % I = 0
      <3> HIDE DEF I
      <3> QED BY <1>3, SMT
    <2> QED BY <2>1, <2>2 DEF From
  <1> HIDE DEF v, offset, expected, I, S, rest, c
  <1>7. /\ v.scan = InitScan /\ v.start = InitTime /\ v.config = c /\ v.offset = offset
        /\ v.expected = expected
    BY <1>1
  <1>8. v \in VisType
    <2>1. InitScan \in InitScan .. NumScans
      BY <1>2
    <2> QED BY <1>1, <1>2, <1>4, <2>1 DEF VisType
  <1>9. VisOK(v)
    BY <1>2, <1>6, <1>7, <1>8 DEF VisOK, I, c
  <1> QED BY <1>2, <1>5, <1>6, <1>7, <1>9 DEF v, I, S, rest, c

-----------------------------------------------------------------------------
(* Where the integrations lie *)

\* The integration time of a scan.
ScanInt(n) == IntTime[ScanConfig[n]]

\* There is an integration at the time x of a scan.
Covered(s, n, x) == \E k \in s : k.scan = n /\ k.start <= x /\ x < k.start + ScanInt(n)

\* The integrations s of which v is the last: they do not overlap, and fill
\* the scans before that of v and the scan of v to the end of v.
Past(k, v) ==
  /\ k = [scan |-> k.scan, start |-> k.start] /\ k.scan \in InitScan .. v.scan /\ k.start \in Nat
  /\ k.scan < NumScans =>
       /\ Correlated(k.scan) /\ From(k.scan) <= k.start
       /\ (k.start - From(k.scan)) % ScanInt(k.scan) = 0
  /\ k.scan = v.scan => k.start <= v.start
Apart(s) ==
  \A k, l \in s : k.scan = l.scan /\ k.scan < NumScans =>
    \/ k.start = l.start
    \/ k.start + ScanInt(k.scan) <= l.start
    \/ l.start + ScanInt(k.scan) <= k.start
Filled(v, s) ==
  \A n \in InitScan .. v.scan : n < NumScans /\ Correlated(n) =>
    \A x \in Int :
      From(n) <= x /\ x < (IF n = v.scan THEN v.start + ScanInt(n) ELSE ScanDuration[n]) =>
        Covered(s, n, x)
SeenOK(v, s) == Key(v) \in s /\ (\A k \in s : Past(k, v)) /\ Apart(s) /\ Filled(v, s)

LEMMA PastItself == ASSUME JobOK, NEW v, VisOK(v) PROVE Past(Key(v), v)
  <1>1. /\ v.scan \in InitScan .. NumScans /\ v.start \in Nat
        /\ Key(v).scan = v.scan /\ Key(v).start = v.start
        /\ v.scan \in Int /\ InitScan \in Int
    BY ScanNumbers DEF VisOK, VisType, Key
  <1>2. v.scan \in InitScan .. v.scan /\ v.start <= v.start
    BY <1>1
  <1>3. v.scan < NumScans =>
          /\ Correlated(v.scan) /\ From(v.scan) <= v.start
          /\ (v.start - From(v.scan)) % ScanInt(v.scan) = 0
    BY DEF VisOK, ScanInt
  <1> QED BY <1>1, <1>2, <1>3 DEF Past, Key

LEMMA SeenFirst == ASSUME JobOK PROVE SeenOK(NewVisibility(0), {Key(NewVisibility(0))})
  <1> DEFINE v == NewVisibility(0)
             s == {Key(v)}
  <1>1. VisOK(v) /\ v.scan = InitScan /\ v.start = From(InitScan) /\ InitScan \in Nat
    BY FirstIs, ScanNumbers
  <1> HIDE DEF v
  <1>2. \A k \in s : Past(k, v)
    BY <1>1, PastItself
  <1>3. Apart(s)
    BY DEF Apart
  <1>4. Filled(v, s)
    <2> SUFFICES ASSUME NEW n \in InitScan .. v.scan, NEW x \in Int, From(n) <= x,
                        x < (IF n = v.scan THEN v.start + ScanInt(n) ELSE ScanDuration[n])
                 PROVE  Covered(s, n, x)
      BY DEF Filled
    <2>1. n = v.scan
      BY <1>1
    <2>2. Key(v).scan = n /\ Key(v).start <= x /\ x < Key(v).start + ScanInt(n)
      BY <1>1, <2>1 DEF Key
    <2> QED BY <2>2 DEF Covered
  <1> QED BY <1>2, <1>3, <1>4 DEF SeenOK, v

\* The next integration begins where the last ended, or in the next scan.
LEMMA SeenStep ==
  ASSUME JobOK, NEW v, VisOK(v), v.scan < NumScans, NEW s, SeenOK(v, s)
  PROVE  SeenOK(UpdateTime(v), s \cup {Key(UpdateTime(v))})
  <1> DEFINE w == UpdateTime(v)
             r == s \cup {Key(w)}
             I == ScanInt(v.scan)
             D == ScanDuration[v.scan]
             Stays == v.start + I < D /\ w.scan = v.scan /\ w.start = v.start + I
             Enters == /\ v.start + I >= D /\ w.start = 0 /\ w.scan > v.scan
                       /\ \A n \in v.scan + 1 .. w.scan - 1 : ~Correlated(n)
  <1>1. VisOK(w) /\ (Stays \/ Enters)
    <2>1. v.config = ScanConfig[v.scan]
      BY DEF VisOK
    <2> QED BY <2>1, UpdateTimeIs DEF ScanInt
  <1>2. /\ InitScan \in Nat /\ NumScans \in Nat /\ v.scan \in InitScan .. NumScans /\ v.start \in Nat
        /\ Correlated(v.scan) /\ w.scan \in InitScan .. NumScans /\ w.start \in Nat
        /\ I \in Nat \ {0} /\ D \in Nat /\ \A n : From(n) \in Nat
    <2>1. v \in VisType /\ Correlated(v.scan) /\ w \in VisType
      BY <1>1 DEF VisOK
    <2> HIDE DEF w
    <2>2. I \in Nat \ {0} /\ D \in Nat
      BY <2>1, ConfigNumbers, ScanNumbers DEF Correlated, ScanInt
    <2>3. v.scan \in InitScan .. NumScans /\ v.start \in Nat /\ w.scan \in InitScan .. NumScans /\ w.start \in Nat
      BY <2>1 DEF VisType
    <2> QED BY <2>1, <2>2, <2>3, ScanNumbers
  <1>3. Key(v) \in s /\ (\A k \in s : Past(k, v)) /\ Apart(s) /\ Filled(v, s)
    BY DEF SeenOK
  <1> HIDE DEF w, I, D
  <1>4. /\ Key(v).scan = v.scan /\ Key(v).start = v.start
        /\ Key(w).scan = w.scan /\ Key(w).start = w.start
    BY DEF Key
  <1>5. v.scan <= w.scan
    BY <1>1, <1>2
  <1>6. \A k \in r : Past(k, w)
    <2>1. Past(Key(w), w)
      BY <1>1, PastItself
    <2>2. ASSUME NEW k \in s PROVE Past(k, w)
      <3>1. Past(k, v)
        BY <1>3
      <3>2. k.scan \in InitScan .. v.scan /\ k.start \in Nat /\ (k.scan = v.scan => k.start <= v.start)
        BY <3>1 DEF Past
      <3>3. k.scan \in InitScan .. w.scan
        BY <1>2, <1>5, <3>2
      <3>4. k.scan = w.scan => k.start <= w.start
        <4>1. CASE Stays
          BY <1>2, <3>2, <4>1
        <4>2. CASE Enters
          BY <1>2, <3>2, <4>2
        <4> QED BY <1>1, <4>1, <4>2
      <3> QED BY <3>1, <3>3, <3>4 DEF Past
    <2> QED BY <2>1, <2>2
  \* The new one comes after all of its scan.
  <1>7. ASSUME NEW k \in s, k.scan = w.scan PROVE k.start + I <= w.start /\ I = ScanInt(k.scan)
    <2>1. k.scan \in InitScan .. v.scan /\ k.start \in Nat /\ (k.scan = v.scan => k.start <= v.start)
      BY <1>3 DEF Past
    <2>2. CASE Stays
      <3>1. \/ k.start = v.start
            \/ k.start + I <= v.start
            \/ v.start + I <= k.start
        BY <1>3, <1>4, <1>7, <2>2 DEF Apart, I
      <3> QED BY <1>2, <1>7, <2>1, <2>2, <3>1 DEF I
    <2>3. ~Enters
      BY <1>2, <1>7, <2>1
    <2> QED BY <1>1, <2>2, <2>3
  <1>8. Apart(r)
    <2> SUFFICES ASSUME NEW k \in r, NEW l \in r, k.scan = l.scan, k.scan < NumScans
                 PROVE  \/ k.start = l.start
                        \/ k.start + ScanInt(k.scan) <= l.start
                        \/ l.start + ScanInt(k.scan) <= k.start
      BY DEF Apart
    <2>1. CASE k \in s /\ l \in s
      BY <1>3, <2>1 DEF Apart
    <2>2. CASE k \in s /\ l = Key(w)
      BY <1>4, <1>7, <2>2
    <2>3. CASE k = Key(w) /\ l \in s
      BY <1>4, <1>7, <2>3
    <2>4. CASE k = Key(w) /\ l = Key(w)
      BY <2>4
    <2> QED BY <2>1, <2>2, <2>3, <2>4
  <1>9. Filled(w, r)
    <2> SUFFICES ASSUME NEW n \in InitScan .. w.scan, n < NumScans, Correlated(n), NEW x \in Int, From(n) <= x,
                        x < (IF n = w.scan THEN w.start + ScanInt(n) ELSE ScanDuration[n])
                 PROVE  Covered(r, n, x)
      BY DEF Filled
    <2>1. Covered(s, n, x) => Covered(r, n, x)
      BY DEF Covered
    <2>2. n \in InitScan .. v.scan /\ x < (IF n = v.scan THEN v.start + ScanInt(n) ELSE ScanDuration[n])
            => Covered(s, n, x)
      BY <1>3 DEF Filled
    <2>3. n = w.scan /\ w.start <= x => Covered(r, n, x)
      <3> SUFFICES ASSUME n = w.scan, w.start <= x PROVE Covered(r, n, x)
        OBVIOUS
      <3>1. Key(w).scan = n /\ Key(w).start <= x /\ x < Key(w).start + ScanInt(n) /\ Key(w) \in r
        BY <1>4
      <3> HIDE DEF r
      <3> QED BY <3>1 DEF Covered
    <2>4. CASE Stays
      <3>1. CASE n = v.scan /\ x < v.start + I
        <4>1. n \in InitScan .. v.scan
          BY <1>2, <3>1
        <4> QED BY <2>1, <2>2, <3>1, <4>1 DEF I
      <3>2. CASE n = v.scan /\ ~(x < v.start + I)
        <4>1. w.start <= x
          BY <1>2, <2>4, <3>2
        <4> QED BY <2>3, <2>4, <3>2, <4>1
      <3>3. CASE n # v.scan
        BY <2>1, <2>2, <2>4, <3>3
      <3> QED BY <3>1, <3>2, <3>3
    <2>5. CASE Enters
      <3>1. CASE n = w.scan
        <4>1. w.start <= x
          BY <1>2, <2>5
        <4> QED BY <2>3, <3>1, <4>1
      <3>2. CASE n # w.scan /\ n > v.scan
        <4>1. n \in v.scan + 1 .. w.scan - 1
          BY <1>2, <3>2
        <4> QED BY <2>5, <4>1
      <3>3. CASE n # w.scan /\ n = v.scan
        <4>1. x < v.start + I /\ n \in InitScan .. v.scan
          BY <1>2, <2>5, <3>3 DEF D
        <4> QED BY <2>1, <2>2, <3>3, <4>1 DEF I
      <3>4. CASE n # w.scan /\ n < v.scan
        <4>1. n \in InitScan .. v.scan /\ n # v.scan
          BY <1>2, <3>4
        <4> QED BY <2>1, <2>2, <3>4, <4>1
      <3> QED BY <1>2, <3>1, <3>2, <3>3, <3>4
    <2> QED BY <1>1, <2>4, <2>5
  <1> QED BY <1>6, <1>8, <1>9 DEF SeenOK, w

-----------------------------------------------------------------------------
(* The subints *)

\* A subint begins before its scan ends; and unless half a subint is longer
\* than a second, its middle is before that too.
LEMMA SubintIs ==
  ASSUME JobOK, NEW n, Correlated(n), NEW t \in SubintStarts(n)
  PROVE  LET S == SubintNS[ScanConfig[n]]
             D == ScanDuration[n]
         IN /\ t \in Int /\ From(n) <= t /\ t < D /\ (t - From(n)) % S = 0
            /\ S \div 2 <= Second => Centre(n, t) < D
  <1> DEFINE S == SubintNS[ScanConfig[n]]
             h == S \div 2
             D == ScanDuration[n]
             from == IF n = InitScan THEN InitTime ELSE 0
             sec == t \div Second
             x == Second * sec
             last == \/ Second * (sec + 1) = D
                     \/ ScanStart[n] + Second * (sec + 1) = ExecuteSeconds
  <1>1. /\ t \in from .. D /\ (t - from) % S = 0 /\ x < D
        /\ last => Second - (t % Second) > h
    BY DEF SubintStarts, InScan
  <1>2. /\ from = From(n) /\ from \in Nat /\ D \in Nat /\ n \in Scans /\ Second \in Nat \ {0}
        /\ D % Second = 0 /\ S \in Nat \ {0} /\ h \in Nat
    BY ScanNumbers, ConfigNumbers DEF From, Correlated, JobOK
  <1> HIDE DEF from, D, S, h
  <1>3. t \in Int
    BY <1>1, <1>2
  <1>4. /\ x \in Int /\ Second * (sec + 1) = x + Second /\ t < x + Second
        /\ t = x + (t % Second) /\ t % Second \in 0 .. Second - 1 /\ (x < D => x + Second <= D)
    BY <1>2, <1>3, WholePieces
  <1> DEFINE r == t % Second
  <1>5. r \in Int /\ t = x + r /\ 0 <= r /\ (x + Second = D => Second - r > h)
    BY <1>1, <1>2, <1>4
  <1> HIDE DEF r, x
  <1>6. t < D
    BY <1>1, <1>2, <1>3, <1>4
  <1>7. ASSUME h <= Second PROVE t + h < D
    <2>1. CASE x + Second = D
      BY <1>2, <1>4, <1>5, <2>1
    <2>2. CASE x + Second # D
      <3>1. (D - x) % Second = 0 /\ D - x \in Int
        <4>1. x % Second = 0
          <5>1. sec \in Int
            BY <1>2, <1>3, Division
          <5>2. x = Second * sec
            BY DEF x
          <5>3. x \in Int
            BY <1>4
          <5> HIDE DEF sec
          <5>4. \E q \in Int : x = Second * q
            BY <5>1, <5>2
          <5> QED BY <1>2, <5>3, <5>4, MultipleIs
        <4>2. x \in Int /\ D \in Int /\ D - x \in Int
          BY <1>2, <1>4
        <4> QED BY <1>2, <4>1, <4>2, MultipleSum
      <3>2. x + Second + Second <= D
        <4> DEFINE y == D - x - Second
        <4>1. y \in Int /\ y > 0 /\ y = (D - x) - Second
          BY <1>1, <1>2, <1>4, <2>2, <3>1
        <4>2. Second % Second = 0
          BY <1>2, SMT
        <4>3. y % Second = 0
          <5> DEFINE z == D - x
          <5> HIDE DEF y
          <5>1. z \in Int /\ z % Second = 0 /\ Second \in Int /\ y = z - Second
            BY <1>2, <3>1, <4>1
          <5> HIDE DEF z
          <5> QED BY <1>2, <4>2, <5>1, MultipleSum
        <4> HIDE DEF y
        <4>4. y >= Second
          BY <1>2, <4>1, <4>3, MultipleApart
        <4> QED BY <1>2, <1>4, <3>1, <4>1, <4>4
      <3> QED BY <1>2, <1>3, <1>4, <1>7, <3>2
    <2> QED BY <2>1, <2>2
  <1> QED BY <1>1, <1>2, <1>3, <1>6, <1>7 DEF Centre, S, D, h

\* Unless half a subint is longer than a second and an integration not a
\* whole number of them, each subint of a scan that is over has exactly one
\* integration.
LEMMA PlacedIs ==
  ASSUME JobOK, NEW v, NEW s, SeenOK(v, s), v.scan = NumScans,
         NEW n, Correlated(n), n >= InitScan, NEW t \in SubintStarts(n),
         LET S == SubintNS[ScanConfig[n]] IN S \div 2 <= Second \/ ScanInt(n) % S = 0
  PROVE  Cardinality({k \in s : k.scan < NumScans /\ Belongs(k, n, t)}) = 1
  <1> DEFINE S == SubintNS[ScanConfig[n]]
             h == S \div 2
             D == ScanDuration[n]
             I == ScanInt(n)
             F == From(n)
             C == Centre(n, t)
             T == {k \in s : k.scan < NumScans /\ Belongs(k, n, t)}
             In(k) == k.scan = n /\ k.start <= C /\ C < k.start + I
  <1>1. /\ t \in Int /\ F <= t /\ t < D /\ (t - F) % S = 0 /\ (h <= Second => C < D) /\ C = t + h
    BY SubintIs DEF Centre
  <1>2. /\ n \in Scans /\ n < NumScans /\ n \in InitScan .. NumScans /\ F \in Nat /\ D \in Nat
        /\ S \in Nat \ {0} /\ h \in Nat /\ h < S /\ I \in Nat \ {0} /\ Second \in Nat
    <2>1. n \in Scans /\ ScanConfig[n] \in Configs
      BY DEF Correlated
    <2>2. n < NumScans /\ n \in InitScan .. NumScans
      BY <2>1, ScanNumbers
    <2> QED BY <2>1, <2>2, ScanNumbers, ConfigNumbers DEF ScanInt, JobOK
  <1>3. h <= Second \/ I % S = 0
    OBVIOUS
  <1>4. \A k \in s : Past(k, v)
    BY DEF SeenOK
  <1>5. \A k \in s : k \in T <=> In(k)
    <2> SUFFICES ASSUME NEW k \in s PROVE k \in T <=> In(k)
      OBVIOUS
    <2>1. k.start \in Nat
      BY <1>4 DEF Past
    <2>2. k.scan = n => Difference(k, n, t) = C - k.start
      <3>1. k.scan = n => ~(n > k.scan) /\ ~(n < k.scan)
        BY <1>2, ScanNumbers
      <3> QED BY <3>1 DEF Difference
    <2>3. C \in Int
      BY <1>1, <1>2
    <2>4. Belongs(k, n, t) <=> n = k.scan /\ 0 <= Difference(k, n, t) /\ Difference(k, n, t) < I
      BY DEF Belongs, ScanInt
    <2>5. k.scan = n => ((0 <= C - k.start /\ C - k.start < I) <=> (k.start <= C /\ C < k.start + I))
      <3> HIDE DEF C, I
      <3> QED BY <1>2, <2>1, <2>3
    <2> QED BY <1>2, <2>2, <2>4, <2>5
  <1> HIDE DEF T
  <1>6. \E k \in s : In(k)
    <2>1. \A x \in Int : F <= x /\ x < D => Covered(s, n, x)
      <3>1. n # v.scan
        BY <1>2, ScanNumbers
      <3> QED BY <1>2, <3>1 DEF SeenOK, Filled
    <2>2. CASE h <= Second
      <3>1. C \in Int /\ F <= C /\ C < D
        BY <1>1, <1>2, <2>2
      <3> HIDE DEF C
      <3> QED BY <2>1, <3>1 DEF Covered
    <2>3. CASE I % S = 0
      <3>1. PICK k \in s : k.scan = n /\ k.start <= t /\ t < k.start + I
        BY <1>1, <2>1 DEF Covered
      <3>2. k.start \in Nat /\ (k.start - F) % I = 0
        BY <1>2, <1>4, <3>1 DEF Past
      <3> DEFINE e == k.start + I
      <3> HIDE DEF S, h, I, F, D, C
      <3>3. e \in Int /\ (e - F) % S = 0
        <4> DEFINE x == k.start - F
        <4>1. x \in Int /\ x % I = 0
          BY <1>2, <3>2
        <4> HIDE DEF x
        <4>2. x % S = 0
          BY <1>2, <2>3, <4>1, MultipleTwice
        <4>i. I \in Int
          BY <1>2
        <4>3. (x + I) % S = 0
          BY <1>2, <2>3, <4>i, <4>1, <4>2, MultipleSum
        <4>4. x + I = e - F /\ e \in Int
          BY <1>2, <3>2 DEF x
        <4> QED BY <4>3, <4>4
      <3> HIDE DEF e
      <3>f. F \in Int
        BY <1>2
      <3>4. t < e => t + S <= e
        BY <1>1, <1>2, <3>3, <3>f, StepsApart
      <3>5. In(k)
        BY <1>1, <1>2, <3>1, <3>2, <3>4 DEF e
      <3> QED BY <3>5
    <2> QED BY <1>3, <2>2, <2>3
  <1>7. ASSUME NEW k \in s, NEW l \in s, In(k), In(l) PROVE k = l
    <2>1. /\ k = [scan |-> k.scan, start |-> k.start] /\ k.start \in Nat
          /\ l = [scan |-> l.scan, start |-> l.start] /\ l.start \in Nat
      BY <1>4 DEF Past
    <2>2. \/ k.start = l.start
          \/ k.start + I <= l.start
          \/ l.start + I <= k.start
      BY <1>2, <1>7 DEF SeenOK, Apart
    <2>3. C \in Int
      BY <1>1, <1>2
    <2> HIDE DEF C, I
    <2>4. k.start = l.start
      BY <1>2, <1>7, <2>1, <2>2, <2>3
    <2> QED BY <1>7, <2>1, <2>4
  <1> HIDE DEF In
  <1>8. PICK k \in s : In(k)
    BY <1>6
  <1>9. T = {k}
    <2>1. T \subseteq s
      BY DEF T
    <2> QED BY <1>5, <1>7, <1>8, <2>1
  <1>10. Cardinality(T) = 1
    BY <1>9, FS_Singleton
  <1> QED BY <1>10 DEF T

-----------------------------------------------------------------------------
(* What an integration expects *)

\* When integrations are made of whole subints nothing is carried over: an
\* integration expects the subints it is made of, except those that the end
\* of the scan cuts off; the first of a scan is never cut short.
ExpectOK(v) ==
  v.scan < NumScans =>
    LET Q == IntTime[v.config] \div SubintNS[v.config] IN
    /\ v.offset = 0
    /\ \/ v.start = From(v.scan) /\ v.expected = Q
       \/ v.start < ScanDuration[v.scan] /\ v.expected = CutShort(v, v.start, Q)

LEMMA ExpectFirst == ASSUME JobOK, Whole PROVE ExpectOK(NewVisibility(0))
  <1> DEFINE v == NewVisibility(0)
             c == ScanConfig[InitScan]
  <1>1. IntTime[c] % SubintNS[c] = 0
    BY InitScanIs DEF Whole, Correlated
  <1>2. v.scan = InitScan /\ v.start = From(v.scan) /\ v.config = c /\ v.offset = 0
          /\ v.expected = IntTime[c] \div SubintNS[c]
    BY <1>1, FirstIs
  <1> HIDE DEF v
  <1> QED BY <1>2 DEF ExpectOK, v

\* The next integration of a scan is cut short, the first of one is not.
LEMMA ExpectStep ==
  ASSUME JobOK, Whole, OneConfig, NEW v, VisOK(v), v.scan < NumScans, ExpectOK(v)
  PROVE  ExpectOK(UpdateTime(v))
  <1> DEFINE w == UpdateTime(v)
             c == v.config
             Q == IntTime[c] \div SubintNS[c]
             end == v.start + IntTime[c]
             first == Carry(c, 0)
             next == Carry(c, v.offset)
  <1>1. c \in Configs /\ IntTime[c] % SubintNS[c] = 0 /\ c = ScanConfig[v.scan] /\ Correlated(v.scan)
    BY DEF VisOK, VisType, Whole
  <1>2. v.offset = 0
    BY DEF ExpectOK
  <1>3. first.offset = 0 /\ first.subints = Q /\ next.offset = 0 /\ next.subints = Q
    <2>1. 0 \in Int
      OBVIOUS
    <2> QED BY <1>1, <1>2, <2>1, CarryIs
  <1>4. /\ VisOK(w)
        /\ \/ /\ end < ScanDuration[v.scan]
              /\ w.scan = v.scan /\ w.start = end /\ w.config = v.config
              /\ w.offset = next.offset /\ w.expected = CutShort(v, end, next.subints)
           \/ /\ w.start = 0 /\ w.offset = first.offset /\ w.expected = first.subints
    BY UpdateTimeIs
  <1> HIDE DEF w, first, next
  <1> SUFFICES ASSUME w.scan < NumScans PROVE ExpectOK(w)
    BY DEF ExpectOK, w
  <1>5. w.config = c
    <2>1. Correlated(w.scan) /\ w.config = ScanConfig[w.scan]
      BY <1>4 DEF VisOK
    <2>2. v.scan \in Scans /\ w.scan \in Scans /\ ScanConfig[v.scan] >= 0 /\ ScanConfig[w.scan] >= 0
      BY <1>1, <2>1, ConfigNumber DEF Correlated
    <2> QED BY <1>1, <2>1, <2>2 DEF OneConfig
  <1>6. CASE /\ end < ScanDuration[v.scan] /\ w.scan = v.scan /\ w.start = end
             /\ w.offset = next.offset /\ w.expected = CutShort(v, end, next.subints)
    <2>1. CutShort(w, end, Q) = CutShort(v, end, Q)
      BY <1>5, <1>6 DEF CutShort
    <2> QED BY <1>3, <1>5, <1>6, <2>1 DEF ExpectOK
  <1>7. CASE w.start = 0 /\ w.offset = first.offset /\ w.expected = first.subints
    <2>1. From(w.scan) \in Nat /\ From(w.scan) <= w.start
      BY <1>4, ScanNumbers DEF VisOK
    <2>2. w.start = From(w.scan)
      BY <1>7, <2>1
    <2> QED BY <1>3, <1>5, <1>7, <2>2 DEF ExpectOK
  <1> QED BY <1>4, <1>6, <1>7

\* The subints of an integration are whole ones of it.
LEMMA GetsIs ==
  ASSUME JobOK, NEW v, VisOK(v), v.scan < NumScans,
         IntTime[v.config] % SubintNS[v.config] = 0
  PROVE  LET S == SubintNS[v.config]
             a == v.start
         IN /\ (a - From(v.scan)) % S = 0
            /\ \A t \in Gets(v) :
                 /\ t \in Int /\ a <= t /\ t < a + IntTime[v.config] /\ t < ScanDuration[v.scan]
                 /\ (t - a) % S = 0
  <1> DEFINE S == SubintNS[v.config]
             h == S \div 2
             I == IntTime[v.config]
             n == v.scan
             a == v.start
             F == From(n)
             e == a + I
  <1>1. Correlated(n) /\ v.config = ScanConfig[n] /\ F <= a /\ (a - F) % I = 0 /\ a \in Nat
        /\ v.config \in Configs
    BY DEF VisOK, VisType
  <1>2. F \in Nat /\ S \in Nat \ {0} /\ h \in Nat /\ h < S /\ I \in Nat \ {0} /\ I % S = 0
        /\ F \in Int /\ a \in Int /\ n \in Scans /\ n \in Int
    BY <1>1, ScanNumbers, ConfigNumbers DEF Correlated
  <1>3. (a - F) % S = 0 /\ (e - F) % S = 0 /\ e \in Int
    <2> DEFINE x == a - F
    <2>1. x \in Int /\ x % I = 0 /\ I \in Int /\ e \in Int /\ x + I = e - F
      BY <1>1, <1>2
    <2> HIDE DEF x, S, I, F, e
    <2>2. x % S = 0
      BY <1>2, <2>1, MultipleTwice
    <2>3. (x + I) % S = 0
      BY <1>2, <2>1, <2>2, MultipleSum
    <2> QED BY <2>1, <2>2, <2>3 DEF x
  <1>4. ASSUME NEW t \in Gets(v)
        PROVE  t \in Int /\ a <= t /\ t < e /\ t < ScanDuration[n] /\ (t - a) % S = 0
    <2>1. t \in SubintStarts(n) /\ Belongs(v, n, t)
      BY DEF Gets
    <2>2. t \in Int /\ F <= t /\ t < ScanDuration[n] /\ (t - F) % S = 0
      BY <1>1, <2>1, SubintIs
    <2>3. Difference(v, n, t) = (t + h) - a
      BY <1>1, <1>2 DEF Difference, Centre
    <2>4. 0 <= (t + h) - a /\ (t + h) - a < I
      BY <1>1, <2>1, <2>3 DEF Belongs
    <2> HIDE DEF S, h, I, F, e, a
    <2>5. (t - a) % S = 0 /\ (a - t < S => a <= t)
      BY <1>2, <1>3, <2>2, StepsApart
    <2>6. a <= t
      BY <1>2, <2>2, <2>4, <2>5
    <2>7. t < e
      BY <1>2, <2>2, <2>4 DEF e
    <2> QED BY <2>2, <2>5, <2>6, <2>7
  <1> QED BY <1>3, <1>4

\* A scan of whole subints that is not shorter than an integration and ends
\* before the job does.
RegularScan(n) ==
  LET c == ScanConfig[n] IN
  /\ Length(n) % SubintNS[c] = 0 /\ Length(n) >= IntTime[c]
  /\ ScanStart[n] + ScanDuration[n] <= ExecuteSeconds

\* A subint that ends by the end of such a scan goes out.
LEMMA GoesOut ==
  ASSUME JobOK, NEW n, Correlated(n), NEW t \in Nat, From(n) <= t,
         (t - From(n)) % SubintNS[ScanConfig[n]] = 0,
         t + SubintNS[ScanConfig[n]] <= ScanDuration[n],
         ScanStart[n] + ScanDuration[n] <= ExecuteSeconds
  PROVE  t \in SubintStarts(n)
  <1> DEFINE S == SubintNS[ScanConfig[n]]
             h == S \div 2
             D == ScanDuration[n]
             B == ScanStart[n]
             from == IF n = InitScan THEN InitTime ELSE 0
             sec == t \div Second
             x == Second * sec
             r == t % Second
             last == \/ Second * (sec + 1) = D
                     \/ B + Second * (sec + 1) = ExecuteSeconds
  <1>1. /\ from = From(n) /\ from \in Nat /\ D \in Nat /\ B \in Int /\ n \in Scans
        /\ Second \in Nat \ {0} /\ D % Second = 0 /\ S \in Nat \ {0} /\ h \in Nat /\ h < S
        /\ ExecuteSeconds \in Nat
    BY ScanNumbers, ConfigNumbers DEF From, Correlated, JobOK
  <1>2. /\ x \in Int /\ Second * (sec + 1) = x + Second /\ x <= t /\ t = x + r /\ r \in 0 .. Second - 1
    BY <1>1, WholePieces
  <1> HIDE DEF S, h, D, B, from, sec, x, r
  <1>3. t \in from .. D /\ (t - from) % S = 0 /\ t + S <= D /\ B + D <= ExecuteSeconds
    BY <1>1 DEF S, D, B
  <1>4. x < D /\ B + x < ExecuteSeconds
    BY <1>1, <1>2, <1>3
  <1>5. last => Second - r > h
    <2> SUFFICES ASSUME x + Second = D \/ B + (x + Second) = ExecuteSeconds PROVE Second - r > h
      BY <1>2
    <2>1. x + Second >= D
      BY <1>1, <1>2, <1>3
    <2>2. Second - r >= S
      BY <1>1, <1>2, <1>3, <2>1
    <2> QED BY <1>1, <1>2, <2>2
  <1>6. InScan(n, t)
    BY <1>4, <1>5 DEF InScan, S, h, D, B, sec, x, r
  <1> QED BY <1>3, <1>6 DEF SubintStarts, S, D, from

\* An integration gets no more subints than it expects, and all of them if its
\* scan is a regular one.
LEMMA CountIs ==
  ASSUME JobOK, NEW v, VisOK(v), v.scan < NumScans, ExpectOK(v),
         IntTime[v.config] % SubintNS[v.config] = 0
  PROVE  /\ Cardinality(Gets(v)) \in Nat /\ v.expected >= Cardinality(Gets(v))
         /\ RegularScan(v.scan) => v.expected = Cardinality(Gets(v))
  <1> DEFINE S == SubintNS[v.config]
             h == S \div 2
             I == IntTime[v.config]
             n == v.scan
             a == v.start
             D == ScanDuration[n]
             F == From(n)
             Q == I \div S
             E == v.expected
             over == a + I - D
             cut == IF a = F /\ E = Q THEN 0 ELSE IF over > 0 THEN over ELSE 0
             G == Gets(v)
  <1>1. Correlated(n) /\ v.config = ScanConfig[n] /\ F <= a /\ a \in Nat
        /\ v.config \in Configs
    BY DEF VisOK, VisType
  <1>2. /\ F \in Nat /\ S \in Nat \ {0} /\ h \in Nat /\ h < S /\ I \in Nat \ {0} /\ I % S = 0
        /\ D \in Nat /\ n \in Scans /\ n \in Int /\ I \in Int
    BY <1>1, ScanNumbers, ConfigNumbers DEF Correlated
  <1>3. Q \in Int /\ I = S * Q
    <2> HIDE DEF S, I
    <2>1. Q \in Int /\ I = S * Q + (I % S)
      BY <1>2, Division
    <2>2. S * Q \in Int
      <3> HIDE DEF Q
      <3> QED BY <1>2, <2>1, SMT
    <2> QED BY <1>2, <2>1, <2>2
  <1>4. /\ (a - F) % S = 0
        /\ \A t \in G : t \in Int /\ a <= t /\ t < a + I /\ t < D /\ (t - a) % S = 0
    BY GetsIs
  <1>5. over \in Int /\ cut \in Nat
    <2> HIDE DEF F, Q, I, D
    <2> QED BY <1>1, <1>2
  \* What it expects is what the cut leaves.
  <1>6. E = Q - (cut \div S) /\ cut < I /\ (cut # 0 => cut = over)
        /\ (cut = 0 => a = F \/ a + I <= D)
    <2>1. \/ a = F /\ E = Q
          \/ a < D /\ E = IF over > 0 THEN Q - (over \div S) ELSE Q
      BY DEF ExpectOK, CutShort
    <2>2. 0 \div S = 0 /\ Q - 0 = Q
      <3> HIDE DEF S, Q
      <3>1. 0 \div S = 0
        BY <1>2, SMT
      <3> QED BY <1>3, <3>1
    <2> HIDE DEF S, F, Q, I, D
    <2>3. CASE a = F /\ E = Q
      BY <1>2, <2>2, <2>3
    <2>4. CASE ~(a = F /\ E = Q) /\ over > 0
      <3>1. cut = over /\ cut # 0
        BY <1>5, <2>4
      <3>2. a < D /\ E = Q - (over \div S)
        BY <2>1, <2>4
      <3>3. over < I
        BY <1>1, <1>2, <3>2
      <3> HIDE DEF over, cut
      <3> QED BY <3>1, <3>2, <3>3
    <2>5. CASE ~(a = F /\ E = Q) /\ ~(over > 0)
      <3>1. cut = 0 /\ a + I <= D
        BY <1>1, <1>2, <1>5, <2>5
      <3>2. E = Q
        BY <2>1, <2>5
      <3> HIDE DEF over, cut
      <3> QED BY <1>2, <2>2, <3>1, <3>2
    <2> QED BY <2>3, <2>4, <2>5
  <1>7. ASSUME NEW i \in Int
        PROVE  /\ S * i \in Int /\ E \in Int
               /\ S * i + cut < I => i < E
               /\ cut % S = 0 /\ i < E => S * i + S + cut <= I
    <2> HIDE DEF S, Q, cut, I, E
    <2>1. cut \in Int
      BY <1>5
    <2>2. /\ S * i \in Int /\ Q - (cut \div S) \in Int
          /\ S * i + cut < S * Q => i < Q - (cut \div S)
          /\ cut % S = 0 /\ i < Q - (cut \div S) => S * i + S + cut <= S * Q
      BY <1>2, <1>3, <2>1, PiecesLeft
    <2> QED BY <1>3, <1>6, <2>2
  <1>8. E \in Nat /\ E > 0
    <2>1. S * 0 = 0 /\ 0 \in Int
      <3> HIDE DEF S
      <3> QED BY <1>2, SMT
    <2>2. E \in Int /\ (S * 0 + cut < I => 0 < E)
      BY <1>7, <2>1
    <2> HIDE DEF S, I, cut, E
    <2> QED BY <1>2, <1>5, <1>6, <2>1, <2>2
  <1> DEFINE N == 0 .. E - 1
             f == [t \in G |-> (t - a) \div S]
  <1>9. \A t \in G : f[t] \in N /\ t = a + S * f[t] /\ S * f[t] \in Int
    <2> SUFFICES ASSUME NEW t \in G PROVE f[t] \in N /\ t = a + S * f[t] /\ S * f[t] \in Int
      OBVIOUS
    <2> DEFINE i == f[t]
               x == t - a
    <2>1. t \in Int /\ a <= t /\ t < a + I /\ t < D /\ x % S = 0 /\ i = x \div S
      BY <1>4
    <2> HIDE DEF S, I, D, cut, E, G, f
    <2>2. x \in Int /\ 0 <= x
      BY <1>1, <2>1
    <2> HIDE DEF x
    <2>3. i \in Int /\ x = S * i
      <3>1. x \div S \in Int /\ x = S * (x \div S) + (x % S)
        BY <1>2, <2>2, Division
      <3> DEFINE y == x \div S
      <3>2. y \in Int /\ x = S * y + 0
        BY <2>1, <3>1
      <3> HIDE DEF y
      <3>3. S * y \in Int
        BY <1>2, <3>2, SMT
      <3>4. x = S * y
        BY <3>2, <3>3
      <3> QED BY <2>1, <3>2, <3>4 DEF y
    <2> HIDE DEF i
    <2>4. S * i \in Int /\ (S * i + cut < I => i < E)
      BY <1>7, <2>3
    <2>5. x + cut < I
      <3>1. CASE cut = 0
        BY <1>1, <1>2, <2>1, <3>1 DEF x
      <3>2. CASE cut # 0
        <4>1. cut = a + I - D
          BY <1>6, <3>2
        <4> QED BY <1>1, <1>2, <2>1, <4>1 DEF x
      <3> QED BY <3>1, <3>2
    <2>6. i < E
      BY <2>3, <2>4, <2>5
    <2>7. 0 <= i
      <3>1. S * (-1) = -S /\ -1 \in Int
        BY <1>2, SMT
      <3>2. S * (-1) < S * i => -1 < i
        BY <1>2, <2>3, <3>1, SmallerFactor
      <3>3. -S < x
        BY <1>2, <2>2
      <3> QED BY <2>3, <3>1, <3>2, <3>3
    <2>8. i \in N /\ t = a + S * i
      BY <1>1, <1>8, <2>1, <2>2, <2>3, <2>6, <2>7 DEF x
    <2> QED BY <2>4, <2>8 DEF i
  <1>10. f \in Injection(G, N)
    <2>1. f \in [G -> N]
      BY <1>9
    <2>2. \A t, u \in G : f[t] = f[u] => t = u
      BY <1>9
    <2> HIDE DEF f, G, N
    <2> QED BY <2>1, <2>2, Fun_IsInj
  <1>11. IsFiniteSet(N) /\ Cardinality(N) = E
    <2> HIDE DEF E
    <2>1. 0 \in Int /\ E - 1 \in Int /\ ~(0 > E - 1) /\ (E - 1) - 0 + 1 = E
      BY <1>8
    <2> QED BY <2>1, FS_Interval
  <1>12. /\ IsFiniteSet(G) /\ Cardinality(G) <= Cardinality(N)
         /\ Cardinality(G) = Cardinality(N) <=> f \in Surjection(G, N)
    <2> HIDE DEF f, G, N
    <2> QED BY <1>10, <1>11, FS_Injection
  <1>13. Cardinality(G) \in Nat
    BY <1>12, FS_CardinalityType
  <1>14. ASSUME RegularScan(n) PROVE f \in Surjection(G, N)
    <2>1. /\ (D - F) % S = 0 /\ D - F >= I /\ ScanStart[n] + D <= ExecuteSeconds
      BY <1>1, <1>14 DEF RegularScan, Length, From
    <2>2. cut % S = 0
      <3>1. CASE cut = 0
        <4> HIDE DEF S, cut
        <4>1. 0 % S = 0
          BY <1>2, SMT
        <4> QED BY <3>1, <4>1
      <3>2. CASE cut # 0
        <4> DEFINE x == a - F
                   y == D - F
                   z == x + I
        <4>1. /\ x \in Int /\ y \in Int /\ x % S = 0 /\ y % S = 0 /\ I \in Int /\ I % S = 0 /\ z \in Int
              /\ cut = z - y
          <5>1. cut = over
            BY <1>6, <3>2
          <5>2. x \in Int /\ y \in Int /\ z \in Int /\ over = z - y
            <6> HIDE DEF F, D, I
            <6> QED BY <1>1, <1>2
          <5> QED BY <1>2, <1>4, <2>1, <5>1, <5>2
        <4> HIDE DEF S, x, y, I, cut
        <4>2. z % S = 0
          BY <1>2, <4>1, MultipleSum
        <4> HIDE DEF z
        <4>3. (z - y) % S = 0
          BY <1>2, <4>1, <4>2, MultipleSum
        <4> QED BY <4>1, <4>3
      <3> QED BY <3>1, <3>2
    <2>3. ASSUME NEW i \in N PROVE \E t \in G : f[t] = i
      <3> DEFINE t == a + S * i
      <3>1. i \in Int /\ 0 <= i /\ i < E
        BY <1>8
      <3>2. S * i \in Int /\ S * i + S + cut <= I
        BY <1>7, <2>2, <3>1
      <3>3. 0 <= S * i /\ (S * i) % S = 0 /\ (S * i) \div S = i
        <4> HIDE DEF S
        <4>1. S * 0 = 0 /\ S * i + 0 = S * i /\ 0 \in 0 .. S - 1
          BY <1>2, <3>2, SMT
        <4>2. S * i < S * 0 => i < 0
          BY <1>2, <3>1, SmallerFactor
        <4>3. (S * i + 0) \div S = i /\ (S * i + 0) % S = 0
          BY <1>2, <3>1, <4>1, Divided
        <4>4. 0 <= S * i
          BY <3>1, <3>2, <4>1, <4>2
        <4> QED BY <4>1, <4>3, <4>4
      <3> DEFINE y == S * i
      <3>4. y \in Nat /\ y % S = 0 /\ y \div S = i /\ y + S + cut <= I /\ t = a + y
        BY <3>2, <3>3
      <3> HIDE DEF y
      <3>5. t \in Nat /\ F <= t
        <4> HIDE DEF F
        <4> QED BY <1>1, <1>2, <3>4
      <3>6. (t - F) % S = 0
        <4> DEFINE x == a - F
        <4>1. x \in Int /\ x % S = 0 /\ y \in Int /\ t - F = x + y
          <5>1. x \in Int /\ t - F = x + y
            <6> HIDE DEF F
            <6> QED BY <1>1, <1>2, <3>4
          <5> QED BY <1>4, <3>4, <5>1
        <4> HIDE DEF x, S
        <4>2. (x + y) % S = 0
          BY <1>2, <3>4, <4>1, MultipleSum
        <4> QED BY <4>1, <4>2
      <3>7. t + S <= D
        <4> HIDE DEF t
        <4>1. CASE cut = 0
          <5>1. a + I <= D
            <6> HIDE DEF F, D, I
            <6> QED BY <1>1, <1>2, <1>6, <2>1, <4>1
          <5> HIDE DEF S, I, D, cut
          <5> QED BY <1>1, <1>2, <3>4, <4>1, <5>1
        <4>2. CASE cut # 0
          <5>1. cut = a + I - D
            BY <1>6, <4>2
          <5> HIDE DEF S, I, D, cut
          <5> QED BY <1>1, <1>2, <3>4, <5>1
        <4> QED BY <4>1, <4>2
      <3>8. t \in SubintStarts(n)
        <4> HIDE DEF t
        <4> QED BY <1>1, <2>1, <3>5, <3>6, <3>7, GoesOut
      <3>9. Belongs(v, n, t)
        <4>1. Difference(v, n, t) = (t + h) - a
          BY <1>1, <1>2 DEF Difference, Centre
        <4>2. 0 <= (t + h) - a /\ (t + h) - a < I
          <5> HIDE DEF S, h, I, cut
          <5> QED BY <1>1, <1>2, <1>5, <3>4
        <4> HIDE DEF t
        <4> QED BY <1>1, <4>1, <4>2 DEF Belongs
      <3>10. t \in G
        BY <3>8, <3>9 DEF Gets
      <3>11. f[t] = i
        <4>1. t - a = y
          <5> HIDE DEF S
          <5> QED BY <1>1, <3>4
        <4> HIDE DEF G, t
        <4>2. f[t] = (t - a) \div S
          BY <3>10
        <4> QED BY <3>4, <4>1, <4>2
      <3> QED BY <3>10, <3>11
    <2>4. f \in [G -> N]
      BY <1>9
    <2> HIDE DEF f, G, N
    <2> QED BY <2>3, <2>4, Fun_IsSurj
  <1> HIDE DEF f, N, G, E
  <1>15. Cardinality(G) <= E /\ (RegularScan(n) => Cardinality(G) = E)
    BY <1>11, <1>12, <1>14
  <1>16. E >= Cardinality(G)
    BY <1>8, <1>13, <1>15
  <1> QED BY <1>13, <1>15, <1>16 DEF G, E

-----------------------------------------------------------------------------
(* The specification *)

\* All this stays as it is while the job does.
LEMMA Rigid ==
  ASSUME job' = job
  PROVE  /\ UNCHANGED <<NumScans, Second, ScanStart, ScanDuration, ScanConfig, IntTime, SubintNS,
                        ExecuteSeconds, Scans, Configs, InitScan, InitTime>>
  BY DEF NumScans, Second, ScanStart, ScanDuration, ScanConfig, IntTime, SubintNS, StartNS,
         ExecuteSeconds, Scans, Configs, InitScan, InitTime, NextConfigured, FirstScan

\* So what is said of an integration says the same of it in the next state.
LEMMA RigidOK ==
  ASSUME job' = job
  PROVE  /\ VisOK(vis)' <=> VisOK(vis')
         /\ SeenOK(vis, seen)' <=> SeenOK(vis', seen')
         /\ ExpectOK(vis)' <=> ExpectOK(vis')
         /\ Whole' <=> Whole
         /\ OneConfig' <=> OneConfig
  <1>1. VisOK(vis)' <=> VisOK(vis')
    BY Rigid DEF VisOK, VisType, Correlated, From
  <1>2. SeenOK(vis, seen)' <=> SeenOK(vis', seen')
    BY Rigid DEF SeenOK, Past, Apart, Filled, Covered, Key, Correlated, From, ScanInt
  <1>3. ExpectOK(vis)' <=> ExpectOK(vis')
    BY Rigid DEF ExpectOK, CutShort, From
  <1>4. (Whole' <=> Whole) /\ (OneConfig' <=> OneConfig)
    BY Rigid DEF Whole, OneConfig
  <1> QED BY <1>1, <1>2, <1>3, <1>4

\* The invariant.
TimesInv ==
  /\ job \in Jobs /\ VisOK(vis) /\ SeenOK(vis, seen)
  /\ Whole /\ OneConfig => ExpectOK(vis)

LEMMA TimesFirst == Init => TimesInv
  <1> SUFFICES ASSUME Init PROVE TimesInv
    OBVIOUS
  <1>1. JobOK /\ job \in Jobs /\ vis = NewVisibility(0) /\ seen = {Key(NewVisibility(0))}
    BY JobIs DEF Init
  <1>2. VisOK(NewVisibility(0)) /\ SeenOK(NewVisibility(0), {Key(NewVisibility(0))})
          /\ (Whole => ExpectOK(NewVisibility(0)))
    BY <1>1, FirstIs, SeenFirst, ExpectFirst
  <1> QED BY <1>1, <1>2 DEF TimesInv

LEMMA TimesStep == TimesInv /\ [Next]_vars => TimesInv'
  <1> SUFFICES ASSUME TimesInv, [Next]_vars PROVE TimesInv'
    OBVIOUS
  <1>1. JobOK /\ job \in Jobs /\ VisOK(vis) /\ SeenOK(vis, seen) /\ (Whole /\ OneConfig => ExpectOK(vis))
    BY JobIs DEF TimesInv
  <1>2. job' = job
    BY DEF Next, vars
  <1>3. CASE Next
    <2>1. /\ vis.scan < NumScans /\ vis' = UpdateTime(vis)
          /\ seen' = seen \cup {Key(UpdateTime(vis))}
      BY <1>3 DEF Next
    <2>2. VisOK(UpdateTime(vis))
      BY <1>1, <2>1, UpdateTimeIs
    <2>3. SeenOK(UpdateTime(vis), seen \cup {Key(UpdateTime(vis))})
      BY <1>1, <2>1, SeenStep
    <2>4. Whole /\ OneConfig => ExpectOK(UpdateTime(vis))
      BY <1>1, <2>1, ExpectStep
    <2>5. VisOK(vis') /\ SeenOK(vis', seen') /\ (Whole /\ OneConfig => ExpectOK(vis'))
      BY <2>1, <2>2, <2>3, <2>4
    <2> QED BY <1>1, <1>2, <2>5, RigidOK DEF TimesInv
  <1>4. CASE UNCHANGED vars
    <2>1. vis' = vis /\ seen' = seen
      BY <1>4 DEF vars
    <2>2. VisOK(vis') /\ SeenOK(vis', seen') /\ (Whole /\ OneConfig => ExpectOK(vis'))
      BY <1>1, <2>1
    <2> QED BY <1>1, <1>2, <2>2, RigidOK DEF TimesInv
  <1> QED BY <1>3, <1>4

LEMMA TimesInvariant == Spec => []TimesInv
  BY TimesFirst, TimesStep, PTL DEF Spec

\* Whatever the scans of a job are, when it is over each subint that went out
\* fell into exactly one of the integrations that updateTime went through
\* (visibility.cpp), unless half a subint is longer than a second and the
\* integrations are not made of whole ones: no result is counted twice, and
\* none is left without an integration to go to.
THEOREM TimesSubintsPlaced == Spec => []SubintsPlaced
  <1>1. TimesInv => SubintsPlaced
    <2> SUFFICES ASSUME TimesInv, Placeable, vis.scan = NumScans,
                        NEW n \in Scans, n >= InitScan, ScanConfig[n] >= 0, NEW t \in SubintStarts(n)
                 PROVE  Cardinality({k \in seen : k.scan < NumScans /\ Belongs(k, n, t)}) = 1
      BY DEF SubintsPlaced
    <2>1. JobOK /\ SeenOK(vis, seen)
      BY JobIs DEF TimesInv
    <2>2. Correlated(n)
      BY <2>1, ConfigNumber
    <2>3. SubintNS[ScanConfig[n]] \div 2 <= Second \/ ScanInt(n) % SubintNS[ScanConfig[n]] = 0
      BY <2>2 DEF Correlated, Placeable, ScanInt
    <2> QED BY <2>1, <2>2, <2>3, PlacedIs
  <1> QED BY <1>1, TimesInvariant, PTL

\* In a job of one configuration whose integrations are made of whole subints
\* no integration is taken for complete (Visibility::isComplete) while a
\* subint of it is still to come.
THEOREM TimesNeverEarly == Spec => [](Whole /\ OneConfig => NeverEarly)
  <1>1. TimesInv => (Whole /\ OneConfig => NeverEarly)
    <2> SUFFICES ASSUME TimesInv, Whole, OneConfig, vis.scan < NumScans
                 PROVE  vis.expected >= Cardinality(Gets(vis))
      BY DEF NeverEarly
    <2>1. JobOK /\ VisOK(vis) /\ ExpectOK(vis)
      BY JobIs DEF TimesInv
    <2>2. IntTime[vis.config] % SubintNS[vis.config] = 0
      BY <2>1 DEF VisOK, VisType, Whole
    <2> QED BY <2>1, <2>2, CountIs
  <1> QED BY <1>1, TimesInvariant, PTL

\* In a job of one configuration whose integrations and scans are made of
\* whole subints, and whose scans are not shorter than an integration and end
\* before the job does, an integration expects exactly the subints that go
\* out for it, so that it is complete when the last of them is in.
THEOREM TimesExpectedIsSent == Spec => []ExpectedIsSent
  <1>1. TimesInv => ExpectedIsSent
    <2> SUFFICES ASSUME TimesInv, Regular, vis.scan < NumScans
                 PROVE  vis.expected = Cardinality(Gets(vis))
      BY DEF ExpectedIsSent
    <2>1. JobOK /\ VisOK(vis) /\ ExpectOK(vis)
      BY JobIs DEF TimesInv, Regular
    <2>2. IntTime[vis.config] % SubintNS[vis.config] = 0 /\ Correlated(vis.scan)
      BY <2>1 DEF VisOK, VisType, Regular, Whole
    <2>3. RegularScan(vis.scan)
      <3>1. vis.scan \in Scans /\ ScanConfig[vis.scan] >= 0
        BY <2>1, <2>2, ConfigNumber DEF Correlated
      <3> QED BY <3>1 DEF Regular, RegularScan
    <2> QED BY <2>1, <2>2, <2>3, CountIs
  <1> QED BY <1>1, TimesInvariant, PTL
=============================================================================
