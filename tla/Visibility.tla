----------------------------- MODULE Visibility -----------------------------
(***************************************************************************)
(* The bookkeeping of one Visibility object (visibility.cpp): the          *)
(* integration it is responsible for, how many subints it expects and what *)
(* it has accumulated.  The vectors of results are abstracted to the set   *)
(* of subints that were added.                                             *)
(***************************************************************************)
EXTENDS Job

\* What the remainder of an integration time that is not a whole number of
\* subints comes to: the new offset, and the number of subints to expect.
Carry(config, offset) ==
  LET S == SubintNS[config]
      sum == offset + (IntTime[config] % S)
      whole == IntTime[config] \div S
  IN IF sum > S \div 2
     THEN [offset |-> sum - S, subints |-> whole + 1]
     ELSE [offset |-> sum, subints |-> whole]

MutCutShort(v, start, n) == n
MutCutShortMore(v, start, n) ==
  LET over == start + IntTime[v.config] - ScanDuration[v.scan]
      S == SubintNS[v.config]
  IN IF over > 0 THEN n - (over + S - 1) \div S ELSE n

\* How many of n subints an integration gets that begins at start and that
\* the end of the scan may cut short.
CutShort(v, start, n) ==
  LET over == start + IntTime[v.config] - ScanDuration[v.scan]
  IN IF over > 0 THEN n - over \div SubintNS[v.config] ELSE n

MutEnterScan(v, start) ==
  LET scan == NextConfigured(v.scan + 1)
      first == Carry(v.config, 0)
  IN [v EXCEPT !.scan = scan, !.start = start - ScanDuration[v.scan],
               !.config = IF scan < NumScans THEN ScanConfig[scan] ELSE @,
               !.offset = first.offset, !.expected = first.subints]

\* The first integration of the next scan.  It expects the number of subints
\* of the configuration of the scan that ends.
EnterScan(v, start) ==
  LET scan == NextConfigured(v.scan + 1)
      first == Carry(v.config, 0)
  IN [v EXCEPT !.scan = scan, !.start = 0,
               !.config = IF scan < NumScans THEN ScanConfig[scan] ELSE @,
               !.offset = first.offset, !.expected = first.subints]

\* updateTime: moves on by one integration.
UpdateTime(v) ==
  LET start == v.start + IntTime[v.config]
      next == Carry(v.config, v.offset)
  IN IF v.scan >= NumScans THEN v
     ELSE IF start >= ScanDuration[v.scan] THEN EnterScan(v, start)
     ELSE [v EXCEPT !.start = start, !.offset = next.offset,
                    !.expected = CutShort(v, start, next.subints)]

\* updateTime, n times.
UpdateTimes(v, n) ==
  LET u[k \in 0 .. n] == IF k = 0 THEN v ELSE UpdateTime(u[k - 1]) IN u[n]

\* The constructor, for the Visibility at index id of the ring.  Here only
\* half a subint is taken off the offset when it makes up a subint.
NewVisibility(id) ==
  LET config == ScanConfig[InitScan]
      S == SubintNS[config]
      rest == IntTime[config] % S
      more == rest > S \div 2
  IN UpdateTimes([scan |-> InitScan, start |-> InitTime, config |-> config,
                  offset |-> IF more THEN rest - S \div 2 ELSE rest,
                  expected |-> IntTime[config] \div S + (IF more THEN 1 ELSE 0),
                  subints |-> 0, results |-> {}], id)

\* addData, and what it returns.
AddData(v, subint) ==
  [v EXCEPT !.subints = @ + 1, !.results = @ \cup {subint}]
MutIsComplete(v) == v.subints + 1 >= v.expected
IsComplete(v) == v.subints >= v.expected

MutIncrementShort(v, n) ==
  IF v.scan >= NumScans THEN v
  ELSE UpdateTimes([v EXCEPT !.subints = 0, !.results = {}], n - 1)

\* increment: the integration that comes numvisibilities = n later.
Increment(v, n) ==
  IF v.scan >= NumScans THEN v
  ELSE UpdateTimes([v EXCEPT !.subints = 0, !.results = {}], n)

\* Whether writedata writes anything.
Writes(v) ==
  /\ v.scan < NumScans
  /\ ScanStart[v.scan] + v.start < ExecuteSeconds
  /\ v.subints > 0

\* The time from the start of integration v to the middle of a subint, as
\* locateVisIndex compares it; Never stands for LLONG_MAX.
Never == 10 * (ExecuteSeconds + Second)
MutDifference(v, scan, t) ==
  IF scan > v.scan THEN Never
  ELSE IF scan < v.scan THEN -Never
  ELSE t + SubintNS[ScanConfig[scan]] - v.start
Difference(v, scan, t) ==
  IF scan > v.scan THEN Never
  ELSE IF scan < v.scan THEN -Never
  ELSE Centre(scan, t) - v.start

\* The subints of the job whose middle lies in the integration of v.
Belongs(v, scan, t) ==
  /\ scan = v.scan
  /\ 0 <= Difference(v, scan, t) /\ Difference(v, scan, t) < IntTime[ScanConfig[scan]]
=============================================================================
