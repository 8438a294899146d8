-------------------------- MODULE DataStreamProofs --------------------------
(***************************************************************************)
(* Proofs about SegmentRing, for a ring of any length from five on; then   *)
(* that a DataStream is such a ring: every step of DataStream.tla,         *)
(* whatever its data, is a step of SegmentRing.tla or leaves the ring      *)
(* alone, so that what is proved of the ring holds for every job.          *)
(*                                                                         *)
(* The locks say who is where: the main thread holds its segment and the   *)
(* next, the reader the one it is at, or the one before, or both.  So the  *)
(* main thread is never right behind a segment of the reader's, and sends  *)
(* nothing from there: what the reader found without sends stays so as     *)
(* long as it is near (FreshInv).  All sends that are not over are between *)
(* waitsegment and atsegment, and those two stay so close that the segment *)
(* the reader waits for is not among them (LagInv); with five segments the *)
(* distance is one too large for that.                                     *)
(*                                                                         *)
(* Last, the data: a segment holds what its label says (LabelInv), and     *)
(* what has been promised to a Core is still in the segment it was sent    *)
(* from or the next (PromiseInv).  The reader breaks neither when it fills *)
(* a segment, as nobody is promised anything there (NoOverwrite).  It may  *)
(* when it copies the beginning of a segment to the end of the one before, *)
(* and the main thread may when it takes the next segment to go on where   *)
(* its own ends: PlainJob and ScansApart exclude the files and scans with  *)
(* which they do.                                                          *)
(***************************************************************************)
EXTENDS DataStream, Numbers, TLAPS

MainHolds == CASE mpc \in {"join", "done"} -> {}
               [] mpc = "asleep" -> {0}
               [] OTHER -> {atsegment, After(atsegment, 1)}

HoldsLast == \/ rpc \in {"start", "loop"} /\ numread > 0
             \/ rpc \in {"wait", "read"} /\ numread >= 2
HoldsPrevious == \/ rpc = "lock"
                 \/ rpc \in {"wait", "read"} /\ numread = 3 /\ isnewfile

\* Every lock is held by the thread that should.
LocksInv ==
  \A i \in Segments :
    /\ bufferlock[i] = "main" <=> i \in MainHolds
    /\ bufferlock[i] = "reader" <=> \/ HoldsLast /\ i = lastvalidsegment
                                    \/ HoldsPrevious /\ i = Previous(lastvalidsegment)

\* How the reader's variables depend on where it is.
ReaderInv ==
  /\ rpc = "open" => numread = 0 /\ buffersegment = 0 /\ lastvalidsegment = 0
  /\ rpc \in {"wait", "read"} =>
       buffersegment = IF numread < 2 THEN numread ELSE lastvalidsegment
  /\ rpc = "lockfirst" => numread \in {1, 2}
  /\ rpc = "start" => numread <= 2
  /\ rpc \in {"lockfirst", "start", "loop"} /\ numread < 2 => ~keepreading
  /\ rpc = "loop" /\ numread < 3 => ~keepreading
  /\ rpc = "lock" => numread = 3
  /\ HoldsLast /\ numread < 3 => lastvalidsegment = numread
  /\ rpc \in {"lockfirst", "start"} => lastvalidsegment = numread

\* The main thread starts after the reader has.
StartInv ==
  /\ readthreadstarted => \/ rpc \in {"loop", "lock", "done"}
                          \/ rpc \in {"wait", "read"} /\ numread >= 2
  /\ mpc \notin {"init", "asleep"} => readthreadstarted
  /\ mpc \in {"init", "asleep"} =>
       /\ atsegment = 0 /\ waitsegment = 0
       /\ \A i \in Segments : numsent[i] = 0

\* A request is kept until its data has been taken, and there is room for one.
SendsInv ==
  /\ \A i \in Segments : pending[i] <= numsent[i]
  /\ \A i \in Segments : numsent[i] >= maxsendspersegment =>
                           mpc = "full" /\ i = atsegment

\* How far the main thread may be ahead of its oldest sends.
MostAhead == IF numdatasegments = 5 THEN 3 ELSE numdatasegments - 3

LagInv ==
  /\ Ahead(waitsegment, atsegment) <= MostAhead
  /\ mpc = "lock" => Ahead(waitsegment, atsegment) <= MostAhead - 1
  /\ \A i \in Segments : numsent[i] > 0 =>
       Ahead(waitsegment, i) <= Ahead(waitsegment, atsegment)

\* Near the reader there are no sends.
FreshInv ==
  /\ rpc = "read" => numsent[buffersegment] = 0
  /\ rpc = "loop" /\ HoldsLast => numsent[lastvalidsegment] = 0
  /\ HoldsLast => numsent[Previous(lastvalidsegment)] = 0
  /\ HoldsPrevious => /\ numsent[Previous(lastvalidsegment)] = 0
                      /\ numsent[Previous(Previous(lastvalidsegment))] = 0

Inv == /\ SegTypeOK
       /\ LocksInv /\ ReaderInv /\ StartInv /\ SendsInv /\ LagInv /\ FreshInv

-----------------------------------------------------------------------------
(* The arithmetic of the ring, without % *)

\* The segment k after i.
LEMMA AfterValue ==
  ASSUME NEW i \in Segments, NEW k \in 0 .. numdatasegments - 1
  PROVE  After(i, k) = IF i + k < numdatasegments THEN i + k
                       ELSE i + k - numdatasegments
  <1> DEFINE x == i + k
  <1>1. numdatasegments \in Nat \ {0} /\ x \in 0 .. 2 * numdatasegments - 1
    BY SegmentsAssumption DEF Segments
  <1>2. x % numdatasegments = IF x < numdatasegments THEN x ELSE x - numdatasegments
    <2> HIDE DEF x
    <2> QED BY <1>1, ModOnce
  <1>3. i \in Nat /\ k \in Nat
    BY SegmentsAssumption DEF Segments
  <1> QED BY <1>1, <1>2, <1>3 DEF After

\* How far j is ahead of i.
LEMMA AheadValue ==
  ASSUME NEW i \in Segments, NEW j \in Segments
  PROVE  Ahead(i, j) = IF i <= j THEN j - i ELSE j - i + numdatasegments
  <1> DEFINE x == j - i + numdatasegments
  <1>1. /\ numdatasegments \in Nat \ {0} /\ i \in Nat /\ j \in Nat
        /\ i < numdatasegments /\ j < numdatasegments
        /\ x \in 0 .. 2 * numdatasegments - 1
    BY SegmentsAssumption DEF Segments
  <1>2. x % numdatasegments = IF x < numdatasegments THEN x ELSE x - numdatasegments
    <2> HIDE DEF x
    <2> QED BY <1>1, ModOnce
  <1> QED BY <1>1, <1>2 DEF Ahead

\* The neighbours of a segment, as the steps below need them.
LEMMA Steps ==
  /\ numdatasegments \in Nat /\ numdatasegments >= 5
  /\ \A i \in Segments : i \in Nat /\ i < numdatasegments
  /\ \A i \in Segments :
       /\ After(i, 1) = IF i = numdatasegments - 1 THEN 0 ELSE i + 1
       /\ After(i, 2) = IF i >= numdatasegments - 2 THEN i + 2 - numdatasegments
                        ELSE i + 2
       /\ Previous(i) = IF i = 0 THEN numdatasegments - 1 ELSE i - 1
  <1>1. numdatasegments \in Nat /\ numdatasegments >= 5
    BY SegmentsAssumption
  <1>2. \A i \in Segments : i \in Nat /\ i < numdatasegments
    BY <1>1 DEF Segments
  <1>3. ASSUME NEW i \in Segments
        PROVE  /\ After(i, 1) = IF i = numdatasegments - 1 THEN 0 ELSE i + 1
               /\ After(i, 2) = IF i >= numdatasegments - 2
                                THEN i + 2 - numdatasegments ELSE i + 2
               /\ Previous(i) = IF i = 0 THEN numdatasegments - 1 ELSE i - 1
    <2>1. /\ After(i, 1) = IF i + 1 < numdatasegments THEN i + 1
                           ELSE i + 1 - numdatasegments
          /\ After(i, 2) = IF i + 2 < numdatasegments THEN i + 2
                           ELSE i + 2 - numdatasegments
      BY <1>1, AfterValue
    <2>2. numdatasegments - 1 \in 0 .. numdatasegments - 1
      BY <1>1
    <2>3. Previous(i) = IF i + (numdatasegments - 1) < numdatasegments
                        THEN i + (numdatasegments - 1)
                        ELSE i + (numdatasegments - 1) - numdatasegments
      BY <2>2, AfterValue DEF Previous
    <2> QED BY <1>1, <1>2, <2>1, <2>3
  <1> QED BY <1>1, <1>2, <1>3

\* The segments around one are five different ones.
LEMMA Neighbours ==
  /\ 0 \in Segments /\ 1 \in Segments /\ 2 \in Segments /\ 3 \in Segments
  /\ After(0, 1) = 1 /\ Previous(1) = 0 /\ Previous(2) = 1
  /\ \A i \in Segments :
       /\ After(i, 1) \in Segments /\ After(i, 2) \in Segments
       /\ Previous(i) \in Segments
       /\ After(i, 2) = After(After(i, 1), 1)
       /\ Previous(After(i, 1)) = i /\ After(Previous(i), 1) = i
       /\ i # After(i, 1) /\ i # After(i, 2) /\ After(i, 1) # After(i, 2)
       /\ i # Previous(i) /\ i # Previous(Previous(i))
       /\ After(After(i, 2), 1) \notin {i, After(i, 1)}
  <1>1. /\ 0 \in Segments /\ 1 \in Segments /\ 2 \in Segments /\ 3 \in Segments
    BY Steps DEF Segments
  <1>2. After(0, 1) = 1 /\ Previous(1) = 0 /\ Previous(2) = 1
    BY <1>1, Steps
  <1>3. ASSUME NEW i \in Segments
        PROVE  /\ After(i, 1) \in Segments /\ After(i, 2) \in Segments
               /\ Previous(i) \in Segments
    BY Steps DEF Segments
  <1>4. ASSUME NEW i \in Segments
        PROVE  /\ After(i, 2) = After(After(i, 1), 1)
               /\ Previous(After(i, 1)) = i /\ After(Previous(i), 1) = i
               /\ i # After(i, 1) /\ i # After(i, 2) /\ After(i, 1) # After(i, 2)
               /\ i # Previous(i) /\ i # Previous(Previous(i))
               /\ After(After(i, 2), 1) \notin {i, After(i, 1)}
    <2> DEFINE one == After(i, 1)
               two == After(i, 2)
               back == Previous(i)
    <2>1. one \in Segments /\ two \in Segments /\ back \in Segments
      BY <1>3
    <2>2. /\ i \in Nat /\ i < numdatasegments
          /\ numdatasegments \in Nat /\ numdatasegments >= 5
      BY Steps
    <2>3. /\ one = IF i = numdatasegments - 1 THEN 0 ELSE i + 1
          /\ two = IF i >= numdatasegments - 2 THEN i + 2 - numdatasegments
                   ELSE i + 2
          /\ back = IF i = 0 THEN numdatasegments - 1 ELSE i - 1
      BY Steps
    <2>4. /\ After(one, 1) = IF one = numdatasegments - 1 THEN 0 ELSE one + 1
          /\ Previous(one) = IF one = 0 THEN numdatasegments - 1 ELSE one - 1
          /\ After(back, 1) = IF back = numdatasegments - 1 THEN 0 ELSE back + 1
          /\ After(two, 1) = IF two = numdatasegments - 1 THEN 0 ELSE two + 1
          /\ Previous(back) = IF back = 0 THEN numdatasegments - 1 ELSE back - 1
      BY <2>1, Steps
    <2> HIDE DEF one, two, back
    <2>5. two = After(one, 1) /\ Previous(one) = i /\ After(back, 1) = i
      BY <2>2, <2>3, <2>4
    <2>6. i # one /\ i # two /\ one # two /\ i # back /\ i # Previous(back)
      BY <2>2, <2>3, <2>4
    <2>7. After(two, 1) \notin {i, one}
      BY <2>2, <2>3, <2>4
    <2> QED BY <2>5, <2>6, <2>7 DEF one, two, back
  <1> QED BY <1>1, <1>2, <1>3, <1>4

\* Going round: who is ahead of whom after one of them moves on.
LEMMA AheadMoves ==
  /\ \A i, j \in Segments : Ahead(i, j) \in Nat /\ Ahead(i, j) < numdatasegments
  /\ \A i \in Segments : Ahead(i, i) = 0
  /\ \A i, j \in Segments : i # j =>
       Ahead(i, j) >= 1 /\ Ahead(After(i, 1), j) = Ahead(i, j) - 1
  /\ \A i, j \in Segments : Ahead(i, j) < numdatasegments - 1 =>
       Ahead(i, After(j, 1)) = Ahead(i, j) + 1
  <1>1. \A i, j \in Segments : Ahead(i, j) \in Nat /\ Ahead(i, j) < numdatasegments
    BY AheadValue, Steps
  <1>2. \A i \in Segments : Ahead(i, i) = 0
    BY AheadValue, Steps
  <1>3. ASSUME NEW i \in Segments, NEW j \in Segments, i # j
        PROVE  Ahead(i, j) >= 1 /\ Ahead(After(i, 1), j) = Ahead(i, j) - 1
    <2>1. /\ Ahead(i, j) = IF i <= j THEN j - i ELSE j - i + numdatasegments
          /\ Ahead(After(i, 1), j) = IF After(i, 1) <= j THEN j - After(i, 1)
                                     ELSE j - After(i, 1) + numdatasegments
      BY AheadValue, Neighbours
    <2> QED BY <1>3, <2>1, Steps
  <1>4. ASSUME NEW i \in Segments, NEW j \in Segments,
               Ahead(i, j) < numdatasegments - 1
        PROVE  Ahead(i, After(j, 1)) = Ahead(i, j) + 1
    <2>1. /\ Ahead(i, j) = IF i <= j THEN j - i ELSE j - i + numdatasegments
          /\ Ahead(i, After(j, 1)) = IF i <= After(j, 1) THEN After(j, 1) - i
                                     ELSE After(j, 1) - i + numdatasegments
      BY AheadValue, Neighbours
    <2> QED BY <1>4, <2>1, Steps
  <1> QED BY <1>1, <1>2, <1>3, <1>4

\* The segment that is k ahead is the one k after.
LEMMA AfterAhead ==
  ASSUME NEW i \in Segments, NEW j \in Segments
  PROVE  After(i, Ahead(i, j)) = j
  <1>1. Ahead(i, j) \in 0 .. numdatasegments - 1
    BY AheadMoves, Steps
  <1>2. After(i, Ahead(i, j)) = IF i + Ahead(i, j) < numdatasegments
                                THEN i + Ahead(i, j)
                                ELSE i + Ahead(i, j) - numdatasegments
    BY <1>1, AfterValue
  <1> QED BY <1>2, AheadValue, Steps

-----------------------------------------------------------------------------
(* The invariant *)

\* It holds at the start.
LEMMA InitInv == SegInit => Inv
  <1> SUFFICES ASSUME SegInit PROVE Inv
    OBVIOUS
  <1>1. SegTypeOK
    <2>1. /\ bufferlock \in [Segments -> {"free", "main", "reader"}]
          /\ numsent \in [Segments -> 0 .. maxsendspersegment]
          /\ pending \in [Segments -> 0 .. maxsendspersegment]
      BY SegmentsAssumption DEF SegInit
    <2>2. /\ atsegment \in Segments /\ waitsegment \in Segments
          /\ lastvalidsegment \in Segments /\ buffersegment \in Segments
      BY Neighbours DEF SegInit
    <2>3. numread \in 0 .. 3
      BY DEF SegInit
    <2>4. /\ isnewfile \in BOOLEAN
          /\ keepreading \in BOOLEAN /\ readthreadstarted \in BOOLEAN
          /\ mpc = "init" /\ rpc = "open"
      BY DEF SegInit
    <2> QED BY <2>1, <2>2, <2>3, <2>4 DEF SegTypeOK
  <1>2. LocksInv
    BY Neighbours DEF SegInit, LocksInv, MainHolds, HoldsLast, HoldsPrevious
  <1>3. ReaderInv /\ StartInv
    BY DEF SegInit, ReaderInv, StartInv, HoldsLast
  <1>4. SendsInv
    BY SegmentsAssumption DEF SegInit, SendsInv
  <1>5. LagInv
    BY Neighbours, AheadMoves, Steps DEF SegInit, LagInv, MostAhead
  <1>6. FreshInv
    BY DEF SegInit, FreshInv, HoldsLast, HoldsPrevious
  <1> QED BY <1>1, <1>2, <1>3, <1>4, <1>5, <1>6 DEF Inv

\* Types: the only steps that count are those that go round the ring, and those
\* that keep one more request.
LEMMA TypeStep ==
  ASSUME Inv, [SegNext]_segvars
  PROVE  SegTypeOK'
  <1> USE DEF places, sends
  <1> USE Neighbours, SegmentsAssumption
  <1>0. SegTypeOK
    BY DEF Inv
  <1>1. CASE SleepStart \/ WakeStart \/ Started \/ Receive \/ ScanOver
    BY <1>0, <1>1 DEF SegTypeOK, SleepStart, WakeStart, Started, Receive, ScanOver
  <1>2. ASSUME NEW next \in {"search", "lock"}, WaitForSendComplete(next)
        PROVE  SegTypeOK'
    BY <1>0, <1>2 DEF SegTypeOK, WaitForSendComplete
  <1>3. CASE BeginSearch \/ EndSearch \/ GoOn
    BY <1>0, <1>2, <1>3 DEF SegTypeOK, BeginSearch, EndSearch, GoOn
  <1>4. CASE Advance
    BY <1>0, <1>4 DEF SegTypeOK, Advance
  <1>5. CASE Issend
    <2>1. numsent[atsegment] + 1 \in 0 .. maxsendspersegment
      BY <1>5 DEF Inv, SegTypeOK, SendsInv, Issend
    <2>2. pending[atsegment] + 1 \in 0 .. maxsendspersegment
      BY <1>5, <2>1 DEF Inv, SegTypeOK, SendsInv
    <2>3. /\ numsent' \in [Segments -> 0 .. maxsendspersegment]
          /\ pending' \in [Segments -> 0 .. maxsendspersegment]
      BY <1>0, <1>5, <2>1, <2>2 DEF SegTypeOK, Issend
    <2>4. mpc' \in {"full", "idle"}
      BY <1>5 DEF Issend
    <2>5. UNCHANGED <<bufferlock, atsegment, waitsegment, lastvalidsegment,
                      buffersegment, numread, isnewfile, keepreading,
                      readthreadstarted, rpc>>
      BY <1>5 DEF Issend
    <2> QED BY ONLY <1>0, <2>3, <2>4, <2>5 DEF SegTypeOK
  <1>6. CASE EmptySegment \/ Terminate \/ UnlockBoth \/ Join
    <2>1. CASE EmptySegment
      BY <1>0, <2>1 DEF SegTypeOK, EmptySegment
    <2>2. CASE Terminate \/ Join
      BY <1>0, <2>2 DEF SegTypeOK, Terminate, Join
    <2>3. CASE UnlockBoth
      BY <1>0, <2>3 DEF SegTypeOK, UnlockBoth
    <2> QED BY <1>6, <2>1, <2>2, <2>3
  <1>7. CASE \E i \in Segments : FinishSends(i)
    BY <1>0, <1>7 DEF SegTypeOK, FinishSends
  <1>8. CASE \/ \E found, held \in BOOLEAN : Open(found, held)
             \/ WaitForBuffer
             \/ \E keep, tiny, held \in BOOLEAN : FinishFirst(keep, tiny, held)
    <2>1. CASE \E found, held \in BOOLEAN : Open(found, held)
      BY <1>0, <2>1 DEF SegTypeOK, Open
    <2>2. CASE WaitForBuffer
      BY <1>0, <2>2 DEF SegTypeOK, WaitForBuffer
    <2>3. CASE \E keep, tiny, held \in BOOLEAN : FinishFirst(keep, tiny, held)
      <3>1. PICK keep \in BOOLEAN, tiny \in BOOLEAN, held \in BOOLEAN :
              FinishFirst(keep, tiny, held)
        BY <2>3
      <3>2. /\ numread' \in {1, 2} /\ numread' \in Segments
            /\ keepreading' \in BOOLEAN
        BY <1>0, <3>1 DEF SegTypeOK, FinishFirst, StopReading
      <3>3. /\ lastvalidsegment' \in Segments /\ buffersegment' \in Segments
            /\ numread' \in 0 .. 3 /\ isnewfile' \in BOOLEAN
            /\ rpc' \in {"wait", "lockfirst"}
        BY <1>0, <3>1, <3>2 DEF SegTypeOK, FinishFirst
      <3>4. UNCHANGED <<bufferlock, atsegment, waitsegment, readthreadstarted,
                        numsent, pending, mpc>>
        BY <3>1 DEF FinishFirst
      <3> QED BY ONLY <1>0, <3>2, <3>3, <3>4 DEF SegTypeOK
    <2> QED BY <1>8, <2>1, <2>2, <2>3
  <1>9. CASE LockFirst \/ Start \/ NextSegment \/ LockNext \/ Exit
    <2>1. CASE LockFirst
      BY <1>0, <2>1 DEF SegTypeOK, LockFirst
    <2>2. CASE Start \/ NextSegment
      BY <1>0, <2>2 DEF SegTypeOK, Start, NextSegment
    <2>3. CASE LockNext
      BY <1>0, <2>3 DEF SegTypeOK, LockNext
    <2>4. CASE Exit
      BY <1>0, <2>4 DEF SegTypeOK, Exit
    <2> QED BY <1>9, <2>1, <2>2, <2>3, <2>4
  <1>10. CASE \E keep \in BOOLEAN : FinishRead(keep)
    BY <1>0, <1>10 DEF SegTypeOK, FinishRead, StopReading
  <1>11. CASE \E keep, held \in BOOLEAN : NextFile(keep, held)
    BY <1>0, <1>11 DEF SegTypeOK, NextFile, StopReading
  <1>12. CASE \E i \in Segments : Complete(i)
    BY <1>0, <1>12 DEF SegTypeOK, Complete
  <1>13. CASE UNCHANGED segvars
    BY <1>0, <1>13 DEF SegTypeOK, segvars, locks
  <1> QED
    BY <1>1, <1>3, <1>4, <1>5, <1>6, <1>7, <1>8, <1>9, <1>10, <1>11, <1>12, <1>13
       DEF SegNext, Main, Reader

\* Locks: each step gives and takes what the program counters say.
LEMMA LocksStep ==
  ASSUME Inv, [SegNext]_segvars
  PROVE  LocksInv'
  <1> USE DEF places, sends
  <1>0. SegTypeOK /\ LocksInv /\ ReaderInv /\ StartInv
    BY DEF Inv
  <1>a. ASSUME UNCHANGED <<bufferlock, lastvalidsegment, rpc, numread, isnewfile>>,
               MainHolds' = MainHolds
        PROVE  LocksInv'
    BY <1>0, <1>a DEF LocksInv, HoldsLast, HoldsPrevious
  <1>b. ASSUME UNCHANGED <<bufferlock, lastvalidsegment, mpc, atsegment>>,
               HoldsLast' <=> HoldsLast, HoldsPrevious' <=> HoldsPrevious
        PROVE  LocksInv'
    BY <1>0, <1>b DEF LocksInv, MainHolds
  <1>1. CASE SleepStart
    <2>1. MainHolds = {0, 1} /\ MainHolds' = {0}
      BY <1>0, <1>1, Neighbours DEF SleepStart, MainHolds, StartInv
    <2> QED BY <1>0, <1>1, <2>1
            DEF SleepStart, SegTypeOK, LocksInv, HoldsLast, HoldsPrevious
  <1>2. CASE WakeStart
    <2>1. MainHolds = {0} /\ MainHolds' = {0, 1}
      BY <1>0, <1>2, Neighbours DEF WakeStart, MainHolds, StartInv
    <2> QED BY <1>0, <1>2, <2>1, Neighbours
            DEF WakeStart, SegTypeOK, LocksInv, HoldsLast, HoldsPrevious
  <1>3. CASE Started \/ Receive \/ ScanOver \/ BeginSearch \/ EndSearch \/ GoOn
    BY <1>a, <1>3 DEF Started, Receive, ScanOver, BeginSearch, EndSearch, GoOn,
                      WaitForSendComplete, MainHolds
  <1>4. CASE Advance
    <2>1. /\ MainHolds = {atsegment, After(atsegment, 1)}
          /\ MainHolds' = {After(atsegment, 1), After(atsegment, 2)}
      BY <1>0, <1>4, Neighbours DEF Advance, MainHolds, SegTypeOK
    <2> QED BY <1>0, <1>4, <2>1, Neighbours
            DEF Advance, SegTypeOK, LocksInv, HoldsLast, HoldsPrevious
  <1>5. CASE Issend \/ EmptySegment \/ Terminate \/ Join
             \/ \E i \in Segments : FinishSends(i)
    BY <1>a, <1>5 DEF Issend, EmptySegment, Terminate, Join, FinishSends, MainHolds
  <1>6. CASE UnlockBoth
    <2>1. MainHolds = {atsegment, After(atsegment, 1)} /\ MainHolds' = {}
      BY <1>6 DEF UnlockBoth, MainHolds
    <2> QED BY <1>0, <1>6, <2>1, Neighbours
            DEF UnlockBoth, SegTypeOK, LocksInv, HoldsLast, HoldsPrevious
  <1>7. CASE \E found, held \in BOOLEAN : Open(found, held)
    BY <1>0, <1>7, <1>b DEF Open, ReaderInv, HoldsLast, HoldsPrevious
  <1>8. CASE WaitForBuffer
    BY <1>8, <1>b DEF WaitForBuffer, HoldsLast, HoldsPrevious
  <1>9. CASE \E keep, tiny, held \in BOOLEAN : FinishFirst(keep, tiny, held)
    <2>1. /\ ~HoldsLast /\ ~HoldsPrevious /\ ~HoldsLast' /\ ~HoldsPrevious'
          /\ UNCHANGED <<bufferlock, mpc, atsegment>>
      BY <1>0, <1>9 DEF FinishFirst, HoldsLast, HoldsPrevious, SegTypeOK
    <2> QED BY <1>0, <2>1 DEF LocksInv, MainHolds
  <1>10. CASE LockFirst
    <2>1. /\ ~HoldsLast /\ ~HoldsPrevious /\ HoldsLast' /\ ~HoldsPrevious'
      BY <1>0, <1>10 DEF LockFirst, HoldsLast, HoldsPrevious, ReaderInv
    <2> QED BY <1>0, <1>10, <2>1 DEF LockFirst, SegTypeOK, LocksInv, MainHolds
  <1>11. CASE Start
    <2>1. HoldsLast' <=> HoldsLast
      BY <1>0, <1>11 DEF Start, HoldsLast, ReaderInv, SegTypeOK
    <2>2. HoldsPrevious' <=> HoldsPrevious
      BY <1>0, <1>11 DEF Start, HoldsPrevious, ReaderInv, SegTypeOK
    <2> QED BY <1>b, <1>11, <2>1, <2>2 DEF Start
  <1>12. CASE NextSegment
    <2>1. HoldsLast /\ ~HoldsPrevious /\ ~HoldsLast' /\ HoldsPrevious'
      BY <1>0, <1>12 DEF NextSegment, HoldsLast, HoldsPrevious, ReaderInv, SegTypeOK
    <2>2. Previous(lastvalidsegment') = lastvalidsegment
      BY <1>0, <1>12, Neighbours DEF NextSegment, SegTypeOK
    <2> QED BY <1>0, <1>12, <2>1, <2>2 DEF NextSegment, LocksInv, MainHolds
  <1>13. CASE LockNext
    <2>1. /\ ~HoldsLast /\ HoldsPrevious /\ HoldsLast' /\ (HoldsPrevious' <=> isnewfile)
      BY <1>0, <1>13 DEF LockNext, HoldsLast, HoldsPrevious, ReaderInv
    <2>2. /\ lastvalidsegment \in Segments /\ Previous(lastvalidsegment) \in Segments
          /\ lastvalidsegment # Previous(lastvalidsegment)
      BY <1>0, Neighbours DEF SegTypeOK
    <2> QED BY <1>0, <1>13, <2>1, <2>2 DEF LockNext, SegTypeOK, LocksInv, MainHolds
  <1>14. CASE \E keep \in BOOLEAN : FinishRead(keep)
    <2>1. /\ HoldsLast /\ (HoldsPrevious <=> numread = 3 /\ isnewfile)
          /\ HoldsLast' /\ ~HoldsPrevious'
          /\ buffersegment = lastvalidsegment
      BY <1>0, <1>14 DEF FinishRead, HoldsLast, HoldsPrevious, ReaderInv, SegTypeOK
    <2>2. /\ lastvalidsegment \in Segments /\ Previous(lastvalidsegment) \in Segments
          /\ lastvalidsegment # Previous(lastvalidsegment)
      BY <1>0, Neighbours DEF SegTypeOK
    <2> QED BY <1>0, <1>14, <2>1, <2>2 DEF FinishRead, SegTypeOK, LocksInv, MainHolds
  <1>15. CASE \E keep, held \in BOOLEAN : NextFile(keep, held)
    BY <1>b, <1>15 DEF NextFile, HoldsLast, HoldsPrevious
  <1>16. CASE Exit
    <2>1. /\ HoldsLast <=> numread > 0
          /\ ~HoldsPrevious /\ ~HoldsLast' /\ ~HoldsPrevious'
      BY <1>0, <1>16 DEF Exit, HoldsLast, HoldsPrevious, SegTypeOK
    <2> QED BY <1>0, <1>16, <2>1 DEF Exit, SegTypeOK, LocksInv, MainHolds
  <1>17. CASE (\E i \in Segments : Complete(i)) \/ UNCHANGED segvars
    BY <1>a, <1>17 DEF Complete, segvars, locks, MainHolds
  <1> QED
    BY <1>1, <1>2, <1>3, <1>4, <1>5, <1>6, <1>7, <1>8, <1>9, <1>10, <1>11, <1>12,
       <1>13, <1>14, <1>15, <1>16, <1>17 DEF SegNext, Main, Reader

\* The reader's own variables.
LEMMA ReaderStep ==
  ASSUME Inv, [SegNext]_segvars
  PROVE  ReaderInv'
  <1> USE DEF places, sends
  <1>0. SegTypeOK /\ ReaderInv
    BY DEF Inv
  <1>1. ASSUME UNCHANGED <<places, rpc>>, keepreading' => keepreading
        PROVE  ReaderInv'
    BY <1>0, <1>1 DEF ReaderInv, HoldsLast
  <1>2. CASE Main
    <2>1. CASE \/ SleepStart \/ WakeStart \/ Started \/ Receive \/ ScanOver
               \/ BeginSearch \/ EndSearch \/ GoOn \/ Advance
      BY <1>1, <2>1 DEF SleepStart, WakeStart, Started, Receive, ScanOver,
                        BeginSearch, WaitForSendComplete, EndSearch, GoOn, Advance
    <2>2. CASE \/ Issend \/ EmptySegment \/ Terminate
               \/ \E i \in Segments : FinishSends(i)
               \/ UnlockBoth \/ Join
      BY <1>1, <2>2 DEF Issend, EmptySegment, Terminate, FinishSends, UnlockBoth, Join
    <2> QED BY <1>2, <2>1, <2>2 DEF Main
  <1>3. CASE \E found, held \in BOOLEAN : Open(found, held)
    <2>1. /\ numread' = 0 /\ buffersegment' = 0 /\ lastvalidsegment' = 0
          /\ \/ rpc' = "wait"
             \/ rpc' = "start" /\ ~keepreading'
      BY <1>0, <1>3 DEF Open, ReaderInv
    <2> QED BY <1>0, <2>1 DEF ReaderInv, HoldsLast
  <1>4. CASE WaitForBuffer \/ LockFirst
    <2>1. CASE WaitForBuffer
      BY <1>0, <2>1 DEF WaitForBuffer, ReaderInv, HoldsLast
    <2>2. CASE LockFirst
      <3>1. /\ rpc' = "start" /\ numread' \in {1, 2} /\ lastvalidsegment' = numread'
            /\ numread' = 1 => ~keepreading'
        BY <1>0, <2>2 DEF LockFirst, ReaderInv
      <3> QED BY <3>1 DEF ReaderInv, HoldsLast
    <2> QED BY <1>4, <2>1, <2>2
  <1>5. CASE \E keep, tiny, held \in BOOLEAN : FinishFirst(keep, tiny, held)
    <2>1. PICK keep \in BOOLEAN, tiny \in BOOLEAN, held \in BOOLEAN :
            FinishFirst(keep, tiny, held)
      BY <1>5
    <2>2. CASE numread = 0 /\ ~tiny
      BY <1>0, <2>1, <2>2 DEF FinishFirst, ReaderInv, HoldsLast
    <2>3. CASE ~(numread = 0 /\ ~tiny)
      <3>1. /\ rpc' = "lockfirst" /\ numread' \in {1, 2}
            /\ lastvalidsegment' = numread'
            /\ numread' = 1 => ~keepreading'
        BY <1>0, <2>1, <2>3 DEF FinishFirst, StopReading, SegTypeOK
      <3> QED BY <3>1 DEF ReaderInv, HoldsLast
    <2> QED BY <2>2, <2>3
  <1>6. CASE Start
    <2>1. CASE keepreading
      <3>1. numread = 2 /\ lastvalidsegment = 2
        BY <1>0, <1>6, <2>1 DEF Start, ReaderInv, SegTypeOK
      <3>2. /\ rpc' = "wait" /\ buffersegment' = 2
            /\ UNCHANGED <<numread, lastvalidsegment, keepreading>>
        BY <1>6, <2>1 DEF Start
      <3> QED BY <3>1, <3>2 DEF ReaderInv, HoldsLast
    <2>2. CASE ~keepreading
      BY <1>0, <1>6, <2>2 DEF Start, ReaderInv, HoldsLast
    <2> QED BY <2>1, <2>2
  <1>7. CASE NextSegment
    <2>1. numread = 3
      BY <1>0, <1>7 DEF NextSegment, ReaderInv, SegTypeOK
    <2>2. rpc' = "lock" /\ numread' = 3
      BY <1>7, <2>1 DEF NextSegment
    <2> QED BY <2>2 DEF ReaderInv, HoldsLast
  <1>8. CASE LockNext
    <2>1. /\ numread' = 3 /\ rpc' = "wait"
          /\ buffersegment' = lastvalidsegment'
      BY <1>0, <1>8 DEF LockNext, ReaderInv
    <2> QED BY <2>1 DEF ReaderInv, HoldsLast
  <1>9. CASE \E keep \in BOOLEAN : FinishRead(keep)
    <2>1. numread' = 3 /\ rpc' = "loop"
      BY <1>9 DEF FinishRead
    <2> QED BY <2>1 DEF ReaderInv, HoldsLast
  <1>10. CASE \E keep, held \in BOOLEAN : NextFile(keep, held)
    <2>1. /\ rpc = "loop" /\ rpc' = "loop" /\ keepreading
          /\ UNCHANGED <<lastvalidsegment, numread>>
      BY <1>10 DEF NextFile
    <2>2. numread = 3
      BY <1>0, <2>1 DEF ReaderInv, SegTypeOK
    <2> QED BY <2>1, <2>2 DEF ReaderInv, HoldsLast
  <1>11. CASE Exit
    BY <1>11 DEF Exit, ReaderInv, HoldsLast
  <1>12. CASE (\E i \in Segments : Complete(i)) \/ UNCHANGED segvars
    BY <1>1, <1>12 DEF Complete, segvars, locks
  <1> QED
    BY <1>2, <1>3, <1>4, <1>5, <1>6, <1>7, <1>8, <1>9, <1>10, <1>11, <1>12
       DEF SegNext, Reader

\* The main thread starts after the reader, and has sent nothing before.
LEMMA StartStep ==
  ASSUME Inv, [SegNext]_segvars
  PROVE  StartInv'
  <1> USE DEF places, sends
  <1>0. SegTypeOK /\ ReaderInv /\ StartInv
    BY DEF Inv
  <1>1. CASE SleepStart \/ WakeStart \/ Started
    BY <1>0, <1>1 DEF SleepStart, WakeStart, Started, StartInv
  <1>2. ASSUME mpc \notin {"init", "asleep"}, mpc' \notin {"init", "asleep"},
               UNCHANGED <<readthreadstarted, rpc, numread>>
        PROVE  StartInv'
    BY <1>0, <1>2 DEF StartInv
  <1>3. CASE Receive \/ ScanOver \/ BeginSearch \/ EndSearch \/ GoOn \/ Advance
    BY <1>2, <1>3 DEF Receive, ScanOver, BeginSearch, WaitForSendComplete,
                      EndSearch, GoOn, Advance
  <1>4. CASE \/ Issend \/ EmptySegment \/ Terminate
             \/ \E i \in Segments : FinishSends(i)
             \/ UnlockBoth \/ Join
    BY <1>2, <1>4 DEF Issend, EmptySegment, Terminate, FinishSends, UnlockBoth, Join
  <1>5. ASSUME UNCHANGED <<mpc, atsegment, waitsegment, numsent, readthreadstarted>>,
               readthreadstarted => \/ rpc' \in {"loop", "lock", "done"}
                                    \/ rpc' \in {"wait", "read"} /\ numread' >= 2
        PROVE  StartInv'
    BY <1>0, <1>5 DEF StartInv
  <1>6. CASE \/ \E found, held \in BOOLEAN : Open(found, held)
             \/ WaitForBuffer
             \/ \E keep, tiny, held \in BOOLEAN : FinishFirst(keep, tiny, held)
             \/ LockFirst
    <2>1. CASE \E found, held \in BOOLEAN : Open(found, held)
      BY <1>0, <1>5, <2>1 DEF Open, StartInv
    <2>2. CASE WaitForBuffer
      BY <1>0, <1>5, <2>2 DEF WaitForBuffer, StartInv
    <2>3. CASE \E keep, tiny, held \in BOOLEAN : FinishFirst(keep, tiny, held)
      <3>1. /\ ~readthreadstarted
            /\ UNCHANGED <<mpc, atsegment, waitsegment, numsent, readthreadstarted>>
        BY <1>0, <2>3 DEF FinishFirst, StartInv, SegTypeOK
      <3> QED BY <1>5, <3>1
    <2>4. CASE LockFirst
      BY <1>0, <1>5, <2>4 DEF LockFirst, StartInv
    <2> QED BY <1>6, <2>1, <2>2, <2>3, <2>4
  <1>7. CASE Start
    <2>1. \/ rpc' = "loop"
          \/ rpc' = "wait" /\ numread' = 2
      BY <1>0, <1>7 DEF Start, ReaderInv, SegTypeOK
    <2>2. /\ readthreadstarted'
          /\ UNCHANGED <<mpc, atsegment, waitsegment, numsent>>
      BY <1>7 DEF Start
    <2> QED BY <1>0, <2>1, <2>2 DEF StartInv
  <1>8. CASE NextSegment \/ LockNext
    <2>1. CASE NextSegment
      BY <1>5, <2>1 DEF NextSegment
    <2>2. CASE LockNext
      BY <1>0, <1>5, <2>2 DEF LockNext, ReaderInv
    <2> QED BY <1>8, <2>1, <2>2
  <1>9. CASE \/ \E keep \in BOOLEAN : FinishRead(keep)
             \/ \E keep, held \in BOOLEAN : NextFile(keep, held)
             \/ Exit
    BY <1>5, <1>9 DEF FinishRead, NextFile, Exit
  <1>10. CASE (\E i \in Segments : Complete(i)) \/ UNCHANGED segvars
    BY <1>0, <1>10 DEF Complete, segvars, locks, StartInv
  <1> QED
    BY <1>1, <1>3, <1>4, <1>6, <1>7, <1>8, <1>9, <1>10 DEF SegNext, Main, Reader

\* Requests and the sends under way.
LEMMA SendsStep ==
  ASSUME Inv, [SegNext]_segvars
  PROVE  SendsInv'
  <1> USE DEF places, sends
  <1>0. SegTypeOK /\ SendsInv /\ maxsendspersegment >= 1 /\ maxsendspersegment \in Nat
    BY SegmentsAssumption DEF Inv
  <1>1. ASSUME UNCHANGED <<numsent, pending, atsegment>>, mpc = "full" => mpc' = "full"
        PROVE  SendsInv'
    BY <1>0, <1>1 DEF SendsInv
  <1>2. ASSUME NEW j \in Segments, pending[j] = 0, UNCHANGED pending,
               numsent' = [numsent EXCEPT ![j] = 0],
               mpc = "full" => j = atsegment, UNCHANGED atsegment
        PROVE  SendsInv'
    BY <1>0, <1>2 DEF SendsInv, SegTypeOK
  <1>3. CASE \/ SleepStart \/ WakeStart \/ Started \/ Receive \/ ScanOver
             \/ EndSearch \/ Terminate \/ UnlockBoth \/ Join \/ Reader
             \/ UNCHANGED segvars
    <2>1. CASE \/ SleepStart \/ WakeStart \/ Started \/ Receive \/ ScanOver
               \/ EndSearch \/ Terminate \/ UnlockBoth \/ Join \/ UNCHANGED segvars
      BY <1>1, <2>1 DEF SleepStart, WakeStart, Started, Receive, ScanOver, EndSearch,
                        Terminate, UnlockBoth, Join, segvars, locks
    <2>2. CASE Reader
      BY <1>1, <2>2 DEF Reader, Open, WaitForBuffer, FinishFirst, LockFirst, Start,
                        NextSegment, LockNext, FinishRead, NextFile, Exit
    <2> QED BY <1>3, <2>1, <2>2
  <1>4. ASSUME NEW next, mpc # "full", WaitForSendComplete(next)
        PROVE  SendsInv'
    <2>1. CASE UNCHANGED numsent
      BY <1>1, <1>4, <2>1 DEF WaitForSendComplete
    <2>2. CASE pending[waitsegment] = 0 /\ numsent' = [numsent EXCEPT ![waitsegment] = 0]
      <3>1. waitsegment \in Segments /\ UNCHANGED <<pending, atsegment>>
        BY <1>0, <1>4 DEF WaitForSendComplete, SegTypeOK
      <3> QED BY ONLY <1>2, <1>4, <2>2, <3>1
    <2> QED BY <1>4, <2>1, <2>2 DEF WaitForSendComplete
  <1>5. CASE BeginSearch \/ GoOn
    BY <1>4, <1>5 DEF BeginSearch, GoOn
  <1>6. CASE Advance
    BY <1>0, <1>6 DEF Advance, SendsInv
  <1>7. CASE Issend
    <2>1. /\ atsegment \in Segments
          /\ numsent' = [numsent EXCEPT ![atsegment] = @ + 1]
          /\ pending' = [pending EXCEPT ![atsegment] = @ + 1]
          /\ atsegment' = atsegment
          /\ numsent'[atsegment] >= maxsendspersegment => mpc' = "full"
          /\ mpc # "full"
      BY <1>0, <1>7 DEF Issend, SegTypeOK
    <2>2. \A i \in Segments : i # atsegment =>
            numsent'[i] = numsent[i] /\ pending'[i] = pending[i]
      BY <1>0, <2>1 DEF SegTypeOK
    <2>3. /\ numsent'[atsegment] = numsent[atsegment] + 1
          /\ pending'[atsegment] = pending[atsegment] + 1
          /\ numsent[atsegment] \in Nat /\ pending[atsegment] \in Nat
      BY <1>0, <2>1 DEF SegTypeOK
    <2> QED BY <1>0, <2>1, <2>2, <2>3 DEF SendsInv
  <1>8. CASE EmptySegment
    BY <1>0, <1>2, <1>8 DEF EmptySegment, SegTypeOK
  <1>9. CASE \E i \in Segments : FinishSends(i)
    BY <1>2, <1>9 DEF FinishSends
  <1>10. CASE \E i \in Segments : Complete(i)
    BY <1>0, <1>10 DEF Complete, SendsInv, SegTypeOK
  <1> QED
    BY <1>3, <1>5, <1>6, <1>7, <1>8, <1>9, <1>10 DEF SegNext, Main

\* How far the main thread is ahead of its oldest sends.
LEMMA LagStep ==
  ASSUME Inv, [SegNext]_segvars
  PROVE  LagInv'
  <1> USE DEF places, sends
  <1>0. /\ SegTypeOK /\ LagInv
        /\ MostAhead \in Nat /\ MostAhead >= 3 /\ MostAhead < numdatasegments - 1
    BY Steps DEF Inv, MostAhead
  <1>n. \A i \in Segments : numsent[i] \in Nat
    BY <1>0 DEF SegTypeOK
  <1>w. waitsegment \in Segments /\ atsegment \in Segments
    BY <1>0 DEF SegTypeOK
  <1>1. ASSUME UNCHANGED <<atsegment, waitsegment>>,
               \A i \in Segments : numsent'[i] > 0 => numsent[i] > 0 \/ i = atsegment,
               mpc' = "lock" => mpc = "lock"
        PROVE  LagInv'
    <2>1. Ahead(waitsegment, atsegment) \in Nat
      BY <1>w, AheadMoves
    <2> QED BY <1>0, <1>1, <2>1 DEF LagInv, MostAhead
  <1>2. CASE \/ SleepStart \/ WakeStart \/ Started \/ Receive \/ ScanOver \/ EndSearch
             \/ Terminate \/ UnlockBoth \/ Join \/ UNCHANGED segvars
    BY <1>1, <1>2 DEF SleepStart, WakeStart, Started, Receive, ScanOver, EndSearch,
                      Terminate, UnlockBoth, Join, segvars, locks
  <1>3. CASE Reader
    BY <1>1, <1>3 DEF Reader, Open, WaitForBuffer, FinishFirst, LockFirst, Start,
                      NextSegment, LockNext, FinishRead, NextFile, Exit
  <1>4. ASSUME NEW next, WaitForSendComplete(next)
        PROVE  LagInv' /\ Ahead(waitsegment', atsegment') <= MostAhead - 1
    <2> DEFINE lag == Ahead(waitsegment, atsegment)
    <2>1. /\ lag \in Nat /\ lag <= MostAhead /\ atsegment' = atsegment
          /\ After(waitsegment, lag) = atsegment
      BY <1>0, <1>4, <1>w, AheadMoves, AfterAhead DEF LagInv, WaitForSendComplete
    <2>2. ASSUME UNCHANGED <<numsent, waitsegment>>, lag <= MostAhead - 1
          PROVE  LagInv' /\ Ahead(waitsegment', atsegment') <= MostAhead - 1
      BY <1>0, <2>1, <2>2 DEF LagInv, MostAhead
    <2>3. CASE lag <= 2
      <3>1. lag <= MostAhead - 1
        <4> HIDE DEF lag
        <4> QED BY <1>0, <2>1, <2>3
      <3>2. UNCHANGED <<numsent, waitsegment>>
        BY <1>4, <2>3 DEF WaitForSendComplete
      <3> QED BY <2>2, <3>1, <3>2
    <2>4. CASE /\ lag > 2
               /\ numsent' = [numsent EXCEPT ![waitsegment] = 0]
               /\ waitsegment' = After(waitsegment, 1)
      <3>1. waitsegment # atsegment
        BY <1>w, <2>1, <2>4, AheadMoves
      <3>2. Ahead(waitsegment', atsegment) = lag - 1
        BY <1>w, <2>4, <3>1, AheadMoves
      <3>3. ASSUME NEW i \in Segments, numsent'[i] > 0
            PROVE  Ahead(waitsegment', i) <= lag - 1
        <4>1. i # waitsegment /\ numsent[i] > 0
          BY <1>0, <1>w, <2>4, <3>3 DEF SegTypeOK
        <4>2. Ahead(waitsegment, i) <= lag
          BY <1>0, <4>1 DEF LagInv
        <4>3. /\ Ahead(waitsegment', i) = Ahead(waitsegment, i) - 1
              /\ Ahead(waitsegment, i) \in Nat
          BY <1>w, <2>4, <4>1, AheadMoves
        <4> QED BY <2>1, <4>2, <4>3
      <3>4. lag - 1 <= MostAhead - 1
        BY <1>0, <2>1
      <3>5. Ahead(waitsegment', atsegment') = lag - 1
        BY <2>1, <3>2
      <3> HIDE DEF lag
      <3> QED BY <1>0, <2>1, <3>3, <3>4, <3>5 DEF LagInv, MostAhead
    <2>5. CASE lag > 2 /\ TestOnly /\ UNCHANGED <<numsent, waitsegment>>
      <3>1. lag # numdatasegments - 3 /\ lag # numdatasegments - 2
        BY <2>1, <2>5 DEF TestOnly
      <3>2. lag <= MostAhead - 1
        <4> HIDE DEF lag
        <4> QED BY <2>1, <2>5, <3>1, Steps DEF MostAhead
      <3> QED BY <2>2, <2>5, <3>2
    <2> QED BY <1>4, <2>1, <2>3, <2>4, <2>5 DEF WaitForSendComplete
  <1>5. CASE BeginSearch \/ GoOn
    BY <1>4, <1>5 DEF BeginSearch, GoOn
  <1>6. CASE Advance
    <2>1. /\ mpc = "lock" /\ mpc' = "search" /\ UNCHANGED <<numsent, waitsegment>>
          /\ atsegment' = After(atsegment, 1)
      BY <1>6 DEF Advance
    <2>2. /\ Ahead(waitsegment, atsegment) \in Nat
          /\ Ahead(waitsegment, atsegment) <= MostAhead - 1
      BY <1>0, <1>w, <2>1, AheadMoves DEF LagInv
    <2>3. Ahead(waitsegment, atsegment') = Ahead(waitsegment, atsegment) + 1
      BY <1>0, <1>w, <2>1, <2>2, AheadMoves, Steps
    <2>4. \A i \in Segments : numsent[i] > 0 =>
            /\ Ahead(waitsegment, i) <= Ahead(waitsegment, atsegment)
            /\ Ahead(waitsegment, i) \in Nat
      BY <1>0, <1>w, AheadMoves DEF LagInv
    <2> QED BY <1>0, <2>1, <2>2, <2>3, <2>4 DEF LagInv, MostAhead
  <1>7. CASE Issend
    BY <1>0, <1>1, <1>7 DEF Issend, SegTypeOK
  <1>8. CASE EmptySegment \/ \E i \in Segments : FinishSends(i)
    <2>1. ASSUME NEW j \in Segments, numsent' = [numsent EXCEPT ![j] = 0]
          PROVE  \A i \in Segments : numsent'[i] > 0 => numsent[i] > 0
      BY <1>0, <2>1 DEF SegTypeOK
    <2> QED BY <1>1, <1>8, <1>w, <2>1 DEF EmptySegment, FinishSends
  <1>9. CASE \E i \in Segments : Complete(i)
    BY <1>1, <1>9 DEF Complete
  <1> QED
    BY <1>2, <1>3, <1>5, <1>6, <1>7, <1>8, <1>9 DEF SegNext, Main

\* Where the reader holds a lock the main thread is not, and sends nothing.
LEMMA FreshStep ==
  ASSUME Inv, [SegNext]_segvars
  PROVE  FreshInv'
  <1> USE DEF places, sends
  <1>0. SegTypeOK /\ LocksInv /\ ReaderInv /\ StartInv /\ FreshInv
    BY DEF Inv
  <1>1. ASSUME UNCHANGED <<rpc, numread, isnewfile, lastvalidsegment, buffersegment>>,
               \A i \in Segments : numsent[i] = 0 => numsent'[i] = 0
        PROVE  FreshInv'
    <2>1. /\ buffersegment \in Segments /\ lastvalidsegment \in Segments
          /\ Previous(lastvalidsegment) \in Segments
          /\ Previous(Previous(lastvalidsegment)) \in Segments
      BY <1>0, Neighbours DEF SegTypeOK
    <2> QED BY <1>0, <1>1, <2>1 DEF FreshInv, HoldsLast, HoldsPrevious
  <1>2. CASE Main
    <2>1. CASE \/ SleepStart \/ WakeStart \/ Started \/ Receive \/ ScanOver
               \/ EndSearch \/ Advance \/ Terminate \/ UnlockBoth \/ Join
      BY <1>1, <2>1 DEF SleepStart, WakeStart, Started, Receive, ScanOver, EndSearch,
                        Advance, Terminate, UnlockBoth, Join
    <2>2. ASSUME NEW j \in Segments, numsent' = [numsent EXCEPT ![j] = 0]
          PROVE  \A i \in Segments : numsent[i] = 0 => numsent'[i] = 0
      BY <1>0, <2>2 DEF SegTypeOK
    <2>3. CASE BeginSearch \/ GoOn
      <3>1. PICK next : WaitForSendComplete(next)
        BY <2>3 DEF BeginSearch, GoOn
      <3>2. \A i \in Segments : numsent[i] = 0 => numsent'[i] = 0
        BY <1>0, <2>2, <3>1 DEF WaitForSendComplete, SegTypeOK
      <3> QED BY <1>1, <3>1, <3>2 DEF WaitForSendComplete
    <2>4. CASE EmptySegment
      BY <1>0, <1>1, <2>2, <2>4 DEF EmptySegment, SegTypeOK
    <2>5. CASE \E i \in Segments : FinishSends(i)
      BY <1>1, <2>2, <2>5 DEF FinishSends
    <2>6. CASE Issend
      <3>1. /\ mpc = "send" /\ readthreadstarted
            /\ atsegment \in Segments /\ After(atsegment, 1) \in Segments
            /\ bufferlock[atsegment] = "main"
            /\ bufferlock[After(atsegment, 1)] = "main"
        BY <1>0, <2>6, Neighbours DEF Issend, StartInv, LocksInv, MainHolds, SegTypeOK
      <3>2. /\ lastvalidsegment \in Segments /\ Previous(lastvalidsegment) \in Segments
            /\ Previous(Previous(lastvalidsegment)) \in Segments
            /\ After(Previous(lastvalidsegment), 1) = lastvalidsegment
            /\ After(Previous(Previous(lastvalidsegment)), 1) = Previous(lastvalidsegment)
        BY <1>0, Neighbours DEF SegTypeOK
      <3>3. HoldsLast => atsegment \notin {lastvalidsegment, Previous(lastvalidsegment)}
        BY <1>0, <3>1, <3>2 DEF LocksInv
      <3>4. HoldsPrevious => atsegment \notin {Previous(lastvalidsegment),
                                              Previous(Previous(lastvalidsegment))}
        BY <1>0, <3>1, <3>2 DEF LocksInv
      <3>5. /\ UNCHANGED <<rpc, numread, isnewfile, lastvalidsegment, buffersegment>>
            /\ \A i \in Segments : i # atsegment => numsent'[i] = numsent[i]
        BY <1>0, <2>6 DEF Issend, SegTypeOK
      <3>6. (HoldsLast' <=> HoldsLast) /\ (HoldsPrevious' <=> HoldsPrevious)
        BY <3>5 DEF HoldsLast, HoldsPrevious
      <3>7. rpc = "read" => HoldsLast /\ buffersegment = lastvalidsegment
        BY <1>0, <3>1 DEF StartInv, ReaderInv, HoldsLast, SegTypeOK
      <3>8. rpc' = "read" => numsent'[buffersegment'] = 0
        BY <1>0, <3>2, <3>3, <3>5, <3>7 DEF FreshInv
      <3>9. /\ rpc' = "loop" /\ HoldsLast' => numsent'[lastvalidsegment'] = 0
            /\ HoldsLast' => numsent'[Previous(lastvalidsegment')] = 0
        BY <1>0, <3>2, <3>3, <3>5, <3>6 DEF FreshInv
      <3>10. HoldsPrevious' =>
                /\ numsent'[Previous(lastvalidsegment')] = 0
                /\ numsent'[Previous(Previous(lastvalidsegment'))] = 0
        BY <1>0, <3>2, <3>4, <3>5, <3>6 DEF FreshInv
      <3> QED BY <3>8, <3>9, <3>10 DEF FreshInv
    <2> QED BY <1>2, <2>1, <2>3, <2>4, <2>5, <2>6 DEF Main
  <1>3. CASE \E found, held \in BOOLEAN : Open(found, held)
    <2>1. numread' = 0 /\ rpc' \in {"wait", "start"}
      BY <1>0, <1>3 DEF Open, ReaderInv
    <2> QED BY <2>1 DEF FreshInv, HoldsLast, HoldsPrevious
  <1>4. CASE WaitForBuffer
    BY <1>0, <1>4 DEF WaitForBuffer, FreshInv, HoldsLast, HoldsPrevious
  <1>5. CASE \E keep, tiny, held \in BOOLEAN : FinishFirst(keep, tiny, held)
    <2>1. PICK keep \in BOOLEAN, tiny \in BOOLEAN, held \in BOOLEAN :
            FinishFirst(keep, tiny, held)
      BY <1>5
    <2>2. \/ rpc' = "lockfirst"
          \/ rpc' = "wait" /\ numread' = 1
      BY <1>0, <2>1 DEF FinishFirst
    <2> QED BY <2>2 DEF FreshInv, HoldsLast, HoldsPrevious
  <1>6. CASE LockFirst \/ Start
    <2>1. /\ \A i \in Segments : numsent'[i] = 0
          /\ lastvalidsegment' \in Segments /\ rpc' \in {"start", "wait", "loop"}
          /\ numread' <= 2
      BY <1>0, <1>6 DEF LockFirst, Start, StartInv, ReaderInv, SegTypeOK
    <2>2. Previous(lastvalidsegment') \in Segments
      BY <2>1, Neighbours
    <2> QED BY <1>0, <2>1, <2>2 DEF FreshInv, HoldsPrevious
  <1>7. CASE NextSegment
    <2>1. HoldsLast /\ rpc = "loop" /\ rpc' = "lock" /\ UNCHANGED numsent
      BY <1>0, <1>7 DEF NextSegment, HoldsLast, ReaderInv, SegTypeOK
    <2>2. Previous(lastvalidsegment') = lastvalidsegment
      BY <1>0, <1>7, Neighbours DEF NextSegment, SegTypeOK
    <2> QED BY <1>0, <2>1, <2>2 DEF FreshInv, HoldsLast
  <1>8. CASE LockNext
    <2>1. HoldsPrevious /\ rpc' = "wait" /\ UNCHANGED <<numsent, lastvalidsegment>>
      BY <1>0, <1>8 DEF LockNext, HoldsPrevious
    <2> QED BY <1>0, <2>1 DEF FreshInv
  <1>9. CASE \E keep \in BOOLEAN : FinishRead(keep)
    <2>1. /\ HoldsLast /\ buffersegment = lastvalidsegment
          /\ rpc = "read" /\ rpc' = "loop" /\ UNCHANGED <<numsent, lastvalidsegment>>
      BY <1>0, <1>9 DEF FinishRead, HoldsLast, ReaderInv, SegTypeOK
    <2> QED BY <1>0, <2>1 DEF FreshInv, HoldsPrevious
  <1>10. CASE \E keep, held \in BOOLEAN : NextFile(keep, held)
    BY <1>0, <1>10 DEF NextFile, FreshInv, HoldsLast, HoldsPrevious
  <1>11. CASE Exit
    BY <1>11 DEF Exit, FreshInv, HoldsLast, HoldsPrevious
  <1>12. CASE (\E i \in Segments : Complete(i)) \/ UNCHANGED segvars
    BY <1>1, <1>12 DEF Complete, segvars, locks
  <1> QED
    BY <1>2, <1>3, <1>4, <1>5, <1>6, <1>7, <1>8, <1>9, <1>10, <1>11, <1>12
       DEF SegNext, Reader

\* The invariant is inductive.
LEMMA StepInv == Inv /\ [SegNext]_segvars => Inv'
  BY TypeStep, LocksStep, ReaderStep, StartStep, SendsStep, LagStep, FreshStep DEF Inv

\* Indices and counts stay in their ranges (TypeStep, and the rest of Inv for the
\* requests kept in Issend).
THEOREM SegTypeCorrect == SegSpec => []SegTypeOK
  <1>1. Inv => SegTypeOK
    BY DEF Inv
  <1> QED BY InitInv, StepInv, <1>1, PTL DEF SegSpec

-----------------------------------------------------------------------------
(* The properties *)

\* The reader holds the lock of what it writes to, except before the main thread
\* begins; and it holds the next, too, of what is sent into it.
LEMMA InvImpliesNoOverwrite == Inv => NoOverwrite
  <1> SUFFICES ASSUME Inv, NEW i \in Filling
               PROVE  i \notin InUse /\ pending[i] = 0 /\ pending[Previous(i)] = 0
    BY DEF NoOverwrite
  <1>0. SegTypeOK /\ LocksInv /\ ReaderInv /\ StartInv /\ SendsInv /\ FreshInv
    BY DEF Inv
  <1>1. /\ rpc = "read"
        /\ \/ i = buffersegment
           \/ numread = 3 /\ isnewfile /\ i = Previous(buffersegment)
    BY DEF Filling
  <1>2. /\ lastvalidsegment \in Segments /\ Previous(lastvalidsegment) \in Segments
        /\ buffersegment \in Segments /\ Previous(buffersegment) \in Segments
        /\ Previous(Previous(lastvalidsegment)) \in Segments
        /\ atsegment \in Segments /\ After(atsegment, 1) \in Segments
    BY <1>0, Neighbours DEF SegTypeOK
  <1>3. \A j \in Segments : numsent[j] = 0 => pending[j] = 0
    BY <1>0 DEF SegTypeOK, SendsInv
  <1>4. CASE numread < 2
    <2>1. mpc \in {"init", "asleep"} /\ \A j \in Segments : numsent[j] = 0
      BY <1>0, <1>1, <1>4 DEF StartInv, SegTypeOK
    <2> QED BY <1>1, <1>2, <1>3, <1>4, <2>1 DEF InUse
  <1>5. CASE numread >= 2
    <2>1. HoldsLast /\ buffersegment = lastvalidsegment
      BY <1>0, <1>1, <1>5 DEF HoldsLast, ReaderInv, SegTypeOK
    <2>2. bufferlock[i] = "reader" /\ numsent[i] = 0 /\ numsent[Previous(i)] = 0
      BY <1>0, <1>1, <1>2, <2>1 DEF LocksInv, FreshInv, HoldsPrevious
    <2>3. \A j \in InUse : bufferlock[j] = "main"
      BY <1>0, <1>2 DEF InUse, LocksInv, MainHolds
    <2>4. i \in Segments /\ Previous(i) \in Segments
      BY <1>1, <1>2, <2>1
    <2> QED BY <1>3, <2>2, <2>3, <2>4
  <1> QED BY <1>0, <1>4, <1>5 DEF SegTypeOK

\* The reader does not write to a segment the main thread works on, or MPI reads
\* (waitForBuffer and the locks of the segments).
THEOREM SegNoOverwrite == SegSpec => []NoOverwrite
  BY InitInv, StepInv, InvImpliesNoOverwrite, PTL DEF SegSpec

\* What the main thread waits for is two or three behind the reader's last
\* segment, which is too far from the oldest sends to be one with sends itself.
LEMMA InvImpliesNoWaitCycle ==
  ASSUME Inv, numdatasegments >= 6
  PROVE  NoWaitCycle
  <1> DEFINE two == After(atsegment, 2)
             three == After(two, 1)
             lag == Ahead(waitsegment, atsegment)
  <1> SUFFICES ASSUME mpc = "lock", bufferlock[two] = "reader"
               PROVE  /\ rpc = "wait" => numsent[buffersegment] = 0
                      /\ rpc \in {"lock", "lockfirst"} =>
                           bufferlock[lastvalidsegment] # "main"
    BY DEF NoWaitCycle, MainWaitsFor
  <1>0. SegTypeOK /\ LocksInv /\ ReaderInv /\ StartInv /\ LagInv
    BY DEF Inv
  <1>1. /\ atsegment \in Segments /\ waitsegment \in Segments
        /\ lastvalidsegment \in Segments /\ Previous(lastvalidsegment) \in Segments
        /\ After(atsegment, 1) \in Segments /\ two \in Segments /\ three \in Segments
        /\ two = After(After(atsegment, 1), 1)
        /\ two \notin {atsegment, After(atsegment, 1)}
        /\ three \notin {atsegment, After(atsegment, 1)}
        /\ Previous(lastvalidsegment) = two => lastvalidsegment = three
    BY <1>0, Neighbours DEF SegTypeOK
  <1>2. lastvalidsegment \in {two, three}
    BY <1>0, <1>1 DEF LocksInv
  <1>3. /\ MainHolds = {atsegment, After(atsegment, 1)}
        /\ readthreadstarted
    BY <1>0 DEF MainHolds, StartInv
  <1>4. rpc \in {"lock", "lockfirst"} => bufferlock[lastvalidsegment] # "main"
    BY <1>0, <1>1, <1>2, <1>3 DEF LocksInv
  <1>5. rpc = "wait" => buffersegment = lastvalidsegment
    BY <1>0, <1>3 DEF StartInv, ReaderInv, SegTypeOK
  <1>6. lag \in Nat /\ lag <= numdatasegments - 4
    BY <1>0, <1>1, AheadMoves, Steps DEF LagInv, MostAhead
  <1>7. /\ Ahead(waitsegment, After(atsegment, 1)) = lag + 1
        /\ Ahead(waitsegment, two) = lag + 2
        /\ Ahead(waitsegment, three) = lag + 3
    <2>0. \A j \in Segments : Ahead(waitsegment, j) < numdatasegments - 1 =>
            Ahead(waitsegment, After(j, 1)) = Ahead(waitsegment, j) + 1
      BY <1>1, AheadMoves
    <2>1. Ahead(waitsegment, After(atsegment, 1)) = lag + 1
      BY <1>1, <1>6, <2>0, Steps
    <2>2. Ahead(waitsegment, two) = lag + 2
      BY <1>1, <1>6, <2>0, <2>1, Steps
    <2>3. Ahead(waitsegment, three) = lag + 3
      <3>1. Ahead(waitsegment, two) < numdatasegments - 1
        <4> HIDE DEF lag, two, three
        <4> QED BY <1>6, <2>2, Steps
      <3>2. Ahead(waitsegment, three) = Ahead(waitsegment, two) + 1
        BY <1>1, <2>0, <3>1
      <3> HIDE DEF lag, two, three
      <3> QED BY <1>6, <2>2, <3>2
    <2> QED BY <2>1, <2>2, <2>3
  <1>8. numsent[lastvalidsegment] = 0
    <2>1. Ahead(waitsegment, lastvalidsegment) > lag
      <3> HIDE DEF lag, two, three
      <3> QED BY <1>2, <1>6, <1>7
    <2>2. numsent[lastvalidsegment] > 0 =>
            Ahead(waitsegment, lastvalidsegment) <= lag
      BY <1>0, <1>1 DEF LagInv
    <2>3. Ahead(waitsegment, lastvalidsegment) \in Nat
      BY <1>1, AheadMoves
    <2> QED BY <1>0, <1>1, <1>6, <2>1, <2>2, <2>3 DEF SegTypeOK
  <1> QED BY <1>4, <1>5, <1>8

\* With six segments or more, main thread and reader do not wait for each other:
\* the five the Configuration asks for (line 2748) are one too few.
THEOREM SegNoWaitCycle ==
  ASSUME numdatasegments >= 6
  PROVE  SegSpec => []NoWaitCycle
  <1>1. Inv => NoWaitCycle
    BY InvImpliesNoWaitCycle
  <1> QED BY InitInv, StepInv, <1>1, PTL DEF SegSpec

-----------------------------------------------------------------------------
(* A DataStream is a ring of segments *)

\* Every step of the reader is one of the ring's reader.
LEMMA ReaderRefines ==
  ASSUME SegTypeOK, DsReader
  PROVE  Reader
  <1>0. isnewfile \in BOOLEAN
    BY DEF SegTypeOK
  <1>1. CASE OpenFirst
    <2>1. Held \in BOOLEAN
      BY DEF Held
    <2> QED BY <1>1, <2>1 DEF OpenFirst, Reader
  <1>2. CASE Label
    BY <1>2 DEF Label, Reader
  <1>3. CASE FillFirst
    <2> DEFINE keep == ScanAfterRead # NoScan
               empty == readtime + segmentunits >= job.files[filesread].to
               opens == job.format = "lba" /\ numread = 0 /\ keep /\ empty
               more == keep /\ (opens => GoodFiles # {})
               tiny == job.format = "lba" /\ numread = 0 /\ ~more
    <2>1. FinishFirst(more, tiny, isnewfile)
      BY <1>3 DEF FillFirst, Fill
    <2>2. more \in BOOLEAN /\ tiny \in BOOLEAN
      OBVIOUS
    <2> HIDE DEF more, tiny
    <2> QED BY <1>0, <2>1, <2>2 DEF Reader
  <1>4. CASE FillNext
    <2> DEFINE keep == ScanAfterRead # NoScan
    <2>1. FinishRead(keep)
      BY <1>4 DEF FillNext, Fill
    <2>2. keep \in BOOLEAN
      OBVIOUS
    <2> HIDE DEF keep
    <2> QED BY <2>1, <2>2 DEF Reader
  <1>5. CASE GoOnReading
    BY <1>5 DEF GoOnReading, Reader
  <1>6. CASE GoToNextFile
    <2> DEFINE held == isnewfile \/ (Held /\ filesread + 1 \in GoodFiles)
    <2>1. NextFile(FALSE, isnewfile) \/ NextFile(TRUE, held)
      BY <1>6 DEF GoToNextFile
    <2>2. held \in BOOLEAN
      OBVIOUS
    <2> HIDE DEF held
    <2> QED BY <1>0, <2>1, <2>2 DEF Reader
  <1>7. CASE DsLockFirst
    BY <1>7 DEF DsLockFirst, Reader
  <1>8. CASE (Start \/ LockNext \/ Exit) /\ UNCHANGED <<job, reading, sending>>
    BY <1>8 DEF Reader
  <1> QED BY <1>1, <1>2, <1>3, <1>4, <1>5, <1>6, <1>7, <1>8 DEF DsReader

\* Every step of the main thread is one of the ring's.
LEMMA MainRefines ==
  ASSUME DsMain
  PROVE  Main
  <1>1. CASE GetSubint
    BY <1>1 DEF GetSubint, Main
  <1>2. CASE Search
    BY <1>2 DEF Search, Main
  <1>3. CASE Send(Valid)
    BY <1>3 DEF Send, Main
  <1>4. CASE /\ \/ SleepStart \/ WakeStart \/ Started \/ Advance \/ EmptySegment
                \/ Terminate \/ UnlockBoth \/ Join
                \/ \E i \in Segments : FinishSends(i)
             /\ UNCHANGED <<job, reading, sending>>
    BY <1>4 DEF Main
  <1> QED BY <1>1, <1>2, <1>3, <1>4 DEF DsMain

\* So is every step.
LEMMA StepRefines == SegTypeOK /\ [DsNext]_dsvars => [SegNext]_segvars
  <1> SUFFICES ASSUME SegTypeOK, [DsNext]_dsvars
               PROVE  [SegNext]_segvars
    OBVIOUS
  <1>1. CASE DsMain
    BY <1>1, MainRefines DEF SegNext
  <1>2. CASE DsReader
    BY <1>2, ReaderRefines DEF SegNext
  <1>3. CASE \E i \in Segments : Received(i)
    BY <1>3 DEF Received, SegNext
  <1>4. CASE Ended \/ UNCHANGED dsvars
    BY <1>4 DEF Ended, dsvars
  <1> QED BY <1>1, <1>2, <1>3, <1>4 DEF DsNext

\* So what was proved of the ring of segments holds of a DataStream.
LEMMA DsImplementsRing == DsSpec => SegSpec
  <1>1. DsInit => SegInit
    BY DEF DsInit
  <1>2. Inv /\ [DsNext]_dsvars => [SegNext]_segvars /\ Inv'
    BY StepRefines, StepInv DEF Inv
  <1>3. DsSpec => [][SegNext]_segvars
    BY InitInv, <1>1, <1>2, PTL DEF DsSpec
  <1> QED BY <1>1, <1>3, PTL DEF DsSpec, SegSpec

\* Whatever the files and the subints, the reader does not write to what the main
\* thread or MPI is still using.
THEOREM DsNoOverwrite == DsSpec => []NoOverwrite
  BY DsImplementsRing, SegNoOverwrite, PTL

\* Whatever the files and the subints, the two threads do not wait for each other
\* if there are six segments or more.
THEOREM DsNoWaitCycle ==
  ASSUME numdatasegments >= 6
  PROVE  DsSpec => []NoWaitCycle
  BY DsImplementsRing, SegNoWaitCycle, PTL

-----------------------------------------------------------------------------
(* The data of a DataStream *)

Good(f) == job.files[f].from < job.files[f].to

\* A job of the base class whose last scan is correlated, and where no file goes
\* on right where one ended whose last segment has less than a subint of data.
PlainJob ==
  /\ job.format = "lba"
  /\ job.scans[NumScans].correlated
  /\ \A f, g \in DOMAIN job.files :
       /\ Good(f) /\ Good(g) /\ f < g
       /\ (job.files[f].to - job.files[f].from) % segmentunits \in 1 .. sendunits - 1
       => job.files[f].to < job.files[g].from

\* When data is sent, a segment that seems to go on where this one ends is of
\* the same scan.
SameScan ==
  LET this == bufferinfo[atsegment]
      next == bufferinfo[After(atsegment, 1)]
  IN /\ mpc = "send"
     /\ this.valid = segmentunits /\ next.valid > 0
     /\ next.time - this.time = segmentunits
     => next.scan = this.scan

\* No segments of two scans can have labels that are apart by whole segments.
ScansApart ==
  \A r, s \in DOMAIN job.scans : \A f, g \in DOMAIN job.files :
    r # s => (job.files[f].from - job.scans[r].start) % segmentunits
             # (job.files[g].from - job.scans[s].start) % segmentunits

\* The time a segment begins at, by its label.
Begins(i) == job.scans[bufferinfo[i].scan].start + bufferinfo[i].time

Settled == {i \in Segments : ~(rpc = "read" /\ i = buffersegment)}

DataTypes ==
  /\ job \in Jobs
  /\ readscan \in DOMAIN job.scans
  /\ filesread \in 0 .. Len(job.files)
  /\ readtime \in Int
  /\ bufferinfo \in [Segments -> [scan : DOMAIN job.scans, time : Int,
                                  valid : 0 .. segmentunits]]
  /\ DOMAIN databuffer = UNION {Places(i) : i \in Segments}

\* The reader is whole segments into its file, and has labelled what it reads.
PositionInv ==
  /\ filesread > 0 => /\ job.files[filesread].from <= readtime
                      /\ (readtime - job.files[filesread].from) % segmentunits = 0
  /\ rpc = "read" => bufferinfo[buffersegment].scan = readscan /\ Begins(buffersegment) = readtime

\* Segments hold what their labels say.
LabelInv ==
  \A i \in Settled : \A k \in 0 .. bufferinfo[i].valid - 1 :
    databuffer[i * segmentunits + k] = Begins(i) + k

\* A segment that is not full is the last of a file.
EndInv ==
  \A i \in Settled : bufferinfo[i].valid \in 1 .. segmentunits - 1 =>
    \E f \in 1 .. filesread :
      /\ Good(f)
      /\ Begins(i) + bufferinfo[i].valid = job.files[f].to
      /\ bufferinfo[i].valid
           = (job.files[f].to - job.files[f].from) % segmentunits

\* Segments begin whole segments from the beginning of a file.
StepsInv ==
  \A i \in Settled : bufferinfo[i].valid > 0 =>
    \E f \in DOMAIN job.files :
      (Begins(i) - job.files[f].from) % segmentunits = 0

\* What is promised is in the segment sent from or the next, as they are now.
PromiseInv ==
  \A i \in Segments : \A part \in promised[i] :
    /\ pending[i] > 0
    /\ \E j \in {i, After(i, 1)} : \E k \in 0 .. bufferinfo[j].valid - 1 :
         part = <<j * segmentunits + k, Begins(j) + k>>

\* The main thread has been asked for the subint it is at.
SendingTypes ==
  /\ job \in Jobs
  /\ subint \in Nat
  /\ mpc \in {"calculate", "search", "lock", "send"} =>
       subint \in 1 .. Len(job.subints)
  /\ DOMAIN promised = Segments

RightInv == DataTypes /\ PositionInv /\ LabelInv /\ EndInv /\ StepsInv /\ PromiseInv

\* The constants, and the parts of a job.
LEMMA DataConstants ==
  /\ segmentunits \in Nat \ {0}
  /\ sendunits \in Nat \ {0} /\ sendunits <= segmentunits
  BY DataAssumption

LEMMA JobTypes ==
  ASSUME job \in Jobs
  PROVE  /\ NumScans \in Nat \ {0} /\ DOMAIN job.scans = 1 .. NumScans
         /\ \A s \in 1 .. NumScans : job.scans[s].start \in Int /\ ScanEnd(s) \in Int
         /\ Len(job.files) \in Nat /\ DOMAIN job.files = 1 .. Len(job.files)
         /\ \A f \in 1 .. Len(job.files) :
              job.files[f].from \in Int /\ job.files[f].to \in Int
         /\ Len(job.subints) \in Nat
         /\ \A n \in 1 .. Len(job.subints) :
              /\ job.subints[n].scan \in 1 .. NumScans
              /\ job.subints[n].offset - job.delay \in Int
  <1> DEFINE scans == job.scans
             files == job.files
             subints == job.subints
             Scans == [start : Int, dur : Nat, correlated : BOOLEAN]
             Files == [from : Int, to : Int]
             Subints == [scan : DOMAIN scans, offset : Int]
  <1>1. /\ job.delay \in Int /\ scans \in Seq(Scans) /\ scans # <<>>
        /\ files \in Seq(Files) /\ subints \in Seq(Subints)
    BY JobsAssumption
  <1>2. /\ Len(scans) \in Nat \ {0} /\ DOMAIN scans = 1 .. Len(scans)
        /\ \A s \in 1 .. Len(scans) : scans[s] \in Scans
    <2> HIDE DEF scans, Scans
    <2> QED BY <1>1
  <1>3. /\ Len(files) \in Nat /\ DOMAIN files = 1 .. Len(files)
        /\ \A f \in 1 .. Len(files) : files[f] \in Files
    <2> HIDE DEF files, Files
    <2> QED BY <1>1
  <1>4. /\ Len(subints) \in Nat
        /\ \A n \in 1 .. Len(subints) : subints[n] \in Subints
    <2> HIDE DEF subints, Subints
    <2> QED BY <1>1
  <1>5. \A s \in 1 .. Len(scans) :
          scans[s].start \in Int /\ scans[s].start + scans[s].dur \in Int
    <2> HIDE DEF scans
    <2> QED BY <1>2
  <1>6. \A f \in 1 .. Len(files) : files[f].from \in Int /\ files[f].to \in Int
    <2> HIDE DEF files
    <2> QED BY <1>3
  <1>7. \A n \in 1 .. Len(subints) :
          subints[n].scan \in DOMAIN scans /\ subints[n].offset \in Int
    <2> HIDE DEF subints, scans
    <2> QED BY <1>4
  <1>8. \A n \in 1 .. Len(subints) :
          /\ subints[n].scan \in 1 .. NumScans
          /\ subints[n].offset - job.delay \in Int
    <2>1. DOMAIN scans = 1 .. NumScans
      BY <1>2 DEF NumScans
    <2> DEFINE delay == job.delay
    <2>2. delay \in Int
      BY <1>1
    <2> HIDE DEF subints, scans, delay
    <2>3. \A n \in 1 .. Len(subints) : subints[n].offset - delay \in Int
      BY <1>7, <2>2
    <2> QED BY <1>7, <2>1, <2>3 DEF delay
  <1> QED BY <1>2, <1>3, <1>4, <1>5, <1>6, <1>8 DEF NumScans, ScanEnd

\* Every place is of one segment only.
LEMMA PlaceOf ==
  ASSUME NEW i \in Segments, NEW k \in 0 .. segmentunits - 1
  PROVE  /\ i * segmentunits \in Nat /\ i * segmentunits + k \in Places(i)
         /\ \A j \in Segments : i * segmentunits + k \in Places(j) => j = i
  <1>0. i \in Nat /\ segmentunits \in Nat \ {0}
    BY Steps, DataConstants
  <1>1. i * segmentunits \in Nat
    BY <1>0, SMT
  <1>2. (i + 1) * segmentunits = i * segmentunits + segmentunits
    BY <1>0, SMT
  <1>3. ASSUME NEW j \in Segments, i * segmentunits + k \in Places(j)
        PROVE  j = i
    <2>1. j \in Nat
      BY Steps
    <2>2. /\ j * segmentunits \in Nat
          /\ (j + 1) * segmentunits = j * segmentunits + segmentunits
      BY <1>0, <2>1, SMT
    <2>3. /\ segmentunits * j = j * segmentunits /\ segmentunits * i = i * segmentunits
          /\ segmentunits * (j + 1) = (j + 1) * segmentunits
          /\ segmentunits * (i + 1) = (i + 1) * segmentunits
      BY <1>0, <2>1, SMT
    <2> DEFINE a == i * segmentunits
               b == j * segmentunits
    <2>4. /\ a < b + segmentunits <=> i < j + 1
          /\ b < a + segmentunits <=> j < i + 1
      <3>1. /\ segmentunits * i < segmentunits * (j + 1) <=> i < j + 1
            /\ segmentunits * j < segmentunits * (i + 1) <=> j < i + 1
        <4>1. i \in Int /\ j \in Int /\ i + 1 \in Int /\ j + 1 \in Int
          BY <1>0, <2>1
        <4> QED BY <1>0, <4>1, SmallerFactor
      <3> QED BY <1>2, <2>2, <2>3, <3>1
    <2>5. a + k >= b /\ a + k <= b + segmentunits - 1
      <3>1. a + k \in b .. (j + 1) * segmentunits - 1
        BY <1>3 DEF Places
      <3>2. a \in Nat /\ b \in Nat /\ (j + 1) * segmentunits = b + segmentunits
        BY <1>1, <2>2
      <3> HIDE DEF a, b
      <3> QED BY <1>0, <3>1, <3>2
    <2>6. a \in Nat /\ b \in Nat
      BY <1>1, <2>2
    <2> HIDE DEF a, b
    <2> QED BY <1>0, <2>1, <2>4, <2>5, <2>6
  <1>4. i * segmentunits + k \in Places(i)
    <2> DEFINE a == i * segmentunits
    <2>1. a \in Nat /\ Places(i) = a .. (i + 1) * segmentunits - 1
      BY <1>1 DEF Places
    <2> DEFINE z == (i + 1) * segmentunits
    <2>3. z = a + segmentunits
      BY <1>2
    <2> HIDE DEF a, z
    <2>2. a + k \in Places(i)
      BY <1>0, <2>1, <2>3 DEF z
    <2> QED BY <2>2 DEF a
  <1> QED BY <1>1, <1>3, <1>4

\* What is counted from the beginning of a segment goes on in the next, the end
\* of the ring in its beginning.
LEMMA PlaceNext ==
  ASSUME NEW i \in Segments, NEW k \in 0 .. 2 * segmentunits - 1
  PROVE  (i * segmentunits + k) % (numdatasegments * segmentunits)
           = IF k < segmentunits THEN i * segmentunits + k
             ELSE After(i, 1) * segmentunits + (k - segmentunits)
  <1> DEFINE n == numdatasegments
             u == segmentunits
             a == i * u
             m == n * u
             x == a + k
  <1>0. i \in Nat /\ i < n /\ n \in Nat /\ n >= 5 /\ u \in Nat \ {0}
    BY Steps, DataConstants
  <1>1. a \in Nat /\ m \in Nat /\ u <= m
    BY <1>0, SMT
  <1>2. (i + 1) * u = a + u /\ (i + 2) * u = (a + u) + u
    BY <1>0, SMT
  <1>3. \A p, q \in Nat : p <= q => p * u <= q * u
    BY <1>0, SMT
  <1>4. a + u <= m
    BY <1>0, <1>2, <1>3
  <1>5. i < n - 1 => (a + u) + u <= m
    BY <1>0, <1>2, <1>3
  <1>6. i = n - 1 => a + u = m
    BY <1>0, <1>2
  <1>7. /\ After(i, 1) * u = IF i = n - 1 THEN 0 ELSE a + u
    BY <1>0, <1>2, Steps, SMT
  <1>8. x % m = IF x < m THEN x ELSE x - m
    <2>1. m \in Nat \ {0} /\ x \in 0 .. 2 * m - 1
      <3> HIDE DEF a, m, u
      <3> QED BY <1>0, <1>1, <1>4 DEF u
    <2> HIDE DEF m, x
    <2> QED BY <2>1, ModOnce
  <1> HIDE DEF a, m, n
  <1>9. x % m = IF k < u THEN a + k ELSE After(i, 1) * u + (k - u)
    <2> DEFINE c == After(i, 1) * u
    <2>1. c = IF i = n - 1 THEN 0 ELSE a + u
      BY <1>7
    <2> HIDE DEF c
    <2>2. x % m = IF k < u THEN a + k ELSE c + (k - u)
      BY <1>0, <1>1, <1>4, <1>5, <1>6, <1>8, <2>1
    <2> QED BY <2>2 DEF c
  <1> QED BY <1>9 DEF a, m, n

-----------------------------------------------------------------------------
(* What the reader looks up in the job *)

\* The scans from one on that are correlated include the last.
LEMMA CorrelatedIs ==
  ASSUME job \in Jobs, PlainJob, NEW s \in 1 .. NumScans
  PROVE  Correlated(s) \in s .. NumScans
  <1> DEFINE later == {r \in s .. NumScans : job.scans[r].correlated}
  <1>1. NumScans \in Nat \ {0}
    BY JobTypes
  <1>2. NumScans \in later /\ later \in SUBSET Nat
    BY <1>1 DEF PlainJob
  <1>3. \E r \in later : \A q \in later : r <= q
    <2> HIDE DEF later
    <2> QED BY <1>2, Least
  <1>4. Correlated(s) = CHOOSE r \in later : \A q \in later : r <= q
    BY <1>2 DEF Correlated
  <1>5. Correlated(s) \in later
    <2> HIDE DEF later
    <2> QED BY <1>3, <1>4
  <1> QED BY <1>5

\* initialiseFile finds a scan of the job, whatever the time of the header.
LEMMA ScanOfHeaderIs ==
  ASSUME job \in Jobs, NEW s \in 1 .. NumScans, NEW t \in Int
  PROVE  ScanOfHeader(s, t) \in 1 .. NumScans
  <1> DEFINE n == NumScans
             Late(r) == r = n \/ ScanEnd(r) >= t
             Up(r) == Late(r) /\ \A q \in s .. r - 1 : ScanEnd(q) < t
             up == CHOOSE r \in s .. n : Up(r)
  <1>0. /\ n \in Nat \ {0}
        /\ \A r \in 1 .. n : job.scans[r].start \in Int /\ ScanEnd(r) \in Int
    BY JobTypes
  <1>1. \E r \in s .. n : Up(r)
    <2> DEFINE T == {r \in s .. n : Late(r)}
    <2>1. T \in SUBSET Nat /\ n \in T
      BY <1>0
    <2>2. PICK r \in T : \A q \in T : r <= q
      <3> HIDE DEF T
      <3> QED BY <2>1, Least
    <2>3. ASSUME NEW q \in s .. r - 1
          PROVE  ScanEnd(q) < t
      <3>1. q \in s .. n /\ q \notin T /\ q \in 1 .. n
        <4>1. r \in s .. n
          BY <2>2
        <4>2. q \in s .. n /\ q \in 1 .. n
          BY <1>0, <4>1
        <4>3. q \notin T
          BY <1>0, <2>2, <4>1
        <4> QED BY <4>2, <4>3
      <3>2. ~Late(q)
        BY <3>1
      <3> QED BY <1>0, <3>1, <3>2
    <2> QED BY <2>2, <2>3
  <1>2. up \in s .. n
    <2> HIDE DEF Up
    <2> QED BY <1>1
  <1>3. up \in 1 .. n
    BY <1>0, <1>2
  <1> DEFINE Early(r) == r = 1 \/ job.scans[r].start <= t
             Down(r) == Early(r) /\ \A q \in r + 1 .. up : job.scans[q].start > t
  <1>4. ScanOfHeader(s, t) = CHOOSE r \in 1 .. up : Down(r)
    BY DEF ScanOfHeader
  <1> HIDE DEF up, Up, Late
  <1>5. \E r \in 1 .. up : Down(r)
    <2> DEFINE T == {d \in 0 .. up - 1 : Early(up - d)}
    <2>1. T \in SUBSET Nat /\ up - 1 \in T
      <3>1. Early(1) /\ up - (up - 1) = 1 /\ up - 1 \in 0 .. up - 1
        BY <1>0, <1>3
      <3> HIDE DEF Early
      <3> QED BY <3>1
    <2>2. PICK d \in T : \A e \in T : d <= e
      <3> HIDE DEF T
      <3> QED BY <2>1, Least
    <2>3. d \in 0 .. up - 1 /\ up - d \in 1 .. up /\ Early(up - d)
      BY <1>0, <1>3, <2>2
    <2>4. ASSUME NEW q \in (up - d) + 1 .. up
          PROVE  job.scans[q].start > t
      <3>1. /\ q \in 1 .. n /\ up - q \in 0 .. up - 1 /\ up - q < d
            /\ up - (up - q) = q
        BY <1>0, <1>3, <2>3
      <3>2. up - q \notin T
        BY <2>2, <2>3, <3>1
      <3>3. ~Early(q)
        <4> HIDE DEF Early
        <4> QED BY <3>1, <3>2
      <3> QED BY <1>0, <3>1, <3>3
    <2>5. Down(up - d)
      BY <2>3, <2>4
    <2> HIDE DEF Down
    <2> QED BY <2>3, <2>5
  <1>6. ScanOfHeader(s, t) \in 1 .. up
    <2> HIDE DEF Down
    <2> QED BY <1>4, <1>5
  <1> QED BY <1>0, <1>3, <1>6

\* openfile finds a file with data.
LEMMA NextGoodFileIs ==
  ASSUME job \in Jobs, filesread \in Nat, GoodFiles # {}
  PROVE  NextGoodFile \in GoodFiles
  <1>1. GoodFiles \in SUBSET Nat
    BY JobTypes DEF GoodFiles
  <1>2. \E f \in GoodFiles : \A g \in GoodFiles : f <= g
    BY <1>1, Least
  <1> QED BY <1>2 DEF NextGoodFile

\* What is read is data of the file; less than a segment only at its end.
LEMMA GotIs ==
  ASSUME DataTypes
  PROVE  /\ Got \in 0 .. segmentunits
         /\ Got > 0 => /\ filesread \in 1 .. Len(job.files)
                       /\ readtime < job.files[filesread].to
                       /\ Got < segmentunits => readtime + Got = job.files[filesread].to
  <1> DEFINE to == job.files[filesread].to
  <1>1. segmentunits \in Nat \ {0} /\ readtime \in Int
    BY DataConstants DEF DataTypes
  <1>2. CASE ~dataremaining
    BY <1>1, <1>2 DEF Got
  <1>3. CASE dataremaining
    <2>1. filesread \in 1 .. Len(job.files) /\ to \in Int /\ readtime < to
      BY <1>3, JobTypes DEF dataremaining, DataTypes
    <2>2. Got = IF segmentunits < to - readtime THEN segmentunits ELSE to - readtime
      BY <1>3 DEF Got, Lesser
    <2> HIDE DEF to
    <2>3. /\ Got \in 0 .. segmentunits
          /\ Got < segmentunits => readtime + Got = to
      BY <1>1, <2>1, <2>2
    <2> QED BY <2>1, <2>3 DEF to
  <1> QED BY <1>2, <1>3

\* The scan that follows is one of the job, until the reading is over.
LEMMA ScanAfterReadIs ==
  ASSUME DataTypes, PlainJob
  PROVE  Lesser(ScanAfterRead, NumScans) \in 1 .. NumScans
  <1>1. /\ NumScans \in Nat \ {0} /\ readscan \in 1 .. NumScans
        /\ job.format = "lba"
    BY JobTypes DEF DataTypes, PlainJob
  <1>2. ScanAfterRead \in {readscan, readscan + 1}
    BY <1>1 DEF ScanAfterRead
  <1> QED BY <1>1, <1>2 DEF Lesser

-----------------------------------------------------------------------------
(* The steps *)

LEMMA Frame ==
  ASSUME LabelInv, EndInv, StepsInv,
         job' = job, bufferinfo' = bufferinfo, databuffer' = databuffer,
         Settled' \subseteq Settled,
         filesread \in Nat, filesread' \in Nat, filesread <= filesread'
  PROVE  LabelInv' /\ EndInv' /\ StepsInv'
  <1>1. ASSUME NEW i \in Segments PROVE Begins(i)' = Begins(i)
    BY DEF Begins
  <1>2. ASSUME NEW i \in Settled' PROVE i \in Settled /\ i \in Segments
    BY DEF Settled
  <1>3. LabelInv'
    BY <1>1, <1>2 DEF LabelInv
  <1>4. EndInv'
    <2>1. 1 .. filesread \subseteq 1 .. filesread'
      OBVIOUS
    <2> QED BY <1>1, <1>2, <2>1 DEF EndInv, Good
  <1>5. StepsInv'
    BY <1>1, <1>2 DEF StepsInv
  <1> QED BY <1>3, <1>4, <1>5

LEMMA PromiseFrame ==
  ASSUME PromiseInv,
         job' = job, bufferinfo' = bufferinfo, promised' = promised,
         pending' = pending
  PROVE  PromiseInv'
  <1>1. ASSUME NEW i PROVE Begins(i)' = Begins(i)
    BY DEF Begins
  <1> QED BY <1>1 DEF PromiseInv

LEMMA OpenFileIs ==
  ASSUME DataTypes, NEW f \in 1 .. Len(job.files), NEW s \in 1 .. NumScans,
         OpenFile(f, s)
  PROVE  /\ filesread' = f /\ readtime' = job.files[f].from
         /\ readtime' \in Int /\ readscan' \in 1 .. NumScans
  <1> DEFINE t == job.files[f].from
  <1>1. job \in Jobs
    BY DEF DataTypes
  <1>2. t \in Int
    BY <1>1, JobTypes
  <1>3. ScanOfHeader(s, t) \in 1 .. NumScans
    <2> HIDE DEF t
    <2> QED BY <1>1, <1>2, ScanOfHeaderIs
  <1>4. filesread' = f /\ readtime' = t
    BY DEF OpenFile
  <1>5. readscan' = ScanOfHeader(s, t) \/ readscan' = s
    BY <1>4 DEF OpenFile
  <1> QED BY <1>2, <1>3, <1>4, <1>5

\* Position: at the beginning of a file, or a segment on.
LEMMA PositionIs ==
  ASSUME DataTypes, PositionInv, job' = job, rpc' # "read",
         \/ filesread' = filesread /\ readtime' = readtime
         \/ StaysInFile
         \/ filesread' \in 1 .. Len(job.files) /\ readtime' = job.files[filesread'].from
  PROVE  PositionInv'
  <1>1. /\ segmentunits \in Nat \ {0} /\ readtime \in Int
        /\ filesread \in 0 .. Len(job.files) /\ Len(job.files) \in Nat
        /\ \A f \in 1 .. Len(job.files) : job.files[f].from \in Int
    BY DataConstants, JobTypes DEF DataTypes
  <1>2. CASE filesread' = filesread /\ readtime' = readtime
    BY <1>2 DEF PositionInv
  <1>3. CASE StaysInFile
    <2> SUFFICES ASSUME filesread > 0
                 PROVE  /\ job.files[filesread].from <= readtime + segmentunits
                        /\ ((readtime + segmentunits) - job.files[filesread].from) % segmentunits = 0
      BY <1>3 DEF StaysInFile, PositionInv
    <2> DEFINE a == job.files[filesread].from
               d == readtime - a
    <2>1. a \in Int /\ a <= readtime /\ d % segmentunits = 0
      BY <1>1 DEF PositionInv
    <2> HIDE DEF a
    <2>2. d \in Int /\ (readtime + segmentunits) - a = d + segmentunits
      BY <1>1, <2>1
    <2>3. (d + segmentunits) % segmentunits = 0
      <3> HIDE DEF d
      <3> QED BY <1>1, <2>1, <2>2, OneTurn
    <2>4. a <= readtime + segmentunits
      BY <1>1, <2>1
    <2> QED BY <2>2, <2>3, <2>4 DEF a
  <1>4. CASE filesread' \in 1 .. Len(job.files) /\ readtime' = job.files[filesread'].from
    <2>1. \A x \in Int : x <= x /\ (x - x) % segmentunits = 0
      BY <1>1, SMT
    <2> QED BY <1>1, <1>4, <2>1 DEF PositionInv
  <1> QED BY <1>2, <1>3, <1>4

\* Opening a file: the segments stay as they are.
LEMMA RightOpen ==
  ASSUME RightInv, PlainJob, OpenFirst \/ GoToNextFile
  PROVE  RightInv'
  <1>0. DataTypes /\ PositionInv /\ LabelInv /\ EndInv /\ StepsInv /\ PromiseInv
    BY DEF RightInv
  <1>1. /\ job \in Jobs /\ readscan \in 1 .. NumScans /\ job.format = "lba"
        /\ filesread \in 0 .. Len(job.files) /\ Len(job.files) \in Nat
        /\ readtime \in Int
    BY <1>0, JobTypes DEF DataTypes, PlainJob
  <1>2. /\ job' = job /\ databuffer' = databuffer
        /\ promised' = promised /\ pending' = pending /\ rpc # "read" /\ rpc' # "read"
    BY DEF OpenFirst, GoToNextFile, Open, NextFile, sends, sending
  <1>3. Settled' = Settled
    BY <1>2 DEF Settled
  <1>4. /\ bufferinfo' = bufferinfo
        /\ readscan' \in 1 .. NumScans
        /\ \/ filesread' = filesread /\ readtime' = readtime
           \/ /\ filesread' \in filesread + 1 .. Len(job.files)
              /\ readtime' = job.files[filesread'].from /\ readtime' \in Int
    <2>1. CASE OpenFirst
      <3>1. CASE GoodFiles # {}
        <4>1. NextGoodFile \in GoodFiles
          BY <1>1, <3>1, NextGoodFileIs
        <4>2. NextGoodFile \in filesread + 1 .. Len(job.files)
          BY <4>1 DEF GoodFiles
        <4>3. NextGoodFile \in 1 .. Len(job.files)
          BY <1>1, <4>2
        <4>4. OpenFile(NextGoodFile, readscan) /\ bufferinfo' = bufferinfo
          BY <2>1, <3>1 DEF OpenFirst
        <4> HIDE DEF NextGoodFile
        <4> QED BY <1>0, <1>1, <4>2, <4>3, <4>4, OpenFileIs
      <3>2. CASE GoodFiles = {}
        BY <1>1, <2>1, <3>2 DEF OpenFirst
      <3> QED BY <3>1, <3>2
    <2>2. CASE GoToNextFile
      <3> DEFINE s == Correlated(readscan)
                 f == filesread + 1
      <3>1. s \in 1 .. NumScans /\ s # NoScan
        <4>1. s \in readscan .. NumScans /\ NumScans \in Nat
          BY <1>1, CorrelatedIs, JobTypes
        <4> HIDE DEF s
        <4> QED BY <1>1, <4>1 DEF NoScan
      <3>2. \/ bufferinfo' = bufferinfo /\ readscan' = s /\ UNCHANGED <<filesread, readtime>>
            \/ f <= Len(job.files) /\ OpenFile(f, s) /\ UNCHANGED bufferinfo
        <4> HIDE DEF s
        <4>1. CASE f > Len(job.files)
          BY <1>1, <2>2, <3>1, <4>1 DEF GoToNextFile, s
        <4>2. CASE ~(f > Len(job.files))
          BY <1>1, <2>2, <3>1, <4>2 DEF GoToNextFile, s
        <4> QED BY <4>1, <4>2
      <3> HIDE DEF s
      <3>3. CASE bufferinfo' = bufferinfo /\ readscan' = s /\ UNCHANGED <<filesread, readtime>>
        BY <3>1, <3>3
      <3>4. CASE f <= Len(job.files) /\ OpenFile(f, s) /\ UNCHANGED bufferinfo
        <4>1. f \in 1 .. Len(job.files) /\ f \in filesread + 1 .. Len(job.files)
          BY <1>1, <3>4
        <4> HIDE DEF f
        <4> QED BY <1>0, <3>1, <3>4, <4>1, OpenFileIs
      <3> QED BY <3>2, <3>3, <3>4
    <2> QED BY <2>1, <2>2
  <1>5. DataTypes'
    <2>1. readscan' \in DOMAIN job.scans
      BY <1>1, <1>4, JobTypes
    <2> QED BY <1>0, <1>1, <1>2, <1>4, <2>1 DEF DataTypes
  <1>6. PositionInv'
    <2>1. \/ filesread' = filesread /\ readtime' = readtime
          \/ filesread' \in 1 .. Len(job.files) /\ readtime' = job.files[filesread'].from
      BY <1>1, <1>4
    <2> QED BY <1>0, <1>2, <2>1, PositionIs
  <1>7. LabelInv' /\ EndInv' /\ StepsInv'
    <2>1. filesread \in Nat /\ filesread' \in Nat /\ filesread <= filesread'
      BY <1>1, <1>4
    <2> QED BY <1>0, <1>2, <1>3, <1>4, <2>1, Frame
  <1>8. PromiseInv'
    BY <1>0, <1>2, <1>4, PromiseFrame
  <1> QED BY <1>5, <1>6, <1>7, <1>8 DEF RightInv

\* What is copied back goes to a segment that has nothing: a file cannot go on
\* where another ended in the middle of a subint.
LEMMA CopyBackKeeps ==
  ASSUME SegTypeOK, RightInv, PlainJob, rpc = "read",
         NEW D, NEW i \in Segments, NEW k \in 0 .. segmentunits - 1,
         i * segmentunits + k \in DOMAIN D,
         i = buffersegment \/ k < bufferinfo[i].valid
  PROVE  /\ CopyBack(D)[i * segmentunits + k] = D[i * segmentunits + k]
  <1> DEFINE w == Previous(buffersegment)
             last == bufferinfo[w]
             this == bufferinfo[buffersegment]
             into == w * segmentunits
             copied == Lesser(Lesser(segmentunits - last.valid, sendunits), Got)
             fits == /\ numread > 0 /\ last.valid < sendunits
                     /\ this.scan = last.scan /\ this.time = last.time + last.valid
             p == i * segmentunits + k
  <1>0. DataTypes /\ PositionInv /\ EndInv
    BY DEF RightInv
  <1>1. /\ segmentunits \in Nat \ {0}
        /\ sendunits \in Nat \ {0} /\ sendunits <= segmentunits
        /\ buffersegment \in Segments /\ w \in Segments /\ w # buffersegment
        /\ last.valid \in 0 .. segmentunits /\ last.time \in Int
        /\ last.scan \in DOMAIN job.scans /\ this.scan \in DOMAIN job.scans
        /\ readtime \in Int /\ Got \in 0 .. segmentunits
    BY <1>0, DataConstants, Neighbours, GotIs DEF SegTypeOK, DataTypes
  <1>2. CopyBack(D) = IF ~fits \/ job.format # "lba" THEN D
          ELSE [q \in DOMAIN D |->
                  IF q \in into .. into + copied - 1
                  THEN D[q - into + buffersegment * segmentunits + last.valid]
                  ELSE D[q]]
    BY DEF CopyBack
  <1>3. ASSUME fits, p \in into .. into + copied - 1
        PROVE  FALSE
    <2>1. /\ copied \in Nat /\ copied <= segmentunits - last.valid
          /\ copied > 0 => Got > 0
      BY <1>1 DEF Lesser
    <2>2. into \in Nat /\ Places(w) = into .. (w + 1) * segmentunits - 1
      BY <1>1, PlaceOf DEF Places
    <2>3. (w + 1) * segmentunits = into + segmentunits
      <3>1. w \in Nat
        BY <1>1, Steps
      <3> QED BY <1>1, <3>1, SMT
    <2>4. p \in Int
      BY PlaceOf, DataConstants
    <2>5. p \in Places(w) /\ copied > 0
      <3> HIDE DEF into, copied, p, last
      <3> QED BY <1>1, <1>3, <2>1, <2>2, <2>3, <2>4 DEF last
    <2>6. w = i
      BY <1>1, <2>5, PlaceOf
    <2>7. last.valid \in 1 .. segmentunits - 1 /\ last.valid \in 1 .. sendunits - 1
      <3>1. k < last.valid
        BY <1>1, <2>6
      <3> HIDE DEF last
      <3> QED BY <1>1, <1>3, <3>1
    <2>8. PICK f \in 1 .. filesread :
            /\ Good(f) /\ Begins(w) + last.valid = job.files[f].to
            /\ last.valid = (job.files[f].to - job.files[f].from) % segmentunits
      BY <1>0, <1>1, <2>7 DEF EndInv, Settled
    <2> DEFINE g == filesread
    <2>9. g \in 1 .. Len(job.files) /\ readtime < job.files[g].to
      BY <1>0, <2>1, <2>5, GotIs
    <2>10. /\ job.files[g].from \in Int /\ job.files[g].to \in Int
           /\ job.files[f].from \in Int /\ job.files[f].to \in Int
           /\ g \in DOMAIN job.files /\ f \in DOMAIN job.files
           /\ \A s \in DOMAIN job.scans : job.scans[s].start \in Int
      <3>1. job \in Jobs /\ g \in Nat
        BY <1>0, <2>9 DEF DataTypes
      <3>2. /\ Len(job.files) \in Nat /\ DOMAIN job.files = 1 .. Len(job.files)
            /\ DOMAIN job.scans = 1 .. NumScans
            /\ \A s \in 1 .. NumScans : job.scans[s].start \in Int
            /\ \A h \in 1 .. Len(job.files) :
                 job.files[h].from \in Int /\ job.files[h].to \in Int
        BY <3>1, JobTypes
      <3>3. f \in 1 .. Len(job.files)
        BY <2>8, <2>9, <3>1, <3>2
      <3> QED BY <2>9, <3>2, <3>3
    <2>11. job.files[g].from <= readtime
      BY <1>0, <2>9 DEF PositionInv
    <2>12. readtime = job.files[f].to
      <3>1. Begins(buffersegment) = readtime
        BY <1>0 DEF PositionInv
      <3>2. /\ Begins(buffersegment) = job.scans[this.scan].start + this.time
            /\ Begins(w) = job.scans[last.scan].start + last.time
        BY DEF Begins
      <3> DEFINE start == job.scans[last.scan].start
      <3>3. start \in Int /\ start = job.scans[this.scan].start
        BY <1>1, <1>3, <2>10
      <3>4. this.time = last.time + last.valid
        BY <1>3
      <3> HIDE DEF start, last, this
      <3> QED BY <1>1, <2>8, <3>1, <3>2, <3>3, <3>4 DEF start
    <2>13. f < g
      BY <2>8, <2>9, <2>10, <2>12
    <2>14. Good(g)
      BY <1>1, <2>9, <2>10, <2>11 DEF Good
    <2>15. job.files[f].to < job.files[g].from
      BY <2>7, <2>8, <2>10, <2>13, <2>14 DEF PlainJob
    <2> QED BY <1>1, <2>10, <2>11, <2>12, <2>15
  <1> HIDE DEF fits, into, copied, p
  <1>4. CopyBack(D)[p] = D[p]
    <2>1. p \in DOMAIN D
      BY DEF p
    <2> QED BY <1>2, <1>3, <2>1
  <1> QED BY <1>4 DEF p

\* Labelling a segment: nobody has been promised anything in it.
LEMMA RightLabel ==
  ASSUME SegTypeOK, NoOverwrite', RightInv, PlainJob, Label
  PROVE  RightInv'
  <1> DEFINE b == buffersegment
  <1>0. DataTypes /\ PositionInv /\ LabelInv /\ EndInv /\ StepsInv /\ PromiseInv
    BY DEF RightInv
  <1>1. /\ b \in Segments /\ job \in Jobs
        /\ readscan \in DOMAIN job.scans /\ readtime \in Int
        /\ job.scans[readscan].start \in Int
    BY <1>0, JobTypes DEF DataTypes, SegTypeOK
  <1> DEFINE time == readtime - job.scans[readscan].start
  <1>2. /\ job' = job /\ filesread' = filesread /\ readscan' = readscan
        /\ readtime' = readtime /\ promised' = promised /\ pending' = pending
        /\ buffersegment' = b /\ rpc = "wait" /\ rpc' = "read"
    BY DEF Label, WaitForBuffer, places, sends, sending
  <1>3. time \in Int /\ job.scans[readscan].start + time = readtime
    <2> DEFINE start == job.scans[readscan].start
    <2> HIDE DEF start
    <2> QED BY <1>1 DEF start
  <1>4. /\ bufferinfo' = [bufferinfo EXCEPT ![b].scan = readscan, ![b].time = time]
        /\ databuffer' = [p \in DOMAIN databuffer |->
                            IF p \in Places(b) THEN Torn ELSE databuffer[p]]
    BY DEF Label
  <1> HIDE DEF time
  <1>5. /\ bufferinfo' \in [Segments -> [scan : DOMAIN job.scans, time : Int,
                                         valid : 0 .. segmentunits]]
        /\ bufferinfo'[b].scan = readscan /\ bufferinfo'[b].time = time
        /\ \A i \in Segments \ {b} : bufferinfo'[i] = bufferinfo[i]
    BY <1>0, <1>1, <1>3, <1>4 DEF DataTypes
  <1>6. \A i \in Segments \ {b} : Begins(i)' = Begins(i)
    BY <1>2, <1>5 DEF Begins
  <1>7. Settled = Segments /\ Settled' = Segments \ {b}
    BY <1>2 DEF Settled
  <1>8. DataTypes'
    BY <1>0, <1>2, <1>4, <1>5 DEF DataTypes
  <1>9. PositionInv'
    <2>1. Begins(b)' = readtime
      BY <1>2, <1>3, <1>5 DEF Begins
    <2> QED BY <1>0, <1>2, <1>5, <2>1 DEF PositionInv
  <1>10. LabelInv'
    <2> SUFFICES ASSUME NEW i \in Segments \ {b}, NEW k \in 0 .. bufferinfo[i].valid - 1
                 PROVE  databuffer'[i * segmentunits + k] = Begins(i) + k
      BY <1>5, <1>6, <1>7 DEF LabelInv
    <2>1. k \in 0 .. segmentunits - 1
      <3>1. bufferinfo[i].valid \in 0 .. segmentunits /\ segmentunits \in Nat
        BY <1>0, DataConstants DEF DataTypes
      <3> QED BY <3>1
    <2>2. /\ i * segmentunits + k \in DOMAIN databuffer
          /\ i * segmentunits + k \notin Places(b)
      BY <1>0, <1>1, <2>1, PlaceOf DEF DataTypes
    <2>3. databuffer[i * segmentunits + k] = Begins(i) + k
      BY <1>0, <1>7 DEF LabelInv
    <2> QED BY <1>4, <2>2, <2>3
  <1>11. EndInv' /\ StepsInv'
    BY <1>0, <1>2, <1>5, <1>6, <1>7 DEF EndInv, StepsInv, Good
  <1>12. PromiseInv'
    <2> SUFFICES ASSUME NEW i \in Segments, NEW part \in promised[i]
                 PROVE  /\ pending[i] > 0
                        /\ \E j \in {i, After(i, 1)} : \E k \in 0 .. bufferinfo'[j].valid - 1 :
                             part = <<j * segmentunits + k, Begins(j)' + k>>
      BY <1>2 DEF PromiseInv
    <2>1. pending[i] > 0
      BY <1>0 DEF PromiseInv
    <2>2. PICK j \in {i, After(i, 1)} : \E k \in 0 .. bufferinfo[j].valid - 1 :
            part = <<j * segmentunits + k, Begins(j) + k>>
      BY <1>0 DEF PromiseInv
    <2>3. j \in Segments /\ (j = i \/ Previous(j) = i)
      BY <2>2, Neighbours
    <2>4. pending[b] = 0 /\ pending[Previous(b)] = 0
      BY <1>2 DEF NoOverwrite, Filling
    <2>5. j # b
      BY <2>1, <2>3, <2>4
    <2> QED BY <1>5, <1>6, <2>1, <2>2, <2>3, <2>5
  <1> QED BY <1>8, <1>9, <1>10, <1>11, <1>12 DEF RightInv

\* Filling a segment: it holds what its label says, and nobody has been promised
\* anything in it.
LEMMA RightFill ==
  ASSUME SegTypeOK, NoOverwrite, RightInv, PlainJob, FillFirst \/ FillNext
  PROVE  RightInv'
  <1>a. PICK b \in Segments : b = buffersegment
    BY DEF SegTypeOK
  <1> DEFINE got == Got
             D == [p \in DOMAIN databuffer |->
                     IF p \in Places(b)
                     THEN LET t == readtime + p - b * segmentunits
                          IN IF t < readtime + got THEN t ELSE Torn
                     ELSE databuffer[p]]
  <1>0. DataTypes /\ PositionInv /\ LabelInv /\ EndInv /\ StepsInv /\ PromiseInv
    BY DEF RightInv
  <1>1. /\ b = buffersegment /\ job \in Jobs /\ job.format = "lba"
        /\ readscan \in 1 .. NumScans /\ readtime \in Int
        /\ filesread \in 0 .. Len(job.files) /\ Len(job.files) \in Nat
        /\ segmentunits \in Nat \ {0} /\ got \in 0 .. segmentunits
    BY <1>0, <1>a, JobTypes, DataConstants, GotIs DEF DataTypes, PlainJob
  <1>2. /\ job' = job /\ promised' = promised /\ pending' = pending
        /\ rpc = "read" /\ rpc' # "read"
        /\ bufferinfo' = [bufferinfo EXCEPT ![b].valid = got]
        /\ databuffer' = CopyBack(D)
    <2>1. CASE FillFirst
      <3> DEFINE keep == ScanAfterRead # NoScan
                 empty == readtime + segmentunits >= job.files[filesread].to
                 opens == job.format = "lba" /\ numread = 0 /\ keep /\ empty
                 more == keep /\ (opens => GoodFiles # {})
                 tiny == job.format = "lba" /\ numread = 0 /\ ~more
      <3>1. Fill(FinishFirst(more, tiny, isnewfile))
        BY <2>1 DEF FillFirst
      <3>2. FinishFirst(more, tiny, isnewfile)
        BY <3>1 DEF Fill
      <3> HIDE DEF more, tiny
      <3>3. rpc = "read" /\ rpc' # "read" /\ pending' = pending
        BY <3>2 DEF FinishFirst, sends
      <3> QED BY <1>1, <3>1, <3>3 DEF Fill, sending
    <2>2. CASE FillNext
      <3> DEFINE keep == ScanAfterRead # NoScan
      <3>1. Fill(FinishRead(keep))
        BY <2>2 DEF FillNext
      <3>2. FinishRead(keep)
        BY <3>1 DEF Fill
      <3> HIDE DEF keep
      <3>3. rpc = "read" /\ rpc' # "read" /\ pending' = pending
        BY <3>2 DEF FinishRead, sends
      <3> QED BY <1>1, <3>1, <3>3 DEF Fill, sending
    <2> QED BY <2>1, <2>2
  <1>3. /\ readscan' \in 1 .. NumScans
        /\ filesread' \in filesread .. Len(job.files)
        /\ readtime' \in Int
        /\ \/ StaysInFile
           \/ /\ filesread' \in 1 .. Len(job.files)
              /\ readtime' = job.files[filesread'].from
    <2>1. CASE StaysInFile
      <3>1. Lesser(ScanAfterRead, NumScans) \in 1 .. NumScans
        BY <1>0, ScanAfterReadIs
      <3> QED BY <1>1, <2>1, <3>1 DEF StaysInFile
    <2>2. CASE GoodFiles # {} /\ OpenFile(NextGoodFile, Lesser(ScanAfterRead, NumScans))
      <3> DEFINE s == Lesser(ScanAfterRead, NumScans)
      <3>1. NextGoodFile \in GoodFiles
        BY <1>1, <2>2, NextGoodFileIs
      <3>2. NextGoodFile \in filesread + 1 .. Len(job.files)
        BY <3>1 DEF GoodFiles
      <3>3. /\ NextGoodFile \in 1 .. Len(job.files)
            /\ NextGoodFile \in filesread .. Len(job.files)
        BY <1>1, <3>2
      <3>4. s \in 1 .. NumScans
        BY <1>0, ScanAfterReadIs
      <3>5. OpenFile(NextGoodFile, s)
        BY <2>2
      <3> HIDE DEF NextGoodFile, s
      <3> QED BY <1>0, <3>3, <3>4, <3>5, OpenFileIs
    <2>3. StaysInFile \/ (GoodFiles # {} /\ OpenFile(NextGoodFile, Lesser(ScanAfterRead, NumScans)))
      BY DEF FillFirst, FillNext
    <2> QED BY <2>1, <2>2, <2>3
  <1>4. /\ bufferinfo' \in [Segments -> [scan : DOMAIN job.scans, time : Int,
                                         valid : 0 .. segmentunits]]
        /\ bufferinfo'[b].scan = bufferinfo[b].scan
        /\ bufferinfo'[b].time = bufferinfo[b].time
        /\ bufferinfo'[b].valid = got
        /\ \A i \in Segments \ {b} : bufferinfo'[i] = bufferinfo[i]
    <2> HIDE DEF got
    <2> QED BY <1>0, <1>1, <1>2 DEF DataTypes
  <1>5. Begins(b)' = readtime /\ \A i \in Segments \ {b} : Begins(i)' = Begins(i)
    <2>1. Begins(b)' = Begins(b) /\ \A i \in Segments \ {b} : Begins(i)' = Begins(i)
      BY <1>2, <1>4 DEF Begins
    <2>2. Begins(b) = readtime
      BY <1>0, <1>1, <1>2 DEF PositionInv
    <2> QED BY <2>1, <2>2
  <1>6. Settled = Segments \ {b} /\ Settled' = Segments
    BY <1>1, <1>2 DEF Settled
  <1> HIDE DEF got, D
  <1>7. DataTypes'
    <2>1. readscan' \in DOMAIN job.scans /\ filesread' \in 0 .. Len(job.files)
      BY <1>1, <1>3, JobTypes
    <2>2. DOMAIN databuffer' = DOMAIN databuffer
      <3>1. DOMAIN D = DOMAIN databuffer
        BY DEF D
      <3>2. DOMAIN CopyBack(D) = DOMAIN D
        BY DEF CopyBack
      <3> QED BY <1>2, <3>1, <3>2
    <2> QED BY <1>0, <1>2, <1>3, <1>4, <2>1, <2>2 DEF DataTypes
  <1>8. PositionInv'
    BY <1>0, <1>2, <1>3, PositionIs
  <1>9. LabelInv'
    <2> SUFFICES ASSUME NEW i \in Segments, NEW k \in 0 .. bufferinfo'[i].valid - 1
                 PROVE  databuffer'[i * segmentunits + k] = Begins(i)' + k
      BY <1>6 DEF LabelInv
    <2> DEFINE p == i * segmentunits + k
    <2>1. k \in 0 .. segmentunits - 1
      <3>1. bufferinfo'[i].valid \in 0 .. segmentunits
        BY <1>4
      <3> QED BY <1>1, <3>1
    <2>2. /\ p \in Places(i) /\ p \in DOMAIN databuffer /\ p \in DOMAIN D
          /\ i * segmentunits \in Nat
          /\ \A j \in Segments : p \in Places(j) => j = i
      BY <1>0, <2>1, PlaceOf DEF DataTypes, D
    <2>3. i = b \/ k < bufferinfo[i].valid
      BY <1>4, <2>1
    <2>4. databuffer'[p] = D[p]
      <3>1. CopyBack(D)[i * segmentunits + k] = D[i * segmentunits + k]
        BY <1>1, <1>2, <2>1, <2>2, <2>3, CopyBackKeeps
      <3> QED BY <1>2, <3>1
    <2>5. CASE i = b
      <3>1. p \in Places(b) /\ k < got
        BY <1>4, <2>1, <2>2, <2>5
      <3>2. D[p] = LET t == readtime + p - b * segmentunits
                   IN IF t < readtime + got THEN t ELSE Torn
        BY <2>2, <3>1 DEF D
      <3>3. readtime + p - b * segmentunits = readtime + k
        <4> DEFINE a == b * segmentunits
        <4>1. a \in Nat /\ p = a + k
          BY <2>2, <2>5
        <4> HIDE DEF a, p
        <4>2. readtime + p - a = readtime + k
          BY <1>1, <2>1, <4>1
        <4> QED BY <4>2 DEF a
      <3>4. readtime + k < readtime + got
        BY <1>1, <2>1, <3>1
      <3> QED BY <1>5, <2>4, <2>5, <3>2, <3>3, <3>4
    <2>6. CASE i # b
      <3>1. D[p] = databuffer[p]
        BY <1>1, <2>2, <2>6 DEF D
      <3>2. k \in 0 .. bufferinfo[i].valid - 1
        BY <1>4, <2>6
      <3>3. databuffer[i * segmentunits + k] = Begins(i) + k
        BY <1>0, <1>6, <2>6, <3>2 DEF LabelInv
      <3> QED BY <1>5, <2>4, <2>6, <3>1, <3>3
    <2> QED BY <2>5, <2>6
  <1>10. got > 0 => /\ filesread \in 1 .. Len(job.files)
                    /\ readtime < job.files[filesread].to
                    /\ got < segmentunits => readtime + got = job.files[filesread].to
                    /\ job.files[filesread].from \in Int
                    /\ job.files[filesread].from <= readtime
                    /\ job.files[filesread].to \in Int
                    /\ (readtime - job.files[filesread].from) % segmentunits = 0
    <2> SUFFICES ASSUME got > 0
                 PROVE  /\ filesread \in 1 .. Len(job.files)
                        /\ readtime < job.files[filesread].to
                        /\ got < segmentunits => readtime + got = job.files[filesread].to
                        /\ job.files[filesread].from \in Int
                        /\ job.files[filesread].from <= readtime
                        /\ job.files[filesread].to \in Int
                        /\ (readtime - job.files[filesread].from) % segmentunits = 0
      OBVIOUS
    <2>1. /\ filesread \in 1 .. Len(job.files)
          /\ readtime < job.files[filesread].to
          /\ got < segmentunits => readtime + got = job.files[filesread].to
      BY <1>0, GotIs DEF got
    <2>2. job.files[filesread].from \in Int /\ job.files[filesread].to \in Int
      BY <1>1, <2>1, JobTypes
    <2>3. filesread > 0
      BY <2>1
    <2> QED BY <1>0, <2>1, <2>2, <2>3 DEF PositionInv
  <1>11. EndInv'
    <2> SUFFICES ASSUME NEW i \in Segments, bufferinfo'[i].valid \in 1 .. segmentunits - 1
                 PROVE  \E f \in 1 .. filesread' :
                          /\ Good(f)
                          /\ Begins(i)' + bufferinfo'[i].valid = job.files[f].to
                          /\ bufferinfo'[i].valid
                               = (job.files[f].to - job.files[f].from) % segmentunits
      BY <1>2, <1>6 DEF EndInv, Good
    <2>1. 1 .. filesread \subseteq 1 .. filesread'
      BY <1>1, <1>3
    <2>2. CASE i # b
      BY <1>0, <1>4, <1>5, <1>6, <2>1, <2>2 DEF EndInv
    <2>3. CASE i = b
      <3> DEFINE from == job.files[filesread].from
                 to == job.files[filesread].to
                 d == readtime - from
      <3>1. got \in 1 .. segmentunits - 1
        BY <1>4, <2>3
      <3>2. /\ filesread \in 1 .. filesread /\ from < to
            /\ readtime + got = to /\ from \in Int /\ to \in Int
            /\ d % segmentunits = 0
        BY <1>1, <1>10, <3>1
      <3> HIDE DEF from, to
      <3>3. d \in Int /\ to - from = d + got
        BY <1>1, <3>1, <3>2
      <3> HIDE DEF d
      <3>4. (d + got) % segmentunits = got
        <4>1. PICK q \in Int : d = segmentunits * q
          BY <1>1, <3>2, <3>3, MultipleIs
        <4>2. got \in 0 .. segmentunits - 1
          BY <1>1, <3>1
        <4>3. (segmentunits * q + got) % segmentunits = got
          BY <1>1, <4>1, <4>2, Divided
        <4> QED BY <4>1, <4>3
      <3>5. filesread \in 1 .. filesread' /\ Good(filesread)
        BY <2>1, <3>2 DEF Good, from, to
      <3>6. bufferinfo'[i].valid = (to - from) % segmentunits
        BY <1>4, <2>3, <3>3, <3>4
      <3>7. Begins(i)' + bufferinfo'[i].valid = to
        BY <1>4, <1>5, <2>3, <3>2
      <3> QED BY <3>5, <3>6, <3>7 DEF from, to
    <2> QED BY <2>2, <2>3
  <1>12. StepsInv'
    <2> SUFFICES ASSUME NEW i \in Segments, bufferinfo'[i].valid > 0
                 PROVE  \E f \in DOMAIN job.files :
                          (Begins(i)' - job.files[f].from) % segmentunits = 0
      BY <1>2, <1>6 DEF StepsInv
    <2>1. CASE i # b
      BY <1>0, <1>4, <1>5, <1>6, <2>1 DEF StepsInv
    <2>2. CASE i = b
      <3>1. filesread \in DOMAIN job.files
            /\ (readtime - job.files[filesread].from) % segmentunits = 0
        BY <1>1, <1>4, <1>10, <2>2, JobTypes
      <3> QED BY <1>5, <2>2, <3>1
    <2> QED BY <2>1, <2>2
  <1>13. PromiseInv'
    <2> SUFFICES ASSUME NEW i \in Segments, NEW part \in promised[i]
                 PROVE  /\ pending[i] > 0
                        /\ \E j \in {i, After(i, 1)} : \E k \in 0 .. bufferinfo'[j].valid - 1 :
                             part = <<j * segmentunits + k, Begins(j)' + k>>
      BY <1>2 DEF PromiseInv
    <2>1. pending[i] > 0
      BY <1>0 DEF PromiseInv
    <2>2. PICK j \in {i, After(i, 1)} : \E k \in 0 .. bufferinfo[j].valid - 1 :
            part = <<j * segmentunits + k, Begins(j) + k>>
      BY <1>0 DEF PromiseInv
    <2>3. j \in Segments /\ (j = i \/ Previous(j) = i)
      BY <2>2, Neighbours
    <2>4. pending[b] = 0 /\ pending[Previous(b)] = 0
      BY <1>1, <1>2 DEF NoOverwrite, Filling
    <2>5. j # b
      BY <2>1, <2>3, <2>4
    <2> QED BY <1>4, <1>5, <2>1, <2>2, <2>3, <2>5
  <1> QED BY <1>7, <1>8, <1>9, <1>11, <1>12, <1>13 DEF RightInv

\* Where the data that is sent lies, and of what time it is.
LEMMA PartsAre ==
  ASSUME SegTypeOK, RightInv, SendingTypes, SameScan, Valid, mpc = "send",
         NEW part \in Parts
  PROVE  \E j \in {atsegment, After(atsegment, 1)} : \E k \in 0 .. bufferinfo[j].valid - 1 :
           part = <<j * segmentunits + k, Begins(j) + k>>
  <1> DEFINE at == atsegment
             nx == After(atsegment, 1)
             this == bufferinfo[at]
             next == bufferinfo[nx]
             u == segmentunits
             start == job.scans[this.scan].start
             wanted == Wanted.time
             diff == nsdifference
  <1>1. PICK k \in Flags :
          part = <<(at * u + bufferindex + k - count) % (numdatasegments * u), TimeOf(k)>>
    BY DEF Parts
  <1>2. /\ at \in Segments /\ nx \in Segments
        /\ this.valid \in 0 .. u /\ next.valid \in 0 .. u
        /\ this.time \in Int /\ next.time \in Int /\ start \in Int
        /\ u \in Nat \ {0} /\ sendunits \in Nat \ {0}
    <2>1. job \in Jobs /\ at \in Segments /\ nx \in Segments
      BY Neighbours DEF SegTypeOK, RightInv, DataTypes
    <2>2. bufferinfo[at] \in [scan : DOMAIN job.scans, time : Int, valid : 0 .. u]
          /\ bufferinfo[nx] \in [scan : DOMAIN job.scans, time : Int, valid : 0 .. u]
      BY <2>1 DEF RightInv, DataTypes
    <2>3. start \in Int
      BY <2>1, <2>2, JobTypes
    <2> QED BY <2>1, <2>2, <2>3, DataConstants
  <1>3. wanted \in Int /\ Wanted.scan = this.scan
    <2>1. job.subints[subint].offset - job.delay \in Int
      BY JobTypes DEF SendingTypes
    <2> QED BY <2>1 DEF Wanted, Valid
  <1>4. diff = wanted - this.time /\ diff \in Int
    <2> HIDE DEF wanted
    <2>1. diff = wanted - this.time
      BY DEF nsdifference, wanted
    <2> HIDE DEF diff, this
    <2> QED BY <1>2, <1>3, <2>1
  <1> DEFINE c == count
             x == bufferindex
             o == x + (k - c)
             avail == Available
  <1>5. /\ c = IF diff < 0 THEN -diff ELSE 0
        /\ x = IF diff < 0 THEN 0 ELSE diff
    BY DEF count, bufferindex
  <1>6. c \in Nat /\ x \in Nat
    <2> HIDE DEF c, x, diff
    <2> QED BY <1>4, <1>5
  <1>7. k \in c .. sendunits - 1 /\ x + k < avail
    BY <1>1 DEF Flags
  <1>8. avail = IF this.valid = u /\ next.time - this.time = u
                THEN this.valid + next.valid ELSE this.valid
    BY DEF Available
  <1>9. TimeOf(k) = start + wanted + k
    BY <1>3 DEF TimeOf
  <1>10. Begins(at) = start + this.time /\ Begins(nx) = job.scans[next.scan].start + next.time
    BY DEF Begins
  <1>11. this.valid = u /\ next.valid > 0 /\ next.time - this.time = u
           => next.scan = this.scan
    BY DEF SameScan
  <1> DEFINE a == at * u
             m == numdatasegments * u
  <1>12. a \in Nat
    BY <1>2, PlaceOf
  <1>13. part[1] = (a + o) % m /\ part = <<part[1], part[2]>> /\ part[2] = start + wanted + k
    <2>1. part = <<(a + x + k - c) % m, TimeOf(k)>>
      BY <1>1
    <2>2. a + x + k - c = a + o
      <3> HIDE DEF a, x, c
      <3> QED BY <1>2, <1>6, <1>7, <1>12
    <2> HIDE DEF a, x, c, o, m
    <2> QED BY <1>9, <2>1, <2>2
  <1> DEFINE t1 == this.time
             t2 == next.time
             v1 == this.valid
             v2 == next.valid
  <1>14. o \in Nat /\ start + wanted + k = (start + t1) + o /\ o < avail
    <2>1. v1 \in 0 .. u /\ v2 \in 0 .. u /\ t1 \in Int /\ t2 \in Int /\ start \in Int
      BY <1>2
    <2>2. diff = wanted - t1
      BY <1>4
    <2>3. avail = IF v1 = u /\ t2 - t1 = u THEN v1 + v2 ELSE v1
      BY <1>8
    <2> HIDE DEF c, x, diff, wanted, start, avail, t1, t2, v1, v2
    <2> QED BY <1>2, <1>3, <1>4, <1>5, <1>6, <1>7, <2>1, <2>2, <2>3
  <1> HIDE DEF c, x, diff, wanted, o, avail
  <1>15. CASE o < v1
    <2>1. o \in 0 .. 2 * u - 1 /\ o < u /\ o \in 0 .. v1 - 1
      <3> HIDE DEF v1
      <3> QED BY <1>2, <1>14, <1>15 DEF v1
    <2>2. part[1] = at * u + o
      BY <1>2, <1>13, <2>1, PlaceNext
    <2>3. part[2] = Begins(at) + o
      BY <1>10, <1>13, <1>14
    <2> QED BY <1>13, <2>1, <2>2, <2>3
  <1>16. CASE ~(o < v1)
    <2>1. v1 = u /\ t2 - t1 = u /\ o < u + v2 /\ v2 > 0 /\ o >= u
      <3>1. v1 \in 0 .. u /\ v2 \in 0 .. u /\ t1 \in Int /\ t2 \in Int
        BY <1>2
      <3>2. avail = IF v1 = u /\ t2 - t1 = u THEN v1 + v2 ELSE v1
        BY <1>8
      <3> HIDE DEF v1, v2, t1, t2
      <3> QED BY <1>2, <1>14, <1>16, <3>1, <3>2
    <2>2. next.scan = this.scan
      BY <1>11, <2>1
    <2>3. o \in 0 .. 2 * u - 1 /\ ~(o < u) /\ o - u \in 0 .. v2 - 1
      <3>1. v2 \in 0 .. u
        BY <1>2
      <3> HIDE DEF v1, v2, t1, t2
      <3> QED BY <1>2, <1>14, <2>1, <3>1
    <2>4. part[1] = nx * u + (o - u)
      BY <1>2, <1>13, <2>3, PlaceNext
    <2>5. part[2] = Begins(nx) + (o - u)
      <3>1. Begins(nx) = start + t2
        BY <1>10, <2>2
      <3>2. t1 \in Int /\ t2 \in Int /\ start \in Int
        BY <1>2
      <3> HIDE DEF t1, t2, v1, v2, start
      <3> QED BY <1>2, <1>13, <1>14, <2>1, <3>1, <3>2
    <2> QED BY <1>13, <2>3, <2>4, <2>5
  <1> QED BY <1>15, <1>16

\* Sending: what is promised is in the ring now.
LEMMA RightSend ==
  ASSUME SegTypeOK, RightInv, SendingTypes, SameScan, Send(Valid)
  PROVE  RightInv'
  <1>0. DataTypes /\ PositionInv /\ LabelInv /\ EndInv /\ StepsInv /\ PromiseInv
    BY DEF RightInv
  <1>1. /\ job' = job /\ filesread' = filesread /\ readscan' = readscan
        /\ readtime' = readtime /\ bufferinfo' = bufferinfo
        /\ databuffer' = databuffer /\ rpc' = rpc /\ buffersegment' = buffersegment
        /\ mpc = "send" /\ atsegment \in Segments
        /\ pending' = [pending EXCEPT ![atsegment] = @ + 1]
    BY DEF Send, Issend, reading, places, SegTypeOK
  <1>2. Settled' = Settled /\ \A i \in Segments : Begins(i)' = Begins(i)
    BY <1>1 DEF Settled, Begins
  <1>3. DataTypes'
    BY <1>0, <1>1 DEF DataTypes
  <1>4. PositionInv'
    <2>1. rpc = "read" => Begins(buffersegment)' = Begins(buffersegment)
      BY <1>1 DEF Begins
    <2> QED BY <1>0, <1>1, <2>1 DEF PositionInv
  <1>5. LabelInv' /\ EndInv' /\ StepsInv'
    <2>1. filesread \in Nat
      BY <1>0, JobTypes DEF DataTypes
    <2> QED BY <1>0, <1>1, <1>2, <2>1, Frame
  <1>6. PromiseInv'
    <2> SUFFICES ASSUME NEW i \in Segments, NEW part \in promised'[i]
                 PROVE  /\ pending'[i] > 0
                        /\ \E j \in {i, After(i, 1)} : \E k \in 0 .. bufferinfo[j].valid - 1 :
                             part = <<j * segmentunits + k, Begins(j)' + k>>
      BY <1>1 DEF PromiseInv
    <2>1. pending[i] \in Nat /\ pending'[i] = IF i = atsegment THEN pending[i] + 1 ELSE pending[i]
      BY <1>1 DEF SegTypeOK
    <2>2. CASE part \in promised[i]
      <3>1. /\ pending[i] > 0
            /\ \E j \in {i, After(i, 1)} : \E k \in 0 .. bufferinfo[j].valid - 1 :
                 part = <<j * segmentunits + k, Begins(j) + k>>
        BY <1>0, <2>2 DEF PromiseInv
      <3>2. After(i, 1) \in Segments
        BY Neighbours
      <3> QED BY <1>2, <2>1, <3>1, <3>2
    <2>3. CASE part \notin promised[i]
      <3>1. i = atsegment /\ part \in Parts /\ Valid
        BY <2>3 DEF Send, SendingTypes
      <3>2. \E j \in {i, After(i, 1)} : \E k \in 0 .. bufferinfo[j].valid - 1 :
                 part = <<j * segmentunits + k, Begins(j) + k>>
        BY <1>1, <3>1, PartsAre
      <3>3. After(i, 1) \in Segments
        BY Neighbours
      <3>4. pending'[i] > 0
        BY <2>1, <3>1
      <3> QED BY <1>2, <3>2, <3>3, <3>4
    <2> QED BY <2>2, <2>3
  <1> QED BY <1>3, <1>4, <1>5, <1>6 DEF RightInv

\* What has been received is no longer promised.
LEMMA RightReceived ==
  ASSUME SegTypeOK, RightInv, SendingTypes, NEW s \in Segments, Received(s)
  PROVE  RightInv'
  <1>0. DataTypes /\ PositionInv /\ LabelInv /\ EndInv /\ StepsInv /\ PromiseInv
    BY DEF RightInv
  <1>1. /\ job' = job /\ filesread' = filesread /\ readscan' = readscan
        /\ readtime' = readtime /\ bufferinfo' = bufferinfo
        /\ databuffer' = databuffer /\ rpc' = rpc /\ buffersegment' = buffersegment
        /\ pending' = [pending EXCEPT ![s] = @ - 1]
        /\ promised' = IF pending'[s] = 0 THEN [promised EXCEPT ![s] = {}] ELSE promised
    BY DEF Received, Complete, reading, places
  <1>2. Settled' = Settled /\ \A i \in Segments : Begins(i)' = Begins(i)
    BY <1>1 DEF Settled, Begins
  <1>3. DataTypes'
    BY <1>0, <1>1 DEF DataTypes
  <1>4. PositionInv'
    <2>1. rpc = "read" => Begins(buffersegment)' = Begins(buffersegment)
      BY <1>1 DEF Begins
    <2> QED BY <1>0, <1>1, <2>1 DEF PositionInv
  <1>5. LabelInv' /\ EndInv' /\ StepsInv'
    <2>1. filesread \in Nat
      BY <1>0, JobTypes DEF DataTypes
    <2> QED BY <1>0, <1>1, <1>2, <2>1, Frame
  <1>6. PromiseInv'
    <2> SUFFICES ASSUME NEW i \in Segments, NEW part \in promised'[i]
                 PROVE  /\ pending'[i] > 0
                        /\ \E j \in {i, After(i, 1)} : \E k \in 0 .. bufferinfo[j].valid - 1 :
                             part = <<j * segmentunits + k, Begins(j)' + k>>
      BY <1>1 DEF PromiseInv
    <2>1. /\ pending[i] \in Nat
          /\ pending'[i] = IF i = s THEN pending[i] - 1 ELSE pending[i]
      BY <1>1 DEF SegTypeOK
    <2>2. part \in promised[i] /\ (i = s => pending'[i] # 0)
      BY <1>1 DEF SendingTypes
    <2>3. /\ pending[i] > 0
          /\ \E j \in {i, After(i, 1)} : \E k \in 0 .. bufferinfo[j].valid - 1 :
               part = <<j * segmentunits + k, Begins(j) + k>>
      BY <1>0, <2>2 DEF PromiseInv
    <2>4. pending'[i] > 0
      BY <2>1, <2>2, <2>3
    <2>5. After(i, 1) \in Segments
      BY Neighbours
    <2> QED BY <1>2, <2>3, <2>4, <2>5
  <1> QED BY <1>3, <1>4, <1>5, <1>6 DEF RightInv

\* Steps that neither read nor send.
LEMMA RightQuiet ==
  ASSUME RightInv, UNCHANGED <<job, reading, promised, pending>>,
         rpc' = "read" <=> rpc = "read",
         rpc = "read" => buffersegment' = buffersegment
  PROVE  RightInv'
  <1>0. DataTypes /\ PositionInv /\ LabelInv /\ EndInv /\ StepsInv /\ PromiseInv
    BY DEF RightInv
  <1>1. /\ job' = job /\ filesread' = filesread /\ readscan' = readscan
        /\ readtime' = readtime /\ bufferinfo' = bufferinfo
        /\ databuffer' = databuffer
        /\ pending' = pending /\ promised' = promised
    BY DEF reading
  <1>2. Settled' = Settled
    BY DEF Settled
  <1>3. DataTypes'
    BY <1>0, <1>1 DEF DataTypes
  <1>4. PositionInv'
    <2>1. rpc = "read" => Begins(buffersegment)' = Begins(buffersegment)
      BY <1>1 DEF Begins
    <2> QED BY <1>0, <1>1, <2>1 DEF PositionInv
  <1>5. LabelInv' /\ EndInv' /\ StepsInv'
    <2>1. filesread \in Nat
      BY <1>0, JobTypes DEF DataTypes
    <2> QED BY <1>0, <1>1, <1>2, <2>1, Frame
  <1>6. PromiseInv'
    BY <1>0, <1>1, PromiseFrame
  <1> QED BY <1>3, <1>4, <1>5, <1>6 DEF RightInv

\* The main thread's other steps leave the reading and what is promised alone.
LEMMA MainQuiet ==
  ASSUME DsMain, ~Send(Valid)
  PROVE  /\ UNCHANGED <<job, reading, promised, pending>>
         /\ rpc' = rpc /\ buffersegment' = buffersegment
  <1>1. CASE GetSubint
    BY <1>1 DEF GetSubint, Receive, places, sends
  <1>2. CASE Search
    <2>1. ScanOver \/ BeginSearch \/ GoOn \/ EndSearch
      BY <1>2 DEF Search
    <2>2. /\ pending' = pending /\ rpc' = rpc /\ buffersegment' = buffersegment
      BY <2>1 DEF ScanOver, BeginSearch, GoOn, EndSearch, WaitForSendComplete,
                  places, sends
    <2> QED BY <1>2, <2>2 DEF Search, sending
  <1>3. CASE /\ \/ SleepStart \/ WakeStart \/ Started \/ Advance \/ EmptySegment
                \/ Terminate \/ UnlockBoth \/ Join
                \/ \E i \in Segments : FinishSends(i)
             /\ UNCHANGED <<job, reading, sending>>
    <2>1. /\ pending' = pending /\ rpc' = rpc /\ buffersegment' = buffersegment
      BY <1>3 DEF SleepStart, WakeStart, Started, Advance, EmptySegment, Terminate,
                  UnlockBoth, Join, FinishSends, places, sends
    <2> QED BY <1>3, <2>1 DEF sending
  <1> QED BY <1>1, <1>2, <1>3 DEF DsMain

\* The same of the reader's.
LEMMA ReaderQuiet ==
  ASSUME \/ GoOnReading \/ DsLockFirst
         \/ (Start \/ LockNext \/ Exit) /\ UNCHANGED <<job, reading, sending>>
  PROVE  /\ UNCHANGED <<job, reading, promised, pending>>
         /\ rpc # "read" /\ rpc' # "read"
  BY DEF GoOnReading, NextSegment, DsLockFirst, LockFirst, Start, LockNext, Exit,
         sends, sending

\* The main thread sends only what it has been asked for.
LEMMA SendingStep == SegTypeOK /\ SendingTypes /\ [DsNext]_dsvars => SendingTypes'
  <1> SUFFICES ASSUME SegTypeOK, SendingTypes, [DsNext]_dsvars
               PROVE  SendingTypes'
    OBVIOUS
  <1>1. CASE GetSubint
    <2>1. Len(job.subints) \in Nat
      BY JobTypes DEF SendingTypes
    <2>2. subint + 1 \in 1 .. Len(job.subints)
      BY <1>1, <2>1 DEF GetSubint, SendingTypes
    <2> QED BY <1>1, <2>2 DEF GetSubint, SendingTypes
  <1>2. CASE Search
    BY <1>2 DEF Search, SendingTypes, sending, ScanOver, BeginSearch, GoOn, EndSearch
  <1>3. CASE Send(Valid)
    BY <1>3 DEF Send, Issend, SendingTypes
  <1>4. CASE /\ \/ SleepStart \/ WakeStart \/ Started \/ Advance \/ EmptySegment
                \/ Terminate \/ UnlockBoth \/ Join
                \/ \E i \in Segments : FinishSends(i)
             /\ UNCHANGED <<job, reading, sending>>
    BY <1>4 DEF SleepStart, WakeStart, Started, Advance, EmptySegment, Terminate,
                UnlockBoth, Join, FinishSends, SendingTypes, sending
  <1>5. CASE DsReader
    <2>1. UNCHANGED <<job, subint, promised>>
      BY <1>5 DEF DsReader, OpenFirst, Label, FillFirst, FillNext, Fill, GoOnReading,
                  GoToNextFile, DsLockFirst, sending
    <2>2. mpc' = mpc
      BY <1>5, ReaderRefines DEF Reader, Open, WaitForBuffer, FinishFirst, LockFirst,
            Start, NextSegment, LockNext, FinishRead, NextFile, Exit
    <2> QED BY <2>1, <2>2 DEF SendingTypes
  <1>6. CASE \E i \in Segments : Received(i)
    BY <1>6 DEF Received, Complete, SendingTypes
  <1>7. CASE Ended \/ UNCHANGED dsvars
    BY <1>7 DEF Ended, SendingTypes, dsvars, segvars, sending
  <1> QED BY <1>1, <1>2, <1>3, <1>4, <1>5, <1>6, <1>7 DEF DsNext, DsMain

\* Every step keeps RightInv, in jobs as PlainJob says.
LEMMA RightStep ==
  SegTypeOK /\ NoOverwrite /\ NoOverwrite' /\ SendingTypes
    /\ PlainJob /\ SameScan /\ RightInv /\ [DsNext]_dsvars => RightInv'
  <1> SUFFICES ASSUME SegTypeOK, NoOverwrite, NoOverwrite', SendingTypes,
                      PlainJob, SameScan, RightInv, [DsNext]_dsvars
               PROVE  RightInv'
    OBVIOUS
  <1>1. CASE OpenFirst \/ GoToNextFile
    BY <1>1, RightOpen
  <1>2. CASE Label
    BY <1>2, RightLabel
  <1>3. CASE FillFirst \/ FillNext
    BY <1>3, RightFill
  <1>4. CASE \/ GoOnReading \/ DsLockFirst
             \/ (Start \/ LockNext \/ Exit) /\ UNCHANGED <<job, reading, sending>>
    BY <1>4, ReaderQuiet, RightQuiet
  <1>5. CASE Send(Valid)
    BY <1>5, RightSend
  <1>6. CASE DsMain /\ ~Send(Valid)
    BY <1>6, MainQuiet, RightQuiet
  <1>7. CASE \E i \in Segments : Received(i)
    BY <1>7, RightReceived
  <1>8. CASE Ended \/ UNCHANGED dsvars
    <2>1. UNCHANGED <<job, reading, promised, pending, rpc, buffersegment>>
      BY <1>8 DEF Ended, dsvars, segvars, places, sends, sending
    <2> QED BY <2>1, RightQuiet
  <1>9. CASE DsReader
    BY <1>1, <1>2, <1>3, <1>4, <1>9 DEF DsReader
  <1> QED BY <1>5, <1>6, <1>7, <1>8, <1>9 DEF DsNext

\* It holds at the start.
LEMMA RightStart == DsInit /\ PlainJob => RightInv
  <1> SUFFICES ASSUME DsInit, PlainJob
               PROVE  RightInv
    OBVIOUS
  <1>1. /\ job \in Jobs /\ filesread = 0 /\ readscan = Correlated(1) /\ readtime = 0
        /\ bufferinfo = [i \in Segments |-> [scan |-> readscan, time |-> 0, valid |-> 0]]
        /\ databuffer = [p \in UNION {Places(i) : i \in Segments} |-> Torn]
        /\ promised = [i \in Segments |-> {}]
        /\ rpc = "open"
    BY DEF DsInit, SegInit
  <1>2. readscan \in DOMAIN job.scans
    <2>1. 1 \in 1 .. NumScans /\ DOMAIN job.scans = 1 .. NumScans /\ NumScans \in Nat
      BY <1>1, JobTypes
    <2>2. readscan \in 1 .. NumScans
      BY <1>1, <2>1, CorrelatedIs
    <2> QED BY <2>1, <2>2
  <1>3. DataTypes
    <2>1. 0 \in 0 .. segmentunits /\ 0 \in 0 .. Len(job.files)
      BY <1>1, DataConstants, JobTypes
    <2> QED BY <1>1, <1>2, <2>1 DEF DataTypes
  <1>4. PositionInv
    BY <1>1 DEF PositionInv
  <1>5. \A i \in Settled : bufferinfo[i].valid = 0
    BY <1>1 DEF Settled
  <1>6. LabelInv /\ EndInv /\ StepsInv
    <2>1. 0 \notin 1 .. segmentunits - 1 /\ 0 .. 0 - 1 = {}
      BY DataConstants
    <2> QED BY <1>5, <2>1 DEF LabelInv, EndInv, StepsInv
  <1>7. PromiseInv
    BY <1>1 DEF PromiseInv
  <1> QED BY <1>3, <1>4, <1>6, <1>7 DEF RightInv

LEMMA SendingStart == DsInit => SendingTypes
  BY DEF DsInit, SegInit, SendingTypes

\* What is promised is there: it lies in segments that nobody is reading into.
LEMMA RightInvIsRight == SegTypeOK /\ NoOverwrite /\ RightInv => RightData
  <1> SUFFICES ASSUME SegTypeOK, NoOverwrite, RightInv,
                      NEW i \in Segments, NEW part \in promised[i]
               PROVE  databuffer[part[1]] = part[2]
    BY DEF RightData
  <1>1. pending[i] > 0
    BY DEF RightInv, PromiseInv
  <1>2. PICK j \in {i, After(i, 1)} : \E k \in 0 .. bufferinfo[j].valid - 1 :
          part = <<j * segmentunits + k, Begins(j) + k>>
    BY DEF RightInv, PromiseInv
  <1>3. j \in Segments /\ (j = i \/ Previous(j) = i)
    BY <1>2, Neighbours
  <1>4. j \in Settled
    BY <1>1, <1>3 DEF Settled, NoOverwrite, Filling
  <1> QED BY <1>2, <1>4 DEF RightInv, LabelInv

\* Where scans are apart, segments of two scans do not seem to be of one.
LEMMA ApartIsSame ==
  SegTypeOK /\ NoOverwrite /\ RightInv /\ ScansApart => SameScan
  <1> DEFINE at == atsegment
             nx == After(atsegment, 1)
             this == bufferinfo[at]
             next == bufferinfo[nx]
             u == segmentunits
  <1> SUFFICES ASSUME SegTypeOK, NoOverwrite, RightInv, ScansApart, mpc = "send",
                      this.valid = u, next.valid > 0, next.time - this.time = u,
                      next.scan # this.scan
               PROVE  FALSE
    BY DEF SameScan
  <1>1. at \in Segments /\ nx \in Segments /\ job \in Jobs /\ u \in Nat \ {0}
    BY Neighbours, DataConstants DEF SegTypeOK, RightInv, DataTypes
  <1>2. at \in Settled /\ nx \in Settled
    BY <1>1 DEF Settled, NoOverwrite, Filling, InUse
  <1>3. PICK f \in DOMAIN job.files : (Begins(at) - job.files[f].from) % u = 0
    BY <1>1, <1>2 DEF RightInv, StepsInv
  <1>4. PICK g \in DOMAIN job.files : (Begins(nx) - job.files[g].from) % u = 0
    BY <1>2 DEF RightInv, StepsInv
  <1> DEFINE sf == job.scans[this.scan].start
             sg == job.scans[next.scan].start
             ff == job.files[f].from
             fg == job.files[g].from
             t1 == this.time
             t2 == next.time
  <1>5. /\ this.scan \in DOMAIN job.scans /\ next.scan \in DOMAIN job.scans
        /\ t1 \in Int /\ t2 \in Int
    BY <1>1 DEF RightInv, DataTypes
  <1>6. sf \in Int /\ sg \in Int /\ ff \in Int /\ fg \in Int
    BY <1>1, <1>5, JobTypes
  <1>7. Begins(at) = sf + t1 /\ Begins(nx) = sg + t2
    BY DEF Begins
  <1>8. (ff - sf) % u # (fg - sg) % u
    BY <1>5 DEF ScansApart
  <1> DEFINE x == ff - sf
             y == fg - sg
             z == t1 - x
             w == t2 - y
  <1>9. t2 = t1 + u
    <2> HIDE DEF t1, t2
    <2>1. t2 - t1 = u
      BY DEF t1, t2
    <2> QED BY <1>1, <1>5, <2>1
  <1>10. z % u = 0 /\ w % u = 0
    <2> HIDE DEF sf, sg, ff, fg, t1, t2
    <2>1. z = (sf + t1) - ff /\ w = (sg + t2) - fg
      BY <1>5, <1>6
    <2> QED BY <1>3, <1>4, <1>7, <2>1 DEF ff, fg
  <1> HIDE DEF sf, sg, ff, fg, t1, t2
  <1>11. x \in Int /\ y \in Int /\ z \in Int /\ w \in Int /\ x = y + ((w - z) - u)
    BY <1>1, <1>5, <1>6, <1>9
  <1> HIDE DEF x, y, z, w
  <1>12. u % u = 0
    <2>1. u * 1 = u /\ u \in Int
      BY <1>1
    <2> QED BY <1>1, <2>1, MultipleIs
  <1> DEFINE d == (w - z) - u
  <1>13. d \in Int /\ d % u = 0
    <2> DEFINE v == w - z
    <2>1. z \in Int /\ w \in Int /\ v \in Int
      BY <1>11
    <2>2. v % u = 0
      BY <1>1, <1>10, <2>1, MultipleSum
    <2> DEFINE e == u
    <2>4. e \in Int /\ e % u = 0
      BY <1>1, <1>12
    <2> HIDE DEF v, e
    <2>3. v - e \in Int /\ (v - e) % u = 0
      <3>1. (v - e) % u = 0
        BY <1>1, <2>1, <2>2, <2>4, MultipleSum
      <3> QED BY <2>1, <2>4, <3>1
    <2> QED BY <2>3 DEF v, e
  <1>14. PICK q \in Int : d = u * q
    BY <1>1, <1>13, MultipleIs
  <1>15. x % u = y % u
    <2>1. y = u * (y \div u) + (y % u) /\ y \div u \in Int /\ y % u \in 0 .. u - 1
      BY <1>1, <1>11, Division
    <2> DEFINE p == y \div u
               r == y % u
    <2>2. u * (p + q) = u * p + u * q /\ p + q \in Int /\ u * p \in Int /\ u * q \in Int
      <3>1. p \in Int
        BY <2>1
      <3> HIDE DEF p
      <3> QED BY <1>1, <3>1, SMT
    <2>3. x = u * (p + q) + r
      <3>1. x = y + d /\ y = u * p + r /\ d = u * q /\ r \in Int
        BY <1>11, <1>14, <2>1
      <3> DEFINE up == u * p
                 uq == u * q
      <3>2. up \in Int /\ uq \in Int /\ u * (p + q) = up + uq
        BY <2>2
      <3> HIDE DEF p, r, up, uq, d
      <3>3. x = (up + uq) + r
        BY <3>1, <3>2 DEF up, uq
      <3> QED BY <3>2, <3>3
    <2>4. (u * (p + q) + r) % u = r
      <3>1. p + q \in Int /\ r \in 0 .. u - 1
        BY <2>1, <2>2
      <3> HIDE DEF p, r
      <3> QED BY <1>1, <3>1, Divided
    <2> QED BY <2>3, <2>4
  <1> QED BY <1>8, <1>15 DEF x, y

LEMMA JobStays == [DsNext]_dsvars => job' = job
  BY DEF DsNext, DsMain, GetSubint, Search, Send, DsReader, OpenFirst, Label,
         FillFirst, FillNext, Fill, GoOnReading, GoToNextFile, DsLockFirst, Received,
         Ended, dsvars

\* A DataStream of a plain job promises only what is in the ring, as long as the
\* labels do not make a segment look like the next of another scan.
THEOREM DsRightDataSameScan ==
  DsSpec /\ [](PlainJob /\ SameScan) => []RightData
  <1>1. DsSpec => [](SegTypeOK /\ NoOverwrite)
    BY DsImplementsRing, SegTypeCorrect, SegNoOverwrite, PTL
  <1>2. DsInit /\ PlainJob => RightInv /\ SendingTypes
    BY RightStart, SendingStart
  <1>3. SegTypeOK /\ NoOverwrite /\ NoOverwrite' /\ PlainJob /\ SameScan
          /\ RightInv /\ SendingTypes /\ [DsNext]_dsvars
          => RightInv' /\ SendingTypes'
    BY RightStep, SendingStep
  <1> QED BY <1>1, <1>2, <1>3, RightInvIsRight, PTL DEF DsSpec

\* In a plain job whose scans are apart, such as any of one scan, they never do.
THEOREM DsRightData == DsSpec => [](PlainJob /\ ScansApart => RightData)
  <1> DEFINE Fine == PlainJob /\ ScansApart
             Good1 == Fine => RightInv
  <1>1. DsSpec => [](SegTypeOK /\ NoOverwrite)
    BY DsImplementsRing, SegTypeCorrect, SegNoOverwrite, PTL
  <1>2. DsInit => Good1 /\ SendingTypes
    BY RightStart, SendingStart
  <1>3. SegTypeOK /\ NoOverwrite /\ NoOverwrite' /\ Good1 /\ SendingTypes
          /\ [DsNext]_dsvars
          => Good1' /\ SendingTypes'
    <2> SUFFICES ASSUME SegTypeOK, NoOverwrite, NoOverwrite', Good1, SendingTypes,
                        [DsNext]_dsvars
                 PROVE  Good1' /\ SendingTypes'
      OBVIOUS
    <2>1. Fine' <=> Fine
      BY JobStays DEF PlainJob, ScansApart, Good, NumScans
    <2>2. ASSUME Fine PROVE RightInv'
      <3>1. RightInv /\ SameScan
        BY <2>2, ApartIsSame
      <3> QED BY <2>2, <3>1, RightStep
    <2> QED BY <2>1, <2>2, SendingStep
  <1>4. SegTypeOK /\ NoOverwrite /\ Good1 => (Fine => RightData)
    BY RightInvIsRight
  <1> QED BY <1>1, <1>2, <1>3, <1>4, PTL DEF DsSpec
=============================================================================
