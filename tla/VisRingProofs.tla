---------------------------- MODULE VisRingProofs ----------------------------
(***************************************************************************)
(* Proofs about VisRing, for a ring of any length.                         *)
(*                                                                         *)
(* The invariant says where the locks are while execute has not stopped    *)
(* the write thread.  The main thread has exactly the buffers islocked     *)
(* says, the write thread exactly one; seen from writesegment, no locked   *)
(* buffer lies beyond the newest; and the window is so short that the      *)
(* buffer the main thread waits for is neither in the window nor held by a *)
(* write thread that itself waits at the window.                           *)
(***************************************************************************)
EXTENDS VisRing, Numbers, TLAPS

\* The one buffer the write thread has while it goes round.
Held == IF wpc \in {"check", "lock"} THEN Pred(writesegment) ELSE writesegment

\* A lock has one holder: the write thread holds the buffer it is at and no
\* other, and islocked says which ones the main thread holds.
LocksInv ==
  \A i \in Vis : /\ islocked[i] <=> bufferlock[i] = "manager"
                 /\ bufferlock[i] = "writer" <=> i = Held

\* Locked buffers are in the window, and the newest is the last of them that
\* the write thread will come to.
OrderInv ==
  /\ islocked[newestlockedvis]
  /\ mpc # "advance" => islocked[oldestlockedvis]
  /\ \A i \in Vis : islocked[i] =>
       InWindow(i) /\ Ahead(writesegment, i) <= Ahead(writesegment, newestlockedvis)

\* How long the window is, depending on what the main thread is about to do.
SizeInv ==
  /\ WindowSize <= VisBufferLength - 2
  /\ mpc \in {"locate", "deliver", "lockahead"} => WindowSize <= VisBufferLength - 3
  /\ mpc = "extend" => WindowSize <= VisBufferLength - 4
  /\ mpc = "dropping" => WindowSize >= 1 /\ WindowSize <= VisBufferLength - 3
  /\ mpc = "lockdropped" => count >= 1 /\ WindowSize + count <= VisBufferLength - 3
  /\ mpc = "advance" /\ after = "locate" =>
       WindowSize <= VisBufferLength - (IF islocked[oldestlockedvis] THEN 3 ELSE 2)
  /\ mpc = "advance" /\ after = "lockdropped" =>
       /\ count >= (IF islocked[oldestlockedvis] THEN 1 ELSE 0)
       /\ WindowSize + count <= VisBufferLength - 3

\* The buffer the main thread has chosen.
ChosenInv ==
  /\ mpc = "deliver" => InWindow(visindex)
  /\ mpc = "lockahead" => visindex = newestlockedvis

\* What is left at the end.
EndInv ==
  /\ WindowSize <= VisBufferLength - 2
  /\ keepwriting <=> mpc \notin {"lastunlock", "join", "done"}
  /\ wpc \in {"flush", "done"} => ~keepwriting
  /\ wpc \in {"check", "lock", "write", "increment"} => flushed = 0
  /\ wpc = "flush" => flushed < VisBufferLength
  /\ mpc = "lastunlock" => lastunlocked <= WindowSize

\* Once keepwriting is false the main thread only unlocks and joins, and the write
\* thread only flushes: of the window EndInv says all that is still needed.
Inv ==
  /\ RingTypeOK
  /\ EndInv
  /\ keepwriting => LocksInv /\ OrderInv /\ SizeInv /\ ChosenInv

-----------------------------------------------------------------------------
(* The arithmetic of the ring, without % *)

\* The buffer after i.
LEMMA SuccValue ==
  ASSUME NEW i \in Vis
  PROVE  Succ(i) = IF i = VisBufferLength - 1 THEN 0 ELSE i + 1
  BY ModOnce, VisBufferLengthAssumption DEF Succ, Vis

\* The buffer before i.
LEMMA PredValue ==
  ASSUME NEW i \in Vis
  PROVE  Pred(i) = IF i = 0 THEN VisBufferLength - 1 ELSE i - 1
  <1> DEFINE x == i + VisBufferLength - 1
  <1>1. /\ VisBufferLength \in Nat \ {0} /\ i \in Nat /\ i < VisBufferLength
        /\ x \in 0 .. 2 * VisBufferLength - 1
    BY VisBufferLengthAssumption DEF Vis
  <1>2. x % VisBufferLength = IF x < VisBufferLength THEN x ELSE x - VisBufferLength
    <2> HIDE DEF x
    <2> QED BY <1>1, ModOnce
  <1> QED BY <1>1, <1>2 DEF Pred

\* How far j is ahead of i.
LEMMA AheadValue ==
  ASSUME NEW i \in Vis, NEW j \in Vis
  PROVE  Ahead(i, j) = IF i <= j THEN j - i ELSE j - i + VisBufferLength
  <1> DEFINE x == j - i + VisBufferLength
  <1>1. /\ VisBufferLength \in Nat \ {0} /\ i \in Nat /\ j \in Nat
        /\ i < VisBufferLength /\ j < VisBufferLength
        /\ x \in 0 .. 2 * VisBufferLength - 1
    BY VisBufferLengthAssumption DEF Vis
  <1>2. x % VisBufferLength = IF x < VisBufferLength THEN x ELSE x - VisBufferLength
    <2> HIDE DEF x
    <2> QED BY <1>1, ModOnce
  <1> QED BY <1>1, <1>2 DEF Ahead

\* Both neighbours of a buffer are buffers.
LEMMA Neighbours ==
  ASSUME NEW i \in Vis
  PROVE  Succ(i) \in Vis /\ Pred(i) \in Vis
  <1>1. Succ(i) \in Vis
    BY SuccValue, VisBufferLengthAssumption DEF Vis
  <1>2. Pred(i) \in Vis
    BY PredValue, VisBufferLengthAssumption DEF Vis
  <1> QED BY <1>1, <1>2

\* All of the above at once, as the steps below need it.
LEMMA RingArithmetic ==
  /\ VisBufferLength \in Nat /\ VisBufferLength >= 4
  /\ \A i \in Vis : i \in Nat /\ i < VisBufferLength
  /\ \A i \in Vis : Succ(i) \in Vis /\ Pred(i) \in Vis
  /\ \A i \in Vis : Succ(i) = IF i = VisBufferLength - 1 THEN 0 ELSE i + 1
  /\ \A i \in Vis : Pred(i) = IF i = 0 THEN VisBufferLength - 1 ELSE i - 1
  /\ \A i, j \in Vis : Ahead(i, j) = IF i <= j THEN j - i ELSE j - i + VisBufferLength
  <1>1. VisBufferLength \in Nat /\ VisBufferLength >= 4
    BY VisBufferLengthAssumption
  <1>2. \A i \in Vis : i \in Nat /\ i < VisBufferLength
    BY <1>1 DEF Vis
  <1> QED BY <1>1, <1>2, SuccValue, PredValue, AheadValue, Neighbours

\* Going round: who is ahead of whom after one of them moves on.
LEMMA AheadMoves ==
  /\ \A i, j \in Vis : Ahead(i, j) \in Nat /\ Ahead(i, j) < VisBufferLength
  /\ \A i \in Vis : Ahead(i, i) = 0
  /\ \A i, j \in Vis : i # j => Ahead(i, j) >= 1 /\ Ahead(Succ(i), j) = Ahead(i, j) - 1
  /\ \A i, j \in Vis :
       Succ(j) # i => Ahead(i, Succ(j)) = Ahead(i, j) + 1
  /\ \A i, j \in Vis : Succ(j) = i => Ahead(i, j) = VisBufferLength - 1
  /\ \A i, j \in Vis : Ahead(i, j) = VisBufferLength - 1 => Succ(j) = i
  <1>1. \A i, j \in Vis : Ahead(i, j) \in Nat /\ Ahead(i, j) < VisBufferLength
    BY RingArithmetic
  <1>2. \A i \in Vis : Ahead(i, i) = 0
    BY RingArithmetic
  <1>3. ASSUME NEW i \in Vis, NEW j \in Vis, i # j
        PROVE  Ahead(i, j) >= 1 /\ Ahead(Succ(i), j) = Ahead(i, j) - 1
    <2>1. /\ Ahead(i, j) = IF i <= j THEN j - i ELSE j - i + VisBufferLength
          /\ Ahead(Succ(i), j) = IF Succ(i) <= j THEN j - Succ(i)
                                 ELSE j - Succ(i) + VisBufferLength
      BY SuccValue, Neighbours, AheadValue
    <2> QED BY <1>3, <2>1, SuccValue, RingArithmetic
  <1>4. ASSUME NEW i \in Vis, NEW j \in Vis, Succ(j) # i
        PROVE  Ahead(i, Succ(j)) = Ahead(i, j) + 1
    <2>1. /\ Ahead(i, j) = IF i <= j THEN j - i ELSE j - i + VisBufferLength
          /\ Ahead(i, Succ(j)) = IF i <= Succ(j) THEN Succ(j) - i
                                 ELSE Succ(j) - i + VisBufferLength
      BY SuccValue, Neighbours, AheadValue
    <2>2. /\ VisBufferLength \in Nat /\ i \in Nat /\ j \in Nat
          /\ i < VisBufferLength /\ j < VisBufferLength
          /\ Succ(j) = IF j = VisBufferLength - 1 THEN 0 ELSE j + 1
      BY RingArithmetic
    <2> QED BY <1>4, <2>1, <2>2
  <1>5. \A i, j \in Vis : Succ(j) = i => Ahead(i, j) = VisBufferLength - 1
    BY RingArithmetic
  <1>6. \A i, j \in Vis : Ahead(i, j) = VisBufferLength - 1 => Succ(j) = i
    BY RingArithmetic
  <1> QED BY <1>1, <1>2, <1>3, <1>4, <1>5, <1>6

-----------------------------------------------------------------------------

\* The invariant holds at the start, ...
LEMMA InitInv == RingInit => Inv
  <1> SUFFICES ASSUME RingInit PROVE Inv
    OBVIOUS
  <1>1. RingTypeOK
    BY VisBufferLengthAssumption DEF RingInit, RingTypeOK, ManagerPCs, WriterPCs, Vis
  <1>2. WindowSize = 1
    BY RingArithmetic, VisBufferLengthAssumption DEF RingInit, WindowSize, Vis
  <1>3. EndInv
    BY <1>2, VisBufferLengthAssumption DEF RingInit, EndInv
  <1>4. Held = VisBufferLength - 1
    BY RingArithmetic, VisBufferLengthAssumption DEF RingInit, Held, Vis
  <1>5. ASSUME NEW i \in Vis
        PROVE  /\ islocked[i] <=> i \in {0, 1}
               /\ bufferlock[i] = "manager" <=> i \in {0, 1}
               /\ bufferlock[i] = "writer" <=> i = VisBufferLength - 1
    <2>1. islocked[i] <=> i \in {0, 1}
      BY ZenonT(20) DEF RingInit
    <2>2. bufferlock[i] = IF i \in {0, 1} THEN "manager"
                          ELSE IF i = VisBufferLength - 1 THEN "writer" ELSE "free"
      BY DEF RingInit
    <2>3. VisBufferLength - 1 \notin {0, 1}
      BY VisBufferLengthAssumption
    <2> QED BY <2>1, <2>2, <2>3
  <1>6. LocksInv
    BY <1>4, <1>5 DEF LocksInv
  <1>7. 0 \in Vis /\ 1 \in Vis
    BY VisBufferLengthAssumption DEF Vis
  <1>8. OrderInv
    BY <1>2, <1>5, <1>7, AheadValue, VisBufferLengthAssumption
    DEF RingInit, OrderInv, InWindow
  <1>9. SizeInv /\ ChosenInv
    BY <1>2, VisBufferLengthAssumption DEF RingInit, SizeInv, ChosenInv
  <1> QED BY <1>1, <1>3, <1>6, <1>8, <1>9 DEF Inv

\* The buffer after the newest, once it is free: it is outside the window, and
\* the write thread comes to it after every locked one.
LEMMA FreeNext ==
  ASSUME Inv, keepwriting, WindowSize <= VisBufferLength - 3,
         bufferlock[Succ(newestlockedvis)] = "free"
  PROVE  /\ Succ(newestlockedvis) \in Vis
         /\ Ahead(oldestlockedvis, Succ(newestlockedvis)) = WindowSize + 1
         /\ \A i \in Vis : islocked[i] =>
              /\ Ahead(oldestlockedvis, i) <= WindowSize + 1
              /\ Ahead(writesegment, i) <= Ahead(writesegment, Succ(newestlockedvis))
  <1> DEFINE next == Succ(newestlockedvis)
  <1>1. /\ newestlockedvis \in Vis /\ oldestlockedvis \in Vis /\ writesegment \in Vis
        /\ next \in Vis /\ WindowSize \in Nat
    BY Neighbours, AheadMoves DEF Inv, RingTypeOK, WindowSize
  <1>2. Ahead(oldestlockedvis, next) = WindowSize + 1
    <2>1. WindowSize # VisBufferLength - 1
      BY <1>1, VisBufferLengthAssumption
    <2> QED BY <1>1, <2>1, AheadMoves DEF WindowSize
  <1>3. next # writesegment
    <2>1. bufferlock[newestlockedvis] = "manager"
      BY <1>1 DEF Inv, OrderInv, LocksInv
    <2>2. newestlockedvis # Held /\ next # Held
      BY <1>1, <2>1 DEF Inv, LocksInv
    <2>3. next = writesegment => newestlockedvis = Pred(writesegment)
      BY <1>1, RingArithmetic
    <2> QED BY <2>2, <2>3 DEF Held
  <1>4. Ahead(writesegment, next) = Ahead(writesegment, newestlockedvis) + 1
    BY <1>1, <1>3, AheadMoves
  <1>5. ASSUME NEW i \in Vis, islocked[i]
        PROVE  /\ Ahead(oldestlockedvis, i) <= WindowSize + 1
               /\ Ahead(writesegment, i) <= Ahead(writesegment, next)
    <2>1. /\ Ahead(oldestlockedvis, i) <= WindowSize
          /\ Ahead(writesegment, i) <= Ahead(writesegment, newestlockedvis)
      BY <1>5 DEF Inv, OrderInv, InWindow
    <2>2. /\ Ahead(oldestlockedvis, i) \in Nat /\ Ahead(writesegment, i) \in Nat
          /\ Ahead(writesegment, newestlockedvis) \in Nat
      BY <1>1, AheadMoves
    <2> QED BY <1>1, <1>4, <2>1, <2>2
  <1> QED BY <1>1, <1>2, <1>5

\* ... and every step keeps it.
LEMMA StepInv == Inv /\ [RingNext]_ringvars => Inv'
  <1> SUFFICES ASSUME Inv, [RingNext]_ringvars PROVE Inv'
    OBVIOUS
  <1> USE DEF Inv, mvars, wvars, window
  <1>1. ASSUME BeginLocate PROVE Inv'
    <2>1. RingTypeOK'
      <3>1. CASE WindowFull
        BY <1>1, <3>1 DEF BeginLocate, AbandonOldest, RingTypeOK, ManagerPCs, WriterPCs
      <3>2. CASE ~WindowFull
        BY <1>1, <3>2 DEF BeginLocate, RingTypeOK, ManagerPCs, WriterPCs
      <3> QED BY <3>1, <3>2
    <2>2. EndInv'
      BY <1>1 DEF BeginLocate, AbandonOldest, WindowFull, EndInv, WindowSize
    <2>3. keepwriting' => LocksInv'
      BY <1>1, SMTT(30)
      DEF BeginLocate, AbandonOldest, WindowFull, RingTypeOK, LocksInv, OrderInv, Held
    <2>4. keepwriting' => OrderInv'
      <3> SUFFICES ASSUME keepwriting PROVE OrderInv'
        BY <1>1 DEF BeginLocate
      <3>1. CASE WindowFull
        <4>1. oldestlockedvis # newestlockedvis
          BY <3>1, AheadMoves, VisBufferLengthAssumption
            DEF WindowFull, WindowSize, RingTypeOK
        <4> QED BY <1>1, <3>1, <4>1
          DEF BeginLocate, AbandonOldest, OrderInv, RingTypeOK, InWindow, WindowSize
      <3>2. CASE ~WindowFull
        BY <1>1, <3>2 DEF BeginLocate, OrderInv, InWindow, WindowSize
      <3> QED BY <3>1, <3>2
    <2>5. keepwriting' => SizeInv' /\ ChosenInv'
      BY <1>1, AheadMoves, VisBufferLengthAssumption, SMTT(30)
      DEF BeginLocate, AbandonOldest, WindowFull, RingTypeOK, ChosenInv, SizeInv,
          WindowSize
    <2> QED BY <2>1, <2>2, <2>3, <2>4, <2>5
  <1>2. ASSUME AdvanceOldest PROVE Inv'
    <2>1. RingTypeOK'
      BY <1>2, Neighbours DEF AdvanceOldest, RingTypeOK, ManagerPCs
    <2>2. EndInv'
      BY <1>2, AheadMoves, VisBufferLengthAssumption
      DEF AdvanceOldest, RingTypeOK, EndInv, WindowSize, OrderInv
    <2>3. keepwriting' => LocksInv' /\ OrderInv'
      BY <1>2, AheadMoves, VisBufferLengthAssumption, SMTT(30)
      DEF AdvanceOldest, RingTypeOK, LocksInv, OrderInv, Held, InWindow, WindowSize
    <2>4. keepwriting' => SizeInv'
      BY <1>2, AheadMoves, VisBufferLengthAssumption, SMTT(30)
      DEF AdvanceOldest, RingTypeOK, OrderInv, SizeInv, WindowSize
    <2>5. keepwriting' => ChosenInv'
      BY <1>2, SMTT(30) DEF AdvanceOldest, RingTypeOK, ChosenInv
    <2> QED BY <2>1, <2>2, <2>3, <2>4, <2>5
  <1>3. ASSUME \E v \in Vis : FoundInWindow(v) PROVE Inv'
    <2>1. RingTypeOK' /\ EndInv'
      BY <1>3 DEF FoundInWindow, RingTypeOK, ManagerPCs, EndInv, WindowSize
    <2>2. keepwriting' => LocksInv' /\ OrderInv' /\ SizeInv' /\ ChosenInv'
      BY <1>3, SMTT(30)
      DEF FoundInWindow, LocksInv, OrderInv, ChosenInv, SizeInv, Held, InWindow,
          WindowSize
    <2> QED BY <2>1, <2>2
  <1>4. ASSUME StaleResult PROVE Inv'
    <2>1. RingTypeOK' /\ EndInv'
      BY <1>4 DEF StaleResult, RingTypeOK, ManagerPCs, EndInv, WindowSize
    <2>2. keepwriting' => LocksInv' /\ OrderInv' /\ SizeInv' /\ ChosenInv'
      BY <1>4, SMTT(30)
      DEF StaleResult, LocksInv, OrderInv, ChosenInv, SizeInv, Held, InWindow, WindowSize
    <2> QED BY <2>1, <2>2
  <1>5. ASSUME BeyondWindow PROVE Inv'
    <2>1. RingTypeOK' /\ EndInv'
      BY <1>5 DEF BeyondWindow, RingTypeOK, ManagerPCs, EndInv, WindowSize
    <2>2. keepwriting' => LocksInv' /\ OrderInv' /\ SizeInv' /\ ChosenInv'
      BY <1>5, AheadMoves, VisBufferLengthAssumption, SMTT(30)
      DEF BeyondWindow, MoreRoom, RingTypeOK, LocksInv, OrderInv, ChosenInv, SizeInv,
          Held, InWindow, WindowSize
    <2> QED BY <2>1, <2>2
  <1>6. ASSUME \E caught \in BOOLEAN : LockMore(caught) PROVE Inv'
    <2>1. RingTypeOK' /\ EndInv'
      BY <1>6, Neighbours, VisBufferLengthAssumption, AheadMoves
      DEF LockMore, LockNext, RingTypeOK, ManagerPCs, EndInv, SizeInv, WindowSize
    <2>2. keepwriting' => LocksInv'
      BY <1>6, SMTT(30) DEF LockMore, LockNext, RingTypeOK, LocksInv, Held
    <2>3. keepwriting' => OrderInv'
      <3> SUFFICES ASSUME keepwriting PROVE OrderInv'
        BY <1>6 DEF LockMore
      <3> DEFINE next == Succ(newestlockedvis)
      <3>1. /\ WindowSize <= VisBufferLength - 3
            /\ bufferlock[next] = "free" /\ newestlockedvis' = next
            /\ islocked' = [islocked EXCEPT ![next] = TRUE]
            /\ oldestlockedvis' = oldestlockedvis /\ writesegment' = writesegment
            /\ mpc # "advance"
        BY <1>6, AheadMoves, VisBufferLengthAssumption
        DEF LockMore, LockNext, SizeInv, RingTypeOK, WindowSize
      <3>2. /\ next \in Vis
            /\ Ahead(oldestlockedvis, next) = WindowSize + 1
            /\ \A i \in Vis : islocked[i] =>
                 /\ Ahead(oldestlockedvis, i) <= WindowSize + 1
                 /\ Ahead(writesegment, i) <= Ahead(writesegment, next)
        BY <3>1, FreeNext
      <3> QED BY <3>1, <3>2, AheadMoves DEF OrderInv, InWindow, WindowSize, RingTypeOK
    <2>4. keepwriting' => SizeInv' /\ ChosenInv'
      BY <1>6, AheadMoves, VisBufferLengthAssumption, SMTT(30)
      DEF LockMore, LockNext, MoreRoom, RingTypeOK, ChosenInv, SizeInv, InWindow,
          WindowSize
    <2> QED BY <2>1, <2>2, <2>3, <2>4
  <1>7. ASSUME DropOldest PROVE Inv'
    <2>1. RingTypeOK' /\ EndInv'
      BY <1>7 DEF DropOldest, AbandonOldest, RingTypeOK, ManagerPCs, EndInv, WindowSize
    <2>2. keepwriting' => LocksInv' /\ OrderInv' /\ SizeInv' /\ ChosenInv'
      BY <1>7, AheadMoves, SMTT(30)
      DEF DropOldest, AbandonOldest, RingTypeOK, LocksInv, OrderInv, ChosenInv, SizeInv,
          Held, InWindow, WindowSize
    <2> QED BY <2>1, <2>2
  <1>8. ASSUME StopDropping PROVE Inv'
    <2>1. RingTypeOK' /\ EndInv'
      BY <1>8 DEF StopDropping, RingTypeOK, ManagerPCs, EndInv, WindowSize
    <2>2. keepwriting' => LocksInv' /\ OrderInv' /\ SizeInv' /\ ChosenInv'
      BY <1>8, SMTT(30)
      DEF StopDropping, RingTypeOK, LocksInv, OrderInv, ChosenInv, SizeInv, Held,
          InWindow, WindowSize
    <2> QED BY <2>1, <2>2
  <1>9. ASSUME \E caught \in BOOLEAN : LockDropped(caught) PROVE Inv'
    <2>1. RingTypeOK'
      BY <1>9, Neighbours DEF LockDropped, LockNext, RingTypeOK, ManagerPCs
    <2>2. EndInv'
      BY <1>9, AheadMoves, VisBufferLengthAssumption
      DEF LockDropped, LockNext, RingTypeOK, EndInv, SizeInv, WindowSize
    <2>3. keepwriting' => LocksInv'
      BY <1>9, SMTT(30) DEF LockDropped, LockNext, RingTypeOK, LocksInv, Held
    <2>4. keepwriting' => OrderInv'
      <3> SUFFICES ASSUME keepwriting PROVE OrderInv'
        BY <1>9 DEF LockDropped
      <3> DEFINE next == Succ(newestlockedvis)
      <3>1. /\ WindowSize <= VisBufferLength - 3
            /\ bufferlock[next] = "free" /\ newestlockedvis' = next
            /\ islocked' = [islocked EXCEPT ![next] = TRUE]
            /\ oldestlockedvis' = oldestlockedvis /\ writesegment' = writesegment
            /\ mpc # "advance"
        BY <1>9, AheadMoves, VisBufferLengthAssumption
        DEF LockDropped, LockNext, SizeInv, RingTypeOK, WindowSize
      <3>2. /\ next \in Vis
            /\ Ahead(oldestlockedvis, next) = WindowSize + 1
            /\ \A i \in Vis : islocked[i] =>
                 /\ Ahead(oldestlockedvis, i) <= WindowSize + 1
                 /\ Ahead(writesegment, i) <= Ahead(writesegment, next)
        BY <3>1, FreeNext
      <3> QED BY <3>1, <3>2, AheadMoves DEF OrderInv, InWindow, WindowSize, RingTypeOK
    <2>5. keepwriting' => SizeInv' /\ ChosenInv'
      BY <1>9, AheadMoves, VisBufferLengthAssumption, SMTT(30)
      DEF LockDropped, LockNext, RingTypeOK, ChosenInv, SizeInv, WindowSize
    <2> QED BY <2>1, <2>2, <2>3, <2>4, <2>5
  <1>10. ASSUME AddIncomplete PROVE Inv'
    <2>1. RingTypeOK' /\ EndInv'
      BY <1>10 DEF AddIncomplete, RingTypeOK, ManagerPCs, EndInv, WindowSize
    <2>2. keepwriting' => LocksInv' /\ OrderInv' /\ SizeInv' /\ ChosenInv'
      BY <1>10, SMTT(30)
      DEF AddIncomplete, LocksInv, OrderInv, ChosenInv, SizeInv, Held, InWindow,
          WindowSize
    <2> QED BY <2>1, <2>2
  <1>11. ASSUME AddLast PROVE Inv'
    <2>1. RingTypeOK'
      <3>1. CASE visindex = newestlockedvis
        BY <1>11, <3>1 DEF AddLast, RingTypeOK, ManagerPCs, WriterPCs
      <3>2. CASE visindex # newestlockedvis
        BY <1>11, <3>2 DEF AddLast, Release, RingTypeOK, ManagerPCs, WriterPCs
      <3> QED BY <3>1, <3>2
    <2>2. EndInv'
      BY <1>11 DEF AddLast, Release, EndInv, WindowSize
    <2>3. keepwriting' => LocksInv'
      BY <1>11, RingArithmetic, SMTT(60)
      DEF AddLast, Release, RingTypeOK, EndInv, LocksInv, OrderInv, ChosenInv, SizeInv,
          Held, InWindow, WindowSize
    <2>4. keepwriting' => OrderInv'
      BY <1>11, SMTT(30) DEF AddLast, Release, RingTypeOK, OrderInv, InWindow, WindowSize
    <2>5. keepwriting' => SizeInv' /\ ChosenInv'
      BY <1>11, SMTT(30) DEF AddLast, Release, ChosenInv, SizeInv, WindowSize
    <2> QED BY <2>1, <2>2, <2>3, <2>4, <2>5
  <1>12. ASSUME LockAhead PROVE Inv'
    <2>1. RingTypeOK'
      <3> DEFINE next == Succ(newestlockedvis)
      <3>1. next \in Vis
        BY Neighbours DEF RingTypeOK
      <3>2. /\ bufferlock' \in [Vis -> {"free", "manager", "writer"}]
            /\ islocked' \in [Vis -> BOOLEAN]
        BY <1>12 DEF LockAhead, Release, RingTypeOK
      <3>3. mpc' \in {"advance", "ready"} /\ after' \in {"ready", after}
        BY <1>12, Zenon DEF LockAhead, Release
      <3> QED BY <1>12, <3>1, <3>2, <3>3 DEF LockAhead, RingTypeOK, ManagerPCs, WriterPCs
    <2>2. EndInv'
      <3>1. mpc' \in {"advance", "ready"}
        BY <1>12, Zenon DEF LockAhead, Release
      <3>2. newestlockedvis' = Succ(newestlockedvis) /\ oldestlockedvis' = oldestlockedvis
        BY <1>12 DEF LockAhead
      <3>3. WindowSize' <= VisBufferLength - 2
        BY <1>12, <3>2, AheadMoves, VisBufferLengthAssumption
          DEF LockAhead, RingTypeOK, EndInv, SizeInv, WindowSize
      <3> QED BY <1>12, <3>1, <3>3 DEF LockAhead, EndInv, RingTypeOK
    <2>3. keepwriting' => LocksInv'
      BY <1>12, SMTT(30)
        DEF LockAhead, Release, RingTypeOK, LocksInv, OrderInv, ChosenInv, Held
    <2>4. keepwriting' => OrderInv'
      <3> SUFFICES ASSUME keepwriting PROVE OrderInv'
        BY <1>12 DEF LockAhead
      <3> DEFINE next == Succ(newestlockedvis)
      <3>1. /\ WindowSize <= VisBufferLength - 3
            /\ bufferlock[next] = "free" /\ newestlockedvis' = next
            /\ visindex = newestlockedvis
            /\ oldestlockedvis' = oldestlockedvis /\ writesegment' = writesegment
            /\ mpc # "advance"
        BY <1>12 DEF LockAhead, SizeInv, ChosenInv
      <3>2. /\ islocked' = [islocked EXCEPT ![next] = TRUE, ![newestlockedvis] = FALSE]
            /\ mpc' # "advance" => oldestlockedvis # newestlockedvis
        BY <1>12, <3>1 DEF LockAhead, Release
      <3>3. /\ next \in Vis
            /\ Ahead(oldestlockedvis, next) = WindowSize + 1
            /\ \A i \in Vis : islocked[i] =>
                 /\ Ahead(oldestlockedvis, i) <= WindowSize + 1
                 /\ Ahead(writesegment, i) <= Ahead(writesegment, next)
        BY <3>1, FreeNext
      <3>4. next # newestlockedvis
        BY RingArithmetic DEF RingTypeOK
      <3> QED BY <3>1, <3>2, <3>3, <3>4, AheadMoves
        DEF OrderInv, InWindow, WindowSize, RingTypeOK
    <2>5. keepwriting' => SizeInv' /\ ChosenInv'
      BY <1>12, AheadMoves, VisBufferLengthAssumption, SMTT(30)
      DEF LockAhead, Release, RingTypeOK, ChosenInv, SizeInv, WindowSize
    <2> QED BY <2>1, <2>2, <2>3, <2>4, <2>5
  <1>13. ASSUME StopWriting PROVE Inv'
    <2>1. RingTypeOK'
      <3>1. lastunlocked' \in 0 .. VisBufferLength
        BY <1>13, VisBufferLengthAssumption DEF StopWriting
      <3> QED BY <1>13, <3>1 DEF StopWriting, RingTypeOK, ManagerPCs, WriterPCs
    <2>2. EndInv'
      BY <1>13, AheadMoves DEF StopWriting, RingTypeOK, EndInv, WindowSize
    <2>3. keepwriting' => LocksInv' /\ OrderInv' /\ SizeInv' /\ ChosenInv'
      BY <1>13, SMTT(30) DEF StopWriting
    <2> QED BY <2>1, <2>2, <2>3
  <1>14. ASSUME LastUnlock PROVE Inv'
    <2>1. RingTypeOK'
      <3>1. bufferlock' \in [Vis -> {"free", "manager", "writer"}]
        BY <1>14 DEF LastUnlock, RingTypeOK
      <3>2. lastunlocked' \in 0 .. VisBufferLength /\ mpc' \in ManagerPCs
        <4>1. lastunlocked <= VisBufferLength - 2
          BY <1>14, AheadMoves, VisBufferLengthAssumption
            DEF LastUnlock, EndInv, WindowSize, RingTypeOK
        <4> QED BY <1>14, <4>1, VisBufferLengthAssumption
          DEF LastUnlock, RingTypeOK, ManagerPCs
      <3> QED BY <1>14, <3>1, <3>2 DEF LastUnlock, RingTypeOK
    <2>2. EndInv'
      <3>1. WindowSize' = WindowSize /\ WindowSize \in Nat
        BY <1>14, AheadMoves DEF LastUnlock, WindowSize, RingTypeOK
      <3> QED BY <1>14, <3>1 DEF LastUnlock, EndInv, RingTypeOK
    <2>3. keepwriting' => LocksInv' /\ OrderInv' /\ SizeInv' /\ ChosenInv'
      BY <1>14, SMTT(30) DEF LastUnlock, EndInv
    <2> QED BY <2>1, <2>2, <2>3
  <1>15. ASSUME JoinWriter PROVE Inv'
    <2>1. RingTypeOK' /\ EndInv'
      BY <1>15 DEF JoinWriter, RingTypeOK, ManagerPCs, EndInv, WindowSize
    <2>2. keepwriting' => LocksInv' /\ OrderInv' /\ SizeInv' /\ ChosenInv'
      BY <1>15, SMTT(30) DEF JoinWriter, EndInv
    <2> QED BY <2>1, <2>2
  <1>16. ASSUME WriterCheck PROVE Inv'
    <2>1. RingTypeOK' /\ EndInv'
      BY <1>16, AheadMoves DEF WriterCheck, RingTypeOK, WriterPCs, EndInv, WindowSize
    <2>2. keepwriting' => LocksInv' /\ OrderInv' /\ SizeInv' /\ ChosenInv'
      BY <1>16, SMTT(30)
      DEF WriterCheck, LocksInv, OrderInv, ChosenInv, SizeInv, Held, InWindow, WindowSize
    <2> QED BY <2>1, <2>2
  <1>17. ASSUME WriterLock PROVE Inv'
    <2>1. RingTypeOK' /\ EndInv'
      BY <1>17, Neighbours DEF WriterLock, RingTypeOK, WriterPCs, EndInv, WindowSize
    <2>2. keepwriting' => LocksInv' /\ OrderInv' /\ SizeInv' /\ ChosenInv'
      BY <1>17, SMTT(30)
      DEF WriterLock, RingTypeOK, LocksInv, OrderInv, ChosenInv, SizeInv, Held, InWindow,
          WindowSize
    <2> QED BY <2>1, <2>2
  <1>18. ASSUME WriterWrite PROVE Inv'
    <2>1. RingTypeOK' /\ EndInv'
      BY <1>18 DEF WriterWrite, RingTypeOK, WriterPCs, EndInv, WindowSize
    <2>2. keepwriting' => LocksInv' /\ OrderInv' /\ SizeInv' /\ ChosenInv'
      BY <1>18, SMTT(30)
      DEF WriterWrite, LocksInv, OrderInv, ChosenInv, SizeInv, Held, InWindow, WindowSize
    <2> QED BY <2>1, <2>2
  <1>19. ASSUME WriterIncrement PROVE Inv'
    <2>1. RingTypeOK' /\ EndInv'
      BY <1>19, Neighbours DEF WriterIncrement, RingTypeOK, WriterPCs, EndInv, WindowSize
    <2>2. keepwriting' => LocksInv'
      BY <1>19, RingArithmetic, SMTT(30) DEF WriterIncrement, RingTypeOK, LocksInv, Held
    <2>3. keepwriting' => OrderInv' /\ SizeInv' /\ ChosenInv'
      BY <1>19, AheadMoves, SMTT(60)
      DEF WriterIncrement, RingTypeOK, LocksInv, OrderInv, ChosenInv, SizeInv, Held,
          InWindow, WindowSize
    <2> QED BY <2>1, <2>2, <2>3
  <1>20. ASSUME WriterFlush PROVE Inv'
    <2>1. RingTypeOK'
      <3>1. flushed' \in 0 .. VisBufferLength
        BY <1>20, VisBufferLengthAssumption DEF WriterFlush, EndInv, RingTypeOK
      <3> QED BY <1>20, <3>1 DEF WriterFlush, RingTypeOK, ManagerPCs, WriterPCs
    <2>2. EndInv'
      BY <1>20, VisBufferLengthAssumption DEF WriterFlush, RingTypeOK, EndInv, WindowSize
    <2>3. keepwriting' => LocksInv' /\ OrderInv' /\ SizeInv' /\ ChosenInv'
      BY <1>20, SMTT(30) DEF WriterFlush, EndInv
    <2> QED BY <2>1, <2>2, <2>3
  <1>21. ASSUME UNCHANGED ringvars PROVE Inv'
    <2>1. RingTypeOK' /\ EndInv'
      BY <1>21 DEF ringvars, RingTypeOK, EndInv, WindowSize
    <2>2. keepwriting' => LocksInv' /\ OrderInv' /\ SizeInv' /\ ChosenInv'
      BY <1>21, SMTT(30)
      DEF ringvars, LocksInv, OrderInv, ChosenInv, SizeInv, Held, InWindow, WindowSize
    <2> QED BY <2>1, <2>2
  <1> QED BY <1>1, <1>2, <1>3, <1>4, <1>5, <1>6, <1>7, <1>8, <1>9, <1>10, <1>11,
         <1>12, <1>13, <1>14, <1>15, <1>16, <1>17, <1>18, <1>19, <1>20, <1>21
      DEF RingNext, RingManager, RingWriter, RingDone

-----------------------------------------------------------------------------

\* Inv holds in every reachable state.
THEOREM RingInvariant == RingSpec => []Inv
  <1>1. RingInit => Inv
    BY InitInv
  <1>2. Inv /\ [RingNext]_ringvars => Inv'
    BY StepInv
  <1> QED BY <1>1, <1>2, PTL DEF RingSpec

\* Every variable of the ring has its type: in particular the three indices
\* never leave the ring.
THEOREM RingTypeCorrect == RingSpec => []RingTypeOK
  <1>1. Inv => RingTypeOK
    BY DEF Inv
  <1> QED BY <1>1, RingInvariant, PTL

\* What the main thread works with it never shares with the write thread: the
\* buffer that is being written is outside the window, because it is not
\* locked by the main thread and, seen from there, the window's locked
\* buffers come before the newest.
LEMMA InvNoRace == Inv => NoRace
  <1> SUFFICES ASSUME Inv,
                      mpc \in {"locate", "extend", "dropping", "lockdropped",
                               "deliver", "lockahead"},
                      wpc \in {"write", "increment"}
               PROVE  ~InWindow(writesegment)
    BY DEF NoRace
  <1>1. keepwriting /\ LocksInv /\ OrderInv
    BY DEF Inv, EndInv
  <1>2. /\ newestlockedvis \in Vis /\ oldestlockedvis \in Vis /\ writesegment \in Vis
    BY DEF Inv, RingTypeOK
  <1>3. writesegment # newestlockedvis /\ writesegment # oldestlockedvis
    <2>1. bufferlock[writesegment] = "writer"
      BY <1>1, <1>2 DEF LocksInv, Held
    <2>2. ~islocked[writesegment]
      BY <1>1, <1>2, <2>1 DEF LocksInv
    <2> QED BY <1>1, <2>2 DEF OrderInv
  <1>4. Ahead(writesegment, oldestlockedvis) <= Ahead(writesegment, newestlockedvis)
    BY <1>1, <1>2 DEF OrderInv
  <1>5. Ahead(oldestlockedvis, writesegment) > Ahead(oldestlockedvis, newestlockedvis)
    <2> DEFINE n == newestlockedvis  o == oldestlockedvis  w == writesegment
    <2>1. /\ VisBufferLength \in Nat /\ n \in Nat /\ o \in Nat /\ w \in Nat
          /\ n < VisBufferLength /\ o < VisBufferLength /\ w < VisBufferLength
      BY <1>2, RingArithmetic
    <2>2. /\ Ahead(w, o) = IF w <= o THEN o - w ELSE o - w + VisBufferLength
          /\ Ahead(w, n) = IF w <= n THEN n - w ELSE n - w + VisBufferLength
          /\ Ahead(o, w) = IF o <= w THEN w - o ELSE w - o + VisBufferLength
          /\ Ahead(o, n) = IF o <= n THEN n - o ELSE n - o + VisBufferLength
      BY <1>2, AheadValue
    <2> QED BY <1>3, <1>4, <2>1, <2>2
  <1>6. Ahead(oldestlockedvis, writesegment) \in Nat /\ WindowSize \in Nat
    BY <1>2, AheadMoves DEF WindowSize
  <1> QED BY <1>5, <1>6 DEF InWindow, WindowSize

\* The write thread never writes or recycles a buffer, not even a hole, of the
\* window the main thread searches and adds to.
THEOREM RingNoRace == RingSpec => []NoRace
  <1> QED BY InvNoRace, RingInvariant, PTL

\* The buffer the main thread waits for.
LEMMA InvNoDeadlock == Inv => NoDeadlock
  <1> SUFFICES ASSUME Inv, WaitsForNext
               PROVE  /\ bufferlock[NextVis] # "manager"
                      /\ bufferlock[NextVis] = "writer" /\ wpc = "lock"
                           => bufferlock[writesegment] # "manager"
    BY DEF NoDeadlock
  <1>1. keepwriting /\ LocksInv /\ OrderInv /\ SizeInv
    BY DEF Inv, EndInv, WaitsForNext
  <1>2. /\ newestlockedvis \in Vis /\ oldestlockedvis \in Vis /\ writesegment \in Vis
        /\ NextVis \in Vis /\ WindowSize \in Nat
    BY Neighbours, AheadMoves DEF Inv, RingTypeOK, WindowSize, NextVis
  <1>3. WindowSize <= VisBufferLength - 3
    <2>1. mpc = "lockdropped" => count \in Int
      BY DEF Inv, RingTypeOK
    <2> QED BY <1>1, <1>2, <2>1, VisBufferLengthAssumption DEF SizeInv, WaitsForNext
  <1>4. Ahead(oldestlockedvis, NextVis) = WindowSize + 1
    BY <1>2, <1>3, AheadMoves, VisBufferLengthAssumption DEF WindowSize, NextVis
  <1>5. bufferlock[NextVis] # "manager"
    <2>1. ~InWindow(NextVis)
      BY <1>2, <1>4 DEF InWindow
    <2> QED BY <1>1, <1>2, <2>1 DEF LocksInv, OrderInv
  <1>6. ASSUME bufferlock[NextVis] = "writer", wpc = "lock"
        PROVE  bufferlock[writesegment] # "manager"
    <2>1. NextVis = Pred(writesegment)
      BY <1>1, <1>2, <1>6 DEF LocksInv, Held
    <2>2. writesegment = Succ(NextVis)
      BY <1>2, <2>1, RingArithmetic
    <2>3. Ahead(oldestlockedvis, writesegment) = WindowSize + 2 \/ writesegment = oldestlockedvis
      BY <1>2, <1>4, <2>2, AheadMoves
    <2> QED BY <1>1, <1>2, <1>3, <1>4, <2>2, <2>3, AheadMoves, VisBufferLengthAssumption
            DEF LocksInv, OrderInv, InWindow, WindowSize
  <1> QED BY <1>5, <1>6

\* The two threads never wait for each other.
THEOREM RingNoDeadlock == RingSpec => []NoDeadlock
  <1> QED BY InvNoDeadlock, RingInvariant, PTL

\* The loop that runs oldestlockedvis on finds a locked buffer: the newest.
THEOREM RingAdvanceStops == RingSpec => []AdvanceStops
  <1>1. Inv => AdvanceStops
    <2> SUFFICES ASSUME Inv, mpc = "advance"
                 PROVE  \E i \in Vis : InWindow(i) /\ islocked[i]
      BY DEF AdvanceStops
    <2>1. keepwriting /\ OrderInv
      BY DEF Inv, EndInv
    <2> QED BY <2>1 DEF Inv, RingTypeOK, OrderInv
  <1> QED BY <1>1, RingInvariant, PTL

\* The main thread never takes the last two buffers of the ring.
THEOREM RingWindowBound == RingSpec => []WindowBound
  <1>1. Inv => WindowBound
    BY DEF Inv, EndInv, WindowBound
  <1> QED BY <1>1, RingInvariant, PTL
=============================================================================
