----------------------------- MODULE CoreProofs -----------------------------
(***************************************************************************)
(* Proofs about Core, for any number of slots from four on, any number of  *)
(* threads and a job of any length, whether or not waits return unasked.   *)
(*                                                                         *)
(* The main thread is at subint numreceived and process thread i at        *)
(* numprocessed[i].  Who has which mutex follows from where they are       *)
(* (LocksInv), so no thread is at the subint of the main thread, nor a     *)
(* whole turn of the ring behind it (PosInv).  Between the two every slot  *)
(* holds the subint it should, with the shares of just the threads that    *)
(* have passed it (SubintInv, ResultsInv), and before that everything was  *)
(* answered (AnswersInv).  To its manager a Core is the queue of Worker.   *)
(***************************************************************************)
EXTENDS Core, Numbers, SequenceTheorems

\* The main thread waits for the process threads to start.
Launching == mainpc \in {"test", "wait", "asleep", "woken"}

\* CR_TERMINATE has arrived, in the slot of subint numreceived.
Over == mainpc \in {"filled", "shutdown", "drain", "done"} \/ (Launching /\ Short)

\* Thread i is at a slot of the ring.
Running(i) == tpc[i] \in {"initialised", "signal", "test", "process", "locknext"}

\* The main thread is at the slot of subint numreceived.
AtSlot == \/ mainpc \in {"fill", "filled", "fillnext", "next", "loop", "send", "zero"}
          \/ mainpc = "shutdown" /\ ~Short

\* The main thread should have the mutex of slot s and thread i.
MainHas(s, i) ==
  \/ AtSlot /\ s = Slot(numreceived)
  \/ mainpc \in {"fillnext", "next"} /\ i < turn /\ s = Slot(numreceived + 1)
  \/ Launching /\ s = LastSlot - 1
  \/ s = LastSlot /\ \/ mainpc \in {"test", "wait"}
                     \/ mainpc \in {"asleep", "woken"} /\ i # turn
                     \/ mainpc = "shutdown" /\ Short

\* Thread i should have it.
ThreadHas(s, i) ==
  \/ Running(i) /\ s = Current(i)
  \/ tpc[i] = "lockfirst" /\ s = LastSlot

LockOf(s, i) ==
  /\ ~(MainHas(s, i) /\ ThreadHas(s, i))
  /\ slotlocks[s][i] = IF MainHas(s, i) THEN "main"
                       ELSE IF ThreadHas(s, i) THEN "thread" ELSE "free"
LocksInv == \A s \in Slots, i \in Threads : LockOf(s, i)

\* How far the job is, by where the main thread is.
PhaseInv ==
  /\ numreceived <= handed
  /\ mainpc \in {"fillnext", "next"} => numreceived < handed
  /\ Over => ended /\ handed = numreceived
  /\ mainpc = "fill" => numreceived <= LastSlot
  /\ mainpc \in {"fillnext", "filled"} => numreceived < LastSlot
  /\ Launching => numreceived > 0 /\ numreceived <= LastSlot
  /\ mainpc \in {"wait", "asleep", "woken"} => turn < NumThreads
  /\ mainpc \in {"loop", "next"} => numreceived >= LastSlot
  /\ mainpc \in {"send", "zero"} => numreceived >= RECEIVE_RING_LENGTH
  /\ mainpc \in {"shutdown", "drain"} => numreceived > 0
  /\ mainpc = "drain" => countdown <= numreceived

\* How the threads start and end.
StartOf(i) ==
  /\ tpc[i] = "none" <=> \/ mainpc \in {"fill", "fillnext", "filled"}
                         \/ mainpc = "done" /\ numreceived = 0
  /\ initialised[i] <=> tpc[i] \in {"signal", "test", "process", "locknext", "done"}
  /\ Launching => (i < turn => initialised[i]) /\ (i > turn => tpc[i] = "lockend")
  /\ mainpc \in {"loop", "next", "send", "zero", "shutdown", "drain"} => initialised[i]
  /\ mainpc = "done" /\ numreceived > 0 => tpc[i] = "done"
  /\ ~initialised[i] \/ tpc[i] = "signal" => numprocessed[i] = 0
StartInv == \A i \in Threads : StartOf(i)

\* Where a thread is, next to the main thread.
PosOf(i) ==
  /\ numprocessed[i] <= numreceived
  /\ numprocessed[i] > numreceived - RECEIVE_RING_LENGTH
  /\ Running(i) /\ ~Over => numprocessed[i] < numreceived
  /\ tpc[i] \in {"process", "locknext"} => numprocessed[i] < numreceived
  /\ tpc[i] = "done" => Over /\ numprocessed[i] = numreceived
  /\ Launching => numprocessed[i] <= LastSlot - 2
  /\ mainpc = "next" /\ i < turn =>
       numprocessed[i] > numreceived + 1 - RECEIVE_RING_LENGTH
  /\ mainpc = "drain" =>
       /\ numprocessed[i] >= numreceived - countdown
       /\ countdown > 0 /\ i < turn => numprocessed[i] > numreceived - countdown
PosInv == \A i \in Threads : PosOf(i)

KeepInv == \A s \in Slots : keepprocessing[s] <=> ~(Over /\ s = Slot(numreceived))

\* The subints that the ring holds beside that of the main thread.
Held == {m \in Nat : numreceived - LastSlot <= m /\ m < numreceived}

SubintInv ==
  /\ \A m \in Held : subint[Slot(m)] = m
  /\ mainpc \in {"fillnext", "next"} => subint[Slot(numreceived)] = numreceived

\* Thread i has worked on subint m.
Did(i, m) == numprocessed[i] > m \/ (numprocessed[i] = m /\ tpc[i] = "locknext")

ResultsOf(i) ==
  /\ \A m \in Held : results[Slot(m)][i] = IF Did(i, m) THEN <<m>> ELSE <<>>
  /\ \A s \in Slots : s >= numreceived => results[s][i] = <<>>
  /\ numreceived >= RECEIVE_RING_LENGTH =>
       results[Slot(numreceived)][i] =
         IF mainpc \in {"send", "zero"}
         THEN <<numreceived - RECEIVE_RING_LENGTH>> ELSE <<>>
ResultsInv == \A i \in Threads : ResultsOf(i)

\* The subints that were answered.
Answered ==
  CASE mainpc \in {"loop", "next", "zero"} -> numreceived - LastSlot
    [] mainpc = "shutdown" /\ ~Short -> numreceived - LastSlot
    [] mainpc = "send" -> numreceived - RECEIVE_RING_LENGTH
    [] mainpc = "drain" -> numreceived - countdown
    [] mainpc = "done" -> numreceived
    [] OTHER -> 0

\* The results go back in the order of the subints, each with the share of
\* every thread exactly once and of no other subint.
WholeResults ==
  \A n \in 1 .. Len(answers) : answers[n] = [i \in Threads |-> <<n - 1>>]

AnswersInv ==
  /\ Len(answers) = Answered
  /\ WholeResults

Inv == /\ LocksInv /\ PhaseInv /\ StartInv /\ PosInv
       /\ KeepInv /\ SubintInv /\ ResultsInv /\ AnswersInv

\* CoreTypeOK, and the types of what is a sequence.
TypeInv ==
  /\ CoreTypeOK
  /\ results \in [Slots -> [Threads -> Seq(Int)]]
  /\ answers \in Seq([Threads -> Seq(Int)])

-----------------------------------------------------------------------------
(* Slots *)

LEMMA Ring ==
  /\ RECEIVE_RING_LENGTH \in Nat \ {0} /\ RECEIVE_RING_LENGTH >= 4
  /\ LastSlot \in Slots /\ LastSlot - 1 \in Slots /\ 0 \in Slots
  /\ LastSlot = RECEIVE_RING_LENGTH - 1
  /\ NumThreads \in Nat \ {0} /\ MaxSubints \in Nat
  /\ \A i \in Threads : i \in Nat /\ i < NumThreads
  /\ \A s \in Slots : s \in Nat /\ s <= LastSlot
  BY CoreAssumption DEF Slots, LastSlot, Threads

\* Every subint has a slot, ...
LEMMA SlotRange == \A n \in Int : Slot(n) \in Slots
  <1> TAKE n \in Int
  <1>1. n % RECEIVE_RING_LENGTH \in 0 .. RECEIVE_RING_LENGTH - 1
    BY Ring, Division
  <1> QED BY <1>1 DEF Slot, Slots

\* ... in the first turn the one of its number, ...
LEMMA SlotFirst == \A n \in Slots : Slot(n) = n
  <1> TAKE n \in Slots
  <1>1. n \in 0 .. 2 * RECEIVE_RING_LENGTH - 1 /\ n < RECEIVE_RING_LENGTH
    BY Ring DEF Slots
  <1>2. n % RECEIVE_RING_LENGTH = n
    BY <1>1, Ring, ModOnce
  <1> QED BY <1>2 DEF Slot

\* ... which it shares with the one a turn later ...
LEMMA SlotTurn == \A n \in Int : Slot(n + RECEIVE_RING_LENGTH) = Slot(n)
  BY Ring, OneTurn DEF Slot

\* ... and with none in between.
LEMMA SlotDiffers ==
  ASSUME NEW m \in Int, NEW n \in Int, m < n, n < m + RECEIVE_RING_LENGTH
  PROVE  Slot(m) # Slot(n)
  <1> SUFFICES ASSUME Slot(m) = Slot(n) PROVE FALSE
    OBVIOUS
  <1>1. m % RECEIVE_RING_LENGTH = n % RECEIVE_RING_LENGTH
    BY DEF Slot
  <1>2. -RECEIVE_RING_LENGTH < m - n /\ m - n < RECEIVE_RING_LENGTH
    BY Ring
  <1>3. m = n
    BY <1>1, <1>2, Ring, SameRemainder
  <1> QED BY <1>3

\* The slot that is drained next, whether the job was short or not.
LEMMA DrainSlotIs ==
  ASSUME numreceived \in Nat, countdown \in Nat
  PROVE  DrainSlot = Slot(numreceived - countdown)
  <1> DEFINE m == numreceived - countdown
  <1>1. numreceived + (IF Short THEN LastSlot - numreceived ELSE 0)
          + (IF Short THEN numreceived ELSE LastSlot) - countdown + 1
        = m + RECEIVE_RING_LENGTH
    BY Ring
  <1>2. m \in Int
    OBVIOUS
  <1>3. DrainSlot = Slot(m + RECEIVE_RING_LENGTH)
    <2> HIDE DEF m
    <2> QED BY <1>1 DEF DrainSlot
  <1> HIDE DEF m
  <1>4. DrainSlot = Slot(m)
    BY <1>2, <1>3, SlotTurn
  <1> QED BY <1>4 DEF m

-----------------------------------------------------------------------------
\* What the type invariant says, with what it says of the ring.
LEMMA Types ==
  ASSUME TypeInv
  PROVE  /\ numreceived \in Nat /\ turn \in Nat /\ turn <= NumThreads /\ NumThreads \in Nat
         /\ countdown \in Nat /\ countdown <= LastSlot /\ handed \in Nat
         /\ LastSlot \in Nat /\ LastSlot = RECEIVE_RING_LENGTH - 1
         /\ RECEIVE_RING_LENGTH \in Nat /\ RECEIVE_RING_LENGTH >= 4
         /\ slotlocks \in [Slots -> [Threads -> Owners]]
         /\ subint \in [Slots -> -1 .. MaxSubints - 1]
         /\ results \in [Slots -> [Threads -> Seq(Int)]]
         /\ answers \in Seq([Threads -> Seq(Int)])
         /\ initialised \in [Threads -> BOOLEAN]
         /\ tpc \in [Threads -> {"none", "lockend", "lockfirst", "initialised", "signal",
                                 "test", "process", "locknext", "done"}]
         /\ numprocessed \in [Threads -> Nat]
         /\ \A i \in Threads : i \in Nat /\ i < NumThreads /\ numprocessed[i] \in Nat
  <1>1. CoreTypeOK /\ MaxSubints \in Nat /\ NumThreads \in Nat /\ RECEIVE_RING_LENGTH \in Nat
        /\ RECEIVE_RING_LENGTH >= 4 /\ LastSlot = RECEIVE_RING_LENGTH - 1
    BY Ring DEF TypeInv
  <1>2. numprocessed \in [Threads -> Nat]
    BY <1>1 DEF CoreTypeOK
  <1>3. \A i \in Threads : i \in Nat /\ i < NumThreads
    BY Ring
  <1>4. /\ numreceived \in Nat /\ turn \in Nat /\ turn <= NumThreads
        /\ countdown \in Nat /\ countdown <= LastSlot /\ handed \in Nat
    BY <1>1 DEF CoreTypeOK
  <1>5. /\ slotlocks \in [Slots -> [Threads -> Owners]]
        /\ subint \in [Slots -> -1 .. MaxSubints - 1]
        /\ initialised \in [Threads -> BOOLEAN]
        /\ tpc \in [Threads -> {"none", "lockend", "lockfirst", "initialised", "signal",
                                "test", "process", "locknext", "done"}]
    BY <1>1 DEF CoreTypeOK
  <1> QED BY <1>1, <1>2, <1>3, <1>4, <1>5 DEF TypeInv

\* What a step of a thread may change of the main thread's state.
LEMMA ThreadStep ==
  ASSUME NEW k \in Threads, Thread(k)
  PROVE  /\ UNCHANGED <<outside, numreceived, turn, countdown, subint, keepprocessing>>
         /\ mainpc' = mainpc \/ (mainpc = "asleep" /\ mainpc' = "woken")
  <1> USE DEF outside, slots, mains
  <1>1. CASE LockEnd(k) \/ LockFirst(k) \/ SetInitialised(k)
    BY <1>1 DEF LockEnd, LockFirst, SetInitialised
  <1>2. CASE Signal(k)
    BY <1>2 DEF Signal
  <1>3. CASE TestKeepProcessing(k) \/ Process(k) \/ ThreadNext(k)
    BY <1>3 DEF TestKeepProcessing, Process, ThreadNext
  <1> QED BY <1>1, <1>2, <1>3 DEF Thread

\* Subints have a slot, and there are no more than the job has.
LEMMA InRing ==
  ASSUME TypeInv, Inv
  PROVE  /\ Slot(numreceived) \in Slots /\ Slot(numreceived + 1) \in Slots
         /\ \A i \in Threads : /\ Slot(numprocessed[i]) \in Slots
                               /\ Slot(numprocessed[i] + 1) \in Slots
         /\ numreceived <= MaxSubints
         /\ mainpc \in {"fillnext", "next"} => numreceived < MaxSubints
         /\ \A i \in Threads :
              tpc[i] \in {"process", "locknext"} => numprocessed[i] < MaxSubints
         /\ mainpc = "drain" => DrainSlot \in Slots
  <1>1. /\ numreceived \in Nat /\ handed \in Nat /\ handed <= MaxSubints /\ countdown \in Nat
        /\ \A i \in Threads : numprocessed[i] \in Nat
    BY Ring DEF TypeInv, CoreTypeOK
  <1>2. PhaseInv /\ PosInv
    BY DEF Inv
  <1>3. /\ numreceived <= MaxSubints
        /\ mainpc \in {"fillnext", "next"} => numreceived < MaxSubints
        /\ \A i \in Threads :
             tpc[i] \in {"process", "locknext"} => numprocessed[i] < MaxSubints
    BY <1>1, <1>2, Ring DEF PhaseInv, PosInv, PosOf
  <1>4. /\ numreceived + 1 \in Int /\ numreceived - countdown \in Int
        /\ \A i \in Threads : numprocessed[i] + 1 \in Int
    BY <1>1
  <1>5. DrainSlot \in Slots
    BY <1>1, <1>4, DrainSlotIs, SlotRange
  <1> QED BY <1>1, <1>3, <1>4, <1>5, SlotRange

\* What the results and the answers consist of.
LEMMA ResultsTypeStep ==
  ASSUME TypeInv, Inv, Next
  PROVE  /\ results' \in [Slots -> [Threads -> Seq(Int)]]
         /\ answers' \in Seq([Threads -> Seq(Int)])
  <1> DEFINE R == [Threads -> Seq(Int)]
  <1>a. results \in [Slots -> R] /\ answers \in Seq(R) /\ NoResults \in R
    BY DEF TypeInv, NoResults
  <1>1. CASE Send
    <2>1. results[Slot(numreceived)] \in R
      BY <1>a, InRing
    <2>2. Append(answers, results[Slot(numreceived)]) \in Seq(R)
      BY <1>a, <2>1, AppendProperties
    <2> QED BY <1>1, <1>a, <2>2 DEF Send, slots
  <1>2. CASE DrainSend
    <2>1. results[DrainSlot] \in R
      BY <1>2, <1>a, InRing DEF DrainSend
    <2>2. Append(answers, results[DrainSlot]) \in Seq(R)
      BY <1>a, <2>1, AppendProperties
    <2> QED BY <1>2, <1>a, <2>2 DEF DrainSend, slots
  <1>3. CASE Zero
    <2>1. results' = [results EXCEPT ![Slot(numreceived)] = NoResults] /\ answers' = answers
      BY <1>3 DEF Zero, outside
    <2> QED BY <1>a, <2>1
  <1>4. ASSUME NEW k \in Threads, Process(k)
        PROVE  results' \in [Slots -> R] /\ answers' \in Seq(R)
    <2>1. Current(k) \in Slots /\ subint[Current(k)] \in Int
      <3>1. subint \in [Slots -> -1 .. MaxSubints - 1] /\ MaxSubints \in Nat
        BY Ring DEF TypeInv, CoreTypeOK
      <3>2. Current(k) \in Slots
        BY InRing DEF Current
      <3> QED BY <3>1, <3>2
    <2>2. results[Current(k)] \in [Threads -> Seq(Int)]
            /\ results[Current(k)][k] \in Seq(Int)
      BY <1>a, <2>1
    <2>3. Append(results[Current(k)][k], subint[Current(k)]) \in Seq(Int)
      BY <2>1, <2>2, AppendProperties
    <2>4. results' = [results EXCEPT ![Current(k)] =
                        [results[Current(k)] EXCEPT ![k] =
                           Append(results[Current(k)][k], subint[Current(k)])]]
      BY <1>4 DEF Process
    <2>5. [results[Current(k)] EXCEPT ![k] =
             Append(results[Current(k)][k], subint[Current(k)])] \in R
      BY <2>2, <2>3
    <2> HIDE DEF R
    <2> QED BY <1>a, <1>4, <2>4, <2>5 DEF Process, outside
  <1>5. CASE UNCHANGED <<results, answers>>
    BY <1>a, <1>5
  <1>6. ASSUME NEW k \in Threads, Thread(k), ~Process(k)
        PROVE  UNCHANGED <<results, answers>>
    BY <1>6 DEF Thread, LockEnd, LockFirst, SetInitialised, Signal, TestKeepProcessing,
                ThreadNext, outside, slots
  <1>7. CASE Manager \/ Spurious \/ Done
    BY <1>5, <1>7 DEF Manager, Hand, End, Spurious, Done, vars, outside, slots
  <1>8. CASE ReceiveSubint \/ LockNextSlot \/ UnlockSlot \/ ReceiveTerminate
    BY <1>5, <1>8 DEF ReceiveSubint, LockNextSlot, UnlockSlot, ReceiveTerminate, outside
  <1>9. CASE NothingToDo \/ Launch \/ TestInitialised \/ Wait \/ Return \/ Launched
    BY <1>5, <1>9 DEF NothingToDo, Launch, TestInitialised, Wait, Return, Launched,
                      outside, slots
  <1>10. CASE Shutdown \/ DrainWait \/ Join
    BY <1>5, <1>10 DEF Shutdown, DrainWait, Join, outside, slots
  <1> QED BY <1>1, <1>2, <1>3, <1>4, <1>5, <1>6, <1>7, <1>8, <1>9, <1>10 DEF Next, Main

\* The types of what the main thread and the manager have to themselves.
MainTypes ==
  /\ handed \in 0 .. MaxSubints /\ ended \in BOOLEAN /\ spurious \in BOOLEAN
  /\ subint \in [Slots -> -1 .. MaxSubints - 1]
  /\ keepprocessing \in [Slots -> BOOLEAN]
  /\ numreceived \in 0 .. MaxSubints
  /\ mainpc \in {"fill", "fillnext", "filled", "test", "wait", "asleep", "woken",
                 "loop", "next", "send", "zero", "shutdown", "drain", "done"}
  /\ turn \in 0 .. NumThreads /\ countdown \in 0 .. LastSlot

\* The types of what the threads use too.
ThreadTypes ==
  /\ slotlocks \in [Slots -> [Threads -> Owners]]
  /\ initialised \in [Threads -> BOOLEAN]
  /\ tpc \in [Threads -> {"none", "lockend", "lockfirst", "initialised", "signal",
                          "test", "process", "locknext", "done"}]
  /\ numprocessed \in [Threads -> 0 .. MaxSubints]

LEMMA MainTypesStep == ASSUME TypeInv, Inv, Next PROVE MainTypes'
  <1> USE DEF MainTypes
  <1>a. MainTypes /\ LastSlot \in Nat /\ NumThreads \in Nat /\ MaxSubints \in Nat
        /\ RECEIVE_RING_LENGTH \in Nat /\ LastSlot = RECEIVE_RING_LENGTH - 1
    BY Ring DEF TypeInv, CoreTypeOK
  <1>b. PhaseInv
    BY DEF Inv
  <1>c. /\ Slot(numreceived) \in Slots /\ numreceived <= MaxSubints
        /\ mainpc \in {"fillnext", "next"} => numreceived < MaxSubints
    BY InRing
  <1>1. CASE Hand
    BY <1>a, <1>1 DEF Hand, slots, mains
  <1>12. CASE End
    BY <1>a, <1>12 DEF End, slots, mains
  <1>10. CASE Spurious \/ Done
    BY <1>a, <1>10 DEF Spurious, Done, vars, outside, slots, mains
  <1>2. CASE ReceiveSubint
    <2>1. numreceived < MaxSubints
      BY <1>a, <1>2 DEF ReceiveSubint
    <2> QED BY <1>a, <1>c, <1>2, <2>1 DEF ReceiveSubint, outside
  <1>3. CASE LockNextSlot \/ UnlockSlot
    BY <1>a, <1>c, <1>3 DEF LockNextSlot, UnlockSlot, outside
  <1>4. CASE ReceiveTerminate
    BY <1>a, <1>c, <1>4 DEF ReceiveTerminate, outside
  <1>11. CASE NothingToDo \/ Launch
    BY <1>a, <1>11 DEF NothingToDo, Launch, outside
  <1>5. CASE TestInitialised \/ Wait \/ Return \/ Launched
    BY <1>a, <1>5 DEF TestInitialised, Wait, Return, Launched, outside, slots
  <1>6. CASE Send \/ Zero
    BY <1>a, <1>6 DEF Send, Zero, slots, outside
  <1>7. CASE Shutdown
    BY <1>a, <1>7 DEF Shutdown, Short, outside
  <1>8. CASE DrainWait \/ DrainSend \/ Join
    BY <1>a, <1>8 DEF DrainWait, DrainSend, Join, outside, slots
  <1>9. ASSUME NEW k \in Threads, Thread(k) PROVE MainTypes'
    BY <1>a, <1>9, ThreadStep DEF outside
  <1> QED BY <1>1, <1>2, <1>3, <1>4, <1>5, <1>6, <1>7, <1>8, <1>9, <1>10, <1>11, <1>12
      DEF Next, Main, Manager

LEMMA ThreadTypesStep == ASSUME TypeInv, Inv, Next PROVE ThreadTypes'
  <1> USE DEF ThreadTypes
  <1>a. ThreadTypes /\ turn \in 0 .. NumThreads /\ NumThreads \in Nat
        /\ \A i \in Threads : i \in Nat /\ i < NumThreads
    BY Ring DEF TypeInv, CoreTypeOK
  <1>b. /\ Slot(numreceived) \in Slots /\ Slot(numreceived + 1) \in Slots
        /\ LastSlot \in Slots /\ LastSlot - 1 \in Slots /\ 0 \in Slots
    BY InRing, Ring
  <1>c. \A who \in Owners, s \in Slots, l \in [Slots -> [Threads -> Owners]] :
          [l EXCEPT ![s] = [i \in Threads |-> who]] \in [Slots -> [Threads -> Owners]]
    OBVIOUS
  <1>d. {"free", "main", "thread"} = Owners
    BY DEF Owners
  <1>1. CASE Manager \/ Spurious \/ Done
    BY <1>a, <1>1 DEF Manager, Hand, End, Spurious, Done, vars, outside, slots, threads
  <1>2. CASE ReceiveSubint \/ ReceiveTerminate \/ TestInitialised
    BY <1>a, <1>2 DEF ReceiveSubint, ReceiveTerminate, TestInitialised, slots, threads
  <1>3. CASE LockNextSlot \/ Wait \/ Return
    BY <1>a, <1>b, <1>d, <1>3 DEF LockNextSlot, Wait, Return, threads
  <1>4. CASE UnlockSlot
    BY <1>a, <1>b, <1>c, <1>d, <1>4 DEF UnlockSlot, Give, threads
  <1>12. CASE Launched
    BY <1>a, <1>b, <1>c, <1>d, <1>12 DEF Launched, Give, threads
  <1>11. CASE NothingToDo
    BY <1>a, <1>b, <1>c, <1>d, <1>11 DEF NothingToDo, Give, threads
  <1>5. CASE Launch
    BY <1>a, <1>d, <1>5 DEF Launch
  <1>6. CASE Shutdown
    BY <1>a, <1>b, <1>c, <1>d, <1>6 DEF Shutdown, Give, threads
  <1>7. CASE Send \/ Zero \/ DrainWait \/ DrainSend \/ Join
    BY <1>a, <1>7 DEF Send, Zero, DrainWait, DrainSend, Join, slots, threads
  <1>8. ASSUME NEW k \in Threads,
               LockEnd(k) \/ LockFirst(k) \/ SetInitialised(k) \/ Signal(k) \/ Process(k)
        PROVE  ThreadTypes'
    <2>1. CASE LockEnd(k)
      BY <1>a, <1>b, <1>d, <2>1 DEF LockEnd
    <2>2. CASE LockFirst(k)
      BY <1>a, <1>b, <1>d, <2>2 DEF LockFirst
    <2>3. CASE SetInitialised(k) \/ Signal(k) \/ Process(k)
      BY <1>a, <2>3 DEF SetInitialised, Signal, Process, slots
    <2> QED BY <1>8, <2>1, <2>2, <2>3
  <1>9. ASSUME NEW k \in Threads, TestKeepProcessing(k) PROVE ThreadTypes'
    <2>1. Current(k) \in Slots
      BY InRing DEF Current
    <2> QED BY <1>a, <1>d, <1>9, <2>1 DEF TestKeepProcessing, slots, threads
  <1>10. ASSUME NEW k \in Threads, ThreadNext(k) PROVE ThreadTypes'
    <2>1. Current(k) \in Slots /\ Slot(numprocessed[k] + 1) \in Slots
          /\ numprocessed[k] + 1 \in 0 .. MaxSubints
      BY <1>a, <1>10, InRing, Ring DEF Current, ThreadNext
    <2> QED BY <1>a, <1>d, <1>10, <2>1 DEF ThreadNext
  <1> QED BY <1>1, <1>2, <1>3, <1>4, <1>5, <1>6, <1>7, <1>8, <1>9, <1>10, <1>11, <1>12
      DEF Next, Main, Thread

LEMMA TypeStep == ASSUME TypeInv, Inv, Next PROVE TypeInv'
  <1>1. MainTypes' /\ ThreadTypes'
    BY MainTypesStep, ThreadTypesStep
  <1>2. /\ results' \in [Slots -> [Threads -> Seq(Int)]]
        /\ answers' \in Seq([Threads -> Seq(Int)])
    BY ResultsTypeStep
  <1> QED BY <1>1, <1>2 DEF MainTypes, ThreadTypes, TypeInv, CoreTypeOK

\* The job is as far as PhaseInv says.
LEMMA PhaseStep == ASSUME TypeInv, Inv, Next PROVE PhaseInv'
  <1> USE Types DEF PhaseInv, Over, Launching, Short
  <1>a. PhaseInv
    BY DEF Inv
  <1>1. CASE Hand
    BY <1>a, <1>1 DEF Hand, mains
  <1>13. CASE End
    BY <1>a, <1>13 DEF End, mains
  <1>2. CASE Spurious \/ Done
    BY <1>a, <1>2 DEF Spurious, Done, vars, outside, mains
  <1>9. CASE ReceiveSubint
    BY <1>a, <1>9 DEF ReceiveSubint, Filling, outside
  <1>10. CASE LockNextSlot
    BY <1>a, <1>10 DEF LockNextSlot, outside
  <1>11. CASE UnlockSlot
    BY <1>a, <1>11 DEF UnlockSlot, outside
  <1>3. CASE ReceiveTerminate
    BY <1>a, <1>3 DEF ReceiveTerminate, Filling, outside
  <1>14. CASE NothingToDo \/ Launch
    BY <1>a, <1>14 DEF NothingToDo, Launch, outside
  <1>4. CASE TestInitialised
    BY <1>a, <1>4 DEF TestInitialised, outside, slots, threads
  <1>5. CASE Wait \/ Return
    BY <1>a, <1>5 DEF Wait, Return, outside
  <1>12. CASE Launched
    BY <1>a, <1>12 DEF Launched, outside
  <1>6. CASE Send \/ Zero \/ Shutdown
    BY <1>a, <1>6 DEF Send, Zero, Shutdown, outside, slots, threads
  <1>7. CASE DrainWait \/ DrainSend \/ Join
    BY <1>a, <1>7 DEF DrainWait, DrainSend, Join, outside
  <1>8. ASSUME NEW k \in Threads, Thread(k) PROVE PhaseInv'
    BY <1>a, <1>8, ThreadStep DEF outside
  <1> QED BY <1>1, <1>2, <1>3, <1>4, <1>5, <1>6, <1>7, <1>8, <1>9, <1>10, <1>11, <1>12,
             <1>13, <1>14
      DEF Next, Manager, Main

\* A flag is down exactly in the slot CR_TERMINATE arrived in.
LEMMA KeepStep == ASSUME TypeInv, Inv, Next PROVE KeepInv'
  <1> USE Ring, SlotRange DEF TypeInv, CoreTypeOK, Inv, PhaseInv, KeepInv, Over,
                              Launching, Short
  <1>1. CASE Hand \/ End \/ Spurious \/ Done
    BY <1>1 DEF Hand, End, Spurious, Done, vars, outside, slots, mains, threads
  <1>2. CASE ReceiveSubint \/ LockNextSlot \/ UnlockSlot
    BY <1>2 DEF ReceiveSubint, LockNextSlot, UnlockSlot, Filling, outside, threads
  <1>3. CASE ReceiveTerminate \/ NothingToDo \/ Launch
    BY <1>3 DEF ReceiveTerminate, NothingToDo, Launch, Filling, outside, threads
  <1>4. CASE TestInitialised
    BY <1>4 DEF TestInitialised, outside, slots, threads
  <1>5. CASE Wait \/ Return
    BY <1>5 DEF Wait, Return, outside
  <1>9. CASE Launched
    BY <1>9 DEF Launched, outside
  <1>6. CASE Send \/ Zero \/ Shutdown
    BY <1>6 DEF Send, Zero, Shutdown, outside, slots, threads
  <1>7. CASE DrainWait \/ DrainSend \/ Join
    BY <1>7 DEF DrainWait, DrainSend, Join, outside, slots, threads
  <1>8. ASSUME NEW k \in Threads, Thread(k) PROVE KeepInv'
    BY <1>8, ThreadStep DEF outside
  <1> QED BY <1>1, <1>2, <1>3, <1>4, <1>5, <1>6, <1>7, <1>8, <1>9
      DEF Next, Manager, Main

\* The mutexes are where LocksInv says.
LEMMA LocksStep == ASSUME TypeInv, Inv, Next PROVE LocksInv'
  <1> SUFFICES ASSUME NEW s \in Slots, NEW i \in Threads PROVE LockOf(s, i)'
    BY DEF LocksInv
  <1> USE DEF LockOf, MainHas, ThreadHas, AtSlot, Running, Current, Launching, Short
  <1> DEFINE n == numreceived
  <1>a. LockOf(s, i) /\ PosOf(i) /\ StartOf(i)
    BY DEF Inv, LocksInv, PosInv, StartInv
  <1>b. /\ n \in Nat /\ turn \in Nat /\ turn <= NumThreads
        /\ i \in Nat /\ i < NumThreads /\ NumThreads \in Nat
        /\ slotlocks \in [Slots -> [Threads -> Owners]]
        /\ tpc \in [Threads -> {"none", "lockend", "lockfirst", "initialised", "signal",
                                "test", "process", "locknext", "done"}]
        /\ numprocessed \in [Threads -> Nat]
    BY Types
  <1>c. Slot(n) \in Slots /\ Slot(n + 1) \in Slots /\ Slot(n) # Slot(n + 1)
    BY <1>b, Ring, SlotRange, SlotDiffers
  <1>d. LastSlot \in Slots /\ LastSlot - 1 \in Slots /\ 0 \in Slots
        /\ LastSlot # LastSlot - 1 /\ LastSlot # 0
    BY Ring
  <1>1. CASE Hand \/ End \/ Spurious \/ Done
    BY <1>1, <1>a, <1>b DEF Hand, End, Spurious, Done, vars, slots, mains, threads
  <1>2. CASE Launch \/ TestInitialised \/ Return
    BY <1>2, <1>a, <1>b, <1>d DEF Launch, TestInitialised, Return, outside, slots, threads
  <1>3. CASE Send \/ Zero \/ Shutdown
    BY <1>3, <1>a, <1>b, <1>c, <1>d DEF Send, Zero, Shutdown, Give, slots, threads
  <1>4. CASE DrainWait \/ DrainSend \/ Join
    BY <1>4, <1>a, <1>b DEF DrainWait, DrainSend, Join, slots, threads
  <1>5. ASSUME NEW k \in Threads, LockEnd(k) \/ SetInitialised(k) \/ Process(k)
        PROVE  LockOf(s, i)'
    BY <1>5, <1>a, <1>b, <1>d DEF LockEnd, SetInitialised, Process, slots, mains
  <1>6. CASE ReceiveSubint
    BY <1>6, <1>a, <1>b, <1>c, <1>d DEF ReceiveSubint, Filling, outside, threads
  <1>7. CASE LockNextSlot
    <2>1. CASE s = Slot(n + 1) /\ i = turn
      BY <2>1, <1>7, <1>a, <1>b, <1>c DEF LockNextSlot, outside, threads
    <2>2. CASE ~(s = Slot(n + 1) /\ i = turn)
      <3>1. slotlocks'[s][i] = slotlocks[s][i]
        BY <2>2, <1>7, <1>b, <1>c DEF LockNextSlot
      <3> QED BY <3>1, <2>2, <1>7, <1>a, <1>b, <1>c DEF LockNextSlot, outside, threads
    <2> QED BY <2>1, <2>2
  <1>8. CASE UnlockSlot
    <2>1. slotlocks'[s][i] = IF s = Slot(n) THEN "free" ELSE slotlocks[s][i]
      BY <1>8, <1>b, <1>c DEF UnlockSlot, Give
    <2> QED BY <2>1, <1>8, <1>a, <1>b, <1>c, <1>d DEF UnlockSlot, outside, threads
  <1>9. CASE ReceiveTerminate
    <2>1. mainpc = "loop" => ~Short
      BY Ring, <1>b DEF Inv, PhaseInv
    <2>2. /\ UNCHANGED <<slotlocks, numreceived, turn, tpc, numprocessed>>
          /\ \/ mainpc = "fill" /\ mainpc' = "filled"
             \/ mainpc = "loop" /\ mainpc' = "shutdown"
      BY <1>9 DEF ReceiveTerminate, Filling, threads
    <2> QED BY <2>1, <2>2, <1>a
  <1>10. CASE NothingToDo
    <2>1. Slot(0) = 0
      BY <1>d, SlotFirst
    <2>2. slotlocks'[s][i] = IF s = 0 THEN "free" ELSE slotlocks[s][i]
      BY <1>10, <1>b, <1>d DEF NothingToDo, Give
    <2> QED BY <2>1, <2>2, <1>10, <1>a, <1>b, <1>c, <1>d DEF NothingToDo, outside, threads
  <1>11. CASE Wait
    <2>1. slotlocks'[s][i] = IF s = LastSlot /\ i = turn THEN "free" ELSE slotlocks[s][i]
      BY <1>11, <1>b, <1>d DEF Wait
    <2> QED BY <2>1, <1>11, <1>a, <1>b, <1>c, <1>d DEF Wait, outside, threads
  <1>12. CASE Launched
    <2>1. Slot(LastSlot) = LastSlot
      BY <1>d, SlotFirst
    <2>2. ~Short => n = LastSlot
      BY <1>12, <1>b, Ring DEF Launched, Inv, PhaseInv
    <2>3. slotlocks'[s][i] = IF s = LastSlot - 1 THEN "free" ELSE slotlocks[s][i]
      BY <1>12, <1>b, <1>d DEF Launched, Give
    <2> QED BY <2>1, <2>2, <2>3, <1>12, <1>a, <1>b, <1>c, <1>d DEF Launched, outside, threads
  <1>13. ASSUME NEW k \in Threads, LockFirst(k) PROVE LockOf(s, i)'
    <2>1. numprocessed[k] = 0 /\ Slot(0) = 0
      BY <1>13, <1>d, SlotFirst DEF LockFirst, Inv, StartInv, StartOf
    <2>2. slotlocks'[s][i] = IF i # k THEN slotlocks[s][i]
                             ELSE IF s = 0 THEN "thread"
                             ELSE IF s = LastSlot THEN "free" ELSE slotlocks[s][i]
      BY <1>13, <1>b, <1>d DEF LockFirst
    <2> QED BY <2>1, <2>2, <1>13, <1>a, <1>b, <1>c, <1>d DEF LockFirst, outside, mains
  <1>14. ASSUME NEW k \in Threads, Signal(k) PROVE LockOf(s, i)'
    BY <1>14, <1>a, <1>b, <1>c, <1>d DEF Signal, outside, slots
  <1>15. ASSUME NEW k \in Threads, TestKeepProcessing(k) PROVE LockOf(s, i)'
    <2>1. Slot(numprocessed[k]) \in Slots
      BY <1>b, SlotRange
    <2>2. CASE keepprocessing[Current(k)]
      BY <2>1, <2>2, <1>15, <1>a, <1>b, <1>c, <1>d DEF TestKeepProcessing, outside, mains
    <2>3. CASE ~keepprocessing[Current(k)]
      <3>1. slotlocks'[s][i] = IF i = k /\ s = Current(k) THEN "free" ELSE slotlocks[s][i]
        BY <2>1, <2>3, <1>15, <1>b DEF TestKeepProcessing
      <3> QED BY <3>1, <2>1, <2>3, <1>15, <1>a, <1>b, <1>c, <1>d
          DEF TestKeepProcessing, outside, mains
    <2> QED BY <2>2, <2>3
  <1>16. ASSUME NEW k \in Threads, ThreadNext(k) PROVE LockOf(s, i)'
    <2> DEFINE p == numprocessed[k]
    <2>1. Slot(p) \in Slots /\ Slot(p + 1) \in Slots /\ Slot(p) # Slot(p + 1)
      BY <1>b, Ring, SlotRange, SlotDiffers
    <2>2. slotlocks'[s][i] = IF i # k THEN slotlocks[s][i]
                             ELSE IF s = Slot(p) THEN "free"
                             ELSE IF s = Slot(p + 1) THEN "thread" ELSE slotlocks[s][i]
      BY <1>16, <1>b, <2>1 DEF ThreadNext
    <2> QED BY <2>1, <2>2, <1>16, <1>a, <1>b, <1>c, <1>d DEF ThreadNext, outside, mains
  <1> QED BY <1>1, <1>2, <1>3, <1>4, <1>5, <1>6, <1>7, <1>8, <1>9, <1>10,
            <1>11, <1>12, <1>13, <1>14, <1>15, <1>16
      DEF Next, Manager, Main, Thread

\* The threads start one after the other.
LEMMA StartStep == ASSUME TypeInv, Inv, Next PROVE StartInv'
  <1> SUFFICES ASSUME NEW i \in Threads PROVE StartOf(i)'
    BY DEF StartInv
  <1> USE DEF StartOf, Launching
  <1>a. StartOf(i)
    BY DEF Inv, StartInv
  <1>b. /\ i \in Nat /\ i < NumThreads /\ NumThreads \in Nat /\ numreceived \in Nat /\ turn \in Nat
        /\ tpc \in [Threads -> {"none", "lockend", "lockfirst", "initialised", "signal",
                                "test", "process", "locknext", "done"}]
        /\ initialised \in [Threads -> BOOLEAN] /\ numprocessed \in [Threads -> Nat]
    BY Types DEF TypeInv, CoreTypeOK
  <1>c. PhaseInv
    BY DEF Inv
  <1>1. CASE Hand \/ End \/ Spurious \/ Done
    BY <1>a, <1>b, <1>1 DEF Hand, End, Spurious, Done, vars, slots, mains, threads
  <1>2. CASE ReceiveSubint \/ LockNextSlot \/ UnlockSlot
    BY <1>a, <1>b, <1>2 DEF ReceiveSubint, LockNextSlot, UnlockSlot, Filling, threads
  <1>3. CASE ReceiveTerminate \/ NothingToDo
    BY <1>a, <1>b, <1>c, <1>3 DEF ReceiveTerminate, NothingToDo, Filling, PhaseInv, threads
  <1>4. CASE Launch
    BY <1>a, <1>b, <1>c, <1>4 DEF PhaseInv, Launch
  <1>5. CASE TestInitialised
    <2>1. CASE initialised[turn]
      BY <1>a, <1>b, <1>5, <2>1 DEF TestInitialised, threads
    <2>2. CASE ~initialised[turn]
      BY <1>a, <1>b, <1>5, <2>2 DEF TestInitialised, threads
    <2> QED BY <2>1, <2>2
  <1>6. CASE Wait \/ Return
    BY <1>a, <1>b, <1>6 DEF Wait, Return, threads
  <1>7. CASE Launched
    BY <1>a, <1>b, <1>c, <1>7 DEF PhaseInv, Short, Launched, threads
  <1>8. CASE Send \/ Zero \/ Shutdown
    BY <1>a, <1>b, <1>8 DEF Send, Zero, Shutdown, threads
  <1>9. CASE DrainWait \/ DrainSend
    BY <1>a, <1>b, <1>9 DEF DrainWait, DrainSend, threads
  <1>10. CASE Join
    BY <1>a, <1>b, <1>c, <1>10 DEF PhaseInv, Join, threads
  <1>11. ASSUME NEW k \in Threads, LockEnd(k) PROVE StartOf(i)'
    <2>1. ~(Launching /\ k > turn)
      <3>1. LockOf(LastSlot, k) /\ slotlocks[LastSlot][k] = "free"
        BY Ring, <1>11 DEF Inv, LocksInv, LockEnd
      <3>2. k \in Nat /\ k < NumThreads
        BY Ring
      <3> QED BY <1>b, <3>1, <3>2 DEF LockOf, MainHas
    <2> QED BY <1>a, <1>b, <1>11, <2>1 DEF LockEnd, mains
  <1>12. ASSUME NEW k \in Threads, LockFirst(k) \/ SetInitialised(k) \/ Process(k)
         PROVE  StartOf(i)'
    BY <1>a, <1>b, <1>12 DEF LockFirst, SetInitialised, Process, mains
  <1>13. ASSUME NEW k \in Threads, Signal(k) PROVE StartOf(i)'
    BY <1>a, <1>b, <1>13 DEF Signal
  <1>14. ASSUME NEW k \in Threads, TestKeepProcessing(k) PROVE StartOf(i)'
    <2>1. tpc[k] = "test" /\ tpc' \in {[tpc EXCEPT ![k] = "process"], [tpc EXCEPT ![k] = "done"]}
      BY <1>14 DEF TestKeepProcessing
    <2> QED BY <1>a, <1>b, <1>14, <2>1 DEF TestKeepProcessing, mains
  <1>15. ASSUME NEW k \in Threads, ThreadNext(k) PROVE StartOf(i)'
    BY <1>a, <1>b, <1>15 DEF ThreadNext, mains
  <1> QED BY <1>1, <1>2, <1>3, <1>4, <1>5, <1>6, <1>7, <1>8, <1>9, <1>10, <1>11, <1>12,
             <1>13, <1>14, <1>15 DEF Next, Manager, Main, Thread

\* A thread that has a slot is not where the main thread is.
LEMMA Apart ==
  ASSUME TypeInv, Inv, NEW i \in Threads, NEW m \in Int,
         slotlocks[Slot(m)][i] = "free"
  PROVE  /\ Running(i) => Slot(numprocessed[i]) # Slot(m)
         /\ ~MainHas(Slot(m), i)
  <1>1. LockOf(Slot(m), i)
    BY SlotRange DEF Inv, LocksInv
  <1> QED BY <1>1 DEF LockOf, ThreadHas, Current

\* A thread gets neither past the main thread nor a turn behind it.
LEMMA PosStep == ASSUME TypeInv, Inv, Next PROVE PosInv'
  <1> SUFFICES ASSUME NEW i \in Threads PROVE PosOf(i)'
    BY DEF PosInv
  <1> DEFINE n == numreceived
             p == numprocessed[i]
  <1> USE DEF PosOf, Over, Launching, Short
  <1>a. StartOf(i) /\ PosOf(i)
    BY DEF Inv, StartInv, PosInv
  <1>b. /\ i \in Nat /\ i < NumThreads /\ n \in Nat /\ turn \in Nat /\ countdown \in Nat
        /\ p \in Nat
        /\ tpc \in [Threads -> {"none", "lockend", "lockfirst", "initialised", "signal",
                                "test", "process", "locknext", "done"}]
        /\ mainpc \in {"fill", "fillnext", "filled", "test", "wait", "asleep", "woken",
                       "loop", "next", "send", "zero", "shutdown", "drain", "done"}
        /\ numprocessed \in [Threads -> Nat]
        /\ RECEIVE_RING_LENGTH \in Nat /\ RECEIVE_RING_LENGTH >= 4
        /\ LastSlot = RECEIVE_RING_LENGTH - 1 /\ countdown <= LastSlot
    BY Types DEF TypeInv, CoreTypeOK
  <1>c. PhaseInv /\ turn <= NumThreads
    BY DEF Inv, TypeInv, CoreTypeOK
  <1>1. CASE Hand \/ End \/ Spurious \/ Done
    BY <1>a, <1>b, <1>1 DEF Hand, End, Spurious, Done, vars, slots, mains, threads, Running
  <1>2. CASE ReceiveSubint
    BY <1>a, <1>b, <1>c, <1>2 DEF PhaseInv, ReceiveSubint, Filling, threads, Running
  <1>3. CASE LockNextSlot
    <2>1. CASE mainpc = "next" /\ i = turn
      <3>1. Running(i)
        BY <1>a, <1>b, <2>1 DEF StartOf, Running
      <3>2. Slot(p) # Slot(n + 1)
        <4> DEFINE m == n + 1
        <4>1. m \in Int /\ slotlocks[Slot(m)][i] = "free"
          BY <1>b, <1>3, <2>1 DEF LockNextSlot
        <4> HIDE DEF m
        <4>2. Slot(p) # Slot(m)
          BY <3>1, <4>1, Apart
        <4> QED BY <4>2 DEF m
      <3>3. Slot(n + 1) = Slot(n + 1 - RECEIVE_RING_LENGTH)
        <4>1. n + 1 - RECEIVE_RING_LENGTH \in Int
                /\ (n + 1 - RECEIVE_RING_LENGTH) + RECEIVE_RING_LENGTH = n + 1
          BY <1>b
        <4> QED BY <4>1, SlotTurn
      <3>4. p # n + 1 - RECEIVE_RING_LENGTH
        BY <3>2, <3>3
      <3> QED BY <1>a, <1>b, <1>3, <2>1, <3>4 DEF LockNextSlot, threads, Running
    <2>2. CASE ~(mainpc = "next" /\ i = turn)
      BY <1>a, <1>b, <1>3, <2>2 DEF LockNextSlot, threads, Running
    <2> QED BY <2>1, <2>2
  <1>4. CASE UnlockSlot
    <2>1. mainpc = "fillnext" => p = 0
      BY <1>a DEF StartOf
    <2> QED BY <1>a, <1>b, <1>c, <1>4, <2>1 DEF PhaseInv, UnlockSlot, threads, Running
  <1>5. CASE ReceiveTerminate \/ NothingToDo
    BY <1>a, <1>b, <1>c, <1>5 DEF PhaseInv, ReceiveTerminate, NothingToDo, Filling, threads, Running
  <1>6. CASE Launch
    BY <1>a, <1>b, <1>c, <1>6 DEF PhaseInv, Launch, StartOf, Running
  <1>7. CASE TestInitialised
    BY <1>a, <1>b, <1>7 DEF TestInitialised, threads, Running
  <1>8. CASE Wait \/ Return \/ Launched
    BY <1>a, <1>b, <1>c, <1>8 DEF PhaseInv, Wait, Return, Launched, threads, Running
  <1>9. CASE Send \/ Zero
    BY <1>a, <1>b, <1>9 DEF Send, Zero, threads, Running
  <1>17. CASE Shutdown
    BY <1>a, <1>b, <1>c, <1>17 DEF PhaseInv, Shutdown, threads, Running
  <1>10. CASE DrainWait
    <2>1. CASE i = turn
      <3>1. slotlocks[Slot(n - countdown)][i] = "free"
        BY <1>b, <1>10, <2>1, DrainSlotIs DEF DrainWait
      <3>2. Running(i) => p # n - countdown
        <4> DEFINE m == n - countdown
        <4>1. m \in Int
          BY <1>b
        <4>2. slotlocks[Slot(m)][i] = "free"
          BY <3>1
        <4> HIDE DEF m
        <4>3. Running(i) => Slot(p) # Slot(m)
          BY <4>1, <4>2, Apart
        <4> QED BY <4>3 DEF m
      <3>3. p # n - countdown
        BY <1>a, <1>b, <1>c, <1>10, <3>2 DEF DrainWait, StartOf, Running
      <3> QED BY <1>a, <1>b, <1>c, <1>10, <2>1, <3>3 DEF DrainWait, threads, Running
    <2>2. CASE i # turn
      BY <1>a, <1>b, <1>c, <1>10, <2>2 DEF DrainWait, threads, Running
    <2> QED BY <2>1, <2>2
  <1>11. CASE DrainSend
    BY <1>a, <1>b, <1>c, <1>11 DEF PhaseInv, DrainSend, threads, Running
  <1>18. CASE Join
    BY <1>a, <1>b, <1>c, <1>18 DEF PhaseInv, Join, threads, Running
  <1>12. ASSUME NEW k \in Threads, LockEnd(k) \/ LockFirst(k) \/ SetInitialised(k)
         PROVE  PosOf(i)'
    BY <1>a, <1>b, <1>c, <1>12
    DEF PhaseInv, LockEnd, LockFirst, SetInitialised, StartOf, mains, outside, Running
  <1>13. ASSUME NEW k \in Threads, Signal(k) PROVE PosOf(i)'
    BY <1>a, <1>b, <1>13 DEF Signal, StartOf, outside, Running
  <1>14. ASSUME NEW k \in Threads, TestKeepProcessing(k) PROVE PosOf(i)'
    <2>1. CASE i = k
      <3>1. Slot(p) \in Slots /\ Slot(n) \in Slots
        BY <1>b, SlotRange
      <3>2. Slot(p) = Slot(n) => p = n
        BY <1>a, <1>b, SlotDiffers
      <3>3. CASE keepprocessing[Slot(p)]
        <4>1. p # n
          BY <1>a, <1>b, <1>14, <2>1, <3>1, <3>3 DEF Inv, KeepInv, TestKeepProcessing, Running
        <4> QED BY <1>a, <1>b, <1>14, <2>1, <3>3, <4>1
            DEF TestKeepProcessing, Current, mains, outside, Running
      <3>4. CASE ~keepprocessing[Slot(p)]
        <4>1. Over /\ p = n
          BY <3>1, <3>2, <3>4 DEF Inv, KeepInv
        <4> QED BY <1>a, <1>b, <1>14, <2>1, <3>4, <4>1
            DEF TestKeepProcessing, Current, mains, outside, Running
      <3> QED BY <3>3, <3>4
    <2>2. CASE i # k
      <3>1. tpc'[i] = tpc[i]
        BY <1>b, <1>14, <2>2 DEF TestKeepProcessing
      <3> QED BY <1>a, <1>b, <1>14, <3>1 DEF TestKeepProcessing, mains, outside, Running
    <2> QED BY <2>1, <2>2
  <1>15. ASSUME NEW k \in Threads, Process(k) PROVE PosOf(i)'
    BY <1>a, <1>b, <1>15 DEF Process, mains, outside, Running
  <1>16. ASSUME NEW k \in Threads, ThreadNext(k) PROVE PosOf(i)'
    <2>1. CASE i = k
      <3>1. p < n /\ slotlocks[Slot(p + 1)][i] = "free"
        BY <1>a, <1>b, <1>16, <2>1 DEF ThreadNext
      <3>2. ~MainHas(Slot(p + 1), i)
        <4> DEFINE m == p + 1
        <4>1. m \in Int /\ slotlocks[Slot(m)][i] = "free"
          BY <1>b, <3>1
        <4> HIDE DEF m
        <4>2. ~MainHas(Slot(m), i)
          BY <4>1, Apart
        <4> QED BY <4>2 DEF m
      <3>3. Launching => p + 1 <= LastSlot - 2
        <4>1. Slot(LastSlot - 1) = LastSlot - 1
          BY Ring, SlotFirst
        <4>2. Launching => Slot(p + 1) # LastSlot - 1
          BY <3>2 DEF MainHas
        <4> QED BY <1>a, <1>b, <4>1, <4>2
      <3>4. AtSlot => p + 1 < n
        BY <1>b, <3>1, <3>2 DEF MainHas
      <3> QED BY <1>a, <1>b, <1>c, <1>16, <2>1, <3>1, <3>3, <3>4
          DEF PhaseInv, ThreadNext, AtSlot, mains, outside, Running
    <2>2. CASE i # k
      BY <1>a, <1>b, <1>16, <2>2 DEF ThreadNext, mains, outside, Running
    <2> QED BY <2>1, <2>2
  <1> QED BY <1>1, <1>2, <1>3, <1>4, <1>5, <1>6, <1>7, <1>8, <1>9, <1>10, <1>11, <1>12,
             <1>13, <1>14, <1>15, <1>16, <1>17, <1>18
      DEF Next, Manager, Main, Thread

\* The slots of the subints in Held are different, and not that of the main thread.
LEMMA HeldApart ==
  ASSUME TypeInv, NEW m \in Held
  PROVE  /\ m \in Nat /\ Slot(m) \in Slots /\ Slot(m) # Slot(numreceived)
         /\ \A k \in Held : k # m => Slot(k) # Slot(m)
         /\ \A s \in Slots : s >= numreceived => Slot(m) # s
  <1>1. numreceived \in Nat /\ m \in Nat /\ m < numreceived
        /\ numreceived < m + RECEIVE_RING_LENGTH /\ RECEIVE_RING_LENGTH \in Nat
    BY Ring DEF TypeInv, CoreTypeOK, Held
  <1>2. Slot(m) \in Slots /\ Slot(m) # Slot(numreceived)
    BY <1>1, SlotRange, SlotDiffers
  <1>3. ASSUME NEW k \in Held, k # m PROVE Slot(k) # Slot(m)
    <2>1. k \in Nat /\ k < m + RECEIVE_RING_LENGTH /\ m < k + RECEIVE_RING_LENGTH
      BY <1>1, Ring DEF Held
    <2>2. CASE k < m
      BY <1>1, <2>1, <2>2, SlotDiffers
    <2>3. CASE m < k
      BY <1>1, <2>1, <2>3, SlotDiffers
    <2> QED BY <1>1, <1>3, <2>1, <2>2, <2>3
  <1>4. ASSUME NEW s \in Slots, s >= numreceived PROVE Slot(m) # s
    <2>1. m \in Slots /\ m < s
      BY <1>1, <1>4, Ring DEF Slots
    <2> QED BY <1>1, <2>1, SlotFirst, Ring
  <1> QED BY <1>1, <1>2, <1>3, <1>4

\* The subints are in their slots.
LEMMA SubintStep == ASSUME TypeInv, Inv, Next PROVE SubintInv'
  <1> DEFINE n == numreceived
  <1>a. /\ n \in Nat /\ LastSlot \in Nat /\ Slot(n) \in Slots
        /\ subint \in [Slots -> -1 .. MaxSubints - 1]
    BY Types, InRing
  <1>b. SubintInv
    BY DEF Inv
  <1>1. CASE ReceiveSubint
    <2>1. subint' = [subint EXCEPT ![Slot(n)] = n] /\ n' = n
      BY <1>1 DEF ReceiveSubint
    <2>2. Held' = Held
      BY <2>1 DEF Held
    <2>3. \A m \in Held : subint'[Slot(m)] = m
      BY <1>a, <1>b, <2>1, HeldApart DEF SubintInv
    <2> QED BY <1>a, <2>1, <2>2, <2>3 DEF SubintInv
  <1>2. CASE UnlockSlot
    <2>1. n' = n + 1 /\ subint' = subint /\ mainpc' \notin {"fillnext", "next"}
          /\ mainpc \in {"fillnext", "next"}
      BY <1>2 DEF UnlockSlot
    <2>2. Held' \subseteq Held \cup {n}
      BY <1>a, <2>1 DEF Held
    <2> QED BY <1>b, <2>1, <2>2 DEF SubintInv
  <1>3. CASE UNCHANGED <<subint, n>> /\ (mainpc' \in {"fillnext", "next"} => mainpc' = mainpc)
    BY <1>b, <1>3 DEF SubintInv, Held
  <1>4. CASE Manager \/ Spurious \/ Done
    BY <1>3, <1>4 DEF Manager, Hand, End, Spurious, Done, vars, outside, slots, mains
  <1>5. CASE LockNextSlot \/ ReceiveTerminate \/ NothingToDo
    BY <1>3, <1>5 DEF LockNextSlot, ReceiveTerminate, NothingToDo, slots
  <1>6. CASE Launch \/ TestInitialised \/ Wait \/ Return \/ Launched
    BY <1>3, <1>6 DEF Launch, TestInitialised, Wait, Return, Launched, slots
  <1>7. CASE Send \/ Zero \/ Shutdown
    BY <1>3, <1>7 DEF Send, Zero, Shutdown, slots
  <1>8. CASE DrainWait \/ DrainSend \/ Join
    BY <1>3, <1>8 DEF DrainWait, DrainSend, Join, slots
  <1>9. ASSUME NEW k \in Threads, Thread(k) PROVE SubintInv'
    BY <1>3, <1>9, ThreadStep
  <1> QED BY <1>1, <1>2, <1>3, <1>4, <1>5, <1>6, <1>7, <1>8, <1>9 DEF Next, Main

\* The shares that are in the slots are those of the threads that did them.
LEMMA ResultsStep == ASSUME TypeInv, Inv, Next PROVE ResultsInv'
  <1> SUFFICES ASSUME NEW i \in Threads PROVE ResultsOf(i)'
    BY DEF ResultsInv
  <1> DEFINE n == numreceived
             p == numprocessed[i]
             R == RECEIVE_RING_LENGTH
  <1>a. /\ n \in Nat /\ p \in Nat /\ R \in Nat /\ R >= 4 /\ LastSlot = R - 1
        /\ numprocessed \in [Threads -> Nat]
        /\ tpc \in [Threads -> {"none", "lockend", "lockfirst", "initialised", "signal",
                                "test", "process", "locknext", "done"}]
        /\ results \in [Slots -> [Threads -> Seq(Int)]]
        /\ Slot(n) \in Slots
    BY Types, InRing
  <1>b. ResultsOf(i) /\ PosOf(i)
    BY DEF Inv, ResultsInv, PosInv
  <1>1. CASE /\ UNCHANGED <<results, numreceived>>
             /\ \A m \in Held : Did(i, m)' <=> Did(i, m)
             /\ mainpc' \in {"send", "zero"} <=> mainpc \in {"send", "zero"}
    <2>1. Held' = Held
      BY <1>1 DEF Held
    <2> QED BY <1>b, <1>1, <2>1 DEF ResultsOf
  <1>2. CASE UnlockSlot
    <2>1. /\ n' = n + 1 /\ UNCHANGED <<results, tpc, numprocessed>> /\ turn = NumThreads
          /\ mainpc \in {"fillnext", "next"} /\ mainpc' \notin {"fillnext", "next"}
          /\ mainpc' \in {"send", "zero"} <=> mainpc = "next"
      BY <1>2 DEF UnlockSlot, threads
    <2>2. Held' \subseteq Held \cup {n}
      BY <1>a, <2>1 DEF Held
    <2>3. results[Slot(n)][i] = <<>> /\ ~Did(i, n)
      <3>1. n < R => Slot(n) = n
        BY <1>a, SlotFirst DEF Slots
      <3> QED BY <1>a, <1>b, <2>1, <3>1 DEF ResultsOf, PosOf, Did
    <2>4. \A m \in Held' : results'[Slot(m)][i] = IF Did(i, m)' THEN <<m>> ELSE <<>>
      BY <1>b, <2>1, <2>2, <2>3 DEF ResultsOf, Did
    <2>5. CASE mainpc = "fillnext"
      <3>1. n + 1 < R
        BY <1>a, <2>5 DEF Inv, PhaseInv
      <3>2. mainpc' \notin {"send", "zero"} /\ ~(n' >= R)
        BY <1>a, <2>1, <2>5, <3>1
      <3>3. \A s \in Slots : s >= n' => s >= n /\ results'[s][i] = results[s][i]
        BY <1>a, <2>1, Ring
      <3> QED BY <1>b, <2>4, <3>2, <3>3 DEF ResultsOf
    <2>6. CASE mainpc = "next"
      <3> DEFINE m == n + 1 - R
      <3>1. m \in Held /\ m + R = n + 1 /\ p > m
        BY <1>a, <1>b, <2>1, <2>6, Ring DEF Inv, PhaseInv, PosOf, Held
      <3>2. Slot(n + 1) = Slot(m)
        BY <1>a, <3>1, SlotTurn DEF Held
      <3>3. results[Slot(m)][i] = <<m>>
        <4> HIDE DEF m
        <4> QED BY <1>a, <1>b, <3>1 DEF ResultsOf, Did, Held
      <3>4. n' - R = m /\ mainpc' \in {"send", "zero"} /\ results'[Slot(n')][i] = <<m>>
        <4>1. Slot(n') = Slot(m) /\ results' = results
          BY <2>1, <3>2
        <4>2. n' - R = m /\ mainpc' \in {"send", "zero"}
          BY <1>a, <2>1, <2>6
        <4> HIDE DEF m
        <4> QED BY <3>3, <4>1, <4>2
      <3>5. \A s \in Slots : s >= n' => s >= n /\ results'[s][i] = results[s][i]
        BY <1>a, <2>1, Ring
      <3> HIDE DEF m
      <3> QED BY <1>b, <2>4, <3>4, <3>5 DEF ResultsOf
    <2> QED BY <2>1, <2>5, <2>6
  <1>3. CASE Send
    <2>1. /\ UNCHANGED <<results, numreceived, tpc, numprocessed>>
          /\ mainpc = "send" /\ mainpc' = "zero"
      BY <1>3 DEF Send, slots, threads
    <2> QED BY <1>1, <2>1 DEF Did
  <1>4. CASE Zero
    <2>1. /\ UNCHANGED <<numreceived, tpc, numprocessed>> /\ mainpc' = "loop"
          /\ results' = [results EXCEPT ![Slot(n)] = NoResults]
      BY <1>4 DEF Zero, threads
    <2>2. Held' = Held /\ \A m \in Held : results'[Slot(m)] = results[Slot(m)]
      BY <1>a, <2>1, HeldApart DEF Held
    <2>3. results'[Slot(n)][i] = <<>>
      BY <1>a, <2>1 DEF NoResults
    <2>4. \A s \in Slots : results'[s][i] \in {<<>>, results[s][i]}
      BY <1>a, <2>1 DEF NoResults
    <2> QED BY <1>a, <1>b, <2>1, <2>2, <2>3, <2>4 DEF ResultsOf, Did
  <1>5. ASSUME NEW k \in Threads, Process(k) PROVE ResultsOf(i)'
    <2> DEFINE q == numprocessed[k]
    <2>1. /\ tpc[k] = "process" /\ tpc' = [tpc EXCEPT ![k] = "locknext"]
          /\ UNCHANGED <<numreceived, mainpc, numprocessed>>
          /\ results' = [results EXCEPT ![Slot(q)] = [results[Slot(q)] EXCEPT ![k] =
                            Append(results[Slot(q)][k], subint[Slot(q)])]]
      BY <1>5 DEF Process, Current, mains
    <2>2. q \in Held /\ subint[Slot(q)] = q
      <3>1. PosOf(k) /\ SubintInv /\ q \in Nat
        BY <1>a DEF Inv, PosInv
      <3>2. q \in Held
        BY <1>a, <2>1, <3>1 DEF PosOf, Held
      <3> QED BY <3>1, <3>2 DEF SubintInv
    <2>3. CASE i = k
      <3>1. results[Slot(q)][k] = <<>>
        <4>1. ~Did(k, q)
          BY <1>a, <2>1 DEF Did
        <4> HIDE DEF q
        <4> QED BY <1>b, <2>2, <2>3, <4>1 DEF ResultsOf
      <3>2. results'[Slot(q)][i] = <<q>> /\ \A s \in Slots : s # Slot(q) => results'[s] = results[s]
        BY <1>a, <2>1, <2>2, <2>3, <3>1, HeldApart
      <3>3. Held' = Held /\ \A m \in Held : Did(i, m)' <=> Did(i, m) \/ m = q
        BY <1>a, <2>1, <2>3 DEF Held, Did
      <3>4. Did(i, q)'
        BY <1>a, <2>1, <2>3 DEF Did
      <3>5. \A m \in Held : m # q => Slot(m) \in Slots /\ Slot(m) # Slot(q)
        BY <2>2, HeldApart
      <3>6. Slot(n) # Slot(q) /\ \A s \in Slots : s >= n => s # Slot(q)
        BY <2>2, HeldApart
      <3> HIDE DEF q
      <3> QED BY <1>a, <1>b, <2>1, <2>2, <3>2, <3>3, <3>4, <3>5, <3>6 DEF ResultsOf
    <2>4. CASE i # k
      <3>1. \A s \in Slots : results'[s][i] = results[s][i]
        BY <1>a, <2>1, <2>4
      <3>2. Held' = Held /\ \A m \in Held : Slot(m) \in Slots /\ (Did(i, m)' <=> Did(i, m))
        BY <1>a, <2>1, <2>4, HeldApart DEF Held, Did
      <3> QED BY <1>a, <1>b, <2>1, <3>1, <3>2 DEF ResultsOf
    <2> QED BY <2>3, <2>4
  <1>6. ASSUME NEW k \in Threads, ThreadNext(k) PROVE ResultsOf(i)'
    <2>1. /\ tpc[k] = "locknext" /\ tpc' = [tpc EXCEPT ![k] = "test"]
          /\ numprocessed' = [numprocessed EXCEPT ![k] = @ + 1]
          /\ UNCHANGED <<numreceived, mainpc, results>>
      BY <1>6 DEF ThreadNext, mains
    <2>2. \A m \in Held : Did(i, m)' <=> Did(i, m)
      BY <1>a, <2>1 DEF Did, Held
    <2> QED BY <1>1, <2>1, <2>2
  <1>7. ASSUME NEW k \in Threads,
               LockEnd(k) \/ LockFirst(k) \/ SetInitialised(k) \/ Signal(k)
                 \/ TestKeepProcessing(k)
        PROVE  ResultsOf(i)'
    <2>1. /\ UNCHANGED <<numreceived, results, numprocessed>>
          /\ mainpc' \in {"send", "zero"} <=> mainpc \in {"send", "zero"}
      BY <1>7 DEF LockEnd, LockFirst, SetInitialised, Signal, TestKeepProcessing, slots, mains
    <2>2. tpc'[i] = "locknext" <=> tpc[i] = "locknext"
      BY <1>7, <1>a DEF LockEnd, LockFirst, SetInitialised, Signal, TestKeepProcessing
    <2> QED BY <1>1, <2>1, <2>2 DEF Did
  <1>8. CASE /\ UNCHANGED <<results, numreceived, tpc, numprocessed>>
             /\ mainpc' \in {"send", "zero"} <=> mainpc \in {"send", "zero"}
    BY <1>1, <1>8 DEF Did
  <1>9. CASE Manager \/ Spurious \/ Done
    BY <1>8, <1>9 DEF Manager, Hand, End, Spurious, Done, vars, outside, slots, mains, threads
  <1>10. CASE ReceiveSubint \/ LockNextSlot \/ ReceiveTerminate \/ NothingToDo
    BY <1>8, <1>10 DEF ReceiveSubint, LockNextSlot, ReceiveTerminate, NothingToDo,
                       Filling, threads
  <1>11. CASE Launch
    BY <1>1, <1>11, <1>a DEF Launch, Did, Inv, StartInv, StartOf
  <1>12. CASE TestInitialised \/ Wait \/ Return \/ Launched
    BY <1>8, <1>12 DEF TestInitialised, Wait, Return, Launched, slots, threads
  <1>13. CASE Shutdown \/ DrainWait \/ DrainSend \/ Join
    BY <1>8, <1>13 DEF Shutdown, DrainWait, DrainSend, Join, slots, threads
  <1> QED BY <1>2, <1>3, <1>4, <1>5, <1>6, <1>7, <1>9, <1>10, <1>11, <1>12, <1>13
      DEF Next, Main, Thread

\* Sending the results r of subint m after those before it.
LEMMA AnswerMore ==
  ASSUME TypeInv, WholeResults, NEW r, NEW m \in Int,
         r \in [Threads -> Seq(Int)], \A i \in Threads : r[i] = <<m>>,
         Len(answers) = m, answers' = Append(answers, r)
  PROVE  Len(answers') = m + 1 /\ WholeResults'
  <1>1. answers \in Seq([Threads -> Seq(Int)])
    BY DEF TypeInv
  <1>2. r = [i \in Threads |-> <<m>>]
    OBVIOUS
  <1>3. /\ Len(Append(answers, r)) = m + 1
        /\ Append(answers, r)[m + 1] = r
        /\ \A k \in 1 .. m : Append(answers, r)[k] = answers[k]
    BY <1>1, AppendProperties
  <1>4. \A k \in 1 .. m + 1 : k \in 1 .. m \/ (k = m + 1 /\ k - 1 = m)
    OBVIOUS
  <1>5. ASSUME NEW k \in 1 .. m + 1
        PROVE  Append(answers, r)[k] = [i \in Threads |-> <<k - 1>>]
    <2>1. CASE k \in 1 .. m
      BY <1>3, <2>1 DEF WholeResults
    <2>2. CASE k = m + 1 /\ k - 1 = m
      BY <1>2, <1>3, <2>2
    <2> QED BY <1>4, <2>1, <2>2
  <1> QED BY <1>3, <1>5 DEF WholeResults

\* The answers are whole, and all that should have been sent were.
LEMMA AnswersStep == ASSUME TypeInv, Inv, Next PROVE AnswersInv'
  <1> DEFINE n == numreceived
             R == RECEIVE_RING_LENGTH
  <1>a. /\ n \in Nat /\ R \in Nat /\ R >= 4 /\ LastSlot = R - 1 /\ countdown \in Nat
        /\ countdown <= LastSlot
        /\ results \in [Slots -> [Threads -> Seq(Int)]]
        /\ answers \in Seq([Threads -> Seq(Int)])
        /\ Slot(n) \in Slots
    BY Types, InRing
  <1>b. AnswersInv /\ PhaseInv
    BY DEF Inv
  <1>1. CASE answers' = answers /\ Answered' = Answered
    BY <1>b, <1>1 DEF AnswersInv, WholeResults
  <1>2. CASE Send
    <2> DEFINE m == n - R
               r == results[Slot(n)]
    <2>1. mainpc = "send" /\ mainpc' = "zero" /\ n' = n /\ answers' = Append(answers, r)
      BY <1>2 DEF Send
    <2>2. n >= R /\ m \in Int /\ Len(answers) = m /\ r \in [Threads -> Seq(Int)]
          /\ WholeResults
      BY <1>a, <1>b, <2>1 DEF AnswersInv, Answered, PhaseInv
    <2>3. \A i \in Threads : r[i] = <<m>>
      BY <2>1, <2>2 DEF Inv, ResultsInv, ResultsOf
    <2>4. Answered' = m + 1
      BY <1>a, <2>1 DEF Answered
    <2> HIDE DEF m, r
    <2>5. Len(answers') = m + 1 /\ WholeResults'
      BY <2>1, <2>2, <2>3, AnswerMore
    <2> QED BY <2>4, <2>5 DEF AnswersInv
  <1>3. CASE DrainSend
    <2> DEFINE m == n - countdown
               r == results[Slot(m)]
    <2>1. mainpc = "drain" /\ mainpc' = "drain" /\ n' = n /\ answers' = Append(answers, r)
          /\ countdown > 0 /\ turn = NumThreads /\ countdown' = countdown - 1
      BY <1>3, <1>a, DrainSlotIs DEF DrainSend
    <2>2. m \in Held /\ m \in Int /\ Len(answers) = m /\ WholeResults
      BY <1>a, <1>b, <2>1 DEF AnswersInv, Answered, PhaseInv, Held
    <2>3. r \in [Threads -> Seq(Int)]
      BY <1>a, <2>2, SlotRange
    <2>4. ASSUME NEW i \in Threads PROVE r[i] = <<m>>
      <3>1. numprocessed[i] > m
        BY <1>a, <2>1, Ring DEF Inv, PosInv, PosOf
      <3> QED BY <2>2, <3>1 DEF Inv, ResultsInv, ResultsOf, Did
    <2>5. Answered' = m + 1
      BY <1>a, <2>1 DEF Answered
    <2> HIDE DEF m, r
    <2>6. Len(answers') = m + 1 /\ WholeResults'
      BY <2>1, <2>2, <2>3, <2>4, AnswerMore
    <2> QED BY <2>5, <2>6 DEF AnswersInv
  <1>4. CASE Hand \/ End \/ Spurious \/ Done
    BY <1>1, <1>4 DEF Hand, End, Spurious, Done, vars, outside, mains, Answered, Short
  <1>5. CASE ReceiveSubint
    BY <1>1, <1>5 DEF ReceiveSubint, Filling, outside, Answered
  <1>6. CASE LockNextSlot
    BY <1>1, <1>6 DEF LockNextSlot, outside, Answered
  <1>7. CASE UnlockSlot
    <2>1. CASE mainpc = "fillnext"
      BY <1>1, <1>7, <2>1 DEF UnlockSlot, outside, Answered
    <2>2. CASE mainpc = "next"
      <3>1. mainpc' = "send" /\ n' = n + 1 /\ answers' = answers
        BY <1>7, <2>2 DEF UnlockSlot, outside
      <3>2. Answered = n - LastSlot
        BY <2>2 DEF Answered
      <3>3. Answered' = n' - R
        BY <3>1 DEF Answered
      <3> QED BY <1>1, <1>a, <3>1, <3>2, <3>3
    <2> QED BY <1>7, <2>1, <2>2 DEF UnlockSlot
  <1>8. CASE ReceiveTerminate
    BY <1>1, <1>8, <1>a, <1>b DEF ReceiveTerminate, Filling, outside, Answered, PhaseInv, Short
  <1>9. CASE NothingToDo
    BY <1>1, <1>9 DEF NothingToDo, outside, Answered
  <1>10. CASE Launch \/ TestInitialised \/ Wait \/ Return
    BY <1>1, <1>10 DEF Launch, TestInitialised, Wait, Return, outside, Answered
  <1>11. CASE Launched
    BY <1>1, <1>11, <1>a, <1>b DEF Launched, outside, Answered, PhaseInv, Short, Launching
  <1>12. CASE Zero
    BY <1>1, <1>12 DEF Zero, outside, Answered
  <1>13. CASE Shutdown
    BY <1>1, <1>13, <1>a DEF Shutdown, Short, outside, Answered
  <1>14. CASE DrainWait \/ Join
    BY <1>1, <1>14, <1>a DEF DrainWait, Join, outside, Answered
  <1>15. ASSUME NEW k \in Threads, Thread(k) PROVE AnswersInv'
    <2>1. Answered' = Answered /\ answers' = answers
      BY <1>15, ThreadStep DEF Answered, Short, outside
    <2> QED BY <1>1, <2>1
  <1> QED BY <1>2, <1>3, <1>4, <1>5, <1>6, <1>7, <1>8, <1>9, <1>10, <1>11, <1>12, <1>13,
             <1>14, <1>15 DEF Next, Manager, Main

-----------------------------------------------------------------------------
(* The inductive invariant *)

\* It holds in the initial state ...
LEMMA InitInv == Init => TypeInv /\ Inv
  <1> SUFFICES ASSUME Init PROVE TypeInv /\ Inv
    OBVIOUS
  <1> USE Ring DEF Init
  <1>0. Slot(0) = 0 /\ 0 % RECEIVE_RING_LENGTH = 0
    BY SlotFirst DEF Slot
  <1>1. TypeInv
    <2>1. NoResults \in [Threads -> Seq(Int)] /\ <<>> \in Seq([Threads -> Seq(Int)])
      BY DEF NoResults
    <2>2. /\ slotlocks \in [Slots -> [Threads -> Owners]]
          /\ subint \in [Slots -> -1 .. MaxSubints - 1]
          /\ DOMAIN results = Slots /\ \A s \in Slots : DOMAIN results[s] = Threads
      BY DEF Owners, NoResults
    <2>4. LastSlot \in Nat
      OBVIOUS
    <2>5. CoreTypeOK
      BY <2>2, <2>4 DEF CoreTypeOK
    <2>3. results \in [Slots -> [Threads -> Seq(Int)]] /\ answers \in Seq([Threads -> Seq(Int)])
      BY <2>1
    <2> QED BY <2>3, <2>5 DEF TypeInv
  <1>2. LocksInv
    <2> SUFFICES ASSUME NEW s \in Slots, NEW i \in Threads PROVE LockOf(s, i)
      BY DEF LocksInv
    <2>1. slotlocks[s][i] = IF s = 0 THEN "main" ELSE "free"
      OBVIOUS
    <2>2. ~ThreadHas(s, i)
      BY DEF ThreadHas, Running
    <2>3. MainHas(s, i) <=> s = 0
      BY <1>0 DEF MainHas, AtSlot, Launching
    <2> QED BY <2>1, <2>2, <2>3 DEF LockOf
  <1>3. PhaseInv
    BY DEF PhaseInv, Over, Launching
  <1>4. StartInv /\ PosInv
    BY DEF StartInv, StartOf, PosInv, PosOf, Over, Launching, Running
  <1>5. KeepInv
    BY DEF KeepInv, Over, Launching
  <1>6. SubintInv
    BY DEF SubintInv, Held
  <1>7. ResultsInv
    BY DEF ResultsInv, ResultsOf, Held, NoResults
  <1>8. AnswersInv
    BY DEF AnswersInv, Answered, WholeResults
  <1> QED BY <1>1, <1>2, <1>3, <1>4, <1>5, <1>6, <1>7, <1>8 DEF Inv

\* ... and every step keeps it.
LEMMA StepInv == TypeInv /\ Inv /\ [Next]_vars => (TypeInv /\ Inv)'
  <1> SUFFICES ASSUME TypeInv, Inv, [Next]_vars PROVE (TypeInv /\ Inv)'
    OBVIOUS
  <1>1. CASE Next
    <2>1. TypeInv'
      BY <1>1, TypeStep
    <2>2. LocksInv' /\ PhaseInv' /\ KeepInv'
      BY <1>1, LocksStep, PhaseStep, KeepStep
    <2>3. StartInv' /\ PosInv'
      BY <1>1, StartStep, PosStep
    <2>4. SubintInv' /\ ResultsInv' /\ AnswersInv'
      BY <1>1, SubintStep, ResultsStep, AnswersStep
    <2> QED BY <2>1, <2>2, <2>3, <2>4 DEF Inv
  <1>2. CASE UNCHANGED vars
    <2> USE <1>2 DEF vars, outside, slots, mains, threads
    <2>1. TypeInv'
      BY DEF TypeInv, CoreTypeOK
    <2>2. LocksInv'
      BY DEF Inv, LocksInv, LockOf, MainHas, ThreadHas, AtSlot, Running, Current, Launching, Short
    <2>3. PhaseInv' /\ StartInv'
      BY DEF Inv, PhaseInv, StartInv, StartOf, Over, Launching, Short
    <2>4. PosInv' /\ KeepInv'
      BY DEF Inv, PosInv, PosOf, KeepInv, Running, Over, Launching, Short
    <2>5. SubintInv' /\ ResultsInv'
      BY DEF Inv, SubintInv, ResultsInv, ResultsOf, Did, Held
    <2>6. AnswersInv'
      BY DEF Inv, AnswersInv, Answered, WholeResults, Short
    <2> QED BY <2>1, <2>2, <2>3, <2>4, <2>5, <2>6 DEF Inv
  <1> QED BY <1>1, <1>2

\* In every reachable state the mutexes, the slots and the answers are as the
\* threads' places say (core.cpp: execute, loopprocess, processdata).
THEOREM CoreInvariant == Spec => [](TypeInv /\ Inv)
  BY InitInv, StepInv, PTL DEF Spec

\* Every variable of a Core has its type.
THEOREM CoreTypeCorrect == Spec => []CoreTypeOK
  <1>1. TypeInv /\ Inv => CoreTypeOK
    BY DEF TypeInv
  <1> QED BY <1>1, CoreInvariant, PTL

\* No process thread is at the slot that the main thread fills, sends or zeroes.
THEOREM CoreSlotsExclusive == Spec => []SlotsExclusive
  <1>1. TypeInv /\ Inv => SlotsExclusive
    <2> SUFFICES ASSUME TypeInv, Inv, NEW i \in Threads, Running(i),
                        mainpc \in {"loop", "next", "send", "zero"}
                          \/ (mainpc = "drain" /\ countdown > 0 /\ turn = NumThreads)
                 PROVE  /\ mainpc \in {"loop", "next", "send", "zero"} =>
                             Current(i) # Slot(numreceived)
                        /\ mainpc = "drain" => Current(i) # DrainSlot
      BY DEF SlotsExclusive, Running
    <2> DEFINE n == numreceived
               p == numprocessed[i]
               c == n - countdown
    <2>1. /\ n \in Nat /\ p \in Nat /\ countdown \in Nat /\ i \in Nat /\ i < NumThreads
          /\ c \in Int
      BY Ring DEF TypeInv, CoreTypeOK
    <2>2. PosOf(i)
      BY DEF Inv, PosInv
    <2>3. CASE mainpc \in {"loop", "next", "send", "zero"}
      <3>1. p < n /\ n < p + RECEIVE_RING_LENGTH
        BY <2>1, <2>2, <2>3, Ring DEF PosOf, Over, Launching
      <3> HIDE DEF p, n
      <3>2. Slot(p) # Slot(n)
        BY <2>1, <3>1, SlotDiffers
      <3> QED BY <2>3, <3>2 DEF Current, p, n
    <2>4. CASE mainpc = "drain" /\ countdown > 0 /\ turn = NumThreads
      <3>1. c < p /\ p < c + RECEIVE_RING_LENGTH
        <4>1. countdown <= LastSlot /\ LastSlot = RECEIVE_RING_LENGTH - 1
              /\ RECEIVE_RING_LENGTH \in Nat
          BY Ring DEF TypeInv, CoreTypeOK
        <4>2. p <= n /\ p > n - countdown
          BY <2>1, <2>2, <2>4 DEF PosOf
        <4> QED BY <2>1, <4>1, <4>2
      <3>2. DrainSlot = Slot(c)
        BY <2>1, DrainSlotIs
      <3> HIDE DEF p, c
      <3>3. Slot(c) # Slot(p)
        BY <2>1, <3>1, SlotDiffers
      <3> QED BY <2>4, <3>2, <3>3 DEF Current, p
    <2> QED BY <2>3, <2>4
  <1> QED BY <1>1, CoreInvariant, PTL

\* A thread finds in its slot the subint whose turn it is.
THEOREM CoreNeverStale == Spec => []NeverStale
  <1>1. TypeInv /\ Inv => NeverStale
    <2> SUFFICES ASSUME TypeInv, Inv, NEW i \in Threads, tpc[i] = "process"
                 PROVE  subint[Current(i)] = numprocessed[i]
      BY DEF NeverStale
    <2>1. numprocessed[i] \in Held
      <3>1. PosOf(i)
        BY DEF Inv, PosInv
      <3> QED BY <3>1, Types DEF PosOf, Held
    <2> QED BY <2>1 DEF Inv, SubintInv, Current
  <1> QED BY <1>1, CoreInvariant, PTL

\* At its end a Core has answered every subint it got, and no mutex is locked.
THEOREM CoreAllAnswered == Spec => []AllAnswered
  <1>1. TypeInv /\ Inv => AllAnswered
    <2> SUFFICES ASSUME TypeInv, Inv, mainpc = "done"
                 PROVE  /\ Len(answers) = handed
                        /\ \A s \in Slots : slotlocks[s] = [i \in Threads |-> "free"]
      BY DEF AllAnswered
    <2>1. Len(answers) = handed
      BY DEF Inv, AnswersInv, Answered, PhaseInv, Over
    <2>2. ASSUME NEW s \in Slots, NEW i \in Threads PROVE slotlocks[s][i] = "free"
      <3>1. numreceived \in Nat /\ StartOf(i) /\ LockOf(s, i)
        BY DEF TypeInv, CoreTypeOK, Inv, StartInv, LocksInv
      <3>2. tpc[i] \in {"none", "done"}
        BY <3>1 DEF StartOf
      <3> QED BY <3>1, <3>2 DEF LockOf, MainHas, ThreadHas, AtSlot, Launching, Running
    <2>3. ASSUME NEW s \in Slots PROVE slotlocks[s] = [i \in Threads |-> "free"]
      <3>1. slotlocks[s] \in [Threads -> Owners]
        BY DEF TypeInv, CoreTypeOK
      <3> QED BY <2>2, <3>1
    <2> QED BY <2>1, <2>3
  <1> QED BY <1>1, CoreInvariant, PTL

-----------------------------------------------------------------------------
(* Core implements Worker *)

\* The manager never gives a Core more than a full ring.
HandedInv == handed - Len(answers) <= RECEIVE_RING_LENGTH

\* An answer is made of the shares of the subint that is next.
LEMMA AnswerIs ==
  ASSUME TypeInv, Inv, Next,
         NEW r \in [Threads -> Seq(Int)], answers' = Append(answers, r)
  PROVE  answers' = Append(answers, [i \in Threads |-> <<Len(answers)>>])
  <1>1. answers \in Seq([Threads -> Seq(Int)]) /\ Len(answers) \in Nat
    BY Types, LenProperties
  <1>2. Len(answers') = Len(answers) + 1 /\ answers'[Len(answers) + 1] = r
    BY <1>1, AppendProperties
  <1>3. WholeResults'
    BY AnswersStep DEF AnswersInv
  <1> DEFINE n == Len(answers) + 1
  <1>4. n \in 1 .. Len(answers') /\ n - 1 = Len(answers) /\ answers'[n] = r
    BY <1>1, <1>2
  <1> HIDE DEF n
  <1>5. answers'[n] = [i \in Threads |-> <<n - 1>>]
    BY <1>3, <1>4 DEF WholeResults
  <1>6. r = [i \in Threads |-> <<Len(answers)>>]
    BY <1>4, <1>5
  <1> QED BY <1>6

\* The main thread sends what it has just come round to again, so that the
\* other slots hold what the manager sent since.
LEMMA SendIsAnswer ==
  ASSUME TypeInv, Inv, Next, HandedInv, Send
  PROVE  Promise!Answer
  <1> DEFINE r == results[Slot(numreceived)]
  <1>1. mainpc = "send" /\ answers' = Append(answers, r) /\ UNCHANGED <<handed, ended>>
    BY DEF Send
  <1>2. r \in [Threads -> Seq(Int)]
    BY Types, InRing
  <1>3. answers' = Append(answers, [i \in Threads |-> <<Len(answers)>>])
    <2> HIDE DEF r
    <2> QED BY <1>1, <1>2, AnswerIs
  <1>4. handed - Len(answers) = RECEIVE_RING_LENGTH /\ RECEIVE_RING_LENGTH > 0
    <2>1. Len(answers) = numreceived - RECEIVE_RING_LENGTH
      BY <1>1 DEF Inv, AnswersInv, Answered
    <2>2. numreceived <= handed
      BY DEF Inv, PhaseInv
    <2> QED BY <2>1, <2>2, Types DEF HandedInv
  <1> QED BY <1>1, <1>3, <1>4 DEF Promise!Answer, Promise!InHand

\* On the way out it sends what is left, and all has come.
LEMMA DrainIsAnswer ==
  ASSUME TypeInv, Inv, Next, DrainSend
  PROVE  Promise!Answer
  <1> DEFINE r == results[DrainSlot]
  <1>1. mainpc = "drain" /\ countdown > 0 /\ answers' = Append(answers, r)
        /\ UNCHANGED <<handed, ended>>
    BY DEF DrainSend
  <1>2. r \in [Threads -> Seq(Int)]
    BY <1>1, Types, InRing
  <1>3. answers' = Append(answers, [i \in Threads |-> <<Len(answers)>>])
    <2> HIDE DEF r
    <2> QED BY <1>1, <1>2, AnswerIs
  <1>4. handed - Len(answers) > 0 /\ ended
    <2>1. Len(answers) = numreceived - countdown
      BY <1>1 DEF Inv, AnswersInv, Answered
    <2>2. ended /\ handed = numreceived
      BY <1>1 DEF Inv, PhaseInv, Over
    <2> QED BY <1>1, <2>1, <2>2, Types
  <1> QED BY <1>1, <1>3, <1>4 DEF Promise!Answer, Promise!InHand

\* All other steps are the manager's, or it does not see them.
LEMMA StepIsWorkers ==
  ASSUME TypeInv, Inv, HandedInv, [Next]_vars
  PROVE  [Promise!Next]_(Promise!vars)
  <1> DEFINE Unseen == UNCHANGED <<handed, ended, answers>>
  <1>1. CASE Hand
    BY <1>1 DEF Hand, Promise!Next, Promise!Hand, Promise!InHand
  <1>2. CASE End
    BY <1>2 DEF End, Promise!Next, Promise!End
  <1>3. CASE Send
    <2>1. Next
      BY <1>3 DEF Next, Main
    <2> QED BY <1>3, <2>1, SendIsAnswer DEF Promise!Next
  <1>4. CASE DrainSend
    <2>1. Next
      BY <1>4 DEF Next, Main
    <2> QED BY <1>4, <2>1, DrainIsAnswer DEF Promise!Next
  <1>5. ASSUME Unseen PROVE [Promise!Next]_(Promise!vars)
    BY <1>5 DEF Promise!vars
  <1>6. CASE Spurious \/ Done \/ UNCHANGED vars
    BY <1>5, <1>6 DEF Spurious, Done, vars, outside
  <1>7. CASE ReceiveSubint \/ LockNextSlot \/ UnlockSlot \/ ReceiveTerminate \/ NothingToDo
    BY <1>5, <1>7 DEF ReceiveSubint, LockNextSlot, UnlockSlot, ReceiveTerminate,
                      NothingToDo, outside
  <1>8. CASE Launch \/ TestInitialised \/ Wait \/ Return \/ Launched
    BY <1>5, <1>8 DEF Launch, TestInitialised, Wait, Return, Launched, outside
  <1>9. CASE Zero \/ Shutdown \/ DrainWait \/ Join
    BY <1>5, <1>9 DEF Zero, Shutdown, DrainWait, Join, outside
  <1>10. ASSUME NEW k \in Threads, Thread(k) PROVE [Promise!Next]_(Promise!vars)
    BY <1>5, <1>10, ThreadStep DEF outside
  <1> QED BY <1>1, <1>2, <1>3, <1>4, <1>6, <1>7, <1>8, <1>9, <1>10 DEF Next, Manager, Main

\* Hand is the only step that gives a Core more, and it looks before.
LEMMA HandedStep ==
  ASSUME TypeInv, HandedInv, [Promise!Next]_(Promise!vars)
  PROVE  HandedInv'
  <1>1. answers \in Seq([Threads -> Seq(Int)]) /\ Len(answers) \in Nat
        /\ handed \in Nat /\ RECEIVE_RING_LENGTH \in Nat
    BY Types, LenProperties
  <1>2. CASE Promise!Hand
    BY <1>1, <1>2 DEF HandedInv, Promise!Hand, Promise!InHand
  <1>3. CASE Promise!Answer
    <2>1. Len(answers') = Len(answers) + 1
      BY <1>1, <1>3 DEF Promise!Answer
    <2> QED BY <1>1, <1>3, <2>1 DEF HandedInv, Promise!Answer
  <1>4. CASE Promise!End \/ UNCHANGED Promise!vars
    BY <1>4 DEF HandedInv, Promise!End, Promise!vars
  <1> QED BY <1>2, <1>3, <1>4 DEF Promise!Next

\* However many threads and slots it has, a Core is a queue to its manager
\* (core.cpp: execute, against the turns of fxmanager.cpp: sendData).
THEOREM CoreIsWorker == Spec => IsWorker
  <1>1. Init => HandedInv /\ Promise!Init
    BY Ring DEF Init, HandedInv, Promise!Init
  <1>2. TypeInv /\ Inv /\ HandedInv /\ [Next]_vars =>
          HandedInv' /\ [Promise!Next]_(Promise!vars)
    BY StepIsWorkers, HandedStep
  <1> QED BY <1>1, <1>2, CoreInvariant, PTL DEF Spec, IsWorker, Promise!Spec

=============================================================================
