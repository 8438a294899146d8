-------------------------------- MODULE Core --------------------------------
(***************************************************************************)
(* A Core process (core.cpp): its main thread receives subints into a ring *)
(* of slots and sends their results back; each of its process threads goes *)
(* round the ring too and adds the result of its share of the subint to    *)
(* the slot.  A slot has one mutex per process thread, slotlocks[i]: the   *)
(* main thread works on a slot while it has all of them, process thread i  *)
(* while it has the i-th.  Everybody goes hand over hand: the next slot is *)
(* locked before the last is unlocked.                                     *)
(*                                                                         *)
(* A step holds at most one operation that can block.  Locks taken before  *)
(* the process threads exist cannot block and are taken together, and so   *)
(* are a lock and the unlocks that follow it.  FxManager is external here  *)
(* (FxManager.tla) and so are the DataStreams, which only fill the slot.   *)
(***************************************************************************)
EXTENDS Integers, Sequences

CONSTANTS
  RECEIVE_RING_LENGTH,  \* slots in the ring; 4 in core.cpp
  NumThreads,           \* process threads
  MaxSubints            \* bound on the subints of a job

ASSUME CoreAssumption ==
  /\ RECEIVE_RING_LENGTH \in Nat /\ RECEIVE_RING_LENGTH >= 4
  /\ NumThreads \in Nat \ {0} /\ MaxSubints \in Nat

VARIABLES
  handed, ended,        \* manager: subints it sent, whether it sent CR_TERMINATE
  spurious,             \* history: pthread_cond_wait has returned unasked
  answers,              \* manager: the results it received
  slotlocks,            \* slot -> thread -> who has the mutex
  subint,               \* slot -> the subint received into it
  keepprocessing,       \* slot -> flag
  results,              \* slot -> thread -> the subints it added there
  numreceived,
  mainpc,
  turn,                 \* index i of the loops over the threads
  countdown,            \* results still to be sent on the way out
  initialised,          \* processthreadinitialised
  tpc,                  \* thread -> where it is
  numprocessed

outside == <<handed, ended, spurious, answers>>
slots == <<slotlocks, subint, keepprocessing, results>>
mains == <<numreceived, mainpc, turn, countdown>>
threads == <<initialised, tpc, numprocessed>>
vars == <<outside, slots, mains, threads>>

Slots == 0 .. RECEIVE_RING_LENGTH - 1
Threads == 0 .. NumThreads - 1

Slot(n) == n % RECEIVE_RING_LENGTH
LastSlot == RECEIVE_RING_LENGTH - 1

\* slotlocks with every mutex of slot s given to who.
Give(s, who) == [slotlocks EXCEPT ![s] = [i \in Threads |-> who]]

NoResults == [i \in Threads |-> <<>>]

Init ==
  /\ handed = 0 /\ ended = FALSE /\ spurious = FALSE /\ answers = <<>>
  /\ slotlocks = [s \in Slots |-> [i \in Threads |-> IF s = 0 THEN "main" ELSE "free"]]
  /\ subint = [s \in Slots |-> -1]
  /\ keepprocessing = [s \in Slots |-> TRUE]
  /\ results = [s \in Slots |-> NoResults]
  /\ numreceived = 0 /\ mainpc = "fill" /\ turn = 0 /\ countdown = 0
  /\ initialised = [i \in Threads |-> FALSE]
  /\ tpc = [i \in Threads |-> "none"]
  /\ numprocessed = [i \in Threads |-> 0]

-----------------------------------------------------------------------------
(* FxManager, as a Core sees it *)

\* It sends a first subint for every slot, and one more for every result.
Hand ==
  /\ ~ended
  /\ handed < MaxSubints
  /\ handed - Len(answers) < RECEIVE_RING_LENGTH
  /\ handed' = handed + 1
  /\ UNCHANGED <<ended, spurious, answers, slots, mains, threads>>

End ==
  /\ ~ended
  /\ ended' = TRUE
  /\ UNCHANGED <<handed, spurious, answers, slots, mains, threads>>

-----------------------------------------------------------------------------
(* The main thread *)

Filling == mainpc = "fill" /\ numreceived < LastSlot

\* receivedata: a subint arrives in the slot the main thread has, ...
ReceiveSubint ==
  /\ Filling \/ mainpc = "loop"
  /\ handed > numreceived
  /\ subint' = [subint EXCEPT ![Slot(numreceived)] = numreceived]
  /\ mainpc' = IF mainpc = "fill" THEN "fillnext" ELSE "next"
  /\ turn' = 0
  /\ UNCHANGED <<outside, slotlocks, keepprocessing, results,
                 numreceived, countdown, threads>>

\* ... whose successor it locks for one thread after the other; ...
LockNextSlot ==
  /\ mainpc \in {"fillnext", "next"}
  /\ turn < NumThreads
  /\ slotlocks[Slot(numreceived + 1)][turn] = "free"
  /\ slotlocks' = [slotlocks EXCEPT ![Slot(numreceived + 1)][turn] = "main"]
  /\ turn' = turn + 1
  /\ UNCHANGED <<outside, subint, keepprocessing, results,
                 numreceived, mainpc, countdown, threads>>

\* ... then it gives the slot to the process threads.
UnlockSlot ==
  /\ mainpc \in {"fillnext", "next"}
  /\ turn = NumThreads
  /\ slotlocks' = Give(Slot(numreceived), "free")
  /\ numreceived' = numreceived + 1
  /\ mainpc' = IF mainpc = "fillnext" THEN "fill" ELSE "send"
  /\ UNCHANGED <<outside, subint, keepprocessing, results, turn,
                 countdown, threads>>

MutReceiveTerminate ==
  /\ Filling \/ mainpc = "loop"
  /\ ended /\ handed = numreceived
  /\ mainpc' = IF mainpc = "fill" THEN "filled" ELSE "shutdown"
  /\ UNCHANGED <<outside, slots, numreceived, turn, countdown, threads>>

\* receivedata: CR_TERMINATE arrives instead.
ReceiveTerminate ==
  /\ Filling \/ mainpc = "loop"
  /\ ended /\ handed = numreceived
  /\ keepprocessing' = [keepprocessing EXCEPT ![Slot(numreceived)] = FALSE]
  /\ mainpc' = IF mainpc = "fill" THEN "filled" ELSE "shutdown"
  /\ UNCHANGED <<outside, slotlocks, subint, results, numreceived,
                 turn, countdown, threads>>

\* Nothing was received at all: the threads are never created.
NothingToDo ==
  /\ mainpc = "filled" /\ numreceived = 0
  /\ slotlocks' = Give(0, "free")
  /\ mainpc' = "done"
  /\ UNCHANGED <<outside, subint, keepprocessing, results,
                 numreceived, turn, countdown, threads>>

MutLaunch ==
  /\ \/ mainpc = "fill" /\ numreceived = LastSlot
     \/ mainpc = "filled" /\ numreceived > 0
  /\ slotlocks' = [s \in Slots |-> [i \in Threads |->
                     IF s = LastSlot THEN "main" ELSE "free"]]
  /\ mainpc' = "test" /\ turn' = 0
  /\ tpc' = [i \in Threads |-> "lockend"]
  /\ UNCHANGED <<outside, subint, keepprocessing, results,
                 numreceived, countdown, initialised, numprocessed>>

\* Before it creates the threads, main has the mutexes of the last slot (in a
\* short job it unlocks the slot it had) and of the last but one.
Launch ==
  /\ \/ mainpc = "fill" /\ numreceived = LastSlot
     \/ mainpc = "filled" /\ numreceived > 0
  /\ slotlocks' = [s \in Slots |-> [i \in Threads |->
                     IF s \in {LastSlot, LastSlot - 1} THEN "main" ELSE "free"]]
  /\ mainpc' = "test" /\ turn' = 0
  /\ tpc' = [i \in Threads |-> "lockend"]
  /\ UNCHANGED <<outside, subint, keepprocessing, results,
                 numreceived, countdown, initialised, numprocessed>>

\* Waits for each thread in turn: "while(!processthreadinitialised[i])".
TestInitialised ==
  /\ mainpc = "test"
  /\ turn < NumThreads
  /\ IF initialised[turn]
     THEN turn' = turn + 1 /\ UNCHANGED mainpc
     ELSE mainpc' = "wait" /\ UNCHANGED turn
  /\ UNCHANGED <<outside, slots, numreceived, countdown, threads>>

\* pthread_cond_wait, with the thread's mutex of the last slot
Wait ==
  /\ mainpc = "wait"
  /\ slotlocks' = [slotlocks EXCEPT ![LastSlot][turn] = "free"]
  /\ mainpc' = "asleep"
  /\ UNCHANGED <<outside, subint, keepprocessing, results,
                 numreceived, turn, countdown, threads>>

\* A wait may return without a signal.
Spurious ==
  /\ mainpc = "asleep"
  /\ mainpc' = "woken"
  /\ spurious' = TRUE
  /\ UNCHANGED <<handed, ended, answers, slots, numreceived, turn, countdown, threads>>

Return ==
  /\ mainpc = "woken"
  /\ slotlocks[LastSlot][turn] = "free"
  /\ slotlocks' = [slotlocks EXCEPT ![LastSlot][turn] = "main"]
  /\ mainpc' = "test"
  /\ UNCHANGED <<outside, subint, keepprocessing, results,
                 numreceived, turn, countdown, threads>>

MutLaunched ==
  /\ mainpc = "test"
  /\ turn = NumThreads
  /\ mainpc' = IF numreceived < LastSlot THEN "shutdown" ELSE "loop"
  /\ UNCHANGED <<outside, slots, numreceived, turn, countdown, threads>>

\* All threads are initialised: the last slot but one is for them.  If
\* CR_TERMINATE was among the first messages, the loop is never entered.
Launched ==
  /\ mainpc = "test"
  /\ turn = NumThreads
  /\ slotlocks' = Give(LastSlot - 1, "free")
  /\ mainpc' = IF numreceived < LastSlot THEN "shutdown" ELSE "loop"
  /\ UNCHANGED <<outside, subint, keepprocessing, results,
                 numreceived, turn, countdown, threads>>

\* MPI_Ssend of the results of the slot just locked ...
Send ==
  /\ mainpc = "send"
  /\ answers' = Append(answers, results[Slot(numreceived)])
  /\ mainpc' = "zero"
  /\ UNCHANGED <<handed, ended, spurious, slots, numreceived, turn, countdown, threads>>

MutZero ==
  /\ mainpc = "zero"
  /\ mainpc' = "loop"
  /\ UNCHANGED <<outside, slots, numreceived, turn, countdown, threads>>

\* ... which are zeroed for the subint that comes next.
Zero ==
  /\ mainpc = "zero"
  /\ results' = [results EXCEPT ![Slot(numreceived)] = NoResults]
  /\ mainpc' = "loop"
  /\ UNCHANGED <<outside, slotlocks, subint, keepprocessing,
                 numreceived, turn, countdown, threads>>

Short == numreceived < LastSlot

MutShutdown ==
  /\ mainpc = "shutdown"
  /\ slotlocks' = Give(IF Short THEN LastSlot ELSE Slot(numreceived), "free")
  /\ countdown' = LastSlot
  /\ mainpc' = "drain" /\ turn' = 0
  /\ UNCHANGED <<outside, subint, keepprocessing, results,
                 numreceived, threads>>

\* The end: the slot main has is unlocked, in a short job the last one.
Shutdown ==
  /\ mainpc = "shutdown"
  /\ slotlocks' = Give(IF Short THEN LastSlot ELSE Slot(numreceived), "free")
  /\ countdown' = IF Short THEN numreceived ELSE LastSlot
  /\ mainpc' = "drain" /\ turn' = 0
  /\ UNCHANGED <<outside, subint, keepprocessing, results,
                 numreceived, threads>>

\* The slot whose results are next: i + adjust places after numreceived.
DrainSlot == Slot(numreceived + (IF Short THEN LastSlot - numreceived ELSE 0)
                    + (IF Short THEN numreceived ELSE LastSlot) - countdown + 1)

\* Each mutex is locked and unlocked to see that its thread is done there.
DrainWait ==
  /\ mainpc = "drain"
  /\ countdown > 0 /\ turn < NumThreads
  /\ slotlocks[DrainSlot][turn] = "free"
  /\ turn' = turn + 1
  /\ UNCHANGED <<outside, slots, numreceived, mainpc, countdown, threads>>

DrainSend ==
  /\ mainpc = "drain"
  /\ countdown > 0 /\ turn = NumThreads
  /\ answers' = Append(answers, results[DrainSlot])
  /\ countdown' = countdown - 1
  /\ turn' = 0
  /\ UNCHANGED <<handed, ended, spurious, slots, numreceived, mainpc, threads>>

Join ==
  /\ mainpc = "drain"
  /\ countdown = 0
  /\ \A i \in Threads : tpc[i] = "done"
  /\ mainpc' = "done"
  /\ UNCHANGED <<outside, slots, numreceived, turn, countdown, threads>>

-----------------------------------------------------------------------------
(* Process thread i: loopprocess and processdata *)

Current(i) == Slot(numprocessed[i])

LockEnd(i) ==
  /\ tpc[i] = "lockend"
  /\ slotlocks[LastSlot][i] = "free"
  /\ slotlocks' = [slotlocks EXCEPT ![LastSlot][i] = "thread"]
  /\ tpc' = [tpc EXCEPT ![i] = "lockfirst"]
  /\ UNCHANGED <<outside, subint, keepprocessing, results, mains,
                 initialised, numprocessed>>

LockFirst(i) ==
  /\ tpc[i] = "lockfirst"
  /\ slotlocks[0][i] = "free"
  /\ slotlocks' = [slotlocks EXCEPT ![0][i] = "thread", ![LastSlot][i] = "free"]
  /\ tpc' = [tpc EXCEPT ![i] = "initialised"]
  /\ UNCHANGED <<outside, subint, keepprocessing, results, mains,
                 initialised, numprocessed>>

SetInitialised(i) ==
  /\ tpc[i] = "initialised"
  /\ initialised' = [initialised EXCEPT ![i] = TRUE]
  /\ tpc' = [tpc EXCEPT ![i] = "signal"]
  /\ UNCHANGED <<outside, slots, mains, numprocessed>>

Signal(i) ==
  /\ tpc[i] = "signal"
  /\ tpc' = [tpc EXCEPT ![i] = "test"]
  /\ mainpc' = IF mainpc = "asleep" /\ turn = i THEN "woken" ELSE mainpc
  /\ UNCHANGED <<outside, slots, numreceived, turn, countdown,
                 initialised, numprocessed>>

\* "while(procslots[...].keepprocessing)"; a thread that stops unlocks.
TestKeepProcessing(i) ==
  /\ tpc[i] = "test"
  /\ IF keepprocessing[Current(i)]
     THEN tpc' = [tpc EXCEPT ![i] = "process"] /\ UNCHANGED slotlocks
     ELSE /\ tpc' = [tpc EXCEPT ![i] = "done"]
          /\ slotlocks' = [slotlocks EXCEPT ![Current(i)][i] = "free"]
  /\ UNCHANGED <<outside, subint, keepprocessing, results, mains,
                 initialised, numprocessed>>

\* The thread adds its share.  Threads that add to the same numbers exclude
\* each other with the copylocks, so one step does it.
Process(i) ==
  /\ tpc[i] = "process"
  /\ results' = [results EXCEPT ![Current(i)][i] = Append(@, subint[Current(i)])]
  /\ tpc' = [tpc EXCEPT ![i] = "locknext"]
  /\ UNCHANGED <<outside, slotlocks, subint, keepprocessing, mains,
                 initialised, numprocessed>>

MutThreadNext(i) ==
  /\ tpc[i] = "locknext"
  /\ slotlocks' = [slotlocks EXCEPT ![Current(i)][i] = "free"]
  /\ tpc' = [tpc EXCEPT ![i] = "test"]
  /\ numprocessed' = [numprocessed EXCEPT ![i] = @ + 1]
  /\ UNCHANGED <<outside, subint, keepprocessing, results, mains,
                 initialised>>

\* The next slot is locked, the last one unlocked.
ThreadNext(i) ==
  LET next == Slot(numprocessed[i] + 1) IN
  /\ tpc[i] = "locknext"
  /\ slotlocks[next][i] = "free"
  /\ slotlocks' = [slotlocks EXCEPT ![next][i] = "thread", ![Current(i)][i] = "free"]
  /\ tpc' = [tpc EXCEPT ![i] = "test"]
  /\ numprocessed' = [numprocessed EXCEPT ![i] = @ + 1]
  /\ UNCHANGED <<outside, subint, keepprocessing, results, mains,
                 initialised>>

-----------------------------------------------------------------------------

Manager == Hand \/ End

Main ==
  \/ ReceiveSubint
  \/ LockNextSlot
  \/ UnlockSlot
  \/ ReceiveTerminate
  \/ NothingToDo
  \/ Launch
  \/ TestInitialised
  \/ Wait
  \/ Return
  \/ Launched
  \/ Send
  \/ Zero
  \/ Shutdown
  \/ DrainWait
  \/ DrainSend
  \/ Join

Thread(i) ==
  \/ LockEnd(i)
  \/ LockFirst(i)
  \/ SetInitialised(i)
  \/ Signal(i)
  \/ TestKeepProcessing(i)
  \/ Process(i)
  \/ ThreadNext(i)

Done == mainpc = "done" /\ UNCHANGED vars

Next == Manager \/ Main \/ Spurious \/ (\E i \in Threads : Thread(i)) \/ Done

Spec == Init /\ [][Next]_vars

(* Every thread runs on, and the manager ends the job at some time (when   *)
(* it has sent all of it).  Nobody else waits for a mutex of a slot that   *)
(* main and thread i share, so weak fairness is enough.                    *)
FairSpec ==
  /\ Spec
  /\ WF_vars(End)
  /\ WF_vars(Main)
  /\ \A i \in Threads : WF_vars(Thread(i))

-----------------------------------------------------------------------------
(* Properties *)

Owners == {"free", "main", "thread"}

\* Every variable has its type.
CoreTypeOK ==
  /\ handed \in 0 .. MaxSubints /\ ended \in BOOLEAN /\ spurious \in BOOLEAN
  /\ slotlocks \in [Slots -> [Threads -> Owners]]
  /\ subint \in [Slots -> -1 .. MaxSubints - 1]
  /\ keepprocessing \in [Slots -> BOOLEAN]
  /\ DOMAIN results = Slots /\ \A s \in Slots : DOMAIN results[s] = Threads
  /\ numreceived \in 0 .. MaxSubints
  /\ mainpc \in {"fill", "fillnext", "filled", "test", "wait", "asleep", "woken",
                 "loop", "next", "send", "zero", "shutdown", "drain", "done"}
  /\ turn \in 0 .. NumThreads /\ countdown \in 0 .. LastSlot
  /\ initialised \in [Threads -> BOOLEAN]
  /\ tpc \in [Threads -> {"none", "lockend", "lockfirst", "initialised", "signal",
                          "test", "process", "locknext", "done"}]
  /\ numprocessed \in [Threads -> 0 .. MaxSubints]

\* No process thread looks at a slot while the main thread fills it, sends it
\* or zeroes it.
SlotsExclusive ==
  \A i \in Threads :
    tpc[i] \in {"test", "process", "locknext"} =>
      /\ mainpc \in {"loop", "next", "send", "zero"} => Current(i) # Slot(numreceived)
      /\ mainpc = "drain" /\ countdown > 0 /\ turn = NumThreads => Current(i) # DrainSlot

\* A thread works on each subint once and in order: it never gets round the
\* ring to a slot that holds an old subint, or none.
NeverStale ==
  \A i \in Threads : tpc[i] = "process" => subint[Current(i)] = numprocessed[i]

\* However short the job is, every subint that was sent out is answered
\* before the Core ends, and by then no mutex is locked.
AllAnswered ==
  mainpc = "done" =>
    Len(answers) = handed /\ \A s \in Slots : slotlocks[s] = [i \in Threads |-> "free"]

Promise == INSTANCE Worker WITH
  Capacity <- RECEIVE_RING_LENGTH, Shares <- Threads, Bound <- MaxSubints

\* To its manager a Core is a queue: it answers the oldest of its subints, with
\* the share of every thread once and of no other subint, and not before it has
\* a full ring of them or there are no more to come.
IsWorker == Promise!Spec

\* A Core with all the subints it can have gives one back, without waiting
\* for another or for the end of the job: the manager waits for that answer.
\* (Unless a spurious wakeup has made main miss the signal of a thread.)
AnswersWhenFull ==
  handed - Len(answers) = RECEIVE_RING_LENGTH
    ~> handed - Len(answers) < RECEIVE_RING_LENGTH \/ spurious

\* The Core comes to its end: always if its threads were launched, and without
\* spurious wakeups they are.
CoreEnds ==
  /\ <>(mainpc = "done" \/ spurious)
  /\ mainpc = "loop" ~> mainpc = "done"
=============================================================================
