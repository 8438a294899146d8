------------------------------ MODULE VisRing ------------------------------
(***************************************************************************)
(* The ring of Visibility buffers that FxManager shares between its main   *)
(* thread, which accumulates the results of the Cores, and its write       *)
(* thread, which writes finished integrations to disk (fxmanager.cpp).     *)
(*                                                                         *)
(* Each buffer has a mutex bufferlock[i].  The main thread keeps locked    *)
(* the integrations that still collect data; they lie in the window        *)
(* oldestlockedvis .. newestlockedvis (cyclically).  An integration inside *)
(* the window that was completed out of order is a hole: its mutex is free *)
(* and islocked is FALSE.  The write thread goes round the ring hand over  *)
(* hand, and stops at the first buffer the main thread still holds.        *)
(*                                                                         *)
(* This module has the locks and the indices, with every choice that       *)
(* depends on the data left open; FxManager.tla conjoins the data.         *)
(*                                                                         *)
(* One step holds at most one lock operation that can block.  The state of *)
(* the constructor's handshake (lines 196-214) is in Startup.tla: here the *)
(* write thread already holds the last buffer.                             *)
(***************************************************************************)
EXTENDS Integers

CONSTANT VisBufferLength        \* number of Visibility objects in the ring

(* The code does not check the number it reads from the input file.  With  *)
(* fewer than four buffers locateVisIndex would drop its only locked one.  *)
ASSUME VisBufferLengthAssumption == VisBufferLength \in Nat /\ VisBufferLength >= 4

VARIABLES
  newestlockedvis, oldestlockedvis, islocked, bufferlock, keepwriting,
  mpc,          \* where the main thread is
  after,        \* what follows the loop "while(!islocked[oldestlockedvis])"
  count,        \* buffers passed by that loop, still to be locked again
  visindex,     \* the buffer locateVisIndex returned
  lastunlocked, \* index i of the unlocking loop at the end of execute
  wpc,          \* where the write thread is
  writesegment,
  flushed       \* index i of the write thread's last loop

mvars == <<mpc, after, count, visindex, lastunlocked>>
window == <<newestlockedvis, oldestlockedvis, islocked>>
wvars == <<wpc, writesegment, flushed>>
ringvars == <<window, bufferlock, keepwriting, mvars, wvars>>

Vis == 0 .. VisBufferLength - 1

Succ(i) == (i + 1) % VisBufferLength
Pred(i) == (i + VisBufferLength - 1) % VisBufferLength

\* How far j is ahead of i, going round the ring.
Ahead(i, j) == (j - i + VisBufferLength) % VisBufferLength

WindowSize == Ahead(oldestlockedvis, newestlockedvis)
InWindow(i) == Ahead(oldestlockedvis, i) <= WindowSize

-----------------------------------------------------------------------------

RingInit ==
  /\ newestlockedvis = 1
  /\ oldestlockedvis = 0
  /\ islocked = [i \in Vis |-> i \in {0, 1}]
  /\ bufferlock = [i \in Vis |-> IF i \in {0, 1} THEN "manager"
                                 ELSE IF i = VisBufferLength - 1 THEN "writer"
                                 ELSE "free"]
  /\ keepwriting = TRUE
  /\ mpc = "ready" /\ after = "ready"
  /\ count = 0 /\ visindex = 0 /\ lastunlocked = 0
  /\ wpc = "check" /\ writesegment = 0 /\ flushed = 0

-----------------------------------------------------------------------------
(* The main thread *)

MutWindowFull == WindowSize >= VisBufferLength - 1

\* No room to lock ahead: the test at the start of locateVisIndex.
WindowFull == WindowSize >= VisBufferLength - 3

\* Gives up the oldest buffer, complete or not, and runs on to the next
\* locked one; next names what the main thread does after that.
AbandonOldest(next) ==
  /\ bufferlock' = [bufferlock EXCEPT ![oldestlockedvis] = "free"]
  /\ islocked' = [islocked EXCEPT ![oldestlockedvis] = FALSE]
  /\ mpc' = "advance" /\ after' = next

\* A result has arrived; locateVisIndex first makes room if it has to.
BeginLocate ==
  /\ mpc = "ready"
  /\ IF WindowFull
     THEN AbandonOldest("locate")
     ELSE mpc' = "locate" /\ UNCHANGED <<bufferlock, islocked, after>>
  /\ UNCHANGED <<newestlockedvis, oldestlockedvis, keepwriting,
                 count, visindex, lastunlocked, wvars>>

MutAdvanceOldest ==
  /\ mpc = "advance"
  /\ mpc' = after
  /\ oldestlockedvis' = Succ(oldestlockedvis)
  /\ count' = IF after = "lockdropped" THEN count + 1 ELSE count
  /\ UNCHANGED <<newestlockedvis, islocked, bufferlock, keepwriting,
                 after, visindex, lastunlocked, wvars>>

\* One test of "while(!islocked[oldestlockedvis])", and its body.
AdvanceOldest ==
  /\ mpc = "advance"
  /\ IF islocked[oldestlockedvis]
     THEN mpc' = after /\ UNCHANGED <<oldestlockedvis, count>>
     ELSE /\ oldestlockedvis' = Succ(oldestlockedvis)
          /\ count' = IF after = "lockdropped" THEN count + 1 ELSE count
          /\ UNCHANGED mpc
  /\ UNCHANGED <<newestlockedvis, islocked, bufferlock, keepwriting,
                 after, visindex, lastunlocked, wvars>>

\* The result belongs to buffer v of the window.
FoundInWindow(v) ==
  /\ mpc = "locate"
  /\ InWindow(v)
  /\ visindex' = v
  /\ mpc' = "deliver"
  /\ UNCHANGED <<window, bufferlock, keepwriting, after, count, lastunlocked, wvars>>

\* The result is older than the whole window and is ignored.
StaleResult ==
  /\ mpc = "locate"
  /\ mpc' = "ready"
  /\ UNCHANGED <<window, bufferlock, keepwriting, after, count, visindex,
                 lastunlocked, wvars>>

\* Whether the loop that locks more buffers goes round (again).
MoreRoom(size) == size < VisBufferLength - 3

\* The result is newer than the whole window.
BeyondWindow ==
  /\ mpc = "locate"
  /\ mpc' = IF MoreRoom(WindowSize) THEN "extend" ELSE "dropping"
  /\ UNCHANGED <<window, bufferlock, keepwriting, after, count, visindex,
                 lastunlocked, wvars>>

\* pthread_mutex_lock on the buffer after the newest: blocks until it is free.
LockNext ==
  /\ bufferlock[Succ(newestlockedvis)] = "free"
  /\ bufferlock' = [bufferlock EXCEPT ![Succ(newestlockedvis)] = "manager"]
  /\ newestlockedvis' = Succ(newestlockedvis)
  /\ islocked' = [islocked EXCEPT ![Succ(newestlockedvis)] = TRUE]

\* Locks one more buffer; caught tells whether the result belongs there.
LockMore(caught) ==
  /\ mpc = "extend"
  /\ LockNext
  /\ IF caught
     THEN mpc' = "deliver" /\ visindex' = newestlockedvis'
     ELSE /\ mpc' = IF MoreRoom(WindowSize + 1) THEN "extend" ELSE "dropping"
          /\ UNCHANGED visindex
  /\ UNCHANGED <<oldestlockedvis, keepwriting, after, count, lastunlocked, wvars>>

\* "while(difference > inttime)": drop the oldest buffer and go on ...
DropOldest ==
  /\ mpc = "dropping"
  /\ AbandonOldest("lockdropped")
  /\ count' = 0
  /\ UNCHANGED <<newestlockedvis, oldestlockedvis, keepwriting, visindex,
                 lastunlocked, wvars>>

\* ... or take the newest.
StopDropping ==
  /\ mpc = "dropping"
  /\ mpc' = "deliver"
  /\ visindex' = newestlockedvis
  /\ UNCHANGED <<window, bufferlock, keepwriting, after, count, lastunlocked, wvars>>

\* Locks one buffer for each one passed, until caught up.
LockDropped(caught) ==
  /\ mpc = "lockdropped"
  /\ LockNext
  /\ count' = count - 1
  /\ mpc' = IF caught \/ count = 1 THEN "dropping" ELSE "lockdropped"
  /\ UNCHANGED <<oldestlockedvis, keepwriting, after, visindex, lastunlocked, wvars>>

\* Releases the completed buffer v to the write thread; locked and lockedflag
\* are bufferlock and islocked, with the next buffer locked if v was newest.
Release(v, locked, lockedflag) ==
  /\ bufferlock' = [locked EXCEPT ![v] = "free"]
  /\ islocked' = [lockedflag EXCEPT ![v] = FALSE]
  /\ IF oldestlockedvis = v
     THEN mpc' = "advance" /\ after' = "ready"
     ELSE mpc' = "ready" /\ UNCHANGED after

\* addData: the integration goes on, ...
AddIncomplete ==
  /\ mpc = "deliver"
  /\ mpc' = "ready"
  /\ UNCHANGED <<window, bufferlock, keepwriting, after, count, visindex,
                 lastunlocked, wvars>>

MutAddLast ==
  /\ mpc = "deliver"
  /\ Release(visindex, bufferlock, islocked)
  /\ UNCHANGED <<newestlockedvis, oldestlockedvis, keepwriting, count, visindex,
                 lastunlocked, wvars>>

\* ... or is complete: its buffer is released, but the newest one only after
\* the next is locked.
AddLast ==
  /\ mpc = "deliver"
  /\ IF visindex = newestlockedvis
     THEN mpc' = "lockahead" /\ UNCHANGED <<bufferlock, islocked, after>>
     ELSE Release(visindex, bufferlock, islocked)
  /\ UNCHANGED <<newestlockedvis, oldestlockedvis, keepwriting, count, visindex,
                 lastunlocked, wvars>>

LockAhead ==
  LET next == Succ(newestlockedvis) IN
  /\ mpc = "lockahead"
  /\ bufferlock[next] = "free"
  /\ newestlockedvis' = next
  /\ Release(visindex, [bufferlock EXCEPT ![next] = "manager"],
                       [islocked EXCEPT ![next] = TRUE])
  /\ UNCHANGED <<oldestlockedvis, keepwriting, count, visindex, lastunlocked, wvars>>

MutStopWriting ==
  /\ mpc = "ready"
  /\ mpc' = "lastunlock"
  /\ lastunlocked' = 0
  /\ UNCHANGED <<window, keepwriting, bufferlock, after, count, visindex, wvars>>

\* The last result is in: execute tells the write thread to stop, ...
StopWriting ==
  /\ mpc = "ready"
  /\ keepwriting' = FALSE
  /\ mpc' = "lastunlock"
  /\ lastunlocked' = 0
  /\ UNCHANGED <<window, bufferlock, after, count, visindex, wvars>>

\* ... unlocks every buffer of the window, holes included, ...
LastUnlock ==
  /\ mpc = "lastunlock"
  /\ bufferlock' = [bufferlock EXCEPT
       ![(oldestlockedvis + lastunlocked) % VisBufferLength] = "free"]
  /\ lastunlocked' = lastunlocked + 1
  /\ mpc' = IF lastunlocked = WindowSize THEN "join" ELSE "lastunlock"
  /\ UNCHANGED <<window, keepwriting, after, count, visindex, wvars>>

\* ... and joins it.
JoinWriter ==
  /\ mpc = "join"
  /\ wpc = "done"
  /\ mpc' = "done"
  /\ UNCHANGED <<window, bufferlock, keepwriting, after, count, visindex,
                 lastunlocked, wvars>>

-----------------------------------------------------------------------------
(* The write thread: loopwrite *)

\* "while(keepwriting)"; on the way out the previous buffer is unlocked.
WriterCheck ==
  /\ wpc = "check"
  /\ IF keepwriting
     THEN wpc' = "lock" /\ UNCHANGED bufferlock
     ELSE /\ wpc' = "flush"
          /\ bufferlock' = [bufferlock EXCEPT ![Pred(writesegment)] = "free"]
  /\ UNCHANGED <<window, keepwriting, mvars, writesegment, flushed>>

\* Locks the next buffer, then unlocks the one before.
WriterLock ==
  /\ wpc = "lock"
  /\ bufferlock[writesegment] = "free"
  /\ wpc' = "write"
  /\ bufferlock' = [bufferlock EXCEPT ![writesegment] = "writer",
                                      ![Pred(writesegment)] = "free"]
  /\ UNCHANGED <<window, keepwriting, mvars, writesegment, flushed>>

WriterWrite ==
  /\ wpc = "write"
  /\ wpc' = "increment"
  /\ UNCHANGED <<window, bufferlock, keepwriting, mvars, writesegment, flushed>>

WriterIncrement ==
  /\ wpc = "increment"
  /\ wpc' = "check"
  /\ writesegment' = Succ(writesegment)
  /\ UNCHANGED <<window, bufferlock, keepwriting, mvars, flushed>>

\* After the loop every buffer is written once more, without any lock.
WriterFlush ==
  /\ wpc = "flush"
  /\ flushed' = flushed + 1
  /\ wpc' = IF flushed + 1 = VisBufferLength THEN "done" ELSE "flush"
  /\ UNCHANGED <<window, bufferlock, keepwriting, mvars, writesegment>>

RingDone == mpc = "done" /\ wpc = "done" /\ UNCHANGED ringvars

-----------------------------------------------------------------------------

RingManager ==
  \/ BeginLocate
  \/ AdvanceOldest
  \/ \E v \in Vis : FoundInWindow(v)
  \/ StaleResult
  \/ BeyondWindow
  \/ \E caught \in BOOLEAN : LockMore(caught)
  \/ DropOldest
  \/ StopDropping
  \/ \E caught \in BOOLEAN : LockDropped(caught)
  \/ AddIncomplete
  \/ AddLast
  \/ LockAhead
  \/ StopWriting
  \/ LastUnlock
  \/ JoinWriter

RingWriter ==
  \/ WriterCheck
  \/ WriterLock
  \/ WriterWrite
  \/ WriterIncrement
  \/ WriterFlush

RingNext == RingManager \/ RingWriter \/ RingDone

RingSpec == RingInit /\ [][RingNext]_ringvars

-----------------------------------------------------------------------------
(* Properties *)

ManagerPCs == {"ready", "advance", "locate", "extend", "dropping", "lockdropped",
               "deliver", "lockahead", "lastunlock", "join", "done"}
WriterPCs == {"check", "lock", "write", "increment", "flush", "done"}

\* Every variable has its type.
RingTypeOK ==
  /\ newestlockedvis \in Vis /\ oldestlockedvis \in Vis
  /\ islocked \in [Vis -> BOOLEAN]
  /\ bufferlock \in [Vis -> {"free", "manager", "writer"}]
  /\ keepwriting \in BOOLEAN
  /\ mpc \in ManagerPCs
  /\ after \in {"ready", "locate", "lockdropped"}
  /\ count \in Int /\ visindex \in Vis /\ lastunlocked \in 0 .. VisBufferLength
  /\ wpc \in WriterPCs /\ writesegment \in Vis /\ flushed \in 0 .. VisBufferLength

\* While the main thread looks at the buffers of its window or adds to one,
\* the write thread is at none of them: not even at a hole, whose mutex is
\* free (locateVisIndex reads the time of holes, and may return one).
NoRace ==
  mpc \in {"locate", "extend", "dropping", "lockdropped", "deliver", "lockahead"}
    /\ wpc \in {"write", "increment"} => ~InWindow(writesegment)

WaitsForNext == mpc \in {"extend", "lockdropped", "lockahead"}
NextVis == Succ(newestlockedvis)

\* When the main thread wants the next buffer, it does not hold it itself,
\* and if the write thread holds it, that thread is not waiting for a buffer
\* the main thread holds.
NoDeadlock ==
  WaitsForNext =>
    /\ bufferlock[NextVis] # "manager"
    /\ bufferlock[NextVis] = "writer" /\ wpc = "lock"
         => bufferlock[writesegment] # "manager"

\* There is a locked buffer in the window, so that the loop
\* "while(!islocked[oldestlockedvis])" stops, and stops inside the window.
AdvanceStops == mpc = "advance" => \E i \in Vis : InWindow(i) /\ islocked[i]

\* The window never takes the last two buffers: one is for the write thread
\* and one is always left to lock ahead.
WindowBound == WindowSize <= VisBufferLength - 2
=============================================================================
