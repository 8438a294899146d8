------------------------------ MODULE Monitor ------------------------------
(***************************************************************************)
(* The monitor thread of FxManager, from its start in the constructor to   *)
(* its end in execute (fxmanager.cpp).  It sleeps on writecond, with the   *)
(* mutex moncondlock, until the write thread has copied a Visibility to    *)
(* its buffer, and sends that to a monitor server.  The write thread does  *)
(* not wait for it: if monitorwritelock is taken it skips the Visibility.  *)
(* execute wakes it a last time "to quit" and joins it.                    *)
(*                                                                         *)
(* It tests keepwriting before it locks moncondlock.                       *)
(*                                                                         *)
(* The ring of Visibilities is that of VisRing.tla; here the write thread  *)
(* goes round it at its own pace.  What becomes of the socket is left out: *)
(* sending comes to an end, well or not.                                   *)
(***************************************************************************)
EXTENDS Startup

CONSTANTS monitor,      \* is there a monitor thread?
          monitor_skip  \* it is given every so many Visibilities, 1 at least

VARIABLES
  keepwriting, writesegment, flushed,
  moncondlock, monitorwritelock,
  nbuf,         \* what the buffer holds
  monpc

monvars == <<keepwriting, writesegment, flushed, moncondlock, monitorwritelock,
             nbuf, monpc>>
allvars == <<vars, monvars>>

MonInit ==
  /\ Init
  /\ keepwriting = TRUE /\ writesegment = 0 /\ flushed = 0
  /\ moncondlock = "free" /\ monitorwritelock = "free"
  /\ nbuf = 0
  /\ monpc = "none"

-----------------------------------------------------------------------------
(* The main thread, after the write thread has started *)

Launch ==
  /\ mainpc = "constructed"
  /\ mainpc' = "execute"
  /\ monpc' = IF monitor THEN "check" ELSE "none"
  /\ UNCHANGED <<bufferlock, writethreadinitialised, writerpc, keepwriting,
                 writesegment, flushed, moncondlock, monitorwritelock, nbuf>>

\* The job is over.
StopWriting ==
  /\ mainpc = "execute"
  /\ keepwriting' = FALSE
  /\ mainpc' = IF monitor THEN "lockquit" ELSE "joinwriter"
  /\ UNCHANGED <<bufferlock, writethreadinitialised, writerpc, writesegment,
                 flushed, moncondlock, monitorwritelock, nbuf, monpc>>

\* pthread_cond_signal wakes the monitor thread if it sleeps.
Wake == monpc' = IF monpc = "asleep" THEN "woken" ELSE monpc

\* "Signal Monitor Thread to quit", with the mutex it waits with.
LockQuit ==
  /\ mainpc = "lockquit" /\ moncondlock = "free"
  /\ Wake
  /\ mainpc' = "joinwriter"
  /\ UNCHANGED <<bufferlock, writethreadinitialised, writerpc, keepwriting,
                 writesegment, flushed, moncondlock, monitorwritelock, nbuf>>

JoinWriter ==
  /\ mainpc = "joinwriter" /\ writerpc = "done"
  /\ mainpc' = IF monitor THEN "joinmonitor" ELSE "finished"
  /\ UNCHANGED <<bufferlock, writethreadinitialised, writerpc, monvars>>

JoinMonitor ==
  /\ mainpc = "joinmonitor" /\ monpc = "done"
  /\ mainpc' = "finished"
  /\ UNCHANGED <<bufferlock, writethreadinitialised, writerpc, monvars>>

-----------------------------------------------------------------------------
(* The write thread: loopwrite and sendMonitorData *)

\* One Visibility is written, in the loop or in the last round; the monitor
\* thread is offered the one at writesegment.
WriteVisibility ==
  /\ \/ /\ writerpc = "loop" /\ keepwriting
        /\ UNCHANGED flushed
     \/ /\ writerpc = "loop" /\ ~keepwriting /\ flushed < VisBufferLength
        /\ flushed' = flushed + 1
  /\ writerpc' = IF monitor /\ writesegment % monitor_skip = 0
                 THEN "trylock" ELSE "increment"
  /\ UNCHANGED <<bufferlock, writethreadinitialised, mainpc, keepwriting,
                 writesegment, moncondlock, monitorwritelock, nbuf, monpc>>

\* pthread_mutex_trylock, copyVisData: "clear to go", or skipped.
Offer ==
  /\ writerpc = "trylock"
  /\ IF monitorwritelock = "free"
     THEN writerpc' = "signalmonitor" /\ nbuf' = 1
     ELSE writerpc' = "increment" /\ UNCHANGED nbuf
  /\ UNCHANGED <<bufferlock, writethreadinitialised, mainpc, keepwriting,
                 writesegment, flushed, moncondlock, monitorwritelock, monpc>>

SignalMonitor ==
  /\ writerpc = "signalmonitor" /\ moncondlock = "free"
  /\ Wake
  /\ writerpc' = "increment"
  /\ UNCHANGED <<bufferlock, writethreadinitialised, mainpc, keepwriting,
                 writesegment, flushed, moncondlock, monitorwritelock, nbuf>>

\* In the last round writesegment stays where it is.
Increment ==
  /\ writerpc = "increment"
  /\ writerpc' = "loop"
  /\ writesegment' = IF flushed > 0 THEN writesegment
                     ELSE (writesegment + 1) % VisBufferLength
  /\ UNCHANGED <<bufferlock, writethreadinitialised, mainpc, keepwriting, flushed,
                 moncondlock, monitorwritelock, nbuf, monpc>>

EndWriting ==
  /\ writerpc = "loop" /\ ~keepwriting /\ flushed = VisBufferLength
  /\ writerpc' = "done"
  /\ UNCHANGED <<bufferlock, writethreadinitialised, mainpc, monvars>>

-----------------------------------------------------------------------------
(* The monitor thread: MonitorThread *)

CheckWriting ==
  /\ monpc = "check"
  /\ monpc' = IF keepwriting THEN "lockcond" ELSE "done"
  /\ UNCHANGED <<vars, keepwriting, writesegment, flushed, moncondlock,
                 monitorwritelock, nbuf>>

LockCond ==
  /\ monpc = "lockcond" /\ moncondlock = "free"
  /\ moncondlock' = "monitor"
  /\ monpc' = "wait"
  /\ UNCHANGED <<vars, keepwriting, writesegment, flushed, monitorwritelock, nbuf>>

\* pthread_cond_wait gives up moncondlock and sleeps, ...
Sleep ==
  /\ monpc = "wait"
  /\ moncondlock' = "free"
  /\ monpc' = "asleep"
  /\ UNCHANGED <<vars, keepwriting, writesegment, flushed, monitorwritelock, nbuf>>

\* ... may wake without a signal, ...
WakeByItself ==
  /\ monpc = "asleep"
  /\ monpc' = "woken"
  /\ UNCHANGED <<vars, keepwriting, writesegment, flushed, moncondlock,
                 monitorwritelock, nbuf>>

\* ... and takes the mutex for a moment.  Then the thread tests keepwriting.
WakeUp ==
  /\ monpc = "woken" /\ moncondlock = "free"
  /\ monpc' = IF keepwriting THEN "lockbuffer" ELSE "done"
  /\ UNCHANGED <<vars, keepwriting, writesegment, flushed, moncondlock,
                 monitorwritelock, nbuf>>

LockBuffer ==
  /\ monpc = "lockbuffer" /\ monitorwritelock = "free"
  /\ IF nbuf = 0
     THEN monpc' = "check" /\ UNCHANGED monitorwritelock
     ELSE monpc' = "send" /\ monitorwritelock' = "monitor"
  /\ UNCHANGED <<vars, keepwriting, writesegment, flushed, moncondlock, nbuf>>

Send ==
  /\ monpc = "send"
  /\ nbuf' = 0
  /\ monitorwritelock' = "free"
  /\ monpc' = "check"
  /\ UNCHANGED <<vars, keepwriting, writesegment, flushed, moncondlock>>

-----------------------------------------------------------------------------

MainThread ==
  \/ Construct /\ UNCHANGED monvars
  \/ Launch \/ StopWriting \/ LockQuit \/ JoinWriter \/ JoinMonitor

Writer ==
  \/ StartWriting /\ UNCHANGED monvars
  \/ WriteVisibility \/ Offer \/ SignalMonitor \/ Increment \/ EndWriting

MonitorThread ==
  CheckWriting \/ LockCond \/ Sleep \/ WakeUp \/ LockBuffer \/ Send

Finished == mainpc = "finished" /\ UNCHANGED allvars

MonNext ==
  \/ MainThread \/ Writer \/ MonitorThread \/ Finished
  \/ (Spurious /\ UNCHANGED monvars) \/ WakeByItself

\* All threads run.  A wakeup without a signal may happen but need not.  A mutex
\* here is free again after a step of its owner, who lets others in.
MonSpec ==
  /\ MonInit /\ [][MonNext]_allvars
  /\ SF_allvars(MainThread) /\ SF_allvars(Writer) /\ SF_allvars(MonitorThread)

-----------------------------------------------------------------------------
(* Properties *)

\* The constructor comes to its end, with the write thread initialised.
Constructed == <>(mainpc = "execute")

\* Once execute has signalled the monitor thread to quit, it does: "Signal
\* Monitor Thread to quit" (line 378).
MonitorQuits == mainpc = "joinwriter" ~> mainpc = "finished"

\* Whoever waits for another thread is woken in the end: in the constructor for
\* the write thread, in execute for both.
ThreadsHeard == Constructed /\ MonitorQuits
=============================================================================
