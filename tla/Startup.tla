------------------------------ MODULE Startup ------------------------------
(***************************************************************************)
(* How the constructor of FxManager starts the write thread: it creates it *)
(* while it holds the first two buffers, and waits on the condition        *)
(* writecond, with the mutex of buffer 1, until the thread has locked the  *)
(* last buffer and set writethreadinitialised (fxmanager.cpp).  The thread *)
(* sets the flag and signals without holding the mutex of buffer 1.        *)
(*                                                                         *)
(* VisRing begins where this module ends, and Monitor.tla goes on with the *)
(* other thread that waits on writecond.                                   *)
(***************************************************************************)
EXTENDS Integers

CONSTANT VisBufferLength        \* as in VisRing

VARIABLES bufferlock, writethreadinitialised, mainpc, writerpc

vars == <<bufferlock, writethreadinitialised, mainpc, writerpc>>

Last == VisBufferLength - 1

Init ==
  /\ bufferlock = [i \in 0 .. Last |-> IF i \in {0, 1} THEN "manager" ELSE "free"]
  /\ writethreadinitialised = FALSE
  /\ mainpc = "create" /\ writerpc = "none"

-----------------------------------------------------------------------------
(* The constructor *)

Create ==
  /\ mainpc = "create"
  /\ mainpc' = "test" /\ writerpc' = "lockend"
  /\ UNCHANGED <<bufferlock, writethreadinitialised>>

Test ==
  /\ mainpc = "test"
  /\ mainpc' = IF writethreadinitialised THEN "constructed" ELSE "wait"
  /\ UNCHANGED <<bufferlock, writethreadinitialised, writerpc>>

\* pthread_cond_wait gives up the mutex of buffer 1 and sleeps, ...
Wait ==
  /\ mainpc = "wait"
  /\ mainpc' = "asleep"
  /\ bufferlock' = [bufferlock EXCEPT ![1] = "free"]
  /\ UNCHANGED <<writethreadinitialised, writerpc>>

\* ... may wake without a signal, ...
Spurious ==
  /\ mainpc = "asleep"
  /\ mainpc' = "woken"
  /\ UNCHANGED <<bufferlock, writethreadinitialised, writerpc>>

\* ... and takes the mutex again before it returns.
Return ==
  /\ mainpc = "woken"
  /\ bufferlock[1] = "free"
  /\ bufferlock' = [bufferlock EXCEPT ![1] = "manager"]
  /\ mainpc' = "test"
  /\ UNCHANGED <<writethreadinitialised, writerpc>>

-----------------------------------------------------------------------------
(* The write thread, as far as its first lock in the loop, on buffer 0 *)

LockEnd ==
  /\ writerpc = "lockend"
  /\ bufferlock[Last] = "free"
  /\ bufferlock' = [bufferlock EXCEPT ![Last] = "writer"]
  /\ writerpc' = "initialised"
  /\ UNCHANGED <<writethreadinitialised, mainpc>>

SetInitialised ==
  /\ writerpc = "initialised"
  /\ writethreadinitialised' = TRUE
  /\ writerpc' = "signal"
  /\ UNCHANGED <<bufferlock, mainpc>>

\* pthread_cond_signal is forgotten if nobody sleeps.
Signal ==
  /\ writerpc = "signal"
  /\ mainpc' = IF mainpc = "asleep" THEN "woken" ELSE mainpc
  /\ writerpc' = "loop"
  /\ UNCHANGED <<bufferlock, writethreadinitialised>>

-----------------------------------------------------------------------------

Construct == Create \/ Test \/ Wait \/ Return
StartWriting == LockEnd \/ SetInitialised \/ Signal
=============================================================================
