------------------------------ MODULE Dispatch ------------------------------
(***************************************************************************)
(* The manager, the DataStreams and the Cores as the MPI processes they    *)
(* are.  The manager sends the time of a subint to a Core and then, with   *)
(* MPI_Ssend, to every DataStream in turn; each DataStream sends its data  *)
(* to the Core with MPI_Issend; the Core sends the result to the manager   *)
(* with MPI_Ssend.  So the manager may wait for a DataStream, that for a   *)
(* Core, and that for the manager.                                         *)
(*                                                                         *)
(* Each process is reduced to what it waits for.  FxManager.tla, Core.tla  *)
(* and DataStream.tla have the inside: there, what this module takes for   *)
(* a step is shown to end, given that the others do their part.            *)
(*                                                                         *)
(* A subint is its number in the job.  No message but those of the manager *)
(* says which subint it is about: that is a matter of their order.         *)
(***************************************************************************)
EXTENDS Integers, Sequences

CONSTANTS
  NumCores, NumDataStreams,
  RECEIVE_RING_LENGTH,  \* slots of a Core
  Window,       \* a DataStream goes on once all but its last Window sends are over
  Lengths,      \* how many subints jobs have
  Eager         \* MPI_Send of a few bytes does not wait for the receiver

ASSUME DispatchAssumption ==
  /\ NumCores \in Nat \ {0} /\ NumDataStreams \in Nat \ {0}
  /\ RECEIVE_RING_LENGTH \in Nat \ {0}
  /\ Window \in Nat /\ Lengths \subseteq Nat /\ Eager \in BOOLEAN

Cores == 0 .. NumCores - 1
DataStreams == 0 .. NumDataStreams - 1

VARIABLES
  length,       \* of this job
  mpc, sendcount, target, next, left,   \* of the manager
  times,        \* what it sent to each Core with MPI_Send
  commands,     \* and to each DataStream: what the posted receive got, and more
  dpc, command, pending,        \* of each DataStream: sends not yet taken
  cpc, offsets, databuffer,     \* of each Core: the slot it is filling
  slots         \* and those filled, whose results the manager does not have

managervars == <<mpc, sendcount, target, next, left>>
streamvars == <<dpc, command, pending>>
corevars == <<cpc, offsets, databuffer, slots>>
vars == <<length, managervars, times, commands, streamvars, corevars>>

Terminate == -1
Nothing == -2

Init ==
  /\ length \in Lengths
  /\ mpc = "scan" /\ sendcount = 0 /\ target = 0 /\ next = 0 /\ left = 0
  /\ times = [c \in Cores |-> <<>>]
  /\ commands = [d \in DataStreams |-> <<>>]
  /\ dpc = [d \in DataStreams |-> "init"]
  /\ command = [d \in DataStreams |-> [core |-> 0, subint |-> 0]]
  /\ pending = [d \in DataStreams |-> {}]
  /\ cpc = [c \in Cores |-> "time"]
  /\ offsets = [c \in Cores |-> 0]
  /\ databuffer = [c \in Cores |-> [d \in DataStreams |-> Nothing]]
  /\ slots = [c \in Cores |-> <<>>]

-----------------------------------------------------------------------------
(* The manager *)

Full == RECEIVE_RING_LENGTH * NumCores

\* The next subint goes to the Cores in turn while they are filled up.
FillUp ==
  /\ mpc = "scan" /\ sendcount < length /\ sendcount < Full
  /\ target' = sendcount % NumCores
  /\ mpc' = "sendtime"
  /\ UNCHANGED <<length, sendcount, next, left, times, commands, streamvars, corevars>>

\* The first result of Core c that is not yet with the manager.
TakeResult(c) ==
  /\ cpc[c] \in {"result", "drain"}
  /\ slots' = [slots EXCEPT ![c] = Tail(@)]
  /\ cpc' = [cpc EXCEPT ![c] = IF @ = "result" THEN "time"
                               ELSE IF slots'[c] = <<>> THEN "done" ELSE "drain"]
  /\ UNCHANGED <<offsets, databuffer>>

\* Then it goes to whatever Core has a result.
Receive(c) ==
  /\ mpc = "scan" /\ sendcount < length /\ sendcount >= Full
  /\ TakeResult(c)
  /\ target' = c
  /\ mpc' = "sendtime"
  /\ UNCHANGED <<length, sendcount, next, left, times, commands, streamvars>>

\* MPI_Send to a Core: if it is not eager, the Core must be receiving.
MaySend(c) == Eager \/ (cpc[c] = "time" /\ times[c] = <<>>)

SendTime ==
  /\ mpc = "sendtime"
  /\ MaySend(target)
  /\ times' = [times EXCEPT ![target] = Append(@, sendcount)]
  /\ mpc' = "command" /\ next' = 0
  /\ UNCHANGED <<length, sendcount, target, left, commands, streamvars, corevars>>

\* A DataStream always has a receive posted for one command ahead.
Posted(d) == dpc[d] # "init" /\ commands[d] = <<>>

\* MPI_Ssend to each DataStream ends when the receive for it has begun.
Command ==
  /\ mpc = "command"
  /\ Posted(next)
  /\ commands' = [commands EXCEPT ![next] = <<[core |-> target, subint |-> sendcount]>>]
  /\ IF next = NumDataStreams - 1
     THEN mpc' = "scan" /\ sendcount' = sendcount + 1 /\ UNCHANGED next
     ELSE next' = next + 1 /\ UNCHANGED <<mpc, sendcount>>
  /\ UNCHANGED <<length, target, left, times, streamvars, corevars>>

\* No more subints, or interrupted: MPI_Send to all Cores, ...
EndScans ==
  /\ mpc = "scan" /\ sendcount = length
  /\ mpc' = "endcores" /\ next' = 0
  /\ UNCHANGED <<length, sendcount, target, left, times, commands, streamvars, corevars>>

TerminateCore ==
  /\ mpc = "endcores"
  /\ MaySend(next)
  /\ times' = [times EXCEPT ![next] = Append(@, Terminate)]
  /\ IF next = NumCores - 1 THEN mpc' = "endstreams" /\ next' = 0
                            ELSE next' = next + 1 /\ UNCHANGED mpc
  /\ UNCHANGED <<length, sendcount, target, left, commands, streamvars, corevars>>

\* ... and to all DataStreams; then as many results as there still are.
TerminateStream ==
  /\ mpc = "endstreams"
  /\ Eager \/ Posted(next)
  /\ commands' = [commands EXCEPT ![next] = Append(@, [core |-> 0, subint |-> Terminate])]
  /\ IF next = NumDataStreams - 1
     THEN /\ mpc' = "drain"
          /\ left' = IF sendcount < Full THEN sendcount ELSE Full
          /\ UNCHANGED next
     ELSE next' = next + 1 /\ UNCHANGED <<mpc, left>>
  /\ UNCHANGED <<length, sendcount, target, times, streamvars, corevars>>

ReceiveLast(c) ==
  /\ mpc = "drain" /\ left > 0
  /\ TakeResult(c)
  /\ left' = left - 1
  /\ UNCHANGED <<length, mpc, sendcount, target, next, times, commands, streamvars>>

-----------------------------------------------------------------------------
(* A DataStream *)

\* The buffer has its first data, the first receive is posted.
Post(d) ==
  /\ dpc[d] = "init"
  /\ dpc' = [dpc EXCEPT ![d] = "idle"]
  /\ UNCHANGED <<length, managervars, times, commands, command, pending, corevars>>

\* MPI_Wait; the next receive is posted at once.
TakeCommand(d) ==
  /\ dpc[d] = "idle" /\ commands[d] # <<>>
  /\ command' = [command EXCEPT ![d] = Head(commands[d])]
  /\ commands' = [commands EXCEPT ![d] = Tail(@)]
  /\ dpc' = [dpc EXCEPT ![d] =
       IF command'[d].subint = Terminate THEN "finish" ELSE "process"]
  /\ UNCHANGED <<length, managervars, times, pending, corevars>>

\* Waits for older sends (waitForSendComplete, and for the reader thread, which
\* waits for them in waitForBuffer), then MPI_Issend.
SendTo(d, core) ==
  /\ dpc[d] = "process"
  /\ \A p \in pending[d] : p.subint >= command[d].subint - Window
  /\ pending' = [pending EXCEPT ![d] =
       @ \cup {[core |-> core, subint |-> command[d].subint]}]
  /\ dpc' = [dpc EXCEPT ![d] = "idle"]
  /\ UNCHANGED <<length, managervars, times, commands, command, corevars>>

MutSendData(d) ==
  SendTo(d, IF commands[d] # <<>> THEN Head(commands[d]).core ELSE command[d].core)

SendData(d) == SendTo(d, command[d].core)

FinishSends(d) ==
  /\ dpc[d] = "finish" /\ pending[d] = {}
  /\ dpc' = [dpc EXCEPT ![d] = "done"]
  /\ UNCHANGED <<length, managervars, times, commands, command, pending, corevars>>

-----------------------------------------------------------------------------
(* A Core *)

ReceiveTime(c) ==
  /\ cpc[c] = "time" /\ times[c] # <<>>
  /\ times' = [times EXCEPT ![c] = Tail(@)]
  /\ IF Head(times[c]) = Terminate
     THEN /\ cpc' = [cpc EXCEPT ![c] = IF slots[c] = <<>> THEN "done" ELSE "drain"]
          /\ UNCHANGED <<offsets, databuffer>>
     ELSE /\ cpc' = [cpc EXCEPT ![c] = "data"]
          /\ offsets' = [offsets EXCEPT ![c] = Head(times[c])]
          /\ databuffer' = [databuffer EXCEPT ![c] = [d \in DataStreams |-> Nothing]]
  /\ UNCHANGED <<length, managervars, commands, streamvars, slots>>

\* A posted receive takes the first message of a DataStream to this Core.
ReceiveData(c, d) ==
  /\ cpc[c] = "data" /\ databuffer[c][d] = Nothing
  /\ \E p \in pending[d] :
       /\ p.core = c /\ \A q \in pending[d] : q.core = c => p.subint <= q.subint
       /\ pending' = [pending EXCEPT ![d] = @ \ {p}]
       /\ databuffer' = [databuffer EXCEPT ![c][d] = p.subint]
  /\ UNCHANGED <<length, managervars, times, commands, dpc, command, cpc, offsets, slots>>

MutMustAnswerLate(filled) == Len(filled) > RECEIVE_RING_LENGTH
MutMustAnswer(filled) == Len(filled) >= RECEIVE_RING_LENGTH - 1

\* With all slots full, a Core sends a result before it receives anything else.
MustAnswer(filled) == Len(filled) >= RECEIVE_RING_LENGTH

\* MPI_Waitall: the slot is full.
FillSlot(c) ==
  /\ cpc[c] = "data" /\ \A d \in DataStreams : databuffer[c][d] # Nothing
  /\ slots' = [slots EXCEPT ![c] =
       Append(@, [offsets |-> offsets[c], data |-> databuffer[c]])]
  /\ cpc' = [cpc EXCEPT ![c] = IF MustAnswer(slots'[c]) THEN "result" ELSE "time"]
  /\ UNCHANGED <<length, managervars, times, commands, streamvars, offsets, databuffer>>

-----------------------------------------------------------------------------

\* The manager has all results, and all the others have come to their end.
Ended ==
  /\ mpc = "drain" /\ left = 0
  /\ \A d \in DataStreams : dpc[d] = "done"
  /\ \A c \in Cores : cpc[c] = "done"
  /\ UNCHANGED vars

Manager ==
  \/ FillUp \/ SendTime \/ Command \/ EndScans \/ TerminateCore \/ TerminateStream
  \/ \E c \in Cores : Receive(c) \/ ReceiveLast(c)

StreamStep(d) == Post(d) \/ TakeCommand(d) \/ SendData(d) \/ FinishSends(d)

CoreStep(c) == ReceiveTime(c) \/ FillSlot(c) \/ \E d \in DataStreams : ReceiveData(c, d)

Next ==
  \/ Manager
  \/ \E d \in DataStreams : StreamStep(d)
  \/ \E c \in Cores : CoreStep(c)
  \/ Ended

Spec == Init /\ [][Next]_vars

-----------------------------------------------------------------------------
(* Properties *)

\* What a Core gets from every DataStream is the data of the subint whose time
\* it got from the manager (receivedata).
RightSubint ==
  \A c \in Cores : \A i \in DOMAIN slots[c] : \A d \in DataStreams :
    slots[c][i].data[d] = slots[c][i].offsets

\* No data is on its way to a Core that waits for the manager to take a result,
\* nor any command to send it some.  So no DataStream can be waiting for such a
\* Core, and a manager that waits for a DataStream never waits for itself.
NoCycle ==
  \A c \in Cores : cpc[c] = "result" =>
    \A d \in DataStreams :
      /\ \A p \in pending[d] : p.core # c
      /\ dpc[d] = "process" => command[d].core # c
      /\ \A i \in DOMAIN commands[d] :
           commands[d][i].subint # Terminate => commands[d][i].core # c

\* What a process waits for while it does not go on.
ManagerWaits ==
  \/ mpc = "scan" /\ sendcount < length /\ sendcount >= Full
     /\ \A c \in Cores : cpc[c] \notin {"result", "drain"}
  \/ mpc = "sendtime" /\ ~MaySend(target)
  \/ mpc = "command" /\ ~Posted(next)
  \/ mpc = "endcores" /\ ~MaySend(next)
  \/ mpc = "endstreams" /\ ~(Eager \/ Posted(next))
  \/ mpc = "drain" /\ (left > 0 => \A c \in Cores : cpc[c] \notin {"result", "drain"})

StreamWaits(d) ==
  \/ dpc[d] = "idle" /\ commands[d] = <<>>
  \/ dpc[d] = "process" /\ \E p \in pending[d] : p.subint < command[d].subint - Window
  \/ dpc[d] = "finish" /\ pending[d] # {}
  \/ dpc[d] = "done"

CoreWaits(c) ==
  \/ cpc[c] = "time" /\ times[c] = <<>>
  \/ cpc[c] = "data" /\ (\E d \in DataStreams : databuffer[c][d] = Nothing)
     /\ \A d \in DataStreams : databuffer[c][d] = Nothing => \A p \in pending[d] : p.core # c
  \/ cpc[c] \in {"result", "drain", "done"}

\* When all processes wait, it is because the job is over: with sends that need
\* not be received to return (see terminate) they never wait for each other.
SomebodyGoesOn ==
  Eager /\ ManagerWaits
        /\ (\A d \in DataStreams : StreamWaits(d)) /\ (\A c \in Cores : CoreWaits(c)) =>
    /\ mpc = "drain" /\ left = 0
    /\ \A d \in DataStreams : dpc[d] = "done"
    /\ \A c \in Cores : cpc[c] = "done"
=============================================================================
