--------------------------- MODULE DispatchProofs ---------------------------
(***************************************************************************)
(* Proofs about Dispatch, for any numbers of Cores, DataStreams and slots, *)
(* any job, and whether or not MPI_Send waits.                             *)
(*                                                                         *)
(* The invariant ties what a DataStream was told to what the Core expects: *)
(* the messages to a Core are of just those subints whose time that Core   *)
(* has before it or is working on, but for the one the manager is giving   *)
(* the command for (MessageInv).  As both are in the order of the job      *)
(* (TimesInv, StreamInv), the first message is always the right one.       *)
(* LoadInv counts: a Core with a result in its hands has no time before    *)
(* it, so that by MessageInv there is no message either.                   *)
(*                                                                         *)
(* The last part shows that they never all wait for each other.  The       *)
(* oldest data on its way would be for a Core that awaits older data, and  *)
(* by MessageInv that is on its way too: so there is none.  Then all that  *)
(* is left to wait for is results, and of those TotalInv counts as many in *)
(* the hands of the Cores as the manager expects.                          *)
(***************************************************************************)
EXTENDS Dispatch, Numbers, TLAPS

ManagerPCs == {"scan", "sendtime", "command", "endcores", "endstreams", "drain"}
StreamPCs == {"init", "idle", "process", "finish", "done"}
CorePCs == {"time", "data", "result", "drain", "done"}
Times == Nat \cup {Terminate}
Commands == [core : Cores, subint : Times]
Messages == [core : Cores, subint : Nat]
Buffer == [DataStreams -> Int]
Slot == [offsets : Nat, data : Buffer]

ManagerOK ==
  /\ length \in Nat
  /\ mpc \in ManagerPCs /\ sendcount \in Nat /\ target \in Cores /\ left \in Int
  /\ next \in Nat
  /\ mpc \in {"command", "endstreams"} => next \in DataStreams
  /\ mpc = "endcores" => next \in Cores

QueuesOK ==
  /\ times \in [Cores -> Seq(Times)]
  /\ commands \in [DataStreams -> Seq(Commands)]

StreamsOK ==
  /\ dpc \in [DataStreams -> StreamPCs]
  /\ command \in [DataStreams -> Commands]
  /\ \A d \in DataStreams : dpc[d] = "process" => command[d].subint \in Nat
  /\ pending \in [DataStreams -> SUBSET Messages]

CoresOK ==
  /\ cpc \in [Cores -> CorePCs]
  /\ offsets \in [Cores -> Nat]
  /\ databuffer \in [Cores -> Buffer]
  /\ slots \in [Cores -> Seq(Slot)]

TypeOK == ManagerOK /\ QueuesOK /\ StreamsOK /\ CoresOK

Sending == mpc \in {"scan", "sendtime", "command"}

\* The times before a Core are in order, and the last may be the end.
EndLast(c) ==
  \A i \in 1 .. Len(times[c]) : times[c][i] = Terminate =>
    ~Sending /\ (mpc = "endcores" => c < next)

Ascending(c) ==
  \A i, j \in 1 .. Len(times[c]) : i < j =>
    times[c][i] # Terminate /\ (times[c][j] # Terminate => times[c][i] < times[c][j])

Sent(n) == n < sendcount \/ (mpc = "command" /\ n = sendcount)

AllSent(c) ==
  /\ \A i \in 1 .. Len(times[c]) :
       /\ Sent(times[c][i])
       /\ cpc[c] = "data" /\ times[c][i] # Terminate => offsets[c] < times[c][i]
  /\ cpc[c] = "data" => Sent(offsets[c])

TimesOf(c) == EndLast(c) /\ Ascending(c) /\ AllSent(c)

TimesInv == \A c \in Cores : TimesOf(c)

\* Subint n was commanded to DataStream d.
Commanded(d, n) ==
  n < sendcount \/ (mpc = "command" /\ d < next /\ n = sendcount)

\* The order of what is at a DataStream.
QueueOf(d) ==
  \A i \in 1 .. Len(commands[d]) :
    /\ i > 1 => commands[d][i].subint = Terminate
    /\ commands[d][i].subint # Terminate =>
         /\ \A p \in pending[d] : p.subint < commands[d][i].subint
         /\ dpc[d] = "process" => command[d].subint < commands[d][i].subint
         /\ Commanded(d, commands[d][i].subint)

CommandOf(d) ==
  dpc[d] = "process" =>
    /\ \A p \in pending[d] : p.subint < command[d].subint
    /\ Commanded(d, command[d].subint)

PendingOf(d) == \A p \in pending[d] : Commanded(d, p.subint)

StreamOf(d) == QueueOf(d) /\ CommandOf(d) /\ PendingOf(d)

StreamInv == \A d \in DataStreams : StreamOf(d)

\* DataStream d is to send subint n to Core c, or is sending it.
HasMessage(c, d, n) ==
  \/ \E p \in pending[d] : p.core = c /\ p.subint = n
  \/ dpc[d] = "process" /\ command[d].core = c /\ command[d].subint = n
  \/ \E i \in 1 .. Len(commands[d]) : commands[d][i].core = c /\ commands[d][i].subint = n

\* Core c still has to receive the data of subint n from d.
Awaits(c, d, n) ==
  \/ \E i \in 1 .. Len(times[c]) : times[c][i] = n
  \/ cpc[c] = "data" /\ offsets[c] = n /\ databuffer[c][d] = Nothing

Coming(c, d, n) == mpc = "command" /\ d >= next /\ target = c /\ sendcount = n

MessageInv ==
  \A c \in Cores, d \in DataStreams, n \in Nat :
    Awaits(c, d, n) <=> (HasMessage(c, d, n) \/ Coming(c, d, n))

DataInv ==
  \A c \in Cores : cpc[c] = "data" =>
    \A d \in DataStreams : databuffer[c][d] \in {Nothing, offsets[c]}

EndSent(c) == \E i \in 1 .. Len(times[c]) : times[c][i] = Terminate

\* What Core c has before it and has not answered.
Busy(c) == IF cpc[c] = "data" THEN 1 ELSE 0
Due(c) == IF mpc = "sendtime" /\ target = c THEN 1 ELSE 0
Filled(c) == Len(slots[c])
Queued(c) == Len(times[c])
Given(c) == Busy(c) + Filled(c) + Queued(c)
Load(c) == Given(c) + Due(c)

\* How many of the first n subints go to Core c while the Cores are filled up.
TurnsOfCore(c, n) == Turns(c, n, NumCores)

BoundOf(c) == Load(c) <= RECEIVE_RING_LENGTH + IF EndSent(c) THEN 1 ELSE 0

\* The subints whose Core is chosen.
Chosen == IF mpc = "scan" THEN sendcount ELSE sendcount + 1

TurnsOf(c) == Sending /\ sendcount < Full => Load(c) <= TurnsOfCore(c, Chosen)

HandsOf(c) ==
  /\ cpc[c] = "result" => Len(slots[c]) >= RECEIVE_RING_LENGTH
  /\ cpc[c] = "drain" => Len(slots[c]) > 0

LoadInv == \A c \in Cores : BoundOf(c) /\ TurnsOf(c) /\ HandsOf(c)

Inv == TypeOK /\ TimesInv /\ StreamInv /\ MessageInv /\ DataInv /\ LoadInv
         /\ RightSubint

-----------------------------------------------------------------------------
(* Sequences *)

\* What Append does.
LEMMA Appended ==
  ASSUME NEW S, NEW s \in Seq(S), NEW x \in S
  PROVE  /\ Append(s, x) \in Seq(S)
         /\ Len(Append(s, x)) = Len(s) + 1 /\ Len(s) \in Nat
         /\ \A i \in 1 .. Len(s) : Append(s, x)[i] = s[i]
         /\ Append(s, x)[Len(s) + 1] = x
OBVIOUS

\* What Head and Tail do.
LEMMA Taken ==
  ASSUME NEW S, NEW s \in Seq(S), s # << >>
  PROVE  /\ Tail(s) \in Seq(S)
         /\ Len(s) \in Nat /\ Len(s) > 0 /\ Len(Tail(s)) = Len(s) - 1
         /\ \A i \in 1 .. Len(s) - 1 : Tail(s)[i] = s[i + 1]
         /\ Head(s) = s[1] /\ s[1] \in S
OBVIOUS

\* The Cores and the DataStreams are numbered from zero.
LEMMA Numbers ==
  /\ 0 \in Cores /\ 0 \in DataStreams /\ Cores \subseteq Nat /\ DataStreams \subseteq Nat
  /\ \A c \in Cores : c # NumCores - 1 => c + 1 \in Cores
  /\ \A d \in DataStreams : d # NumDataStreams - 1 => d + 1 \in DataStreams
  /\ \A n \in Nat : n % NumCores \in Cores
BY DispatchAssumption DEF Cores, DataStreams

-----------------------------------------------------------------------------
(* The initial states *)

LEMMA InitInv == Init => Inv
<1> SUFFICES ASSUME Init PROVE Inv
  OBVIOUS
<1> USE DispatchAssumption
<1>1. ManagerOK /\ StreamsOK
  BY Numbers DEF Init, ManagerOK, StreamsOK, ManagerPCs, StreamPCs, Commands, Times
<1>5. QueuesOK /\ CoresOK
  BY Numbers DEF Init, QueuesOK, CoresOK, CorePCs, Buffer, Nothing
<1>2. TimesInv /\ StreamInv /\ DataInv /\ RightSubint
  BY DEF Init, TimesInv, TimesOf, EndLast, Ascending, AllSent, StreamInv, StreamOf, QueueOf, CommandOf, PendingOf, DataInv, RightSubint
<1>3. MessageInv
  BY DEF Init, MessageInv, HasMessage, Awaits, Coming
<1>4. LoadInv
  BY DEF Init, LoadInv, BoundOf, TurnsOf, Chosen, HandsOf, Load, Given, Filled, Queued, Busy, Due, Sending, EndSent, TurnsOfCore, Turns
<1> QED BY <1>1, <1>2, <1>3, <1>4, <1>5 DEF Inv, TypeOK

-----------------------------------------------------------------------------
(* Types *)

LEMMA ManagerStep == ManagerOK /\ [Next]_vars => ManagerOK'
<1> SUFFICES ASSUME ManagerOK, [Next]_vars PROVE ManagerOK'
  OBVIOUS
<1> USE Numbers DEF ManagerOK, ManagerPCs
<1>1. CASE UNCHANGED <<length, managervars>>
  BY <1>1 DEF managervars
<1>2. CASE FillUp \/ SendTime
  BY <1>2 DEF FillUp, SendTime
<1>3. CASE Command
  BY <1>3 DEF Command
<1>4. CASE EndScans \/ TerminateCore
  BY <1>4 DEF EndScans, TerminateCore
<1>5. CASE TerminateStream
  <2>1. Full \in Int
    BY DispatchAssumption DEF Full
  <2>2. left' \in Int
    BY <1>5, <2>1 DEF TerminateStream
  <2> QED BY <1>5, <2>2 DEF TerminateStream
<1>6. ASSUME NEW c \in Cores, Receive(c) \/ ReceiveLast(c) PROVE ManagerOK'
  BY <1>6 DEF Receive, ReceiveLast
<1>7. ASSUME NEW d \in DataStreams, StreamStep(d) PROVE UNCHANGED <<length, managervars>>
  BY <1>7 DEF StreamStep, Post, TakeCommand, SendData, SendTo, FinishSends
<1>8. ASSUME NEW c \in Cores, CoreStep(c) PROVE UNCHANGED <<length, managervars>>
  BY <1>8 DEF CoreStep, ReceiveTime, ReceiveData, FillSlot
<1> QED
  BY <1>1, <1>2, <1>3, <1>4, <1>5, <1>6, <1>7, <1>8 DEF Next, Manager, Ended, vars

LEMMA QueuesStep ==
  ManagerOK /\ QueuesOK /\ [Next]_vars => QueuesOK'
<1> SUFFICES ASSUME ManagerOK, QueuesOK, [Next]_vars PROVE QueuesOK'
  OBVIOUS
<1> USE DEF ManagerOK, QueuesOK
<1>1. CASE UNCHANGED <<times, commands>>
  BY <1>1
<1>2. ASSUME NEW c \in Cores, NEW x \in Times,
             times' = [times EXCEPT ![c] = Append(@, x)], UNCHANGED commands
      PROVE  QueuesOK'
  BY <1>2
<1>3. ASSUME NEW d \in DataStreams, NEW x \in Commands,
             commands' = [commands EXCEPT ![d] = Append(@, x)], UNCHANGED times
      PROVE  QueuesOK'
  BY <1>3
<1>4. CASE SendTime
  BY <1>2, <1>4 DEF SendTime, Times
<1>5. CASE TerminateCore
  BY <1>2, <1>5 DEF TerminateCore, Times
<1>6. CASE Command
  <2>1. [core |-> target, subint |-> sendcount] \in Commands /\ next \in DataStreams
    BY <1>6 DEF Command, Commands, Times
  <2> QED BY <1>6, <2>1 DEF Command
<1>7. CASE TerminateStream
  <2>1. [core |-> 0, subint |-> Terminate] \in Commands /\ next \in DataStreams
    BY <1>7, Numbers DEF TerminateStream, Commands, Times
  <2> QED BY <1>3, <1>7, <2>1 DEF TerminateStream
<1>8. ASSUME NEW d \in DataStreams, TakeCommand(d) PROVE QueuesOK'
  BY <1>8, Taken DEF TakeCommand
<1>9. ASSUME NEW c \in Cores, ReceiveTime(c) PROVE QueuesOK'
  BY <1>9, Taken DEF ReceiveTime
<1>10. CASE FillUp \/ EndScans \/ \E c \in Cores : Receive(c) \/ ReceiveLast(c)
  BY <1>1, <1>10 DEF FillUp, EndScans, Receive, ReceiveLast
<1>11. ASSUME NEW d \in DataStreams, Post(d) \/ SendData(d) \/ FinishSends(d)
       PROVE  QueuesOK'
  BY <1>1, <1>11 DEF Post, SendData, SendTo, FinishSends
<1>12. ASSUME NEW c \in Cores, FillSlot(c) \/ \E d \in DataStreams : ReceiveData(c, d)
       PROVE  QueuesOK'
  BY <1>1, <1>12 DEF FillSlot, ReceiveData
<1> QED
  BY <1>1, <1>4, <1>5, <1>6, <1>7, <1>8, <1>9, <1>10, <1>11, <1>12
  DEF Next, Manager, StreamStep, CoreStep, Ended, vars

LEMMA StreamsStep ==
  ManagerOK /\ QueuesOK /\ StreamsOK /\ [Next]_vars => StreamsOK'
<1> SUFFICES ASSUME ManagerOK, QueuesOK, StreamsOK, [Next]_vars PROVE StreamsOK'
  OBVIOUS
<1> USE DEF StreamsOK, StreamPCs
<1>1. CASE UNCHANGED streamvars
  BY <1>1 DEF streamvars
<1>2. CASE Manager
  BY <1>1, <1>2 DEF Manager, FillUp, SendTime, Command, EndScans, TerminateCore,
    TerminateStream, Receive, ReceiveLast
<1>3. ASSUME NEW d \in DataStreams, Post(d) \/ FinishSends(d) PROVE StreamsOK'
  BY <1>3 DEF Post, FinishSends
<1>4. ASSUME NEW d \in DataStreams, TakeCommand(d) PROVE StreamsOK'
  <2>1. Head(commands[d]) \in Commands
    BY <1>4, Taken DEF TakeCommand, QueuesOK
  <2>2. Head(commands[d]).subint # Terminate => Head(commands[d]).subint \in Nat
    BY <2>1 DEF Commands, Times
  <2> QED BY <1>4, <2>1, <2>2 DEF TakeCommand
<1>5. ASSUME NEW d \in DataStreams, SendData(d) PROVE StreamsOK'
  <2>1. [core |-> command[d].core, subint |-> command[d].subint] \in Messages
    BY <1>5 DEF SendData, SendTo, Commands, Messages
  <2> QED BY <1>5, <2>1 DEF SendData, SendTo
<1>6. ASSUME NEW c \in Cores, CoreStep(c) PROVE StreamsOK'
  BY <1>1, <1>6 DEF CoreStep, ReceiveTime, FillSlot, ReceiveData, streamvars
<1> QED
  BY <1>1, <1>2, <1>3, <1>4, <1>5, <1>6 DEF Next, StreamStep, Ended, vars

LEMMA CoresStep ==
  TypeOK /\ LoadInv /\ [Next]_vars => CoresOK'
<1> SUFFICES ASSUME TypeOK, LoadInv, [Next]_vars PROVE CoresOK'
  OBVIOUS
<1> USE DEF CoresOK, TypeOK, CorePCs
<1>1. CASE UNCHANGED corevars
  BY <1>1 DEF corevars
<1>2. ASSUME NEW c \in Cores, TakeResult(c) PROVE CoresOK'
  <2>1. slots[c] # << >>
    BY <1>2, DispatchAssumption DEF TakeResult, LoadInv, HandsOf
  <2>2. Tail(slots[c]) \in Seq(Slot)
    BY <2>1, Taken
  <2> QED BY <1>2, <2>2 DEF TakeResult
<1>3. CASE Manager
  BY <1>1, <1>2, <1>3 DEF Manager, FillUp, SendTime, Command, EndScans, TerminateCore,
    TerminateStream, Receive, ReceiveLast
<1>4. ASSUME NEW d \in DataStreams, StreamStep(d) PROVE CoresOK'
  BY <1>1, <1>4 DEF StreamStep, Post, TakeCommand, SendData, SendTo, FinishSends
<1>5. ASSUME NEW c \in Cores, ReceiveTime(c) PROVE CoresOK'
  <2>1. Head(times[c]) # Terminate => Head(times[c]) \in Nat
    BY <1>5, Taken DEF ReceiveTime, QueuesOK, Times
  <2>2. [d \in DataStreams |-> Nothing] \in Buffer
    BY DEF Buffer, Nothing
  <2> QED BY <1>5, <2>1, <2>2 DEF ReceiveTime
<1>6. ASSUME NEW c \in Cores, FillSlot(c) PROVE CoresOK'
  <2>1. [offsets |-> offsets[c], data |-> databuffer[c]] \in Slot
    BY DEF Slot
  <2> QED BY <1>6, <2>1 DEF FillSlot
<1>7. ASSUME NEW c \in Cores, NEW d \in DataStreams, ReceiveData(c, d) PROVE CoresOK'
  <2>1. PICK p \in pending[d] : databuffer' = [databuffer EXCEPT ![c][d] = p.subint]
    BY <1>7 DEF ReceiveData
  <2>2. p.subint \in Int
    BY <2>1 DEF StreamsOK, Messages
  <2>3. databuffer' \in [Cores -> Buffer]
    BY <2>1, <2>2 DEF Buffer
  <2> QED BY <1>7, <2>3 DEF ReceiveData
<1> QED
  BY <1>1, <1>3, <1>4, <1>5, <1>6, <1>7 DEF Next, CoreStep, Ended, vars

LEMMA TypeStep == TypeOK /\ LoadInv /\ [Next]_vars => TypeOK'
BY ManagerStep, QueuesStep, StreamsStep, CoresStep DEF TypeOK

-----------------------------------------------------------------------------
(* The order of the times *)

LEMMA TimesStep == TypeOK /\ TimesInv /\ [Next]_vars => TimesInv'
<1> SUFFICES ASSUME TypeOK, TimesInv, [Next]_vars, NEW c \in Cores PROVE TimesOf(c)'
  BY DEF TimesInv
<1>0. TimesOf(c) /\ times[c] \in Seq(Times) /\ Cores \subseteq Nat /\ sendcount \in Nat
  BY Numbers DEF TimesInv, TypeOK, QueuesOK, ManagerOK
<1>t. /\ times \in [Cores -> Seq(Times)] /\ cpc \in [Cores -> CorePCs]
      /\ offsets \in [Cores -> Nat]
  BY DEF TypeOK, QueuesOK, CoresOK
<1>1. CASE UNCHANGED <<mpc, sendcount, next, times, cpc, offsets>>
  BY <1>0, <1>1 DEF TimesOf, EndLast, Ascending, AllSent, Sent, Sending
<1>2. ASSUME UNCHANGED <<sendcount, times>>, mpc' # "command" => mpc # "command",
             mpc' # "endcores" \/ (mpc = "scan" /\ mpc' = "endcores"),
             Sending' => Sending,
             cpc'[c] = "data" => cpc[c] = "data", offsets' = offsets
      PROVE TimesOf(c)'
  BY <1>0, <1>2 DEF TimesOf, EndLast, Ascending, AllSent, Sent, Sending
<1>3. CASE FillUp \/ EndScans \/ TerminateStream
  BY <1>0, <1>2, <1>3 DEF FillUp, EndScans, TerminateStream, Sending, corevars
<1>4. ASSUME NEW b \in Cores, Receive(b) \/ ReceiveLast(b) PROVE TimesOf(c)'
  BY <1>t, <1>0, <1>2, <1>4 DEF Receive, ReceiveLast, TakeResult, Sending
<1>5. ASSUME NEW b \in Cores, FillSlot(b) PROVE TimesOf(c)'
  BY <1>t, <1>0, <1>5 DEF FillSlot, TimesOf, EndLast, Ascending, AllSent, Sent, Sending, managervars
<1>6. ASSUME NEW b \in Cores, NEW d \in DataStreams, ReceiveData(b, d) PROVE TimesOf(c)'
  BY <1>1, <1>6 DEF ReceiveData, managervars
<1>7. ASSUME NEW d \in DataStreams, StreamStep(d) PROVE TimesOf(c)'
  BY <1>1, <1>7 DEF StreamStep, Post, TakeCommand, SendData, SendTo, FinishSends,
    managervars, corevars
<1>i. \A i \in 1 .. Len(times[c]) : times[c][i] \in Times
  BY <1>0
<1>8. CASE SendTime
  <2>1. CASE target = c
    <3>1. times'[c] = Append(times[c], sendcount)
      BY <1>t, <1>8, <2>1 DEF SendTime
    <3>2. sendcount \in Times /\ sendcount # Terminate /\ \A n \in Times : n < n + 1
      BY <1>0 DEF Times, Terminate
    <3>3. /\ mpc = "sendtime" /\ mpc' = "command"
          /\ UNCHANGED <<sendcount, cpc, offsets>>
      BY <1>8 DEF SendTime, corevars
    <3>5. /\ Len(times'[c]) = Len(times[c]) + 1 /\ Len(times[c]) \in Nat
          /\ \A i \in 1 .. Len(times[c]) : times'[c][i] = times[c][i]
          /\ times'[c][Len(times[c]) + 1] = sendcount
      BY <1>0, <3>1, <3>2, Appended
    <3>6. /\ \A i \in 1 .. Len(times[c]) : times[c][i] # Terminate /\ times[c][i] < sendcount
          /\ cpc[c] = "data" => offsets[c] < sendcount
      BY <1>0, <3>3 DEF TimesOf, EndLast, Ascending, AllSent, Sent, Sending
    <3>7. \A i \in 1 .. Len(times'[c]) : i \in 1 .. Len(times[c]) \/ i = Len(times[c]) + 1
      BY <3>5
    <3>8. EndLast(c)'
      BY <3>2, <3>5, <3>6, <3>7 DEF EndLast
    <3>9. Ascending(c)'
      <4> SUFFICES ASSUME NEW i \in 1 .. Len(times'[c]), NEW j \in 1 .. Len(times'[c]), i < j
                   PROVE  times'[c][i] # Terminate /\
                            (times'[c][j] # Terminate => times'[c][i] < times'[c][j])
        BY DEF Ascending
      <4>1. i \in 1 .. Len(times[c])
        BY <3>5
      <4>2. CASE j \in 1 .. Len(times[c])
        BY <1>0, <3>5, <4>1, <4>2 DEF TimesOf, Ascending
      <4>3. CASE j = Len(times[c]) + 1
        BY <3>5, <3>6, <4>1, <4>3
      <4> QED BY <3>7, <4>2, <4>3
    <3>10. AllSent(c)'
      <4>1. \A i \in 1 .. Len(times'[c]) :
              times'[c][i] < sendcount' \/ (mpc' = "command" /\ times'[c][i] = sendcount')
        BY <3>3, <3>5, <3>6, <3>7
      <4>2. \A i \in 1 .. Len(times'[c]) :
              cpc'[c] = "data" /\ times'[c][i] # Terminate => offsets'[c] < times'[c][i]
        BY <1>0, <3>3, <3>5, <3>6, <3>7 DEF TimesOf, AllSent
      <4>3. cpc'[c] = "data" => offsets'[c] < sendcount'
        BY <3>3, <3>6
      <4> QED BY <4>1, <4>2, <4>3 DEF AllSent, Sent
    <3> QED BY <3>8, <3>9, <3>10 DEF TimesOf
  <2>2. CASE target # c
    <3>1. times'[c] = times[c] /\ UNCHANGED <<sendcount, cpc, offsets>> /\ mpc = "sendtime"
      BY <1>t, <1>8, <2>2 DEF SendTime, corevars
    <3> QED BY <1>0, <3>1 DEF TimesOf, EndLast, Ascending, AllSent, Sent, Sending
  <2> QED BY <2>1, <2>2
<1>9. CASE Command
  <2>1. /\ mpc = "command" /\ UNCHANGED <<times, cpc, offsets>>
        /\ \/ mpc' = "scan" /\ sendcount' = sendcount + 1
           \/ mpc' = "command" /\ sendcount' = sendcount
    BY <1>9 DEF Command, corevars
  <2>2. \A n \in Times : (n < sendcount \/ (mpc = "command" /\ n = sendcount)) =>
          n < sendcount' \/ (mpc' = "command" /\ n = sendcount')
    BY <1>0, <2>1 DEF Times, Terminate
  <2>3. offsets[c] \in Times
    BY <1>t DEF Times
  <2>4. EndLast(c)'
    BY <1>0, <2>1 DEF TimesOf, EndLast, Sending
  <2>5. Ascending(c)'
    BY <1>0, <2>1 DEF TimesOf, Ascending
  <2>6. AllSent(c)'
    BY <1>0, <1>i, <2>1, <2>2, <2>3 DEF TimesOf, AllSent, Sent
  <2> QED BY <2>4, <2>5, <2>6 DEF TimesOf
<1>10. CASE TerminateCore
  <2>0. /\ mpc = "endcores" /\ UNCHANGED <<sendcount, cpc, offsets>>
        /\ mpc' = "endstreams" \/ (mpc' = "endcores" /\ next' = next + 1 /\ next \in Nat)
    BY <1>10, Numbers DEF TerminateCore, corevars, TypeOK, ManagerOK
  <2>1. CASE next = c
    <3>1. times'[c] = Append(times[c], Terminate) /\ Terminate \in Times
      BY <1>t, <1>10, <2>1 DEF TerminateCore, Times
    <3>2. /\ Len(times'[c]) = Len(times[c]) + 1 /\ Len(times[c]) \in Nat
          /\ \A i \in 1 .. Len(times[c]) : times'[c][i] = times[c][i]
          /\ times'[c][Len(times[c]) + 1] = Terminate
      BY <1>0, <3>1, Appended
    <3>3. \A i \in 1 .. Len(times'[c]) : i \in 1 .. Len(times[c]) \/ i = Len(times[c]) + 1
      BY <3>2
    <3>4. \A i \in 1 .. Len(times[c]) : times[c][i] # Terminate
      BY <1>0, <2>0, <2>1, Numbers DEF TimesOf, EndLast
    <3>5. EndLast(c)'
      BY <1>0, <2>0, <2>1 DEF EndLast, Sending
    <3>6. Ascending(c)'
      BY <1>0, <3>2, <3>3, <3>4 DEF TimesOf, Ascending
    <3>7. AllSent(c)'
      <4>1. Terminate < sendcount'
        BY <1>0, <2>0 DEF Terminate
      <4>2. /\ \A i \in 1 .. Len(times[c]) : times[c][i] < sendcount'
            /\ cpc'[c] = "data" => offsets'[c] < sendcount'
        BY <1>0, <2>0 DEF TimesOf, AllSent, Sent
      <4>3. \A i \in 1 .. Len(times'[c]) : times'[c][i] < sendcount'
        BY <3>2, <3>3, <4>1, <4>2
      <4>4. \A i \in 1 .. Len(times'[c]) :
              cpc'[c] = "data" /\ times'[c][i] # Terminate => offsets'[c] < times'[c][i]
        BY <1>0, <2>0, <3>2, <3>3 DEF TimesOf, AllSent
      <4> QED BY <4>2, <4>3, <4>4 DEF AllSent, Sent
    <3> QED BY <3>5, <3>6, <3>7 DEF TimesOf
  <2>2. CASE next # c
    <3>1. times'[c] = times[c]
      BY <1>t, <1>10, <2>2 DEF TerminateCore
    <3>2. EndLast(c)'
      BY <1>0, <2>0, <3>1 DEF TimesOf, EndLast, Sending
    <3> QED BY <1>0, <2>0, <3>1, <3>2 DEF TimesOf, Ascending, AllSent, Sent
  <2> QED BY <2>1, <2>2
<1>11. ASSUME NEW b \in Cores, ReceiveTime(b) PROVE TimesOf(c)'
  <2>1. CASE b = c
    <3>1. /\ times'[c] = Tail(times[c]) /\ times[c] # << >>
          /\ times[c][1] = Terminate => cpc'[c] # "data"
          /\ times[c][1] # Terminate => offsets'[c] = times[c][1]
          /\ UNCHANGED <<mpc, next, sendcount>>
      BY <1>t, <1>11, <2>1, Taken DEF ReceiveTime, managervars
    <3> QED
      BY <1>0, <2>1, <3>1, Taken DEF TimesOf, EndLast, Ascending, AllSent, Sent, Sending
  <2>2. CASE b # c
    BY <1>t, <1>0, <1>11, <2>2 DEF ReceiveTime, TimesOf, EndLast, Ascending, AllSent, Sent, Sending, managervars
  <2> QED BY <2>1, <2>2
<1> QED
  BY <1>1, <1>3, <1>4, <1>5, <1>6, <1>7, <1>8, <1>9, <1>10, <1>11
  DEF Next, Manager, CoreStep, Ended, vars, managervars, corevars

-----------------------------------------------------------------------------
(* The order at a DataStream *)

\* What was commanded stays so.
LEMMA CommandedStays ==
  ASSUME ManagerOK, [Next]_vars, NEW d \in DataStreams, NEW n \in Int, Commanded(d, n)
  PROVE  Commanded(d, n)'
<1> USE DEF Commanded, ManagerOK
<1>1. CASE UNCHANGED managervars
  BY <1>1 DEF managervars
<1>2. CASE FillUp \/ SendTime \/ EndScans \/ TerminateCore \/ TerminateStream
  BY <1>2 DEF FillUp, SendTime, EndScans, TerminateCore, TerminateStream
<1>3. CASE Command
  BY <1>3, Numbers DEF Command
<1>4. ASSUME NEW b \in Cores, Receive(b) \/ ReceiveLast(b) PROVE Commanded(d, n)'
  BY <1>4 DEF Receive, ReceiveLast
<1>5. ASSUME NEW b \in DataStreams, StreamStep(b) PROVE Commanded(d, n)'
  BY <1>1, <1>5 DEF StreamStep, Post, TakeCommand, SendData, SendTo, FinishSends
<1>6. ASSUME NEW b \in Cores, CoreStep(b) PROVE Commanded(d, n)'
  BY <1>1, <1>6 DEF CoreStep, ReceiveTime, ReceiveData, FillSlot
<1> QED BY <1>1, <1>2, <1>3, <1>4, <1>5, <1>6 DEF Next, Manager, Ended, vars

LEMMA OrderStep == TypeOK /\ StreamInv /\ [Next]_vars => StreamInv'
<1> SUFFICES ASSUME TypeOK, StreamInv, [Next]_vars, NEW d \in DataStreams PROVE StreamOf(d)'
  BY DEF StreamInv
<1>0. /\ StreamOf(d) /\ DataStreams \subseteq Nat /\ sendcount \in Nat
      /\ commands[d] \in Seq(Commands) /\ command[d] \in Commands
      /\ pending[d] \subseteq Messages /\ ManagerOK
  BY Numbers DEF StreamInv, TypeOK, QueuesOK, StreamsOK, ManagerOK
<1>t. /\ commands \in [DataStreams -> Seq(Commands)]
      /\ command \in [DataStreams -> Commands]
      /\ dpc \in [DataStreams -> StreamPCs]
      /\ pending \in [DataStreams -> SUBSET Messages]
  BY DEF TypeOK, QueuesOK, StreamsOK
<1>n. /\ \A i \in 1 .. Len(commands[d]) : commands[d][i].subint \in Int
      /\ \A p \in pending[d] : p.subint \in Int
      /\ command[d].subint \in Int
  <2>1. \A x \in Commands : x.subint \in Int
    BY DEF Commands, Times, Terminate
  <2>2. \A i \in 1 .. Len(commands[d]) : commands[d][i] \in Commands
    BY <1>0
  <2> QED BY <1>0, <2>1, <2>2 DEF Messages
<1>s. \A n \in Int : Commanded(d, n) =>
        n < sendcount' \/ (mpc' = "command" /\ d < next' /\ n = sendcount')
  BY <1>0, CommandedStays DEF Commanded
<1>1. ASSUME pending'[d] \subseteq pending[d], commands'[d] = commands[d],
             command'[d] = command[d], dpc'[d] = "process" => dpc[d] = "process"
      PROVE  StreamOf(d)'
  <2>1. QueueOf(d)'
    BY <1>0, <1>1, <1>n, <1>s DEF StreamOf, QueueOf, Commanded
  <2>2. CommandOf(d)'
    BY <1>0, <1>1, <1>n, <1>s DEF StreamOf, CommandOf, Commanded
  <2>3. PendingOf(d)'
    BY <1>0, <1>1, <1>n, <1>s DEF StreamOf, PendingOf, Commanded
  <2> QED BY <2>1, <2>2, <2>3 DEF StreamOf
<1>2. CASE FillUp \/ SendTime \/ EndScans \/ TerminateCore
  BY <1>1, <1>2 DEF FillUp, SendTime, EndScans, TerminateCore, streamvars
<1>3. ASSUME NEW b \in Cores, Receive(b) \/ ReceiveLast(b) \/ ReceiveTime(b) \/ FillSlot(b)
      PROVE  StreamOf(d)'
  BY <1>1, <1>3 DEF Receive, ReceiveLast, ReceiveTime, FillSlot, streamvars
<1>4. ASSUME NEW b \in Cores, NEW e \in DataStreams, ReceiveData(b, e) PROVE StreamOf(d)'
  BY <1>t, <1>1, <1>4 DEF ReceiveData
<1>5. ASSUME NEW e \in DataStreams, Post(e) \/ FinishSends(e) PROVE StreamOf(d)'
  BY <1>t, <1>1, <1>5 DEF Post, FinishSends
<1>6. CASE Command
  <2>1. CASE next = d
    <3>1. /\ commands'[d] = <<[core |-> target, subint |-> sendcount]>>
          /\ UNCHANGED streamvars /\ mpc = "command"
          /\ sendcount < sendcount' \/ (mpc' = "command" /\ d < next' /\ sendcount = sendcount')
      BY <1>0, <1>t, <1>6, <2>1 DEF Command
    <3>2. /\ \A p \in pending[d] : p.subint < sendcount
          /\ dpc[d] = "process" => command[d].subint < sendcount
      BY <1>0, <2>1 DEF StreamOf, PendingOf, CommandOf, Commanded
    <3>3. QueueOf(d)'
      BY <3>1, <3>2 DEF QueueOf, Commanded, streamvars
    <3>4. CommandOf(d)'
      BY <1>0, <1>n, <1>s, <3>1 DEF StreamOf, CommandOf, Commanded, streamvars
    <3>5. PendingOf(d)'
      BY <1>0, <1>n, <1>s, <3>1 DEF StreamOf, PendingOf, Commanded, streamvars
    <3> QED BY <3>3, <3>4, <3>5 DEF StreamOf
  <2>2. CASE next # d
    BY <1>t, <1>1, <1>6, <2>2 DEF Command, streamvars
  <2> QED BY <2>1, <2>2
<1>7. CASE TerminateStream
  <2>1. CASE next = d
    <3> DEFINE x == [core |-> 0, subint |-> Terminate]
    <3>1. commands'[d] = Append(commands[d], x) /\ UNCHANGED streamvars /\ x \in Commands
      BY <1>t, <1>7, <2>1, Numbers DEF TerminateStream, Commands, Times
    <3>2. /\ Len(commands'[d]) = Len(commands[d]) + 1 /\ Len(commands[d]) \in Nat
          /\ \A i \in 1 .. Len(commands[d]) : commands'[d][i] = commands[d][i]
          /\ commands'[d][Len(commands[d]) + 1] = x
      BY <1>0, <3>1, Appended
    <3>3. \A i \in 1 .. Len(commands'[d]) :
            i \in 1 .. Len(commands[d]) \/ commands'[d][i].subint = Terminate
      BY <3>2
    <3> HIDE DEF x
    <3>4. QueueOf(d)'
      <4>1. \A i \in 1 .. Len(commands'[d]) : i > 1 => commands'[d][i].subint = Terminate
        BY <1>0, <3>2, <3>3 DEF StreamOf, QueueOf
      <4>2. ASSUME NEW i \in 1 .. Len(commands'[d]), commands'[d][i].subint # Terminate
            PROVE  /\ \A p \in pending[d] : p.subint < commands'[d][i].subint
                   /\ dpc[d] = "process" => command[d].subint < commands'[d][i].subint
                   /\ Commanded(d, commands'[d][i].subint)
                   /\ commands'[d][i].subint \in Int
        <5>1. i \in 1 .. Len(commands[d]) /\ commands'[d][i] = commands[d][i]
          BY <3>2, <3>3, <4>2
        <5> QED BY <1>0, <1>n, <4>2, <5>1 DEF StreamOf, QueueOf
      <4> QED BY <1>s, <3>1, <4>1, <4>2 DEF QueueOf, Commanded, streamvars
    <3>5. CommandOf(d)'
      BY <1>0, <1>n, <1>s, <3>1 DEF StreamOf, CommandOf, Commanded, streamvars
    <3>6. PendingOf(d)'
      BY <1>0, <1>n, <1>s, <3>1 DEF StreamOf, PendingOf, Commanded, streamvars
    <3> QED BY <3>4, <3>5, <3>6 DEF StreamOf
  <2>2. CASE next # d
    BY <1>t, <1>1, <1>7, <2>2 DEF TerminateStream, streamvars
  <2> QED BY <2>1, <2>2
<1>8. ASSUME NEW e \in DataStreams, TakeCommand(e) PROVE StreamOf(d)'
  <2>1. CASE e = d
    <3>1. /\ commands[d] # << >> /\ commands'[d] = Tail(commands[d])
          /\ command'[d] = commands[d][1] /\ UNCHANGED pending
          /\ dpc'[d] = "process" => commands[d][1].subint # Terminate
      BY <1>t, <1>8, <2>1, Taken DEF TakeCommand
    <3>2. /\ Len(commands[d]) > 0 /\ Len(commands'[d]) = Len(commands[d]) - 1
          /\ \A i \in 1 .. Len(commands[d]) - 1 : commands'[d][i] = commands[d][i + 1]
      BY <1>0, <3>1, Taken
    <3>3. \A i \in 1 .. Len(commands'[d]) : commands'[d][i].subint = Terminate
      BY <1>0, <3>1, <3>2, Taken DEF StreamOf, QueueOf
    <3>4. QueueOf(d)'
      BY <3>3 DEF QueueOf
    <3>5. CommandOf(d)'
      BY <1>0, <1>n, <1>s, <3>1, <3>2 DEF StreamOf, QueueOf, CommandOf, Commanded
    <3>6. PendingOf(d)'
      BY <1>0, <1>n, <1>s, <3>1 DEF StreamOf, PendingOf, Commanded
    <3> QED BY <3>4, <3>5, <3>6 DEF StreamOf
  <2>2. CASE e # d
    BY <1>t, <1>1, <1>8, <2>2 DEF TakeCommand
  <2> QED BY <2>1, <2>2
<1>9. ASSUME NEW e \in DataStreams, SendData(e) PROVE StreamOf(d)'
  <2>1. CASE e = d
    <3>1. /\ pending'[d] = pending[d] \cup
               {[core |-> command[d].core, subint |-> command[d].subint]}
          /\ dpc[d] = "process" /\ dpc'[d] # "process" /\ UNCHANGED <<commands, command>>
      BY <1>t, <1>9, <2>1 DEF SendData, SendTo
    <3>2. \A p \in pending'[d] : p \in pending[d] \/ p.subint = command[d].subint
      BY <3>1
    <3>3. QueueOf(d)'
      BY <1>0, <1>n, <1>s, <3>1, <3>2 DEF StreamOf, QueueOf, Commanded
    <3>4. CommandOf(d)'
      BY <3>1 DEF CommandOf
    <3>5. PendingOf(d)'
      BY <1>0, <1>n, <1>s, <3>1, <3>2 DEF StreamOf, CommandOf, PendingOf, Commanded
    <3> QED BY <3>3, <3>4, <3>5 DEF StreamOf
  <2>2. CASE e # d
    BY <1>t, <1>1, <1>9, <2>2 DEF SendData, SendTo
  <2> QED BY <2>1, <2>2
<1>10. CASE UNCHANGED vars
  BY <1>1, <1>10 DEF vars, streamvars
<1> QED
  BY <1>2, <1>3, <1>4, <1>5, <1>6, <1>7, <1>8, <1>9, <1>10
  DEF Next, Manager, StreamStep, CoreStep, Ended

-----------------------------------------------------------------------------
(* The messages and the times *)

\* The first message from d to a Core that waits for one is what it waits for.
LEMMA FirstMessage ==
  ASSUME TypeOK, TimesInv, StreamInv, MessageInv,
         NEW c \in Cores, NEW d \in DataStreams, NEW p \in pending[d],
         cpc[c] = "data", databuffer[c][d] = Nothing, p.core = c,
         \A q \in pending[d] : q.core = c => p.subint <= q.subint
  PROVE  p.subint = offsets[c]
<1>1. p.subint \in Nat /\ offsets[c] \in Nat /\ sendcount \in Nat
  BY DEF TypeOK, StreamsOK, Messages, CoresOK, ManagerOK
<1>2. Awaits(c, d, p.subint)
  BY <1>1 DEF MessageInv, HasMessage
<1>3. HasMessage(c, d, offsets[c]) \/ Coming(c, d, offsets[c])
  BY <1>1 DEF MessageInv, Awaits
<1>4. p.subint = offsets[c] \/ offsets[c] < p.subint
  BY <1>1, <1>2 DEF Awaits, TimesInv, TimesOf, AllSent, Terminate
<1>5. StreamOf(d)
  BY DEF StreamInv
<1>6. ASSUME offsets[c] < p.subint PROVE FALSE
  <2>1. CASE \E q \in pending[d] : q.core = c /\ q.subint = offsets[c]
    BY <1>1, <1>6, <2>1
  <2>2. CASE dpc[d] = "process" /\ command[d].subint = offsets[c]
    BY <1>1, <1>5, <1>6, <2>2 DEF StreamOf, CommandOf
  <2>3. CASE \E i \in 1 .. Len(commands[d]) : commands[d][i].subint = offsets[c]
    BY <1>1, <1>5, <1>6, <2>3 DEF StreamOf, QueueOf, Terminate
  <2>4. CASE Coming(c, d, offsets[c])
    BY <1>1, <1>5, <1>6, <2>4 DEF StreamOf, PendingOf, Commanded, Coming
  <2> QED BY <1>3, <2>1, <2>2, <2>3, <2>4 DEF HasMessage
<1> QED BY <1>1, <1>4, <1>6

LEMMA MessageStep ==
  TypeOK /\ TimesInv /\ StreamInv /\ MessageInv /\ [Next]_vars => MessageInv'
<1> SUFFICES ASSUME TypeOK, TimesInv, StreamInv, MessageInv, [Next]_vars,
                    NEW c \in Cores, NEW d \in DataStreams, NEW n \in Nat
             PROVE  (Awaits(c, d, n) <=> (HasMessage(c, d, n) \/ Coming(c, d, n)))'
  BY DEF MessageInv
<1> DEFINE Goal == (Awaits(c, d, n) <=> (HasMessage(c, d, n) \/ Coming(c, d, n)))'
<1>0. Awaits(c, d, n) <=> (HasMessage(c, d, n) \/ Coming(c, d, n))
  BY DEF MessageInv
<1>t. /\ times \in [Cores -> Seq(Times)] /\ commands \in [DataStreams -> Seq(Commands)]
      /\ dpc \in [DataStreams -> StreamPCs] /\ command \in [DataStreams -> Commands]
      /\ pending \in [DataStreams -> SUBSET Messages] /\ cpc \in [Cores -> CorePCs]
      /\ offsets \in [Cores -> Nat] /\ databuffer \in [Cores -> Buffer]
      /\ times[c] \in Seq(Times) /\ commands[d] \in Seq(Commands)
  BY DEF TypeOK, QueuesOK, StreamsOK, CoresOK
<1>n. n # Terminate
  BY DEF Terminate
<1>m. UNCHANGED <<pending, dpc, command, commands>> =>
        (HasMessage(c, d, n)' <=> HasMessage(c, d, n))
  BY DEF HasMessage
<1>a. UNCHANGED <<times, cpc, offsets, databuffer>> => (Awaits(c, d, n)' <=> Awaits(c, d, n))
  BY DEF Awaits
<1>g. UNCHANGED managervars => (Coming(c, d, n)' <=> Coming(c, d, n))
  BY DEF Coming, managervars
<1>c. mpc # "command" /\ mpc' # "command" => ~Coming(c, d, n) /\ ~Coming(c, d, n)'
  BY DEF Coming
<1>1. CASE UNCHANGED vars
  BY <1>0, <1>1, <1>m, <1>a, <1>g DEF vars, streamvars, corevars
<1>2. CASE FillUp \/ EndScans
  BY <1>0, <1>2, <1>m, <1>a, <1>c DEF FillUp, EndScans, streamvars, corevars
<1>3. ASSUME NEW b \in Cores, Receive(b) \/ ReceiveLast(b) PROVE Goal
  <2>1. Awaits(c, d, n)' <=> Awaits(c, d, n)
    BY <1>t, <1>3 DEF Receive, ReceiveLast, TakeResult, Awaits
  <2> QED BY <1>0, <1>3, <1>m, <1>c, <2>1 DEF Receive, ReceiveLast, streamvars
<1>4. CASE SendTime
  <2>1. Awaits(c, d, n)' <=> (Awaits(c, d, n) \/ (target = c /\ sendcount = n))
    <3>1. CASE target = c
      <4>1. times'[c] = Append(times[c], sendcount) /\ sendcount \in Times
        BY <1>t, <1>4, <3>1 DEF SendTime, TypeOK, ManagerOK, Times
      <4>2. /\ Len(times'[c]) = Len(times[c]) + 1 /\ Len(times[c]) \in Nat
            /\ \A i \in 1 .. Len(times[c]) : times'[c][i] = times[c][i]
            /\ times'[c][Len(times[c]) + 1] = sendcount
        BY <1>t, <4>1, Appended
      <4>3. (\E i \in 1 .. Len(times'[c]) : times'[c][i] = n) <=>
              ((\E i \in 1 .. Len(times[c]) : times[c][i] = n) \/ sendcount = n)
        BY <4>2
      <4> QED BY <1>4, <3>1, <4>3 DEF SendTime, Awaits, corevars
    <3>2. CASE target # c
      BY <1>t, <1>4, <3>2 DEF SendTime, Awaits, corevars
    <3> QED BY <3>1, <3>2
  <2>2. ~Coming(c, d, n) /\ (Coming(c, d, n)' <=> (target = c /\ sendcount = n))
    BY <1>4, Numbers DEF SendTime, Coming
  <2> QED BY <1>0, <1>4, <1>m, <2>1, <2>2 DEF SendTime, streamvars
<1>5. CASE Command
  <2>1. CASE next = d
    <3>1. /\ commands[d] = << >>
          /\ commands'[d] = <<[core |-> target, subint |-> sendcount]>>
          /\ UNCHANGED <<pending, dpc, command>> /\ mpc = "command"
      BY <1>t, <1>5, <2>1 DEF Command, Posted, streamvars
    <3>2. HasMessage(c, d, n)' <=>
            (HasMessage(c, d, n) \/ (target = c /\ sendcount = n))
      <4>1. (\E i \in 1 .. Len(commands'[d]) :
                commands'[d][i].core = c /\ commands'[d][i].subint = n)
              <=> (target = c /\ sendcount = n)
        BY <3>1
      <4>2. ~ \E i \in 1 .. Len(commands[d]) :
                 commands[d][i].core = c /\ commands[d][i].subint = n
        BY <3>1
      <4> QED BY <3>1, <4>1, <4>2 DEF HasMessage
    <3>3. Coming(c, d, n) <=> (target = c /\ sendcount = n)
      BY <2>1, <3>1, Numbers DEF Coming
    <3>4. ~Coming(c, d, n)'
      BY <1>5, <2>1, Numbers DEF Command, Coming
    <3> QED BY <1>0, <1>5, <1>a, <3>2, <3>3, <3>4 DEF Command, corevars
  <2>2. CASE next # d
    <3>1. commands'[d] = commands[d] /\ UNCHANGED <<pending, dpc, command>>
      BY <1>t, <1>5, <2>2 DEF Command, streamvars
    <3>2. HasMessage(c, d, n)' <=> HasMessage(c, d, n)
      BY <3>1 DEF HasMessage
    <3>3. next \in Nat /\ next <= NumDataStreams - 1 /\ d <= NumDataStreams - 1 /\ d \in Nat
      BY <1>5, DispatchAssumption DEF Command, TypeOK, ManagerOK, DataStreams
    <3>4. Coming(c, d, n)' <=> Coming(c, d, n)
      BY <1>5, <2>2, <3>3, DispatchAssumption DEF Command, Coming
    <3> QED BY <1>0, <1>5, <1>a, <3>2, <3>4 DEF Command, corevars
  <2> QED BY <2>1, <2>2
<1>6. CASE TerminateCore
  <2>1. Awaits(c, d, n)' <=> Awaits(c, d, n)
    <3>1. CASE next = c
      <4>1. times'[c] = Append(times[c], Terminate) /\ Terminate \in Times
        BY <1>t, <1>6, <3>1 DEF TerminateCore, Times
      <4>2. /\ Len(times'[c]) = Len(times[c]) + 1 /\ Len(times[c]) \in Nat
            /\ \A i \in 1 .. Len(times[c]) : times'[c][i] = times[c][i]
            /\ times'[c][Len(times[c]) + 1] = Terminate
        BY <1>t, <4>1, Appended
      <4>3. (\E i \in 1 .. Len(times'[c]) : times'[c][i] = n) <=>
              (\E i \in 1 .. Len(times[c]) : times[c][i] = n)
        <5>1. \A i \in 1 .. Len(times[c]) : i \in 1 .. Len(times'[c])
          BY <4>2
        <5>2. \A i \in 1 .. Len(times'[c]) :
                i \in 1 .. Len(times[c]) \/ times'[c][i] = Terminate
          BY <4>2
        <5> QED BY <1>n, <4>2, <5>1, <5>2
      <4> QED BY <1>6, <4>3 DEF TerminateCore, Awaits, corevars
    <3>2. CASE next # c
      BY <1>t, <1>6, <3>2 DEF TerminateCore, Awaits, corevars
    <3> QED BY <3>1, <3>2
  <2> QED BY <1>0, <1>6, <1>m, <1>c, <2>1 DEF TerminateCore, streamvars
<1>7. CASE TerminateStream
  <2>1. HasMessage(c, d, n)' <=> HasMessage(c, d, n)
    <3>1. CASE next = d
      <4> DEFINE x == [core |-> 0, subint |-> Terminate]
      <4>1. commands'[d] = Append(commands[d], x) /\ x \in Commands
        BY <1>t, <1>7, <3>1, Numbers DEF TerminateStream, Commands, Times
      <4>2. /\ Len(commands'[d]) = Len(commands[d]) + 1 /\ Len(commands[d]) \in Nat
            /\ \A i \in 1 .. Len(commands[d]) : commands'[d][i] = commands[d][i]
            /\ commands'[d][Len(commands[d]) + 1].subint # n
        BY <1>t, <1>n, <4>1, Appended
      <4>3. (\E i \in 1 .. Len(commands'[d]) :
                commands'[d][i].core = c /\ commands'[d][i].subint = n) <=>
              (\E i \in 1 .. Len(commands[d]) :
                commands[d][i].core = c /\ commands[d][i].subint = n)
        BY <4>2
      <4> QED BY <1>7, <4>3 DEF TerminateStream, HasMessage, streamvars
    <3>2. CASE next # d
      BY <1>t, <1>7, <3>2 DEF TerminateStream, HasMessage, streamvars
    <3> QED BY <3>1, <3>2
  <2> QED BY <1>0, <1>7, <1>a, <1>c, <2>1 DEF TerminateStream, corevars
<1>8. ASSUME NEW e \in DataStreams, TakeCommand(e) PROVE Goal
  <2>1. HasMessage(c, d, n)' <=> HasMessage(c, d, n)
    <3>1. CASE e = d
      <4>1. /\ commands[d] # << >> /\ commands'[d] = Tail(commands[d])
            /\ command'[d] = commands[d][1] /\ UNCHANGED pending
            /\ dpc[d] = "idle"
            /\ dpc'[d] = IF commands[d][1].subint = Terminate THEN "finish" ELSE "process"
        BY <1>t, <1>8, <3>1, Taken DEF TakeCommand
      <4>2. /\ Len(commands[d]) > 0 /\ Len(commands'[d]) = Len(commands[d]) - 1
            /\ \A i \in 1 .. Len(commands[d]) - 1 : commands'[d][i] = commands[d][i + 1]
            /\ Len(commands[d]) \in Nat
        BY <1>t, <4>1, Taken
      <4> DEFINE Is(x) == x.core = c /\ x.subint = n
      <4>3. ASSUME NEW i \in 1 .. Len(commands[d]), Is(commands[d][i])
            PROVE  Is(commands[d][1]) \/ \E j \in 1 .. Len(commands'[d]) : Is(commands'[d][j])
        <5>1. CASE i = 1
          BY <4>3, <5>1
        <5>2. CASE i # 1
          <6>1. i - 1 \in 1 .. Len(commands[d]) - 1 /\ commands'[d][i - 1] = commands[d][i]
            BY <4>2, <5>2
          <6> QED BY <4>2, <4>3, <6>1
        <5> QED BY <5>1, <5>2
      <4>4. (\E i \in 1 .. Len(commands[d]) : Is(commands[d][i])) <=>
              (Is(commands[d][1]) \/ \E j \in 1 .. Len(commands'[d]) : Is(commands'[d][j]))
        <5>1. ASSUME NEW j \in 1 .. Len(commands'[d]), Is(commands'[d][j])
              PROVE  \E i \in 1 .. Len(commands[d]) : Is(commands[d][i])
          <6>1. j + 1 \in 1 .. Len(commands[d]) /\ commands'[d][j] = commands[d][j + 1]
            BY <4>2
          <6> QED BY <5>1, <6>1
        <5>2. 1 \in 1 .. Len(commands[d])
          BY <4>2
        <5> QED BY <4>3, <5>1, <5>2
      <4> QED BY <1>n, <4>1, <4>4 DEF HasMessage
    <3>2. CASE e # d
      BY <1>t, <1>8, <3>2 DEF TakeCommand, HasMessage
    <3> QED BY <3>1, <3>2
  <2> QED BY <1>0, <1>8, <1>a, <1>g, <2>1 DEF TakeCommand, corevars
<1>9. ASSUME NEW e \in DataStreams, SendData(e) PROVE Goal
  <2>1. HasMessage(c, d, n)' <=> HasMessage(c, d, n)
    <3>1. CASE e = d
      <4>1. /\ pending'[d] = pending[d] \cup
                 {[core |-> command[d].core, subint |-> command[d].subint]}
            /\ dpc[d] = "process" /\ dpc'[d] # "process" /\ UNCHANGED <<commands, command>>
        BY <1>t, <1>9, <3>1 DEF SendData, SendTo
      <4>2. (\E p \in pending'[d] : p.core = c /\ p.subint = n) <=>
              ((\E p \in pending[d] : p.core = c /\ p.subint = n) \/
                 (command[d].core = c /\ command[d].subint = n))
        <5> DEFINE x == [core |-> command[d].core, subint |-> command[d].subint]
        <5>1. x.core = command[d].core /\ x.subint = command[d].subint
          OBVIOUS
        <5>2. x \in pending'[d] /\ \A p : p \in pending'[d] <=> (p \in pending[d] \/ p = x)
          BY <4>1
        <5> HIDE DEF x
        <5> QED BY <5>1, <5>2
      <4> QED BY <4>1, <4>2 DEF HasMessage
    <3>2. CASE e # d
      BY <1>t, <1>9, <3>2 DEF SendData, SendTo, HasMessage
    <3> QED BY <3>1, <3>2
  <2> QED BY <1>0, <1>9, <1>a, <1>g, <2>1 DEF SendData, SendTo, corevars
<1>10. ASSUME NEW e \in DataStreams, Post(e) \/ FinishSends(e) PROVE Goal
  <2>1. HasMessage(c, d, n)' <=> HasMessage(c, d, n)
    BY <1>t, <1>10 DEF Post, FinishSends, HasMessage
  <2> QED BY <1>0, <1>10, <1>a, <1>g, <2>1 DEF Post, FinishSends, corevars
<1>11. ASSUME NEW b \in Cores, ReceiveTime(b) PROVE Goal
  <2>1. Awaits(c, d, n)' <=> Awaits(c, d, n)
    <3>1. CASE b = c
      <4>1. /\ times[c] # << >> /\ times'[c] = Tail(times[c]) /\ cpc[c] = "time"
            /\ times[c][1] = Terminate => cpc'[c] # "data"
            /\ times[c][1] # Terminate =>
                 /\ cpc'[c] = "data" /\ offsets'[c] = times[c][1]
                 /\ databuffer'[c][d] = Nothing
        BY <1>t, <1>11, <3>1, Taken DEF ReceiveTime
      <4>2. /\ Len(times[c]) > 0 /\ Len(times'[c]) = Len(times[c]) - 1
            /\ \A i \in 1 .. Len(times[c]) - 1 : times'[c][i] = times[c][i + 1]
            /\ Len(times[c]) \in Nat
        BY <1>t, <4>1, Taken
      <4>3. ASSUME NEW i \in 1 .. Len(times[c]), times[c][i] = n
            PROVE  times[c][1] = n \/ \E j \in 1 .. Len(times'[c]) : times'[c][j] = n
        <5>1. CASE i = 1
          BY <4>3, <5>1
        <5>2. CASE i # 1
          <6>1. i - 1 \in 1 .. Len(times[c]) - 1 /\ times'[c][i - 1] = times[c][i]
            BY <4>2, <5>2
          <6> QED BY <4>2, <4>3, <6>1
        <5> QED BY <5>1, <5>2
      <4>4. (\E i \in 1 .. Len(times[c]) : times[c][i] = n) <=>
              (times[c][1] = n \/ \E j \in 1 .. Len(times'[c]) : times'[c][j] = n)
        <5>1. ASSUME NEW j \in 1 .. Len(times'[c]), times'[c][j] = n
              PROVE  \E i \in 1 .. Len(times[c]) : times[c][i] = n
          <6>1. j + 1 \in 1 .. Len(times[c]) /\ times'[c][j] = times[c][j + 1]
            BY <4>2
          <6> QED BY <5>1, <6>1
        <5>2. 1 \in 1 .. Len(times[c])
          BY <4>2
        <5> QED BY <4>3, <5>1, <5>2
      <4> QED BY <1>n, <4>1, <4>4 DEF Awaits
    <3>2. CASE b # c
      BY <1>t, <1>11, <3>2 DEF ReceiveTime, Awaits
    <3> QED BY <3>1, <3>2
  <2> QED BY <1>0, <1>11, <1>m, <1>g, <2>1 DEF ReceiveTime, streamvars
<1>12. ASSUME NEW b \in Cores, FillSlot(b) PROVE Goal
  <2>1. Awaits(c, d, n)' <=> Awaits(c, d, n)
    BY <1>t, <1>12 DEF FillSlot, Awaits
  <2> QED BY <1>0, <1>12, <1>m, <1>g, <2>1 DEF FillSlot, streamvars
<1>13. ASSUME NEW b \in Cores, NEW e \in DataStreams, ReceiveData(b, e) PROVE Goal
  <2>1. PICK p \in pending[e] :
          /\ p.core = b /\ \A q \in pending[e] : q.core = b => p.subint <= q.subint
          /\ pending' = [pending EXCEPT ![e] = @ \ {p}]
          /\ databuffer' = [databuffer EXCEPT ![b][e] = p.subint]
    BY <1>13 DEF ReceiveData
  <2>2. /\ cpc[b] = "data" /\ databuffer[b][e] = Nothing
        /\ UNCHANGED <<times, cpc, offsets, commands, dpc, command, managervars>>
    BY <1>13 DEF ReceiveData
  <2>3. p.subint = offsets[b] /\ p \in Messages
    BY <1>t, <2>1, <2>2, FirstMessage
  <2>4. CASE e = d /\ b = c
    <3>1. pending'[d] = pending[d] \ {p} /\ databuffer'[c][d] # Nothing
      BY <1>t, <2>1, <2>3, <2>4 DEF Messages, Buffer, Nothing
    <3>2. Awaits(c, d, n)' <=> (Awaits(c, d, n) /\ n # offsets[c])
      <4>1. \A i \in 1 .. Len(times[c]) : times[c][i] = n => n # offsets[c]
        BY <1>n, <1>t, <2>2, <2>4 DEF TimesInv, TimesOf, AllSent
      <4> QED BY <2>2, <3>1, <4>1 DEF Awaits
    <3>3. StreamOf(d) /\ n \in Nat /\ command[d].subint \in Int
      BY <1>t DEF StreamInv, Commands, Times, Terminate
    <3>4. HasMessage(c, d, n)' <=> (HasMessage(c, d, n) /\ n # offsets[c])
      <4>1. \A q \in pending[d] : q = p <=> (q.core = c /\ q.subint = offsets[c])
        <5>1. \A q, r \in Messages : q.core = r.core /\ q.subint = r.subint => q = r
          BY DEF Messages
        <5> QED BY <1>t, <2>1, <2>3, <2>4, <5>1
      <4>2. (\E q \in pending'[d] : q.core = c /\ q.subint = n) <=>
              ((\E q \in pending[d] : q.core = c /\ q.subint = n) /\ n # offsets[c])
        BY <3>1, <4>1
      <4>3. dpc[d] = "process" => command[d].subint # offsets[c]
        BY <2>1, <2>3, <2>4, <3>3 DEF StreamOf, CommandOf, Messages
      <4>4. \A i \in 1 .. Len(commands[d]) :
              commands[d][i].subint = n => n # offsets[c]
        BY <1>n, <2>1, <2>3, <2>4, <3>3 DEF StreamOf, QueueOf, Messages
      <4> QED BY <2>2, <4>2, <4>3, <4>4 DEF HasMessage
    <3>5. Coming(c, d, n) => n # offsets[c]
      <4>1. next \in Nat /\ d \in Nat /\ sendcount \in Nat
        BY Numbers DEF TypeOK, ManagerOK
      <4>2. Commanded(d, offsets[c])
        BY <2>1, <2>3, <2>4, <3>3 DEF StreamOf, PendingOf
      <4> QED BY <4>1, <4>2 DEF Commanded, Coming
    <3>6. Coming(c, d, n)' <=> Coming(c, d, n)
      BY <1>g, <2>2
    <3> QED BY <1>0, <3>2, <3>4, <3>5, <3>6
  <2>5. CASE e # d
    <3>1. pending'[d] = pending[d] /\ databuffer'[c][d] = databuffer[c][d]
      BY <1>t, <2>1, <2>5 DEF Buffer
    <3> QED BY <1>0, <1>g, <2>2, <3>1 DEF Awaits, HasMessage
  <2>6. CASE b # c
    <3>1. databuffer'[c][d] = databuffer[c][d]
      BY <1>t, <2>1, <2>6 DEF Buffer
    <3>2. \A q : q.core = c => (q \in pending'[d] <=> q \in pending[d])
      BY <1>t, <2>1, <2>6
    <3> QED BY <1>0, <1>g, <2>2, <3>1, <3>2 DEF Awaits, HasMessage
  <2> QED BY <2>4, <2>5, <2>6
<1> QED
  BY <1>1, <1>2, <1>3, <1>4, <1>5, <1>6, <1>7, <1>8, <1>9, <1>10, <1>11, <1>12, <1>13
  DEF Next, Manager, StreamStep, CoreStep, Ended

-----------------------------------------------------------------------------
(* The data a Core has *)

LEMMA DataStep ==
  TypeOK /\ TimesInv /\ StreamInv /\ MessageInv /\ DataInv /\ [Next]_vars => DataInv'
<1> SUFFICES ASSUME TypeOK, TimesInv, StreamInv, MessageInv, DataInv, [Next]_vars
             PROVE  DataInv'
  OBVIOUS
<1>t. /\ cpc \in [Cores -> CorePCs] /\ offsets \in [Cores -> Nat]
      /\ databuffer \in [Cores -> Buffer]
  BY DEF TypeOK, CoresOK
<1>1. ASSUME UNCHANGED <<offsets, databuffer>>,
             \A c \in Cores : cpc'[c] = "data" => cpc[c] = "data"
      PROVE  DataInv'
  BY <1>1 DEF DataInv
<1>2. CASE FillUp \/ SendTime \/ Command \/ EndScans \/ TerminateCore \/ TerminateStream
  BY <1>1, <1>2 DEF FillUp, SendTime, Command, EndScans, TerminateCore, TerminateStream,
    corevars
<1>3. ASSUME NEW b \in Cores, Receive(b) \/ ReceiveLast(b) \/ FillSlot(b) PROVE DataInv'
  BY <1>t, <1>1, <1>3 DEF Receive, ReceiveLast, TakeResult, FillSlot
<1>4. ASSUME NEW d \in DataStreams, StreamStep(d) PROVE DataInv'
  BY <1>1, <1>4 DEF StreamStep, Post, TakeCommand, SendData, SendTo, FinishSends, corevars
<1>5. ASSUME NEW b \in Cores, ReceiveTime(b) PROVE DataInv'
  BY <1>t, <1>5 DEF ReceiveTime, DataInv
<1>6. ASSUME NEW b \in Cores, NEW e \in DataStreams, ReceiveData(b, e) PROVE DataInv'
  <2>1. PICK p \in pending[e] :
          /\ p.core = b /\ \A q \in pending[e] : q.core = b => p.subint <= q.subint
          /\ databuffer' = [databuffer EXCEPT ![b][e] = p.subint]
    BY <1>6 DEF ReceiveData
  <2>2. /\ cpc[b] = "data" /\ databuffer[b][e] = Nothing /\ UNCHANGED <<cpc, offsets>>
    BY <1>6 DEF ReceiveData
  <2>3. p.subint = offsets[b]
    BY <2>1, <2>2, FirstMessage
  <2> QED BY <1>t, <2>1, <2>2, <2>3 DEF DataInv, Buffer
<1> QED
  BY <1>1, <1>2, <1>3, <1>4, <1>5, <1>6 DEF Next, Manager, CoreStep, Ended, vars, corevars

LEMMA RightStep ==
  TypeOK /\ DataInv /\ LoadInv /\ RightSubint /\ [Next]_vars => RightSubint'
<1> SUFFICES ASSUME TypeOK, DataInv, LoadInv, RightSubint, [Next]_vars,
                    NEW c \in Cores, NEW i \in DOMAIN slots'[c], NEW d \in DataStreams
             PROVE  slots'[c][i].data[d] = slots'[c][i].offsets
  BY DEF RightSubint
<1>t. /\ slots \in [Cores -> Seq(Slot)] /\ offsets \in [Cores -> Nat]
      /\ databuffer \in [Cores -> Buffer]
  BY DEF TypeOK, CoresOK
<1> DEFINE Goal == slots'[c][i].data[d] = slots'[c][i].offsets
<1>1. CASE slots'[c] = slots[c]
  BY <1>1 DEF RightSubint
<1>2. ASSUME NEW b \in Cores, TakeResult(b) PROVE Goal
  <2>1. CASE b = c
    <3>1. slots'[c] = Tail(slots[c]) /\ slots[c] # << >>
      BY <1>t, <1>2, <2>1, DispatchAssumption DEF TakeResult, LoadInv, HandsOf
    <3>2. i + 1 \in DOMAIN slots[c] /\ slots'[c][i] = slots[c][i + 1]
      BY <1>t, <3>1, Taken
    <3> QED BY <3>2 DEF RightSubint
  <2>2. CASE b # c
    BY <1>t, <1>1, <1>2, <2>2 DEF TakeResult
  <2> QED BY <2>1, <2>2
<1>3. ASSUME NEW b \in Cores, FillSlot(b) PROVE Goal
  <2>1. CASE b = c
    <3> DEFINE x == [offsets |-> offsets[c], data |-> databuffer[c]]
    <3>1. slots'[c] = Append(slots[c], x) /\ x \in Slot
      BY <1>t, <1>3, <2>1 DEF FillSlot, Slot
    <3>2. (i \in DOMAIN slots[c] /\ slots'[c][i] = slots[c][i]) \/ slots'[c][i] = x
      BY <1>t, <3>1, Appended
    <3>3. x.data[d] = x.offsets
      BY <1>3, <2>1 DEF FillSlot, DataInv
    <3> HIDE DEF x
    <3> QED BY <3>2, <3>3 DEF RightSubint
  <2>2. CASE b # c
    BY <1>t, <1>1, <1>3, <2>2 DEF FillSlot
  <2> QED BY <2>1, <2>2
<1>4. CASE FillUp \/ SendTime \/ Command \/ EndScans \/ TerminateCore \/ TerminateStream
  BY <1>1, <1>4 DEF FillUp, SendTime, Command, EndScans, TerminateCore, TerminateStream,
    corevars
<1>5. ASSUME NEW b \in Cores, Receive(b) \/ ReceiveLast(b) PROVE Goal
  BY <1>2, <1>5 DEF Receive, ReceiveLast
<1>6. ASSUME NEW e \in DataStreams, StreamStep(e) PROVE Goal
  BY <1>1, <1>6 DEF StreamStep, Post, TakeCommand, SendData, SendTo, FinishSends, corevars
<1>7. ASSUME NEW b \in Cores, ReceiveTime(b) \/ \E e \in DataStreams : ReceiveData(b, e)
      PROVE  Goal
  BY <1>1, <1>7 DEF ReceiveTime, ReceiveData
<1> QED
  BY <1>1, <1>3, <1>4, <1>5, <1>6, <1>7 DEF Next, Manager, CoreStep, Ended, vars, corevars

-----------------------------------------------------------------------------
(* The load of a Core *)

LEMMA TurnsOfCoreType ==
  ASSUME NEW n \in Nat, NEW c
  PROVE  TurnsOfCore(c, n) \in Nat
BY DispatchAssumption, TurnsType DEF TurnsOfCore

\* The Core whose turn it is gets one more.
LEMMA TurnsOfCoreStep ==
  ASSUME NEW n \in Nat, NEW c \in 0 .. NumCores - 1
  PROVE  TurnsOfCore(c, n + 1) = TurnsOfCore(c, n) + IF n % NumCores = c THEN 1 ELSE 0
BY DispatchAssumption, TurnsStep DEF TurnsOfCore

\* While the Cores are filled up, it still has a slot.
LEMMA TurnsOfCoreBound ==
  ASSUME NEW n \in Nat, n < RECEIVE_RING_LENGTH * NumCores
  PROVE  TurnsOfCore(n % NumCores, n + 1) <= RECEIVE_RING_LENGTH
<1> DEFINE c == n % NumCores
<1>1. /\ NumCores \in Nat \ {0} /\ RECEIVE_RING_LENGTH \in Nat
      /\ c \in 0 .. NumCores - 1
  BY DispatchAssumption, Division
<1>2. TurnsOfCore(c, n) < RECEIVE_RING_LENGTH /\ TurnsOfCore(c, n) \in Nat
  BY <1>1, TurnsBound, TurnsType DEF TurnsOfCore
<1>3. TurnsOfCore(c, n + 1) = TurnsOfCore(c, n) + 1
  BY <1>1, TurnsOfCoreStep
<1> QED BY <1>1, <1>2, <1>3

\* The numbers that Load adds up.
LEMMA Counts ==
  ASSUME TypeOK, NEW c \in Cores
  PROVE  /\ times[c] \in Seq(Times) /\ Len(times[c]) \in Nat
         /\ slots[c] \in Seq(Slot) /\ Len(slots[c]) \in Nat
         /\ Busy(c) \in Nat /\ Due(c) \in Nat /\ Given(c) \in Nat
         /\ Filled(c) \in Nat /\ Queued(c) \in Nat
         /\ Load(c) \in Nat /\ RECEIVE_RING_LENGTH \in Nat
<1>1. times[c] \in Seq(Times) /\ slots[c] \in Seq(Slot)
  BY DEF TypeOK, QueuesOK, CoresOK
<1>2. Len(times[c]) \in Nat /\ Len(slots[c]) \in Nat
  BY <1>1
<1>3. Busy(c) \in Nat /\ Due(c) \in Nat /\ Filled(c) \in Nat /\ Queued(c) \in Nat
  BY <1>2 DEF Busy, Due, Filled, Queued
<1>4. Given(c) \in Nat
  BY <1>3 DEF Given
<1> QED BY <1>1, <1>2, <1>3, <1>4, DispatchAssumption DEF Load

\* What is elsewhere leaves a Core as it is.
LEMMA StillLoad ==
  ASSUME NEW c \in Cores, cpc'[c] = cpc[c], slots'[c] = slots[c], times'[c] = times[c],
         UNCHANGED <<mpc, target>> \/ (mpc # "sendtime" /\ mpc' # "sendtime")
  PROVE  Load(c)' = Load(c) /\ (EndSent(c)' <=> EndSent(c))
<1>1. Busy(c)' = Busy(c) /\ Filled(c)' = Filled(c) /\ Queued(c)' = Queued(c)
  BY DEF Busy, Filled, Queued
<1>2. Due(c)' = Due(c)
  BY DEF Due
<1>3. Load(c)' = Load(c)
  BY <1>1, <1>2 DEF Load, Given
<1> QED BY <1>3 DEF EndSent

\* A subint more for the Core that is chosen, ...
LEMMA FillUpLoad ==
  ASSUME TypeOK, FillUp, NEW c \in Cores
  PROVE  /\ Load(c)' = Load(c) + IF target' = c THEN 1 ELSE 0
         /\ EndSent(c)' <=> EndSent(c)
<1>1. UNCHANGED <<times, cpc, slots>> /\ mpc = "scan" /\ mpc' = "sendtime"
  BY DEF FillUp, corevars
<1>2. Due(c) = 0 /\ Due(c)' = IF target' = c THEN 1 ELSE 0
  BY <1>1 DEF Due
<1>3. Given(c)' = Given(c)
  BY <1>1 DEF Given, Busy, Filled, Queued
<1>4. EndSent(c)' <=> EndSent(c)
  BY <1>1 DEF EndSent
<1> QED BY <1>2, <1>3, <1>4, Counts DEF Load

\* ... which it has when its time is sent.
LEMMA SendTimeLoad ==
  ASSUME TypeOK, TimesInv, SendTime, NEW c \in Cores
  PROVE  Load(c)' = Load(c) /\ ~EndSent(c) /\ ~EndSent(c)'
<1>0. /\ times \in [Cores -> Seq(Times)] /\ sendcount \in Nat /\ target \in Cores
      /\ Len(times[c]) \in Nat
  BY Counts DEF TypeOK, QueuesOK, ManagerOK
<1>1. /\ mpc = "sendtime" /\ mpc' = "command" /\ UNCHANGED <<sendcount, target, cpc, slots>>
      /\ times' = [times EXCEPT ![target] = Append(@, sendcount)]
  BY DEF SendTime, corevars
<1>2. ~EndSent(c)
  BY <1>1 DEF TimesInv, TimesOf, EndLast, Sending, EndSent
<1>3. /\ Len(times'[c]) = Len(times[c]) + (IF target = c THEN 1 ELSE 0)
      /\ ~EndSent(c)'
  <2>1. CASE target = c
    <3>1. times'[c] = Append(times[c], sendcount) /\ sendcount \in Times
      BY <1>0, <1>1, <2>1 DEF Times
    <3>2. /\ Len(times'[c]) = Len(times[c]) + 1
          /\ \A i \in 1 .. Len(times[c]) : times'[c][i] = times[c][i]
          /\ times'[c][Len(times[c]) + 1] = sendcount
      BY <1>0, <3>1, Appended
    <3>3. sendcount # Terminate
      BY <1>0 DEF Terminate
    <3>4. \A i \in 1 .. Len(times'[c]) :
            i \in 1 .. Len(times[c]) \/ times'[c][i] = sendcount
      BY <1>0, <3>2
    <3>5. ~EndSent(c)'
      BY <1>2, <3>2, <3>3, <3>4 DEF EndSent
    <3> QED BY <2>1, <3>2, <3>5
  <2>2. CASE target # c
    <3>1. times'[c] = times[c]
      BY <1>0, <1>1, <2>2
    <3> QED BY <1>0, <1>2, <2>2, <3>1 DEF EndSent
  <2> QED BY <2>1, <2>2
<1>4. Due(c)' = 0 /\ Due(c) = IF target = c THEN 1 ELSE 0
  BY <1>1 DEF Due
<1>5. /\ Busy(c)' = Busy(c) /\ Filled(c)' = Filled(c)
      /\ Queued(c)' = Queued(c) + IF target = c THEN 1 ELSE 0
  BY <1>1, <1>3 DEF Busy, Filled, Queued
<1>6. Load(c)' = Load(c)
  <2>1. CASE target = c
    BY <1>4, <1>5, <2>1, Counts DEF Load, Given
  <2>2. CASE target # c
    BY <1>4, <1>5, <2>2, Counts DEF Load, Given
  <2> QED BY <2>1, <2>2
<1> QED BY <1>2, <1>3, <1>6

\* The end is one thing more.
LEMMA TerminateLoad ==
  ASSUME TypeOK, TimesInv, TerminateCore, NEW c \in Cores
  PROVE  IF next = c THEN Load(c)' = Load(c) + 1 /\ ~EndSent(c) /\ EndSent(c)'
                     ELSE Load(c)' = Load(c) /\ (EndSent(c)' <=> EndSent(c))
<1>1. /\ UNCHANGED <<target, cpc, slots>> /\ mpc = "endcores"
      /\ mpc' # "sendtime" /\ times' = [times EXCEPT ![next] = Append(@, Terminate)]
  BY DEF TerminateCore, corevars
<1>t. times \in [Cores -> Seq(Times)]
  BY DEF TypeOK, QueuesOK
<1>2. CASE next = c
  <2>1. times'[c] = Append(times[c], Terminate) /\ Terminate \in Times
    BY <1>1, <1>2, <1>t DEF Times
  <2>2. Len(times'[c]) = Len(times[c]) + 1 /\ times'[c][Len(times[c]) + 1] = Terminate
    BY <2>1, Counts, Appended
  <2>3. EndSent(c)'
    BY <2>2, Counts DEF EndSent
  <2>4. ~EndSent(c)
    BY <1>1, <1>2, Numbers DEF TimesInv, TimesOf, EndLast, EndSent
  <2>5. Busy(c)' = Busy(c) /\ Due(c)' = Due(c) /\ Filled(c)' = Filled(c)
        /\ Queued(c)' = Queued(c) + 1
    BY <1>1, <2>2 DEF Busy, Due, Filled, Queued
  <2>6. Load(c)' = Load(c) + 1
    BY <2>5, Counts DEF Load, Given
  <2> QED BY <1>2, <2>3, <2>4, <2>6
<1>3. CASE next # c
  <2>1. times'[c] = times[c]
    BY <1>1, <1>3, <1>t
  <2> QED BY <1>1, <1>3, <2>1, StillLoad
<1> QED BY <1>2, <1>3

\* A result that is taken is one thing less.
LEMMA TakeLoad ==
  ASSUME TypeOK, LoadInv, NEW b \in Cores, TakeResult(b), UNCHANGED times, NEW c \in Cores
  PROVE  /\ Given(c)' = Given(c) - (IF b = c THEN 1 ELSE 0)
         /\ EndSent(c)' <=> EndSent(c)
         /\ b = c => /\ slots[c] # << >> /\ slots'[c] = Tail(slots[c])
                     /\ Len(slots'[c]) = Len(slots[c]) - 1
         /\ b # c => slots'[c] = slots[c] /\ cpc'[c] = cpc[c]
<1>t. slots \in [Cores -> Seq(Slot)] /\ cpc \in [Cores -> CorePCs]
  BY DEF TypeOK, CoresOK
<1>1. EndSent(c)' <=> EndSent(c)
  BY DEF EndSent
<1>2. CASE b = c
  <2>1. /\ slots[c] # << >> /\ slots'[c] = Tail(slots[c])
        /\ cpc[c] # "data" /\ cpc'[c] # "data"
    BY <1>t, <1>2, DispatchAssumption DEF TakeResult, LoadInv, HandsOf
  <2>2. Len(slots'[c]) = Len(slots[c]) - 1
    BY <2>1, Counts, Taken
  <2>3. Busy(c) = 0 /\ Busy(c)' = 0 /\ Filled(c)' = Filled(c) - 1 /\ Queued(c)' = Queued(c)
    BY <2>1, <2>2 DEF Busy, Filled, Queued
  <2>4. Given(c)' = Given(c) - 1
    BY <2>3, Counts DEF Given
  <2> QED BY <1>1, <1>2, <2>1, <2>2, <2>4
<1>3. CASE b # c
  <2>1. slots'[c] = slots[c] /\ cpc'[c] = cpc[c]
    BY <1>t, <1>3 DEF TakeResult
  <2>2. Given(c)' = Given(c)
    BY <2>1 DEF Given, Busy, Filled, Queued
  <2> QED BY <1>1, <1>3, <2>1, <2>2, Counts
<1> QED BY <1>2, <1>3

\* The time of a subint stays in hand when it is received; the end, which is
\* the last, does not.
LEMMA ReceiveTimeLoad ==
  ASSUME TypeOK, TimesInv, NEW b \in Cores, ReceiveTime(b), NEW c \in Cores
  PROVE  /\ b = c /\ times[c][1] = Terminate =>
              /\ Load(c)' = Load(c) - 1
              /\ EndSent(c) /\ ~EndSent(c)' /\ times'[c] = << >>
         /\ ~(b = c /\ times[c][1] = Terminate) =>
              Load(c)' = Load(c) /\ (EndSent(c)' <=> EndSent(c))
         /\ b = c => Len(times[c]) > 0 /\ cpc[c] = "time"
         /\ b # c => times'[c] = times[c] /\ cpc'[c] = cpc[c]
<1>t. times \in [Cores -> Seq(Times)] /\ cpc \in [Cores -> CorePCs]
  BY DEF TypeOK, QueuesOK, CoresOK
<1>0. UNCHANGED <<mpc, sendcount, target, slots>>
  BY DEF ReceiveTime, managervars
<1>l. /\ times[c] \in Seq(Times) /\ Len(times[c]) \in Nat
      /\ Busy(c) \in Nat /\ Due(c) \in Nat /\ Given(c) \in Nat
      /\ Filled(c) \in Nat /\ Queued(c) \in Nat
  BY Counts
<1>1. CASE b = c
  <2>1. /\ times[c] # << >> /\ times'[c] = Tail(times[c]) /\ cpc[c] = "time"
        /\ times[c][1] = Terminate => cpc'[c] # "data"
        /\ times[c][1] # Terminate => cpc'[c] = "data"
    BY <1>t, <1>1, Taken DEF ReceiveTime
  <2>2. /\ Len(times[c]) > 0 /\ Len(times'[c]) = Len(times[c]) - 1
        /\ \A i \in 1 .. Len(times[c]) - 1 : times'[c][i] = times[c][i + 1]
    BY <2>1, Counts, Taken
  <2>3. Filled(c)' = Filled(c) /\ Queued(c)' = Queued(c) - 1 /\ Due(c)' = Due(c)
    BY <1>0, <2>2 DEF Filled, Queued, Due
  <2>4. CASE times[c][1] = Terminate
    <3>1. Busy(c) = 0 /\ Busy(c)' = 0
      BY <2>1, <2>4 DEF Busy
    <3>2. Load(c)' = Load(c) - 1
      <4>1. Given(c)' = Given(c) - 1
        BY <1>l, <2>3, <3>1 DEF Given
      <4> QED BY <1>l, <2>3, <4>1 DEF Load
    <3>3. EndSent(c)
      BY <2>2, <2>4, Counts DEF EndSent
    <3>4. Len(times[c]) = 1
      <4> DEFINE n == Len(times[c])
      <4>1. n \in Nat /\ n > 0
        BY <1>l, <2>2
      <4>2. ~(1 \in 1 .. n /\ 2 \in 1 .. n)
        <5>1. Ascending(c)
          BY DEF TimesInv, TimesOf
        <5> QED BY <2>4, <5>1 DEF Ascending
      <4> HIDE DEF n
      <4>3. n = 1
        BY <4>1, <4>2
      <4> QED BY <4>3 DEF n
    <3>5. times'[c] = << >>
      <4>1. Tail(times[c]) \in Seq(Times) /\ Len(Tail(times[c])) = 0
        BY <1>l, <2>1, <2>2, <3>4, Taken
      <4>2. \A s \in Seq(Times) : Len(s) = 0 => s = << >>
        OBVIOUS
      <4> QED BY <2>1, <4>1, <4>2
    <3>6. ~EndSent(c)'
      BY <2>2, <3>4 DEF EndSent
    <3> QED BY <1>1, <2>1, <2>2, <2>4, <3>2, <3>3, <3>5, <3>6
  <2>5. CASE times[c][1] # Terminate
    <3>1. Busy(c) = 0 /\ Busy(c)' = 1
      BY <2>1, <2>5 DEF Busy
    <3>2. Load(c)' = Load(c)
      BY <2>3, <3>1, Counts DEF Load, Given
    <3>3. EndSent(c)' => EndSent(c)
      <4> SUFFICES ASSUME NEW j \in 1 .. Len(times'[c]), times'[c][j] = Terminate
                   PROVE  \E i \in 1 .. Len(times[c]) : times[c][i] = Terminate
        BY DEF EndSent
      <4>1. j \in 1 .. Len(times[c]) - 1 /\ j + 1 \in 1 .. Len(times[c])
        BY <2>2, Counts
      <4>2. times'[c][j] = times[c][j + 1]
        BY <2>2, <4>1
      <4> QED BY <4>1, <4>2
    <3>4. EndSent(c) => EndSent(c)'
      <4> SUFFICES ASSUME NEW i \in 1 .. Len(times[c]), times[c][i] = Terminate
                   PROVE  \E j \in 1 .. Len(times'[c]) : times'[c][j] = Terminate
        BY DEF EndSent
      <4>1. i - 1 \in 1 .. Len(times[c]) - 1
        BY <1>l, <2>5
      <4>2. times'[c][i - 1] = times[c][i]
        BY <1>l, <2>2, <4>1
      <4> QED BY <2>2, <4>1, <4>2
    <3> QED BY <1>1, <2>1, <2>2, <2>5, <3>2, <3>3, <3>4
  <2> QED BY <2>4, <2>5
<1>2. CASE b # c
  <2>1. times'[c] = times[c] /\ cpc'[c] = cpc[c] /\ slots'[c] = slots[c]
    BY <1>t, <1>0, <1>2 DEF ReceiveTime
  <2>2. Load(c)' = Load(c) /\ (EndSent(c)' <=> EndSent(c))
    BY <1>0, <2>1, StillLoad
  <2> QED BY <1>2, <2>1, <2>2
<1> QED BY <1>1, <1>2

\* A subint that was received is as much in hand as before.
LEMMA FillSlotLoad ==
  ASSUME TypeOK, NEW b \in Cores, FillSlot(b), NEW c \in Cores
  PROVE  /\ Load(c)' = Load(c)
         /\ EndSent(c)' <=> EndSent(c)
         /\ b = c => /\ Len(slots'[c]) = Len(slots[c]) + 1
                     /\ cpc'[c] = IF MustAnswer(slots'[c]) THEN "result" ELSE "time"
         /\ b # c => slots'[c] = slots[c] /\ cpc'[c] = cpc[c]
<1>t. slots \in [Cores -> Seq(Slot)] /\ cpc \in [Cores -> CorePCs]
      /\ offsets \in [Cores -> Nat] /\ databuffer \in [Cores -> Buffer]
  BY DEF TypeOK, CoresOK
<1>0. UNCHANGED <<mpc, sendcount, target, times>>
  BY DEF FillSlot, managervars
<1>e. EndSent(c)' <=> EndSent(c)
  BY <1>0 DEF EndSent
<1>1. CASE b = c
  <2> DEFINE x == [offsets |-> offsets[c], data |-> databuffer[c]]
  <2>1. /\ slots'[c] = Append(slots[c], x) /\ x \in Slot /\ cpc[c] = "data"
        /\ cpc'[c] = IF MustAnswer(slots'[c]) THEN "result" ELSE "time"
    BY <1>t, <1>1 DEF FillSlot, Slot
  <2>2. Len(slots'[c]) = Len(slots[c]) + 1
    BY <2>1, Counts, Appended
  <2>3. Busy(c) = 1 /\ Busy(c)' = 0
    BY <2>1 DEF Busy
  <2>4. Filled(c)' = Filled(c) + 1 /\ Queued(c)' = Queued(c) /\ Due(c)' = Due(c)
    BY <1>0, <2>2 DEF Filled, Queued, Due
  <2>5. Load(c)' = Load(c)
    BY <2>3, <2>4, Counts DEF Load, Given
  <2> QED BY <1>e, <1>1, <2>1, <2>2, <2>5
<1>2. CASE b # c
  <2>1. slots'[c] = slots[c] /\ cpc'[c] = cpc[c]
    BY <1>t, <1>2 DEF FillSlot
  <2>2. Load(c)' = Load(c)
    BY <1>0, <2>1, StillLoad
  <2> QED BY <1>e, <1>2, <2>1, <2>2
<1> QED BY <1>1, <1>2

LEMMA LoadStep == TypeOK /\ TimesInv /\ LoadInv /\ [Next]_vars => LoadInv'
<1> SUFFICES ASSUME TypeOK, TimesInv, LoadInv, [Next]_vars, NEW c \in Cores
             PROVE  BoundOf(c)' /\ TurnsOf(c)' /\ HandsOf(c)'
  BY DEF LoadInv
<1> DEFINE Goal == BoundOf(c)' /\ TurnsOf(c)' /\ HandsOf(c)'
<1>0. BoundOf(c) /\ TurnsOf(c) /\ HandsOf(c) /\ TimesOf(c)
  BY DEF LoadInv, TimesInv
<1>t. sendcount \in Nat
  BY DEF TypeOK, ManagerOK
<1>l. /\ Len(times[c]) \in Nat /\ Len(slots[c]) \in Nat
      /\ Given(c) \in Nat /\ Due(c) \in Nat
      /\ Load(c) \in Int /\ RECEIVE_RING_LENGTH \in Int
  BY Counts
<1>s. ASSUME Load(c)' <= Load(c), Load(c)' \in Int, EndSent(c)' <=> EndSent(c),
             Sending' /\ sendcount' < Full =>
               Sending /\ sendcount < Full /\ TurnsOfCore(c, Chosen)' = TurnsOfCore(c, Chosen)
      PROVE  BoundOf(c)' /\ TurnsOf(c)'
  <2>1. BoundOf(c)'
    BY <1>0, <1>l, <1>s DEF BoundOf
  <2>2. TurnsOf(c)'
    <3> SUFFICES ASSUME Sending', sendcount' < Full PROVE Load(c)' <= TurnsOfCore(c, Chosen)'
      BY DEF TurnsOf, Full
    <3>1. Sending /\ sendcount < Full /\ TurnsOfCore(c, Chosen)' = TurnsOfCore(c, Chosen)
      BY <1>s
    <3>2. Load(c) <= TurnsOfCore(c, Chosen)
      BY <1>0, <3>1 DEF TurnsOf
    <3>3. TurnsOfCore(c, Chosen) \in Int
      <4>1. Chosen \in Nat
        BY <1>t DEF Chosen
      <4> QED BY <4>1, TurnsOfCoreType
    <3> QED BY <1>l, <1>s, <3>1, <3>2, <3>3
  <2> QED BY <2>1, <2>2
<1>h. cpc'[c] = cpc[c] /\ slots'[c] = slots[c] => HandsOf(c)'
  BY <1>0 DEF HandsOf
<1>1. ASSUME UNCHANGED <<mpc, sendcount, target, times, cpc, slots>> PROVE Goal
  <2>1. Load(c)' = Load(c) /\ (EndSent(c)' <=> EndSent(c))
    BY <1>1, StillLoad
  <2>2. TurnsOfCore(c, Chosen)' = TurnsOfCore(c, Chosen) /\ (Sending' <=> Sending)
    BY <1>1 DEF TurnsOfCore, Turns, Chosen, Sending
  <2> QED BY <1>1, <1>h, <1>l, <1>s, <2>1, <2>2
<1>2. CASE FillUp
  <2>1. /\ UNCHANGED <<sendcount, cpc, slots>> /\ mpc = "scan" /\ mpc' = "sendtime"
        /\ sendcount < Full /\ target' = sendcount % NumCores
    BY <1>2 DEF FillUp, corevars
  <2>2. Load(c)' = Load(c) + (IF target' = c THEN 1 ELSE 0) /\ (EndSent(c)' <=> EndSent(c))
    BY <1>2, FillUpLoad
  <2>3. Load(c) <= TurnsOfCore(c, sendcount)
    BY <1>0, <2>1 DEF TurnsOf, Sending, Chosen
  <2>4. /\ TurnsOfCore(c, sendcount + 1) = TurnsOfCore(c, sendcount) + IF target' = c THEN 1 ELSE 0
        /\ TurnsOfCore(c, sendcount) \in Int /\ TurnsOfCore(c, sendcount + 1) \in Int
    <3>1. c \in 0 .. NumCores - 1
      BY DEF Cores
    <3>2. TurnsOfCore(c, sendcount) \in Int
      BY <1>t, TurnsOfCoreType
    <3>3. TurnsOfCore(c, sendcount + 1) = TurnsOfCore(c, sendcount) + IF target' = c THEN 1 ELSE 0
      BY <1>t, <2>1, <3>1, TurnsOfCoreStep
    <3> QED BY <3>2, <3>3
  <2>5. Load(c)' <= TurnsOfCore(c, sendcount + 1)
    BY <1>l, <2>2, <2>3, <2>4
  <2>6. TurnsOf(c)'
    BY <2>1, <2>5 DEF TurnsOf, TurnsOfCore, Turns, Chosen
  <2>7. BoundOf(c)'
    <3>1. CASE target' = c
      <4>1. TurnsOfCore(c, sendcount + 1) <= RECEIVE_RING_LENGTH
        BY <1>t, <2>1, <3>1, TurnsOfCoreBound DEF Full
      <4> QED BY <1>l, <2>2, <2>4, <2>5, <4>1 DEF BoundOf
    <3>2. CASE target' # c
      BY <1>0, <1>l, <2>2, <3>2 DEF BoundOf
    <3> QED BY <3>1, <3>2
  <2> QED BY <1>h, <2>1, <2>6, <2>7
<1>3. CASE SendTime
  <2>1. mpc = "sendtime" /\ mpc' = "command" /\ UNCHANGED <<sendcount, cpc, slots>>
    BY <1>3 DEF SendTime, corevars
  <2>2. Load(c)' = Load(c) /\ ~EndSent(c) /\ ~EndSent(c)'
    BY <1>3, SendTimeLoad
  <2>3. TurnsOfCore(c, Chosen)' = TurnsOfCore(c, Chosen)
    BY <2>1 DEF TurnsOfCore, Turns, Chosen
  <2> QED BY <1>h, <1>l, <1>s, <2>1, <2>2, <2>3 DEF Sending
<1>4. CASE Command
  <2>1. /\ mpc = "command" /\ UNCHANGED <<target, times, cpc, slots>>
        /\ \/ mpc' = "scan" /\ sendcount' = sendcount + 1
           \/ mpc' = "command" /\ sendcount' = sendcount
    BY <1>4 DEF Command, corevars
  <2>2. Load(c)' = Load(c) /\ (EndSent(c)' <=> EndSent(c))
    BY <2>1, StillLoad
  <2>3. TurnsOfCore(c, Chosen)' = TurnsOfCore(c, Chosen)
    BY <2>1 DEF TurnsOfCore, Turns, Chosen
  <2>4. sendcount' < Full => sendcount < Full
    BY <1>t, <2>1, DispatchAssumption DEF Full
  <2> QED BY <1>h, <1>l, <1>s, <2>1, <2>2, <2>3, <2>4 DEF Sending
<1>5. CASE EndScans \/ TerminateStream
  <2>1. /\ UNCHANGED <<times, cpc, slots>> /\ ~Sending'
        /\ mpc # "sendtime" /\ mpc' # "sendtime"
    BY <1>5 DEF EndScans, TerminateStream, corevars, Sending
  <2>2. Load(c)' = Load(c) /\ (EndSent(c)' <=> EndSent(c))
    BY <2>1, StillLoad
  <2> QED BY <1>h, <1>l, <1>s, <2>1, <2>2
<1>6. CASE TerminateCore
  <2>1. UNCHANGED <<cpc, slots>> /\ ~Sending'
    BY <1>6 DEF TerminateCore, corevars, Sending
  <2>2. IF next = c THEN Load(c)' = Load(c) + 1 /\ ~EndSent(c) /\ EndSent(c)'
                    ELSE Load(c)' = Load(c) /\ (EndSent(c)' <=> EndSent(c))
    BY <1>6, TerminateLoad
  <2>3. BoundOf(c)'
    <3>1. CASE next = c
      BY <1>0, <1>l, <2>2, <3>1 DEF BoundOf
    <3>2. CASE next # c
      BY <1>0, <1>l, <2>2, <3>2 DEF BoundOf
    <3> QED BY <3>1, <3>2
  <2>4. TurnsOf(c)'
    BY <2>1 DEF TurnsOf
  <2> QED BY <1>h, <2>1, <2>3, <2>4
<1>7. ASSUME NEW b \in Cores, TakeResult(b), UNCHANGED <<sendcount, times>>,
             mpc # "sendtime", mpc' = "sendtime" => target' = b,
             Sending' => ~(sendcount < Full)
      PROVE  Goal
  <2>1. /\ Given(c)' = Given(c) - (IF b = c THEN 1 ELSE 0)
        /\ EndSent(c)' <=> EndSent(c)
        /\ b = c => /\ slots[c] # << >> /\ slots'[c] = Tail(slots[c])
                    /\ Len(slots'[c]) = Len(slots[c]) - 1
        /\ b # c => slots'[c] = slots[c] /\ cpc'[c] = cpc[c]
    BY <1>7, TakeLoad
  <2>2. Due(c) = 0 /\ Due(c)' \in 0 .. 1 /\ (Due(c)' = 1 => b = c)
    BY <1>7 DEF Due
  <2>3. Load(c)' <= Load(c) /\ Load(c)' \in Int
    BY <1>l, <2>1, <2>2 DEF Load
  <2>4. HandsOf(c)'
    <3>1. CASE b = c
      <4>1. cpc'[c] # "result" /\ (cpc'[c] = "drain" => slots'[c] # << >>)
        BY <1>7, <3>1 DEF TakeResult, TypeOK, CoresOK
      <4>2. slots'[c] # << >> => Len(slots'[c]) > 0
        BY <2>1, <3>1, Counts, Taken
      <4> QED BY <4>1, <4>2 DEF HandsOf
    <3>2. CASE b # c
      BY <1>h, <2>1, <3>2
    <3> QED BY <3>1, <3>2
  <2> QED BY <1>s, <1>7, <2>1, <2>3, <2>4
<1>8. ASSUME NEW b \in Cores, Receive(b) PROVE Goal
  <2>1. ~(sendcount < Full)
    BY <1>t, <1>8, DispatchAssumption DEF Receive, Full
  <2> QED BY <1>7, <1>8, <2>1 DEF Receive
<1>9. ASSUME NEW b \in Cores, ReceiveLast(b) PROVE Goal
  BY <1>7, <1>9 DEF ReceiveLast, Sending
<1>10. ASSUME NEW e \in DataStreams, StreamStep(e) PROVE Goal
  BY <1>1, <1>10 DEF StreamStep, Post, TakeCommand, SendData, SendTo, FinishSends,
    managervars, corevars
<1>11. ASSUME NEW b \in Cores, NEW e \in DataStreams, ReceiveData(b, e) PROVE Goal
  BY <1>1, <1>11 DEF ReceiveData, managervars
<1>12. ASSUME NEW b \in Cores, ReceiveTime(b) PROVE Goal
  <2>0. UNCHANGED <<mpc, sendcount, target, slots>>
    BY <1>12 DEF ReceiveTime, managervars
  <2>1. TurnsOfCore(c, Chosen)' = TurnsOfCore(c, Chosen) /\ (Sending' <=> Sending)
    BY <2>0 DEF TurnsOfCore, Turns, Chosen, Sending
  <2>2. /\ b = c /\ times[c][1] = Terminate => Load(c)' = Load(c) - 1 /\ EndSent(c)
        /\ ~(b = c /\ times[c][1] = Terminate) =>
              Load(c)' = Load(c) /\ (EndSent(c)' <=> EndSent(c))
        /\ b = c => Len(times[c]) > 0
        /\ b # c => cpc'[c] = cpc[c]
    BY <1>12, ReceiveTimeLoad
  <2>3. HandsOf(c)'
    <3>1. CASE b = c
      BY <1>l, <1>12, <2>0, <3>1, Counts DEF ReceiveTime, HandsOf, TypeOK, CoresOK
    <3>2. CASE b # c
      BY <1>h, <2>0, <2>2, <3>2
    <3> QED BY <3>1, <3>2
  <2>4. CASE b = c /\ times[c][1] = Terminate
    <3>1. ~Sending
      BY <1>0, <1>l, <2>2, <2>4 DEF TimesOf, EndLast
    <3>2. BoundOf(c)'
      BY <1>0, <1>l, <2>2, <2>4 DEF BoundOf
    <3> QED BY <2>1, <2>3, <3>1, <3>2 DEF TurnsOf
  <2>5. CASE ~(b = c /\ times[c][1] = Terminate)
    <3>1. Load(c)' = Load(c) /\ (EndSent(c)' <=> EndSent(c))
      BY <2>2, <2>5
    <3> QED BY <1>l, <1>s, <2>0, <2>1, <2>3, <3>1
  <2> QED BY <2>4, <2>5
<1>13. ASSUME NEW b \in Cores, FillSlot(b) PROVE Goal
  <2>0. UNCHANGED <<mpc, sendcount>>
    BY <1>13 DEF FillSlot, managervars
  <2>1. TurnsOfCore(c, Chosen)' = TurnsOfCore(c, Chosen) /\ (Sending' <=> Sending)
    BY <2>0 DEF TurnsOfCore, Turns, Chosen, Sending
  <2>2. /\ Load(c)' = Load(c)
        /\ EndSent(c)' <=> EndSent(c)
        /\ b = c => cpc'[c] = IF MustAnswer(slots'[c]) THEN "result" ELSE "time"
        /\ b # c => slots'[c] = slots[c] /\ cpc'[c] = cpc[c]
    BY <1>13, FillSlotLoad
  <2>3. HandsOf(c)'
    <3>1. CASE b = c
      BY <2>2, <3>1 DEF HandsOf, MustAnswer
    <3>2. CASE b # c
      BY <1>h, <2>2, <3>2
    <3> QED BY <3>1, <3>2
  <2> QED BY <1>l, <1>s, <2>0, <2>1, <2>2, <2>3
<1>14. CASE UNCHANGED vars
  BY <1>1, <1>14 DEF vars, managervars, corevars
<1> QED
  BY <1>2, <1>3, <1>4, <1>5, <1>6, <1>8, <1>9, <1>10, <1>11, <1>12, <1>13, <1>14
  DEF Next, Manager, CoreStep, Ended

-----------------------------------------------------------------------------
(* The theorems *)

LEMMA StepInv == Inv /\ [Next]_vars => Inv'
BY TypeStep, TimesStep, OrderStep, MessageStep, DataStep, RightStep, LoadStep DEF Inv

LEMMA AlwaysInv == Spec => []Inv
BY InitInv, StepInv, PTL DEF Spec

\* Whatever the order of the messages, a Core never adds up data of different
\* subints (receivedata, core.cpp).
THEOREM DispatchRightSubint == Spec => []RightSubint
<1>1. Inv => RightSubint
  BY DEF Inv
<1> QED BY <1>1, AlwaysInv, PTL

\* A Core with a result in its hands awaits no data, so that none is coming.
LEMMA InvNoCycle == Inv => NoCycle
<1> SUFFICES ASSUME Inv, NEW c \in Cores, cpc[c] = "result", NEW d \in DataStreams
             PROVE  /\ \A p \in pending[d] : p.core # c
                    /\ dpc[d] = "process" => command[d].core # c
                    /\ \A i \in DOMAIN commands[d] :
                         commands[d][i].subint # Terminate => commands[d][i].core # c
  BY DEF NoCycle
<1>t. /\ times[c] \in Seq(Times) /\ slots[c] \in Seq(Slot)
      /\ commands[d] \in Seq(Commands) /\ pending[d] \subseteq Messages
      /\ dpc[d] = "process" => command[d].subint \in Nat
  BY DEF Inv, TypeOK, QueuesOK, CoresOK, StreamsOK
<1>l. /\ Len(times[c]) \in Nat /\ Len(slots[c]) \in Nat /\ RECEIVE_RING_LENGTH \in Nat
      /\ DOMAIN commands[d] = 1 .. Len(commands[d])
  BY <1>t, DispatchAssumption
<1>1. BoundOf(c) /\ HandsOf(c)
  BY DEF Inv, LoadInv
<1>2. Len(slots[c]) >= RECEIVE_RING_LENGTH
  BY <1>1 DEF HandsOf
<1>3. Filled(c) + Queued(c) <= Load(c) /\ Load(c) \in Int
  <2>1. Busy(c) \in Nat /\ Due(c) \in Nat /\ Filled(c) \in Nat /\ Queued(c) \in Nat
    BY <1>l DEF Busy, Due, Filled, Queued
  <2>2. Filled(c) + Queued(c) <= Given(c) /\ Given(c) \in Int
    BY <2>1 DEF Given
  <2> QED BY <2>1, <2>2 DEF Load
<1>n. Filled(c) \in Nat /\ Queued(c) \in Nat /\ Filled(c) >= RECEIVE_RING_LENGTH
  BY <1>l, <1>2 DEF Filled, Queued
<1>4. Queued(c) <= 1 /\ (~EndSent(c) => Queued(c) = 0)
  <2>1. CASE EndSent(c)
    BY <1>1, <1>3, <1>n, <1>l, <2>1 DEF BoundOf
  <2>2. CASE ~EndSent(c)
    BY <1>1, <1>3, <1>n, <1>l, <2>2 DEF BoundOf
  <2> QED BY <2>1, <2>2
<1>5. \A i \in 1 .. Len(times[c]) : times[c][i] = Terminate
  BY <1>4, <1>l DEF EndSent, Queued
<1>6. ASSUME NEW n \in Nat PROVE ~HasMessage(c, d, n)
  <2>1. ~Awaits(c, d, n)
    BY <1>5 DEF Awaits, Terminate
  <2> QED BY <2>1 DEF Inv, MessageInv
<1>7. \A p \in pending[d] : p.core # c
  BY <1>6, <1>t DEF HasMessage, Messages
<1>8. dpc[d] = "process" => command[d].core # c
  BY <1>6, <1>t DEF HasMessage
<1>9. ASSUME NEW i \in 1 .. Len(commands[d]), commands[d][i].subint # Terminate
      PROVE  commands[d][i].core # c
  <2>1. commands[d][i] \in Commands
    BY <1>t
  <2>2. commands[d][i].subint \in Nat
    BY <1>9, <2>1 DEF Commands, Times
  <2> QED BY <1>6, <2>2 DEF HasMessage
<1> QED BY <1>7, <1>8, <1>9, <1>l

\* While a Core holds a result for the manager, nothing that waits for this Core
\* can be what the manager waits for.
THEOREM DispatchNoCycle == Spec => []NoCycle
BY AlwaysInv, InvNoCycle, PTL

-----------------------------------------------------------------------------
(* Nobody waits for ever.  Besides Inv this takes that a process is at its *)
(* end, or has its end before it, just when the manager has told it, and   *)
(* that the results the manager still expects are in the hands of Cores.   *)

Told(c) == mpc \in {"endstreams", "drain"} \/ (mpc = "endcores" /\ c < next)
ToldStream(d) == mpc = "drain" \/ (mpc = "endstreams" /\ d < next)

CoreEndOf(c) ==
  /\ cpc[c] \in {"drain", "done"} => times[c] = << >>
  /\ Told(c) <=> EndSent(c) \/ cpc[c] \in {"drain", "done"}
  /\ cpc[c] = "done" => slots[c] = << >>
  /\ cpc[c] = "time" => Len(slots[c]) < RECEIVE_RING_LENGTH

EndQueued(d) == \E i \in 1 .. Len(commands[d]) : commands[d][i].subint = Terminate

StreamEndOf(d) ==
  /\ dpc[d] \in {"finish", "done"} => commands[d] = << >>
  /\ ToldStream(d) <=> EndQueued(d) \/ dpc[d] \in {"finish", "done"}
  /\ \A i \in 1 .. Len(commands[d]) :
       commands[d][i].subint = Terminate => i = Len(commands[d])

JobOf ==
  /\ sendcount <= length
  /\ mpc \in {"sendtime", "command"} => sendcount < length

EndInv == JobOf /\ (\A c \in Cores : CoreEndOf(c)) /\ (\A d \in DataStreams : StreamEndOf(d))

LEMMA InitEnd == Init => EndInv
BY DispatchAssumption DEF Init, EndInv, JobOf, CoreEndOf, StreamEndOf, Told, ToldStream, EndSent, EndQueued

LEMMA JobStep == TypeOK /\ JobOf /\ [Next]_vars => JobOf'
<1> SUFFICES ASSUME TypeOK, JobOf, [Next]_vars PROVE JobOf'
  OBVIOUS
<1>0. sendcount \in Nat /\ length \in Nat
  BY DEF TypeOK, ManagerOK
<1>1. CASE UNCHANGED <<length, managervars>>
  BY <1>1 DEF JobOf, managervars
<1>2. CASE FillUp \/ SendTime \/ EndScans \/ TerminateCore \/ TerminateStream
  BY <1>2 DEF JobOf, FillUp, SendTime, EndScans, TerminateCore, TerminateStream
<1>3. CASE Command
  BY <1>0, <1>3 DEF JobOf, Command
<1>4. ASSUME NEW c \in Cores, Receive(c) \/ ReceiveLast(c) PROVE JobOf'
  BY <1>4 DEF JobOf, Receive, ReceiveLast
<1>5. ASSUME NEW d \in DataStreams, StreamStep(d) PROVE JobOf'
  BY <1>1, <1>5 DEF StreamStep, Post, TakeCommand, SendData, SendTo, FinishSends
<1>6. ASSUME NEW c \in Cores, CoreStep(c) PROVE JobOf'
  BY <1>1, <1>6 DEF CoreStep, ReceiveTime, FillSlot, ReceiveData
<1> QED BY <1>1, <1>2, <1>3, <1>4, <1>5, <1>6 DEF Next, Manager, Ended, vars

\* No Core has more results than slots, nor more in hand.
LEMMA Bounds ==
  ASSUME TypeOK, LoadInv, NEW c \in Cores
  PROVE  /\ Len(slots[c]) <= RECEIVE_RING_LENGTH
         /\ Load(c) - (IF EndSent(c) THEN 1 ELSE 0) \in 0 .. RECEIVE_RING_LENGTH
<1> DEFINE f == Filled(c)
           q == Queued(c)
           l == Load(c)
           e == IF EndSent(c) THEN 1 ELSE 0
<1>1. f \in Nat /\ q \in Nat /\ l \in Nat /\ e \in 0 .. 1 /\ RECEIVE_RING_LENGTH \in Nat
  BY Counts
<1>2. l <= RECEIVE_RING_LENGTH + e
  BY DEF LoadInv, BoundOf
<1>3. l >= f + q
  <2> DEFINE b == Busy(c)
             d == Due(c)
  <2>1. l = b + f + q + d /\ b \in Nat /\ d \in Nat
    BY Counts DEF Load, Given
  <2> HIDE DEF b, d, f, q, l
  <2> QED BY <1>1, <2>1
<1>4. q >= e
  <2>1. q = Len(times[c]) /\ (EndSent(c) => q # 0)
    BY DEF Queued, EndSent
  <2> QED BY <1>1, <2>1
<1>5. f = Len(slots[c])
  BY DEF Filled
<1> HIDE DEF f, q, l, e
<1>6. f <= RECEIVE_RING_LENGTH /\ l - e \in 0 .. RECEIVE_RING_LENGTH
  BY <1>1, <1>2, <1>3, <1>4
<1> QED BY <1>5, <1>6 DEF l, e

LEMMA CoreEndStep ==
  ASSUME TypeOK, TimesInv, LoadInv, NEW c \in Cores, CoreEndOf(c), [Next]_vars
  PROVE  CoreEndOf(c)'
<1>t. /\ cpc \in [Cores -> CorePCs] /\ slots \in [Cores -> Seq(Slot)] /\ times \in [Cores -> Seq(Times)]
      /\ next \in Nat /\ Cores \subseteq Nat
      /\ Len(slots[c]) \in Nat /\ RECEIVE_RING_LENGTH \in Nat
  BY Numbers, Counts DEF TypeOK, CoresOK, QueuesOK, ManagerOK
<1>1. ASSUME cpc'[c] = cpc[c], slots'[c] = slots[c], times'[c] = times[c], Told(c)' <=> Told(c)
      PROVE  CoreEndOf(c)'
  BY <1>1 DEF CoreEndOf, EndSent
<1>2. CASE FillUp \/ Command \/ EndScans \/ TerminateStream
  <2>1. Told(c)' <=> Told(c)
    BY <1>t, <1>2 DEF FillUp, Command, EndScans, TerminateStream, Told
  <2> QED BY <1>1, <1>2, <2>1 DEF FillUp, Command, EndScans, TerminateStream, corevars
<1>3. CASE SendTime
  <2>1. ~EndSent(c) /\ ~EndSent(c)'
    BY <1>3, SendTimeLoad
  <2>2. ~Told(c) /\ ~Told(c)' /\ cpc' = cpc /\ slots' = slots
    BY <1>3 DEF SendTime, Told, corevars
  <2> QED BY <2>1, <2>2 DEF CoreEndOf
<1>4. CASE TerminateCore
  <2>1. /\ mpc = "endcores" /\ cpc' = cpc /\ slots' = slots
        /\ times' = [times EXCEPT ![next] = Append(@, Terminate)]
        /\ IF next = NumCores - 1 THEN mpc' = "endstreams"
                                  ELSE mpc' = "endcores" /\ next' = next + 1
    BY <1>4 DEF TerminateCore, corevars
  <2>2. CASE next = c
    <3>1. EndSent(c)'
      BY <1>4, <2>2, TerminateLoad
    <3>2. Told(c)' /\ ~Told(c)
      BY <1>t, <2>1, <2>2 DEF Told
    <3> QED BY <2>1, <3>1, <3>2 DEF CoreEndOf
  <2>3. CASE next # c
    <3>1. Told(c)' <=> Told(c)
      BY <1>t, <2>1, <2>3, DispatchAssumption DEF Told, Cores
    <3> QED BY <1>t, <1>1, <2>1, <2>3, <3>1
  <2> QED BY <2>2, <2>3
<1>5. ASSUME NEW b \in Cores, TakeResult(b), UNCHANGED times, Told(c)' <=> Told(c)
      PROVE  CoreEndOf(c)'
  <2>1. /\ b = c => slots[c] # << >> /\ Len(slots'[c]) = Len(slots[c]) - 1
        /\ b # c => slots'[c] = slots[c] /\ cpc'[c] = cpc[c]
        /\ EndSent(c)' <=> EndSent(c)
    BY <1>5, TakeLoad
  <2>2. CASE b = c
    <3>1. IF cpc[c] = "result" THEN cpc'[c] = "time"
          ELSE /\ cpc[c] = "drain"
               /\ cpc'[c] = IF slots'[c] = << >> THEN "done" ELSE "drain"
      BY <1>t, <1>5, <2>2 DEF TakeResult
    <3>2. Len(slots'[c]) < RECEIVE_RING_LENGTH
      <4>1. Len(slots[c]) <= RECEIVE_RING_LENGTH
        BY Bounds
      <4> QED BY <1>t, <2>1, <2>2, <4>1
    <3> QED BY <1>5, <2>1, <3>1, <3>2 DEF CoreEndOf
  <2>3. CASE b # c
    BY <1>1, <1>5, <2>1, <2>3
  <2> QED BY <2>2, <2>3
<1>6. ASSUME NEW b \in Cores, Receive(b) \/ ReceiveLast(b) PROVE CoreEndOf(c)'
  BY <1>5, <1>6 DEF Receive, ReceiveLast, Told
<1>7. ASSUME NEW d \in DataStreams, StreamStep(d) PROVE CoreEndOf(c)'
  BY <1>1, <1>7 DEF StreamStep, Post, TakeCommand, SendData, SendTo, FinishSends, managervars, corevars, Told
<1>8. ASSUME NEW b \in Cores, NEW d \in DataStreams, ReceiveData(b, d) PROVE CoreEndOf(c)'
  BY <1>1, <1>8 DEF ReceiveData, managervars, Told
<1>9. ASSUME NEW b \in Cores, ReceiveTime(b) PROVE CoreEndOf(c)'
  <2>0. slots' = slots /\ (Told(c)' <=> Told(c))
    BY <1>9 DEF ReceiveTime, managervars, Told
  <2>1. /\ b = c /\ times[c][1] = Terminate => EndSent(c) /\ ~EndSent(c)' /\ times'[c] = << >>
        /\ ~(b = c /\ times[c][1] = Terminate) => (EndSent(c)' <=> EndSent(c))
        /\ b = c => Len(times[c]) > 0 /\ cpc[c] = "time"
        /\ b # c => times'[c] = times[c] /\ cpc'[c] = cpc[c]
    BY <1>9, ReceiveTimeLoad
  <2>2. CASE b = c
    <3>1. cpc'[c] = IF times[c][1] = Terminate
                    THEN IF slots[c] = << >> THEN "done" ELSE "drain"
                    ELSE "data"
      BY <1>t, <1>9, <2>2, Taken DEF ReceiveTime
    <3> QED BY <2>0, <2>1, <2>2, <3>1 DEF CoreEndOf
  <2>3. CASE b # c
    BY <1>1, <2>0, <2>1, <2>3
  <2> QED BY <2>2, <2>3
<1>10. ASSUME NEW b \in Cores, FillSlot(b) PROVE CoreEndOf(c)'
  <2>0. times' = times /\ (Told(c)' <=> Told(c))
    BY <1>10 DEF FillSlot, managervars, Told
  <2>1. /\ EndSent(c)' <=> EndSent(c)
        /\ b = c => /\ Len(slots'[c]) = Len(slots[c]) + 1
                    /\ cpc'[c] = IF MustAnswer(slots'[c]) THEN "result" ELSE "time"
        /\ b # c => slots'[c] = slots[c] /\ cpc'[c] = cpc[c]
    BY <1>10, FillSlotLoad
  <2>2. CASE b = c
    <3>1. cpc[c] = "data"
      BY <1>10, <2>2 DEF FillSlot
    <3> QED BY <1>t, <2>0, <2>1, <2>2, <3>1 DEF CoreEndOf, MustAnswer
  <2>3. CASE b # c
    BY <1>1, <2>0, <2>1, <2>3
  <2> QED BY <2>2, <2>3
<1>11. CASE UNCHANGED vars
  BY <1>1, <1>11 DEF vars, managervars, corevars, Told
<1> QED
  BY <1>2, <1>3, <1>4, <1>6, <1>7, <1>8, <1>9, <1>10, <1>11
  DEF Next, Manager, CoreStep, Ended

LEMMA StreamEndStep ==
  ASSUME TypeOK, NEW d \in DataStreams, StreamEndOf(d), [Next]_vars
  PROVE  StreamEndOf(d)'
<1>t. /\ commands \in [DataStreams -> Seq(Commands)] /\ dpc \in [DataStreams -> StreamPCs]
      /\ commands[d] \in Seq(Commands) /\ Len(commands[d]) \in Nat
      /\ next \in Nat /\ sendcount \in Nat /\ DataStreams \subseteq Nat
  BY Numbers DEF TypeOK, QueuesOK, StreamsOK, ManagerOK
<1>1. ASSUME dpc'[d] = dpc[d] \/ (dpc[d] \notin {"finish", "done"} /\ dpc'[d] \notin {"finish", "done"})
                \/ (dpc[d] = "finish" /\ dpc'[d] = "done"),
             commands'[d] = commands[d], ToldStream(d)' <=> ToldStream(d)
      PROVE  StreamEndOf(d)'
  BY <1>1 DEF StreamEndOf, EndQueued
<1>2. CASE FillUp \/ SendTime \/ EndScans \/ TerminateCore
  <2>1. ToldStream(d)' <=> ToldStream(d)
    BY <1>t, <1>2 DEF FillUp, SendTime, EndScans, TerminateCore, ToldStream
  <2> QED BY <1>1, <1>2, <2>1 DEF FillUp, SendTime, EndScans, TerminateCore, streamvars
<1>3. CASE Command
  <2>1. /\ ~ToldStream(d) /\ ~ToldStream(d)' /\ dpc' = dpc
        /\ commands' = [commands EXCEPT ![next] = << [core |-> target, subint |-> sendcount] >>]
    BY <1>3 DEF Command, ToldStream, streamvars
  <2>2. CASE next = d
    <3>1. commands'[d] = << [core |-> target, subint |-> sendcount] >>
      BY <1>t, <2>1, <2>2
    <3>2. Len(commands'[d]) = 1 /\ commands'[d][1].subint # Terminate
      BY <1>t, <3>1 DEF Terminate
    <3> QED BY <2>1, <3>2 DEF StreamEndOf, EndQueued
  <2>3. CASE next # d
    BY <1>t, <1>1, <2>1, <2>3
  <2> QED BY <2>2, <2>3
<1>4. CASE TerminateStream
  <2> DEFINE x == [core |-> 0, subint |-> Terminate]
  <2>1. /\ mpc = "endstreams" /\ dpc' = dpc /\ next \in DataStreams
        /\ commands' = [commands EXCEPT ![next] = Append(@, x)] /\ x \in Commands
        /\ IF next = NumDataStreams - 1 THEN mpc' = "drain"
                                        ELSE mpc' = "endstreams" /\ next' = next + 1
    BY <1>4, Numbers DEF TerminateStream, streamvars, TypeOK, ManagerOK, Commands, Times
  <2>2. CASE next = d
    <3>1. ToldStream(d)' /\ ~ToldStream(d)
      BY <1>t, <2>1, <2>2 DEF ToldStream
    <3>2. /\ Len(commands'[d]) = Len(commands[d]) + 1
          /\ \A i \in 1 .. Len(commands[d]) : commands'[d][i] = commands[d][i]
          /\ commands'[d][Len(commands[d]) + 1] = x
      BY <1>t, <2>1, <2>2, Appended
    <3>3. EndQueued(d)'
      BY <1>t, <3>2 DEF EndQueued
    <3>4. ~EndQueued(d) /\ dpc'[d] \notin {"finish", "done"}
      BY <2>1, <3>1 DEF StreamEndOf
    <3>5. \A i \in 1 .. Len(commands'[d]) :
            commands'[d][i].subint = Terminate => i = Len(commands'[d])
      <4> SUFFICES ASSUME NEW i \in 1 .. Len(commands'[d]), commands'[d][i].subint = Terminate
                   PROVE  i = Len(commands[d]) + 1
        BY <3>2
      <4>1. i \notin 1 .. Len(commands[d])
        BY <3>2, <3>4 DEF EndQueued
      <4> QED BY <1>t, <3>2, <4>1
    <3> QED BY <3>1, <3>3, <3>4, <3>5 DEF StreamEndOf
  <2>3. CASE next # d
    <3>1. ToldStream(d)' <=> ToldStream(d)
      BY <1>t, <2>1, <2>3, DispatchAssumption DEF ToldStream, DataStreams
    <3> QED BY <1>t, <1>1, <2>1, <2>3, <3>1
  <2> QED BY <2>2, <2>3
<1>5. ASSUME NEW c \in Cores, Receive(c) \/ ReceiveLast(c) PROVE StreamEndOf(d)'
  BY <1>1, <1>5 DEF Receive, ReceiveLast, ToldStream, streamvars
<1>6. ASSUME NEW e \in DataStreams, Post(e) \/ SendData(e) \/ FinishSends(e) PROVE StreamEndOf(d)'
  BY <1>t, <1>1, <1>6 DEF Post, SendData, SendTo, FinishSends, ToldStream, managervars
<1>7. ASSUME NEW e \in DataStreams, TakeCommand(e) PROVE StreamEndOf(d)'
  <2>0. ToldStream(d)' <=> ToldStream(d)
    BY <1>7 DEF TakeCommand, managervars, ToldStream
  <2>1. CASE e = d
    <3>1. /\ commands[d] # << >> /\ commands'[d] = Tail(commands[d]) /\ dpc[d] = "idle"
          /\ dpc'[d] = IF commands[d][1].subint = Terminate THEN "finish" ELSE "process"
      <4>1. commands[d] # << >> /\ Head(commands[d]) = commands[d][1]
        BY <1>t, <1>7, <2>1, Taken DEF TakeCommand
      <4>2. command'[d] = Head(commands[d])
        BY <1>7, <2>1 DEF TakeCommand, TypeOK, StreamsOK
      <4> QED BY <1>t, <1>7, <2>1, <4>1, <4>2 DEF TakeCommand
    <3>2. /\ Len(commands'[d]) = Len(commands[d]) - 1 /\ Len(commands[d]) > 0
          /\ \A i \in 1 .. Len(commands[d]) - 1 : commands'[d][i] = commands[d][i + 1]
      BY <1>t, <3>1, Taken
    <3>3. ASSUME NEW j \in 1 .. Len(commands'[d]), commands'[d][j].subint = Terminate
          PROVE  EndQueued(d) /\ j = Len(commands'[d])
      <4>1. j + 1 \in 1 .. Len(commands[d]) /\ commands[d][j + 1].subint = Terminate
        BY <1>t, <3>2, <3>3
      <4>2. j + 1 = Len(commands[d])
        BY <4>1 DEF StreamEndOf
      <4> QED BY <1>t, <3>2, <4>1, <4>2 DEF EndQueued
    <3>4. CASE commands[d][1].subint = Terminate
      <4>1. 1 \in 1 .. Len(commands[d])
        BY <1>t, <3>2
      <4>2. Len(commands[d]) = 1 /\ EndQueued(d)
        BY <3>4, <4>1 DEF StreamEndOf, EndQueued
      <4>3. commands'[d] = << >>
        <5>1. Tail(commands[d]) \in Seq(Commands) /\ Len(Tail(commands[d])) = 0
          BY <1>t, <3>1, <3>2, <4>2, Taken
        <5>2. \A s \in Seq(Commands) : Len(s) = 0 => s = << >>
          OBVIOUS
        <5> QED BY <3>1, <5>1, <5>2
      <4>4. ToldStream(d)'
        BY <2>0, <4>2 DEF StreamEndOf
      <4>5. \A i \in 1 .. Len(commands'[d]) : FALSE
        BY <1>t, <3>2, <4>2
      <4> QED BY <3>1, <3>4, <4>3, <4>4, <4>5 DEF StreamEndOf
    <3>5. CASE commands[d][1].subint # Terminate
      <4>1. EndQueued(d) => EndQueued(d)'
        <5> SUFFICES ASSUME NEW i \in 1 .. Len(commands[d]), commands[d][i].subint = Terminate
                     PROVE  EndQueued(d)'
          BY DEF EndQueued
        <5>1. i - 1 \in 1 .. Len(commands[d]) - 1
          BY <1>t, <3>5
        <5>2. commands'[d][i - 1] = commands[d][i]
          BY <1>t, <3>2, <5>1
        <5> QED BY <3>2, <5>1, <5>2 DEF EndQueued
      <4>2. EndQueued(d)' => EndQueued(d)
        BY <3>3 DEF EndQueued
      <4> QED BY <2>0, <3>1, <3>3, <3>5, <4>1, <4>2 DEF StreamEndOf
    <3> QED BY <3>4, <3>5
  <2>2. CASE e # d
    BY <1>t, <1>1, <1>7, <2>0, <2>2 DEF TakeCommand
  <2> QED BY <2>1, <2>2
<1>8. ASSUME NEW c \in Cores, CoreStep(c) PROVE StreamEndOf(d)'
  BY <1>1, <1>8 DEF CoreStep, ReceiveTime, FillSlot, ReceiveData, ToldStream, managervars, streamvars
<1>9. CASE UNCHANGED vars
  BY <1>1, <1>9 DEF vars, managervars, streamvars, ToldStream
<1> QED
  BY <1>2, <1>3, <1>4, <1>5, <1>6, <1>7, <1>8, <1>9
  DEF Next, Manager, StreamStep, Ended

LEMMA EndStep == TypeOK /\ TimesInv /\ LoadInv /\ EndInv /\ [Next]_vars => EndInv'
BY JobStep, CoreEndStep, StreamEndStep DEF EndInv

\* A slot for every result a Core has in hand: the Load without the end.
InHand(c) == Load(c) - (IF EndSent(c) THEN 1 ELSE 0)
Places == Cores \X (1 .. RECEIVE_RING_LENGTH)
Hands == {x \in Places : x[2] <= InHand(x[1])}

AtMostFull(n) == IF n < Full THEN n ELSE Full

\* The results the manager expects.
Outstanding ==
  CASE mpc = "drain" -> left
    [] mpc \in {"sendtime", "command"} -> AtMostFull(sendcount + 1)
    [] OTHER -> AtMostFull(sendcount)

TotalInv == Cardinality(Hands) = Outstanding

LEMMA PlacesFinite ==
  /\ IsFiniteSet(Places) /\ Cardinality(Places) = Full /\ Full \in Nat
  /\ IsFiniteSet(Hands) /\ Cardinality(Hands) \in Nat
<1>1. NumCores \in Nat /\ RECEIVE_RING_LENGTH \in Nat /\ Full \in Nat
  BY DispatchAssumption DEF Full
<1>2. /\ IsFiniteSet(Cores) /\ Cardinality(Cores) = NumCores
      /\ IsFiniteSet(1 .. RECEIVE_RING_LENGTH)
      /\ Cardinality(1 .. RECEIVE_RING_LENGTH) = RECEIVE_RING_LENGTH
  BY <1>1, FS_Interval DEF Cores
<1>3. IsFiniteSet(Places) /\ Cardinality(Places) = NumCores * RECEIVE_RING_LENGTH
  BY <1>2, FS_Product DEF Places
<1>4. Hands \in SUBSET Places
  BY DEF Hands
<1>5. IsFiniteSet(Hands)
  BY <1>3, <1>4, FS_Subset
<1>6. NumCores * RECEIVE_RING_LENGTH = RECEIVE_RING_LENGTH * NumCores
  BY <1>1
<1> QED BY <1>1, <1>3, <1>5, <1>6, FS_CardinalityType DEF Full

LEMMA InHandType ==
  ASSUME TypeOK, LoadInv, NEW c \in Cores
  PROVE  InHand(c) \in 0 .. RECEIVE_RING_LENGTH
BY Bounds DEF InHand

\* Among them are its results.
LEMMA ResultsInHand ==
  ASSUME TypeOK, NEW c \in Cores
  PROVE  InHand(c) >= Len(slots[c])
<1> DEFINE f == Filled(c)
           q == Queued(c)
           e == IF EndSent(c) THEN 1 ELSE 0
           b == Busy(c)
           d == Due(c)
<1>1. q >= e
  <2>1. q \in Nat /\ q = Len(times[c]) /\ (EndSent(c) => q # 0)
    BY Counts DEF Queued, EndSent
  <2> QED BY <2>1
<1>2. InHand(c) = (b + f + q + d) - e /\ f = Len(slots[c])
  BY DEF InHand, Load, Given, Filled
<1>3. f \in Nat /\ q \in Nat /\ e \in 0 .. 1 /\ b \in Nat /\ d \in Nat
  BY Counts
<1> HIDE DEF f, q, e, b, d
<1> QED BY <1>1, <1>2, <1>3

LEMMA SameHands ==
  ASSUME \A c \in Cores : InHand(c)' = InHand(c)
  PROVE  Hands' = Hands
<1>1. \A x \in Places : x[1] \in Cores
  BY DEF Places
<1> QED BY <1>1 DEF Hands, Places, Cores

LEMMA OneMore ==
  ASSUME TypeOK, LoadInv, NEW b \in Cores, InHand(b) < RECEIVE_RING_LENGTH,
         \A c \in Cores : InHand(c)' = InHand(c) + IF b = c THEN 1 ELSE 0
  PROVE  Cardinality(Hands)' = Cardinality(Hands) + 1
<1> DEFINE n == InHand(b) + 1
<1>1. /\ InHand(b) \in Int /\ InHand(b)' = n /\ n \in 1 .. RECEIVE_RING_LENGTH
  <2>1. InHand(b) \in 0 .. RECEIVE_RING_LENGTH
    BY InHandType
  <2>2. InHand(b)' = n
    OBVIOUS
  <2> QED BY <2>1, <2>2, DispatchAssumption
<1>2. Hands' = Hands \cup {<<b, n>>}
  <2>1. <<b, n>> \in Places
    BY <1>1 DEF Places
  <2>2. ASSUME NEW x \in Places
        PROVE  x[2] <= InHand(x[1])' <=> x[2] <= InHand(x[1]) \/ x = <<b, n>>
    <3>1. x = <<x[1], x[2]>> /\ x[1] \in Cores /\ x[2] \in Int
      BY DEF Places
    <3>2. InHand(x[1]) \in Int
      BY <3>1, InHandType, DispatchAssumption
    <3>3. CASE x[1] = b
      BY <1>1, <3>1, <3>2, <3>3
    <3>4. CASE x[1] # b
      BY <3>1, <3>2, <3>4
    <3> QED BY <3>3, <3>4
  <2> HIDE DEF n
  <2> QED BY <2>1, <2>2 DEF Hands, Places, Cores
<1>3. <<b, n>> \notin Hands
  BY <1>1 DEF Hands
<1> HIDE DEF n
<1>4. Cardinality(Hands \cup {<<b, n>>}) = Cardinality(Hands) + 1
  BY <1>3, PlacesFinite, FS_AddElement
<1> QED BY <1>2, <1>4

LEMMA OneLess ==
  ASSUME TypeOK, LoadInv, NEW b \in Cores, InHand(b) > 0,
         \A c \in Cores : InHand(c)' = InHand(c) - IF b = c THEN 1 ELSE 0
  PROVE  Cardinality(Hands)' = Cardinality(Hands) - 1
<1> DEFINE n == InHand(b)
<1>1. /\ InHand(b)' = n - 1 /\ n \in 1 .. RECEIVE_RING_LENGTH
  <2>1. InHand(b) \in 0 .. RECEIVE_RING_LENGTH
    BY InHandType
  <2>2. InHand(b)' = n - 1
    OBVIOUS
  <2> QED BY <2>1, <2>2, DispatchAssumption
<1>2. Hands' = Hands \ {<<b, n>>}
  <2>2. ASSUME NEW x \in Places
        PROVE  x[2] <= InHand(x[1])' <=> x[2] <= InHand(x[1]) /\ x # <<b, n>>
    <3>1. x = <<x[1], x[2]>> /\ x[1] \in Cores /\ x[2] \in Int
      BY DEF Places
    <3>2. InHand(x[1]) \in Int
      BY <3>1, InHandType, DispatchAssumption
    <3>3. CASE x[1] = b
      BY <1>1, <3>1, <3>2, <3>3
    <3>4. CASE x[1] # b
      BY <3>1, <3>2, <3>4
    <3> QED BY <3>3, <3>4
  <2> HIDE DEF n
  <2> QED BY <2>2 DEF Hands, Places, Cores
<1>3. <<b, n>> \in Hands
  BY <1>1, DispatchAssumption DEF Hands, Places
<1> HIDE DEF n
<1>4. Cardinality(Hands \ {<<b, n>>}) = Cardinality(Hands) - 1
  BY <1>3, PlacesFinite, FS_RemoveElement
<1> QED BY <1>2, <1>4

LEMMA TotalStep ==
  ASSUME TypeOK, TimesInv, LoadInv, LoadInv', TotalInv, [Next]_vars
  PROVE  TotalInv'
<1>t. /\ sendcount \in Nat /\ Full \in Nat /\ Cardinality(Hands) \in Nat
      /\ RECEIVE_RING_LENGTH \in Nat /\ left \in Int
  BY PlacesFinite, DispatchAssumption DEF TypeOK, ManagerOK
<1>c. ASSUME NEW c \in Cores
      PROVE  /\ Load(c) \in Nat /\ Given(c) \in Nat /\ Due(c) \in Nat
             /\ InHand(c) \in 0 .. RECEIVE_RING_LENGTH
  BY Counts, InHandType
<1>s. ASSUME \A c \in Cores : InHand(c)' = InHand(c), Outstanding' = Outstanding
      PROVE  TotalInv'
  BY <1>s, SameHands DEF TotalInv
<1>1. ASSUME UNCHANGED <<mpc, sendcount, left, target, times, cpc, slots>> PROVE TotalInv'
  <2>1. Outstanding' = Outstanding
    BY <1>1 DEF Outstanding, AtMostFull, Full
  <2>2. ASSUME NEW c \in Cores PROVE InHand(c)' = InHand(c)
    BY <1>1, StillLoad DEF InHand
  <2> QED BY <1>s, <2>1, <2>2
<1>2. CASE FillUp
  <2>1. /\ mpc = "scan" /\ mpc' = "sendtime" /\ sendcount' = sendcount /\ sendcount < Full
        /\ target' \in Cores
    BY <1>t, <1>2, Numbers DEF FillUp
  <2>2. ASSUME NEW c \in Cores
        PROVE  /\ Load(c)' = Load(c) + IF target' = c THEN 1 ELSE 0
               /\ InHand(c)' = InHand(c) + IF target' = c THEN 1 ELSE 0
    <3>1. Load(c)' = Load(c) + (IF target' = c THEN 1 ELSE 0) /\ (EndSent(c)' <=> EndSent(c))
      BY <1>2, FillUpLoad
    <3> QED BY <1>c, <3>1 DEF InHand
  <2>b. PICK b \in Cores : b = target'
    BY <2>1
  <2>3. InHand(b) < RECEIVE_RING_LENGTH
    <3>1. Load(b)' <= RECEIVE_RING_LENGTH + IF EndSent(b)' THEN 1 ELSE 0
      BY DEF LoadInv, BoundOf
    <3>2. (EndSent(b)' <=> EndSent(b)) /\ Load(b)' = Load(b) + 1 /\ Load(b) \in Nat
      BY <1>2, <1>c, <2>b, FillUpLoad
    <3> QED BY <1>t, <3>1, <3>2 DEF InHand
  <2>4. Cardinality(Hands)' = Cardinality(Hands) + 1
    <3>1. \A c \in Cores : InHand(c)' = InHand(c) + IF b = c THEN 1 ELSE 0
      BY <2>2, <2>b
    <3> QED BY <2>3, <3>1, OneMore
  <2>5. Outstanding = sendcount /\ Outstanding' = sendcount + 1
    BY <1>t, <2>1 DEF Outstanding, AtMostFull, Full
  <2> QED BY <2>4, <2>5 DEF TotalInv
<1>3. CASE SendTime
  <2>1. Outstanding' = Outstanding
    BY <1>3 DEF SendTime, Outstanding, AtMostFull, Full
  <2>2. ASSUME NEW c \in Cores PROVE InHand(c)' = InHand(c)
    BY <1>3, SendTimeLoad DEF InHand
  <2> QED BY <1>s, <2>1, <2>2
<1>4. CASE Command \/ EndScans \/ TerminateStream
  <2>1. /\ mpc # "sendtime" /\ mpc' # "sendtime" /\ UNCHANGED <<times, cpc, slots>>
    BY <1>4 DEF Command, EndScans, TerminateStream, corevars
  <2>2. ASSUME NEW c \in Cores PROVE InHand(c)' = InHand(c)
    BY <2>1, StillLoad DEF InHand
  <2>3. Outstanding' = Outstanding
    <3>1. CASE Command
      BY <3>1 DEF Command, Outstanding, AtMostFull, Full
    <3>2. CASE EndScans
      BY <3>2 DEF EndScans, Outstanding, AtMostFull, Full
    <3>3. CASE TerminateStream
      BY <3>3 DEF TerminateStream, Outstanding, AtMostFull, Full
    <3> QED BY <1>4, <3>1, <3>2, <3>3
  <2> QED BY <1>s, <2>2, <2>3
<1>5. CASE TerminateCore
  <2>1. Outstanding' = Outstanding
    BY <1>5 DEF TerminateCore, Outstanding, AtMostFull, Full
  <2>2. ASSUME NEW c \in Cores PROVE InHand(c)' = InHand(c)
    <3>1. IF next = c THEN Load(c)' = Load(c) + 1 /\ ~EndSent(c) /\ EndSent(c)'
                      ELSE Load(c)' = Load(c) /\ (EndSent(c)' <=> EndSent(c))
      BY <1>5, TerminateLoad
    <3> QED BY <1>c, <3>1 DEF InHand
  <2> QED BY <1>s, <2>1, <2>2
<1>6. ASSUME NEW b \in Cores, Receive(b) PROVE TotalInv'
  <2>1. /\ TakeResult(b) /\ UNCHANGED times /\ mpc = "scan" /\ mpc' = "sendtime"
        /\ target' = b /\ sendcount' = sendcount /\ sendcount >= Full
    BY <1>6 DEF Receive
  <2>2. Outstanding' = Outstanding
    BY <1>t, <2>1 DEF Outstanding, AtMostFull, Full
  <2>3. ASSUME NEW c \in Cores PROVE InHand(c)' = InHand(c)
    <3>1. Given(c)' = Given(c) - (IF b = c THEN 1 ELSE 0) /\ (EndSent(c)' <=> EndSent(c))
      BY <2>1, TakeLoad
    <3>2. Due(c) = 0 /\ Due(c)' = IF b = c THEN 1 ELSE 0
      BY <2>1 DEF Due
    <3>3. Load(c)' = Load(c)
      BY <1>c, <3>1, <3>2 DEF Load
    <3> QED BY <3>1, <3>3 DEF InHand
  <2> QED BY <1>s, <2>2, <2>3
<1>7. ASSUME NEW b \in Cores, ReceiveLast(b) PROVE TotalInv'
  <2>1. /\ TakeResult(b) /\ UNCHANGED times /\ mpc = "drain" /\ mpc' = "drain"
        /\ left' = left - 1
    BY <1>7 DEF ReceiveLast
  <2>2. ASSUME NEW c \in Cores PROVE InHand(c)' = InHand(c) - IF b = c THEN 1 ELSE 0
    <3>1. Given(c)' = Given(c) - (IF b = c THEN 1 ELSE 0) /\ (EndSent(c)' <=> EndSent(c))
      BY <2>1, TakeLoad
    <3>2. Due(c) = 0 /\ Due(c)' = 0
      BY <2>1 DEF Due
    <3>3. Load(c)' = Load(c) - IF b = c THEN 1 ELSE 0
      BY <1>c, <3>1, <3>2 DEF Load
    <3> QED BY <1>c, <3>1, <3>3 DEF InHand
  <2>3. InHand(b) > 0
    <3>1. slots[b] # << >>
      BY <2>1, TakeLoad
    <3>2. Len(slots[b]) > 0
      BY <3>1, Counts, Taken
    <3> QED BY <3>2, <1>c, Counts, ResultsInHand
  <2>4. Cardinality(Hands)' = Cardinality(Hands) - 1
    BY <2>2, <2>3, OneLess
  <2>5. Outstanding = left /\ Outstanding' = left - 1
    BY <2>1 DEF Outstanding
  <2> QED BY <2>4, <2>5 DEF TotalInv
<1>8. ASSUME NEW d \in DataStreams, StreamStep(d) PROVE TotalInv'
  BY <1>1, <1>8 DEF StreamStep, Post, TakeCommand, SendData, SendTo, FinishSends, managervars, corevars
<1>9. ASSUME NEW b \in Cores, NEW d \in DataStreams, ReceiveData(b, d) PROVE TotalInv'
  BY <1>1, <1>9 DEF ReceiveData, managervars
<1>10. ASSUME NEW b \in Cores, ReceiveTime(b) PROVE TotalInv'
  <2>1. Outstanding' = Outstanding
    BY <1>10 DEF ReceiveTime, managervars, Outstanding, AtMostFull, Full
  <2>2. ASSUME NEW c \in Cores PROVE InHand(c)' = InHand(c)
    <3>1. /\ b = c /\ times[c][1] = Terminate =>
               Load(c)' = Load(c) - 1 /\ EndSent(c) /\ ~EndSent(c)'
          /\ ~(b = c /\ times[c][1] = Terminate) =>
               Load(c)' = Load(c) /\ (EndSent(c)' <=> EndSent(c))
      BY <1>10, ReceiveTimeLoad
    <3> QED BY <1>c, <3>1 DEF InHand
  <2> QED BY <1>s, <2>1, <2>2
<1>11. ASSUME NEW b \in Cores, FillSlot(b) PROVE TotalInv'
  <2>1. Outstanding' = Outstanding
    BY <1>11 DEF FillSlot, managervars, Outstanding, AtMostFull, Full
  <2>2. ASSUME NEW c \in Cores PROVE InHand(c)' = InHand(c)
    BY <1>11, FillSlotLoad DEF InHand
  <2> QED BY <1>s, <2>1, <2>2
<1>12. CASE UNCHANGED vars
  BY <1>1, <1>12 DEF vars, managervars, corevars
<1> QED
  BY <1>2, <1>3, <1>4, <1>5, <1>6, <1>7, <1>8, <1>9, <1>10, <1>11, <1>12
  DEF Next, Manager, CoreStep, Ended

LEMMA InitTotal == Init => TotalInv
<1> SUFFICES ASSUME Init PROVE TotalInv
  OBVIOUS
<1>1. ASSUME NEW c \in Cores PROVE InHand(c) = 0
  BY <1>1 DEF Init, InHand, Load, Given, Filled, Queued, Busy, Due, EndSent
<1>2. Hands = {}
  BY <1>1 DEF Hands, Places
<1>3. Outstanding = 0
  BY PlacesFinite DEF Init, Outstanding, AtMostFull
<1> QED BY <1>2, <1>3, FS_EmptySet DEF TotalInv

LEMMA AlwaysEnd == Spec => [](Inv /\ EndInv /\ TotalInv)
<1> DEFINE All == Inv /\ EndInv /\ TotalInv
<1>1. Init => All
  BY InitInv, InitEnd, InitTotal
<1>2. All /\ [Next]_vars => All'
  <2> SUFFICES ASSUME All, [Next]_vars PROVE All'
    OBVIOUS
  <2>1. Inv'
    BY StepInv
  <2>2. EndInv'
    BY EndStep DEF Inv
  <2>3. TotalInv'
    BY <2>1, TotalStep DEF Inv
  <2> QED BY <2>1, <2>2, <2>3
<1> QED BY <1>1, <1>2, PTL DEF Spec

Standstill ==
  /\ Eager /\ ManagerWaits
  /\ \A d \in DataStreams : StreamWaits(d)
  /\ \A c \in Cores : CoreWaits(c)

\* At a standstill no data is on its way: the Core that the oldest of it is for
\* would have to wait for older data, and that is on its way as well.
LEMMA NothingPending ==
  ASSUME Inv, EndInv, Standstill
  PROVE  \A d \in DataStreams : pending[d] = {}
<1> DEFINE Subints == {n \in Nat : \E d \in DataStreams : \E p \in pending[d] : p.subint = n}
<1>t. /\ \A d \in DataStreams : /\ pending[d] \subseteq Messages
                                /\ dpc[d] = "process" => command[d].subint \in Nat
                                /\ dpc[d] \in StreamPCs
                                /\ commands[d] \in Seq(Commands)
      /\ \A c \in Cores : /\ cpc[c] \in CorePCs /\ offsets[c] \in Nat
                          /\ times[c] \in Seq(Times)
      /\ Window \in Nat /\ sendcount \in Nat
  BY DispatchAssumption DEF Inv, TypeOK, StreamsOK, QueuesOK, CoresOK, ManagerOK
<1>1. SUFFICES ASSUME Subints # {} PROVE FALSE
  BY <1>t DEF Messages
<1>2. PICK m \in Subints : \A n \in Subints : m <= n
  BY <1>1, Least
<1>3. PICK e \in DataStreams : \E p \in pending[e] : p.subint = m
  OBVIOUS
<1>4. PICK p \in pending[e] : p.subint = m
  BY <1>3
<1> HIDE DEF Subints
<1>m. ASSUME NEW d \in DataStreams, NEW q \in pending[d], q.subint < m PROVE FALSE
  <2>1. q.subint \in Nat /\ q.subint \in Subints
    BY <1>t DEF Messages, Subints
  <2>2. m \in Nat
    BY DEF Subints
  <2> QED BY <1>2, <1>m, <2>1, <2>2
<1> DEFINE c == p.core
<1>5. c \in Cores /\ m \in Nat
  BY <1>t, <1>4 DEF Messages
<1> HIDE DEF c
<1>6. CoreWaits(c)
  BY <1>5 DEF Standstill
<1>7. Awaits(c, e, m)
  BY <1>4, <1>5 DEF Inv, MessageInv, HasMessage, c
<1>8. PICK i \in 1 .. Len(times[c]) : times[c][i] = m
  <2>1. ~(cpc[c] = "data" /\ databuffer[c][e] = Nothing)
    BY <1>4, <1>6 DEF CoreWaits, c
  <2> QED BY <1>7, <2>1 DEF Awaits
<1>9. times[c] # << >>
  BY <1>8
<1>10. cpc[c] # "result"
  BY <1>4, <1>5, InvNoCycle DEF NoCycle, c
<1>11. cpc[c] \notin {"drain", "done"}
  BY <1>5, <1>9 DEF EndInv, CoreEndOf
<1>12. cpc[c] = "data" /\ \E d \in DataStreams : databuffer[c][d] = Nothing
  BY <1>6, <1>9, <1>10, <1>11 DEF CoreWaits
<1>13. PICK d \in DataStreams : databuffer[c][d] = Nothing
  BY <1>12
<1> DEFINE k == offsets[c]
<1>14. k \in Nat /\ k < m
  <2>1. m # Terminate
    BY <1>5 DEF Terminate
  <2> QED BY <1>t, <1>5, <1>8, <1>12, <2>1 DEF Inv, TimesInv, TimesOf, AllSent
<1>15. HasMessage(c, d, k) \/ Coming(c, d, k)
  <2>1. Awaits(c, d, k)
    BY <1>12, <1>13 DEF Awaits
  <2> QED BY <1>5, <1>14, <2>1 DEF Inv, MessageInv
<1> HIDE DEF k
<1>s. StreamWaits(d) /\ StreamOf(d) /\ StreamEndOf(d)
  BY DEF Standstill, Inv, StreamInv, EndInv
<1>16. ASSUME dpc[d] = "process", command[d].subint <= k PROVE FALSE
  <2>1. PICK q \in pending[d] : q.subint < command[d].subint - Window
    BY <1>s, <1>16 DEF StreamWaits
  <2>2. q.subint \in Nat /\ command[d].subint \in Nat
    BY <1>t, <1>16 DEF Messages
  <2>3. q.subint < m
    BY <1>t, <1>5, <1>14, <1>16, <2>1, <2>2
  <2> QED BY <1>m, <2>3
<1>17. ASSUME NEW q \in pending[d], q.subint = k PROVE FALSE
  BY <1>m, <1>14, <1>17
<1>18. ASSUME NEW j \in 1 .. Len(commands[d]), commands[d][j].subint = k PROVE FALSE
  <2>1. commands[d] # << >>
    OBVIOUS
  <2>2. dpc[d] = "process"
    BY <1>s, <1>t, <2>1 DEF StreamWaits, StreamEndOf, StreamPCs
  <2>3. command[d].subint < k
    <3>1. k # Terminate
      BY <1>14 DEF Terminate
    <3> QED BY <1>s, <1>18, <2>2, <3>1 DEF StreamOf, QueueOf
  <2>4. command[d].subint \in Nat
    BY <1>t, <2>2
  <2> QED BY <1>14, <1>16, <2>2, <2>3, <2>4
<1>19. ~Coming(c, d, k)
  <2>1. Commanded(e, m)
    BY <1>4 DEF Inv, StreamInv, StreamOf, PendingOf
  <2>2. m <= sendcount
    BY <1>t, <1>5, <2>1 DEF Commanded
  <2>3. k # sendcount
    BY <1>t, <1>5, <1>14, <2>2
  <2> QED BY <2>3 DEF Coming
<1>20. CASE dpc[d] = "process" /\ command[d].subint = k
  BY <1>14, <1>16, <1>20
<1> QED BY <1>15, <1>17, <1>18, <1>19, <1>20 DEF HasMessage

\* Nor is any command.
LEMMA NothingCommanded ==
  ASSUME Inv, EndInv, Standstill, NEW d \in DataStreams
  PROVE  commands[d] = << >> /\ dpc[d] \in {"idle", "done"}
<1>1. StreamWaits(d) /\ StreamEndOf(d) /\ pending[d] = {}
  BY NothingPending DEF Standstill, EndInv
<1> QED BY <1>1 DEF StreamWaits, StreamEndOf

\* The Cores that have not come to their end wait for a time, or with a result.
LEMMA NothingAwaited ==
  ASSUME Inv, EndInv, Standstill, NEW c \in Cores
  PROVE  /\ mpc \in {"scan", "drain"}
         /\ \/ cpc[c] = "time" /\ times[c] = << >>
            \/ cpc[c] \in {"result", "drain", "done"}
<1>1. \A d \in DataStreams : Posted(d)
  BY NothingCommanded DEF Posted
<1>2. mpc \in {"scan", "drain"}
  <2>1. mpc \in ManagerPCs /\ (mpc \in {"command", "endstreams"} => next \in DataStreams)
    BY DEF Inv, TypeOK, ManagerOK
  <2> QED BY <1>1, <2>1 DEF Standstill, ManagerWaits, ManagerPCs, MaySend
<1>3. cpc[c] # "data"
  <2> SUFFICES ASSUME cpc[c] = "data" PROVE FALSE
    OBVIOUS
  <2>1. PICK d \in DataStreams : databuffer[c][d] = Nothing
    BY DEF Standstill, CoreWaits
  <2>2. offsets[c] \in Nat
    BY DEF Inv, TypeOK, CoresOK
  <2>3. HasMessage(c, d, offsets[c]) \/ Coming(c, d, offsets[c])
    BY <2>1, <2>2 DEF Inv, MessageInv, Awaits
  <2>4. pending[d] = {} /\ commands[d] = << >> /\ dpc[d] # "process"
    BY NothingPending, NothingCommanded
  <2>5. \A i \in 1 .. Len(commands[d]) : FALSE
    BY <2>4
  <2> QED BY <1>2, <2>3, <2>4, <2>5 DEF HasMessage, Coming
<1> QED BY <1>2, <1>3 DEF Standstill, CoreWaits

\* A manager that waits for results is owed them, and that is all there are.
LEMMA InvSomebodyGoesOn == Inv /\ EndInv /\ TotalInv => SomebodyGoesOn
<1> SUFFICES ASSUME Inv, EndInv, TotalInv, Standstill
             PROVE  /\ mpc = "drain" /\ left = 0
                    /\ \A d \in DataStreams : dpc[d] = "done"
                    /\ \A c \in Cores : cpc[c] = "done"
  BY DEF SomebodyGoesOn, Standstill
<1>t. /\ TypeOK /\ LoadInv /\ left \in Int /\ sendcount \in Nat
      /\ RECEIVE_RING_LENGTH \in Nat /\ RECEIVE_RING_LENGTH >= 1
  BY DispatchAssumption DEF Inv, TypeOK, ManagerOK
<1>0. 0 \in Cores /\ 0 \in DataStreams
  BY Numbers
<1>n. ASSUME NEW c \in Cores, times[c] = << >>, cpc[c] # "data"
      PROVE  ~EndSent(c) /\ InHand(c) = Len(slots[c])
  <2>1. ~EndSent(c) /\ Queued(c) = 0
    BY <1>n DEF EndSent, Queued
  <2>2. Busy(c) = 0 /\ Due(c) = 0
    BY <1>n, NothingAwaited DEF Busy, Due
  <2> QED BY <1>t, <2>1, <2>2, Counts DEF InHand, Load, Given, Filled
<1>1. mpc = "drain"
  <2> SUFFICES ASSUME mpc = "scan" PROVE FALSE
    BY <1>0, NothingAwaited
  <2>1. sendcount >= Full /\ \A c \in Cores : cpc[c] \notin {"result", "drain"}
    BY DEF Standstill, ManagerWaits
  <2>2. cpc[0] = "time" /\ times[0] = << >> /\ Len(slots[0]) < RECEIVE_RING_LENGTH
    <3>1. CoreEndOf(0) /\ ~Told(0)
      BY <1>0 DEF EndInv, Told
    <3> QED BY <1>0, <2>1, <3>1, NothingAwaited DEF CoreEndOf
  <2>3. InHand(0) < RECEIVE_RING_LENGTH /\ InHand(0) \in Int
    BY <1>0, <1>n, <1>t, <2>2, Counts
  <2>4. <<0, RECEIVE_RING_LENGTH>> \in Places
    BY <1>0, <1>t DEF Places
  <2>5. <<0, RECEIVE_RING_LENGTH>> \notin Hands
    BY <1>t, <2>3 DEF Hands
  <2>6. Cardinality(Hands) = Cardinality(Places)
    BY <1>t, <2>1, PlacesFinite DEF TotalInv, Outstanding, AtMostFull
  <2>7. Hands \in SUBSET Places
    BY DEF Hands
  <2>8. Places = Hands
    BY <2>6, <2>7, PlacesFinite, FS_Subset
  <2> QED BY <2>4, <2>5, <2>8
<1>2. ASSUME NEW d \in DataStreams PROVE dpc[d] = "done"
  <2>1. ToldStream(d) /\ StreamEndOf(d)
    BY <1>1 DEF ToldStream, EndInv
  <2>2. commands[d] = << >> /\ dpc[d] \in {"idle", "done"}
    BY NothingCommanded
  <2>3. ~EndQueued(d)
    BY <2>2 DEF EndQueued
  <2> QED BY <2>1, <2>2, <2>3 DEF StreamEndOf
<1>3. Cardinality(Hands) = left /\ left \in Nat
  BY <1>1, PlacesFinite DEF TotalInv, Outstanding
<1>4. ASSUME NEW c \in Cores, cpc[c] \notin {"result", "drain"}
      PROVE  cpc[c] = "done" /\ InHand(c) = 0
  <2>1. CoreEndOf(c) /\ Told(c)
    BY <1>1 DEF EndInv, Told
  <2>2. cpc[c] = "done"
    <3> SUFFICES ASSUME cpc[c] = "time", times[c] = << >> PROVE FALSE
      BY <1>4, NothingAwaited
    <3> QED BY <1>n, <2>1 DEF CoreEndOf
  <2>3. times[c] = << >> /\ slots[c] = << >>
    BY <2>1, <2>2 DEF CoreEndOf
  <2>4. InHand(c) = Len(slots[c])
    BY <1>n, <2>2, <2>3
  <2> QED BY <2>2, <2>3, <2>4
<1>5. left = 0
  <2> SUFFICES ASSUME left > 0 PROVE FALSE
    BY <1>3
  <2>1. \A c \in Cores : cpc[c] \notin {"result", "drain"}
    BY <1>1 DEF Standstill, ManagerWaits
  <2>2. \A c \in Cores : InHand(c) = 0
    BY <1>4, <2>1
  <2>3. Hands = {}
    BY <2>2 DEF Hands, Places
  <2> QED BY <1>3, <2>3, FS_EmptySet
<1>6. ASSUME NEW c \in Cores PROVE cpc[c] = "done"
  <2> SUFFICES ASSUME cpc[c] \in {"result", "drain"} PROVE FALSE
    BY <1>4
  <2>1. Len(slots[c]) >= 1
    BY <1>t, Counts DEF LoadInv, HandsOf
  <2>2. InHand(c) >= 1 /\ InHand(c) \in Int
    BY <1>t, <2>1, Counts, ResultsInHand, InHandType
  <2>3. <<c, 1>> \in Hands
    BY <1>t, <2>2 DEF Hands, Places
  <2> QED BY <1>3, <1>5, <2>3, PlacesFinite, FS_EmptySet
<1> QED BY <1>1, <1>2, <1>5, <1>6

\* When MPI_Send does not wait for its receiver, the manager, the DataStreams and
\* the Cores never all wait for each other before the job is over (terminate and
\* receiveData, fxmanager.cpp).
THEOREM DispatchSomebodyGoesOn == Spec => []SomebodyGoesOn
BY AlwaysEnd, InvSomebodyGoesOn, PTL
=============================================================================
