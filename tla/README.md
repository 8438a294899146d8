# TLA+ models of mpifxcorr and of the staged fxcorr pipeline

The repository is DiFX, a software correlator for radio interferometry, with the
`fxcorr` tools around it. Its heart is `mpifxcorr`, an MPI program of three kinds of
processes. `fxcorr` does the same work batch by batch with programs that pass files,
started by a script. These modules model how processes and threads share work, buffers
and locks, and how the programs share files; the numbers they correlate are left out.

All paths are below `mpifxcorr/src/` unless they say otherwise.

## The system

| Component | State | Operations | Talks to |
|---|---|---|---|
| FxManager, main thread (`fxmanager.cpp`) | the scan and time of the next subint (`senddata`), `numsent`, `extrareceived`, `coretimes`; the window `oldestlockedvis .. newestlockedvis`, `islocked` | constructor, `execute`, `sendData`, `receiveData`, `locateVisIndex`, `terminate`, `interrupthandler` | Cores and DataStreams by MPI, its write thread by the mutexes `bufferlock[]` |
| FxManager, write thread | `writesegment` | `loopwrite` | the disk |
| Visibility (`visibility.cpp`) | scan, start and configuration of an integration, `offsetns`, `subintsthisintegration`, `currentsubints`, the results | constructor, `addData`, `increment`, `updateTime`, `writedata` | called by both threads of FxManager |
| FxManager, monitor thread | `nbuf`, a socket | `MonitorThread`, `sendMonitorData` | the write thread and `execute` by `writecond`, `moncondlock`, `monitorwritelock` |
| Core, main thread (`core.cpp`) | `procslots[]` with `slotlocks[]`, `numreceived` | `execute`, `receivedata` | FxManager and DataStreams by MPI, its process threads by the mutexes |
| Core, process threads | `numprocessed`, the results of a slot | `loopprocess`, `processdata` | main thread |
| DataStream, main thread (`datastream.cpp`) | `atsegment`, `waitsegment`, for each segment the requests of its sends (`numsent`) | `execute`, `calculateControlParams`, `waitForSendComplete` | FxManager commands it, it sends to Cores; its reader by the mutexes `bufferlock[]` |
| DataStream, reader thread (and the format classes) | `lastvalidsegment`, the file and time it is at; for each segment its label (scan, time) and `validbytes` | `loopfileread`, `openfile`, `diskToMemory`, `waitForBuffer` | main thread |
| MPI | messages sent and not received | `MPI_Send`, `MPI_Ssend` to the receiver, `MPI_Issend` with a wait later | all processes wait for each other through it |
| Mode, PCal, Polyco | per thread | signal processing | called by process threads |
| Configuration, Model | read-only after start | parsing, look-up | everybody |
| `fxcorr/run_batch.sh` | `status` of a batch; its pools of groups and of tasks | one run of a batch: all tasks, shards and the merge, in parallel or in turn; purge | starts the programs, waits for them |
| `applications/fxcorr-f` | the fengine files of a datastream | one task | files |
| `applications/fxcorr-x` | `ds<G>.part`, `merged.part`, the SWIN file | a shard (`main`), `doMerge`, `doMergeExperiment` | files only, over several runs |
| `fxcorr-sim`, `fxcorr-fp`, `fxcorr-xp`, the rest of `fxcorrcommon` | files, streams | simulation, phased array, arithmetic | each other |
| vex2difx, calc, difx2fits, difx2mark4, hops, mk5daemon, guiServer, ... | files, sockets | preparation, conversion, operation | not part of a running correlation |

FxManager cuts a job into *subints* and hands each to one Core (and tells the DataStreams
to send that Core the data). A Core has up to `RECEIVE_RING_LENGTH` subints in hand and
answers in order; Cores overtake each other. FxManager adds each result to the
Visibility whose integration it belongs to. A Visibility that has all it expects is
written by the write thread and then takes over the integration that comes
`VisBufferLength` later.

What is hard in it:

- Locking hand over hand round a ring, in FxManager, in every Core and in every DataStream:
  safety depends on how far everybody can be from everybody else, and so does the
  absence of deadlock. In FxManager there are holes: buffers inside the window of
  the main thread whose mutex is free.
- Results out of order, a window of open integrations, buffers that are given up when a
  result comes too late or too early, stale results.
- Which subint a result belongs to is inferred from counters. These are used
  differently while the Cores are filled, in the steady state and while they are drained,
  and a job may be too short ever to fill them.
- The number of subints of an integration is computed in one place (`Visibility`), the
  subints are cut in another (`execute`): fractions, scans that end in
  mid-integration and changes of configuration have to agree.
- In a DataStream MPI goes on reading a segment after the send has returned: the reader must
  not fill it before that is over, which only the main thread can find out. Segments are
  labelled with a scan and a time in it, and everything the main thread does follows these labels:
  gaps, new files, jumps to another scan, the end of the data.
- The processes wait for each other in a circle: the manager for a DataStream to take a command, the
  DataStream for a Core to take data, the Core for the manager to take a result. No
  message of a DataStream says what subint it is about.
- Threads are started, and ended, with a flag and a condition variable.
- The end: an interrupt, a last round of the write thread without locks.
- In the pipeline: what a failed or killed run leaves in the files, and what the next one
  makes of it; a batch that is run again while its output is merged; merges that are
  repeated, forced or cut short, into a file that may only be appended to in order of time.

What makes each component correct: an integration is written once, in order, with the
results of its own subints and of all of them; the two threads of FxManager share no
Visibility at the same time; nobody waits for ever; a Core answers each subint once, in
order, with the share of every thread, early enough for the manager to go on;
what a DataStream tells a Core to be valid is the data of that time, and what it read is
not called invalid; the job ends. A batch that says it is done has all of its records, and the SWIN file has
each record once, in order. `PROJECT.json` lists the hazards line by line.

## The modules

| Module | Models | Main correspondence |
|---|---|---|
| `VisRing` | the ring of Visibility buffers: locks, indices, both threads of FxManager | one action per test or blocking lock in `locateVisIndex`, `receiveData`, `execute`, `loopwrite`; what depends on data is left open |
| `Job` | what Configuration and Model say of a job, and how `execute` cuts it into subints | constants; `InScan` is the pair of conditions of lines 324-330 |
| `Visibility` | the bookkeeping of one Visibility | `UpdateTime`, `NewVisibility`, `AddData`, `Increment`, `Writes` are the methods |
| `FxManager` | the whole process, as `VisRing` with `Visibility` objects in the ring | every action is one of `VisRing`'s with the data conjoined, or sends |
| `Accumulator` | abstract: what FxManager promises | `sent`, `output` |
| `IntegrationTimes` | the sequence of integrations of a job against the subints it is cut into | constructor and `updateTime` |
| `Startup` | how the constructor starts the write thread | lines 187-214 and 655-662 of `fxmanager.cpp` |
| `Monitor` | over `Startup`, the monitor thread from its start to its end, with what the write thread and `execute` do with it | `MonitorThread`, `sendMonitorData`, end of `execute` |
| `Core` | one Core: main thread, process threads, ring of slots | `execute`, `receivedata`, `loopprocess`, end of `processdata` |
| `Worker` | abstract: what a Core promises its manager | `handed`, `ended`, `answers` |
| `SegmentRing` | the ring of segments of a DataStream: locks, indices and counts of sends of both threads | one action per blocking lock, wait or read in `execute`, `calculateControlParams`, `waitForSendComplete`, `loopfileread`; what depends on data is left open |
| `DataStream` | the whole DataStream, as `SegmentRing` with labels and data in the segments | reader: `OpenFirst`, `Label`, `FillFirst`, `FillNext`, `GoToNextFile` are `openfile`, `waitForBuffer`, `diskToMemory` and the outer loop; main thread: `Search`, `Valid`, `Parts` are `calculateControlParams` |
| `Dispatch` | manager, DataStreams and Cores, reduced to what they wait for, with the messages between them | one action per MPI call that can block |
| `RunBatch` | `run_batch.sh` with the fxcorr-f tasks, the shards of fxcorr-x and the merge of a batch, for all batches of an experiment | one action for each start and each end of a program, or of its stages; `InShard` and `MayStart` say when the script starts one |
| `Experiment` | `fxcorr-x merge --experiment` beside the batches | `BeginMerge` is all of `doMergeExperiment` before it opens the SWIN file, `AppendBatch` one round of its last loop |
| `MCFxManager`, `MCIntegrationTimes`, `MCDataStream` | small jobs for TLC | |
| `VisRingProofs`, `FxManagerProofs`, `IntegrationTimesProofs`, `CoreProofs`, `DataStreamProofs`, `DispatchProofs`, `ExperimentProofs` | theorems | |
| `Numbers` | lemmas on remainders and multiples, least elements and induction over sets of numbers | |

`FxManager` EXTENDS `VisRing` and `Visibility` (which extends `Job`); `IntegrationTimes`
instantiates `Visibility` with the fields of a variable, so that one run goes through many
jobs. `FxManager` instantiates `Accumulator` with a refinement mapping, `Core` does so with `Worker`. `DataStream` EXTENDS
`SegmentRing`, `Monitor` EXTENDS `Startup`, `Experiment` EXTENDS `RunBatch`.

`Dispatch` composes the processes of the correlator. What it takes for one step (a Core fills a slot
and has a result, a DataStream has found its data) ends by the liveness properties of the
modules that have the inside of a process: `AnswersWhenFull` and `CoreEnds` of `Core`,
`DsEnds` of `DataStream`, `Terminates` of `FxManager`.

How state was abstracted:

- A time is one integer in ticks. The code keeps seconds and nanoseconds, normalised;
  the one place where it mixes units (`fxmanager.cpp:777`) is modelled as what it does.
- The results of a subint are the subint itself. A Visibility holds the set of subints
  added to it, a slot of a Core the sequence each thread added.
- One step has at most one lock operation that can block. Data the lock protects
  changes in the same step as the lock; `NoRace`, `AddsLocked` and `SlotsExclusive` are
  what justifies this.
- In `receiveData` the next subint is sent between `locateVisIndex` and `addData`; sending
  is part of the step of `addData` (`Deliver`) or of the stale result.
- `mpistatus.MPI_TAG` is always `CR_VALIDVIS`: `resultsvalid` is never set to anything else
  (`core.cpp:80`, `312`), so the branch for invalid data (`fxmanager.cpp:518-528`) is
  unreachable and left out.
- `keepwriting`, `writethreadinitialised` and the like are read and written without a lock.
  The models give them the values of a sequentially consistent machine.
- On its way out `execute` also unlocks holes, which it does not hold, and which the write
  thread may hold. POSIX leaves that undefined; `LastUnlock` does what a
  default mutex of glibc does: it becomes free.
- In `core.cpp` threads that add to the same numbers exclude each other by further
  mutexes (`viscopylocks` and others). They are held for the addition only and nothing
  else is locked meanwhile, so that `Process` is one step.
- In `DataStream` the unit of time and of data is that of a validity flag; data is the time it was
  recorded at, so that "the right data" is an equation. There is one configuration; a
  subint is a whole number of these units, the delay of the antenna is the same at all times and is a whole
  number of them. The guards against integer overflow (lines 430, 491-508, 523-536) are left out with the integers. The
  copy of the start of the buffer behind its end (lines 297-303) is what makes
  `Parts` go round the ring.
- `pthread_cond_timedwait` in a DataStream ends after half a second without a signal, so it is a wait for its
  condition, and a signal may be lost. `outstandingsendlock` is only ever taken by the reader.
- `waitForBuffer` labels a segment before it waits; the model does it when the wait is over. The main
  thread cannot see the difference: the segment is locked, or (the first two) it has not begun.
- The data and the control buffer of a subint are sent, and received, together.
- `Dispatch` has a DataStream wait until all but its last `Window` sends are over, which is how the ring of segments
  acts on it, whatever the sizes. `Eager` says whether `MPI_Send` of a few bytes
  returns before it is received.
- In `Monitor` the write thread goes round its ring without waiting for the main thread: how they wait is
  in `VisRing`. `monitorwritelock` is held by the write thread within one step.
- A wakeup of `pthread_cond_wait` without a signal is a step of its own, because POSIX
  allows it; the history variable `spurious` of `Core` says that there was one.
- A record of visibilities is its batch, integration and group, a shard the number of
  integrations in it: fxcorr-x writes them in order. A program that fails or is killed
  leaves any number of whole records, of the run before or of this one.
- `doMerge` reads all shards before it opens `merged.part`, and nothing of the batch
  that it reads changes meanwhile; so reading is no step of its own. Writing is: a record a step.
- Killing a script kills its programs. `FXCORR_X_MERGE_FORCE` is modelled for the experiment;
  for a batch it makes no difference, because the script only merges when all shards are there.

## The runs

| Run | Configuration | What it shows |
|---|---|---|
| `manager` | 6 buffers, 2 Cores of 2 subints, 3 scans (one begun before the job, one skipped, one cut short), integrations of 2 subints, an interrupt at any time once the Cores are full, in either scan that is sent; 315 000 states | labels, whole integrations, nothing lost, termination, refinement of `Accumulator` |
| `late` | 4 buffers, 3 Cores of 4 subints that are never full, 3 scans, integrations of one subint, no bound on skew; 14 000 states | stale results, buffers given up: no race, no deadlock, bounds of the window, order of the output and termination hold; each result is accounted for in one place |
| `wrong_integration` | 4 buffers, 3 Cores, two scans of different integration times | violation, see below |
| `integration_times` | 1 812 states over all jobs of two scans of up to 4 seconds with whole integrations | integrations fit subints |
| `early` | a job with fractional integrations, one with a change of configuration | violation |
| `threads` | all interleavings of the three threads of FxManager, 4 buffers | violation |
| `core` | 3 threads, jobs of 0 to 8 subints, spurious wakeups, fair; 203 000 states | exclusive slots, in order, answered in time, all answered, refinement of `Worker`, ends |
| `datastream` | 7 segments of 2 subints, 12 jobs, two formats; Cores take data, and the manager ends the job, at any time; fair; 303 000 states | no overwriting, no circle of waiting, right data, nothing wrongly invalid, both threads end |
| `five_segments` | the same ring with 5 segments, two files | violation |
| `ds_data` | 6 segments, four further jobs | violation |
| `dispatch` | 2 Cores of 4 slots, 2 DataStreams, jobs of 0, 1, 5 and 12 subints; 80 000 states | no deadlock (by TLC's own check and as `SomebodyGoesOn`), no circle of waiting, every Core gets the right data |
| `pipeline` | 2 batches of 2 groups of 2 tasks, 2 integrations, one group at a time, 3 runs, one failure; fair; 244 000 states | what fxcorr-x reads and what it writes, after any runs and merges; every run ends |

Bounds, and why they are enough:

- `VisBufferLength`: `locateVisIndex` keeps the window at least two buffers shorter than
  the ring and acts on its last three. Four buffers (`late`) reach the end of the ring at once, six let the window take every size from 1
  to 4, with holes in it, and the write thread go round. The theorems are for every length.
  Four is the least with which the code works: with three `locateVisIndex`
  gives up its only locked buffer. The code does not check it; the model assumes it by name.
- `RECEIVE_RING_LENGTH` is 4 in the code, in `Core` and in `late`. `manager` and
  `wrong_integration` use 2: the manager only uses it modulo itself and as a limit, and both are
  reached. A Core with 8 subints goes round its ring twice.
- `Skew` bounds how far one Core gets ahead of another. It is a timing assumption, not code:
  with `Skew` = 2 results stay inside the window of 6 buffers, which is what an operator
  buys with VIS BUFFER LENGTH. `Skew` = 20 is no bound at all for these jobs. The
  properties that hold with the bound only are `NothingLost`, `WholeIntegrations` and those that compare the
  output with the promise.
- The jobs have more integrations than the ring has buffers, so that buffers are used again
  (`manager`, `late`), scans that end in mid-integration, one that begins before
  the job, one that is skipped.
- `MaxSubints` bounds the jobs of a Core; the manager may end the job at any number.
- Seven segments: the least number the threads get by with is six (proved); with seven there is a segment that
  belongs to nobody. Two files are longer than the ring. The jobs of `datastream` have data that begins late
  or in a later scan, gaps, files without a gap or with a bad header, hardly any data, none, subints over two
  segments, antennas ahead and behind, a scan that is not correlated, in the middle and at the end, data that
  stops before the job. Those of `ds_data` are kept apart because
  each violates by itself (`StaleOnly`, `ShortOnly`, `ThirdOnly`, `FullOnly` of `MCDataStream`).
- `Dispatch`: jobs shorter than the slots of the Cores, and once around them; three Cores of two slots with `Window` 1
  (227 000 states) passed as well. The theorems are for all numbers.
- Three runs of two batches are a first run of each and one of them again, after it was done, failed
  or killed; two integrations let a file be cut in the middle. `MaxScripts` = 1:
  scripts of different batches share no file, so that running two of them at a time adds nothing
  but states (a batch runs beside the merge of the experiment). Two failures (1.3 million
  states), and three groups two at a time (0.86 million), were checked as well; the
  theorems are for all of these numbers.

Deadlock is checked, and every end of a job is a step that changes nothing, except where the system may really stop: when a job of
`IntegrationTimes` is over; in `core`, where a Core may hang after a
spurious wakeup (see below); and in `pipeline`, when everything has been run and merged.

Fairness. The threads are POSIX threads that run until they block, so each gets weak
fairness. No mutex of these rings has more than two parties, so a thread that waits for a free mutex
competes with nobody and weak fairness is enough. Two places need strong fairness: in `DataStream` the first lock of
the reader, which the main thread takes and gives up again every half a second until the reader
has started; and the threads of `Monitor`, where three share `moncondlock`, for
a moment each. A Core takes what a DataStream sent it (`Received`), as `Dispatch` shows. `Dispatch` states no
fairness: its behaviours are finite, so that the absence of deadlock says that it ends. An answer of a Core is part of the
manager's fairness in `FxManager` (it sits in a blocking `MPI_Recv`; that the Core answers
is `AnswersWhenFull` and `AllAnswered` of `Core`). Nobody is obliged to interrupt, to wake
without a signal, or to send more subints; that the manager ends the job at some
time is assumed in `Core` and shown in `FxManager` (`Terminates`). In `Experiment` the script
and the programs it started run on (`Step`); nobody has to start a run or a merge, and nothing
has to fail.

## What the runs found

`wrong_integration`, two causes:

1. `while(difference > inttime)` (`fxmanager.cpp:777`) compares nanoseconds with
   seconds. When the inner loop has caught up, the outer one still drops one more buffer, and
   the result is added to a later integration, or to one past the end of the scan, which is
   never written. (With the same integration time in both scans, `BothTwoTicks`, this one alone is left.)
2. `inttime` belongs to the scan being sent (`fxmanager.cpp:314`), but is
   compared with results of the scan before. (With 7 buffers, 2 Cores and `Skew` 4 this one alone is
   left; with both changes there is no violation.)

`early`, two causes:

3. The constructor of Visibility takes half a subint off where `updateTime`
   takes a whole one (`visibility.cpp:99`, `270`).
4. The first integration in a new configuration expects the number of
   subints of the old one (`visibility.cpp:284`).

`threads`, two causes; each of the two conjuncts of `ThreadsHeard` fails by itself:

5. The write thread signals the constructor without the mutex; the wakeup can be lost
   (`fxmanager.cpp:659`).
6. `execute` signals the monitor thread to quit when that has tested `keepwriting` and does not wait
   yet (`fxmanager.cpp:380`, `830`-`833`); `pthread_join` then waits for ever.

`five_segments`:

7. Five segments are accepted (`configuration.cpp:2745`), but at a new file the reader keeps the segment before
   while it waits for the sends from the next one, which `waitForSendComplete` leaves alone as
   too close (`datastream.cpp:2106`), and the main thread waits for the segment the reader keeps.
   With six this cannot be (`SegNoWaitCycle`).

`ds_data`, four causes:

8. Whether the next segment continues this one is decided without its scan (`datastream.cpp:584`, `604`;
   line 525 has it).
9. `diskToMemory` copies from the new segment to the beginning of the one before, instead of behind its data
   (`datastream.cpp:1976`; `fakeToMemory` has the same at line 2050).
10. The third segment is filled without a look at whether the file has data left (`datastream.cpp:893`).
11. The end of the job is marked in a segment that the reader has not locked (`mark5bfile.cpp:595`, `713`;
    `vdiffile.cpp:938`; `datastream.cpp:942`).

The same pattern is in Core (`core.cpp:485`), but there main holds the mutex a thread needs
until its first wait, so that only a spurious wakeup of main can open the gap: `CoreEnds` and
`AnswersWhenFull` are stated for behaviours without one, and fail without that exception.

Met on the way and modelled as they are: "somegooddata" only looks at whole integers of flags
(`datastream.cpp:611`, although line 610 counts the last one); Mark5B and VDIF pass over scans whose
configuration is not the first (`mark5bfile.cpp:574`; with one configuration, those without one); in its last round
`loopwrite` offers the monitor the same Visibility each time (`fxmanager.cpp:697`). `MPI_Send` in `terminate`
relies on being buffered: with `Eager` false TLC finds `Dispatch` deadlocked, every Core in `MPI_Ssend` of a result and the
manager in `MPI_Send` to one of them.

In the pipeline no property failed, but some things are as they are by design or by omission, and
`PROJECT.json` lists them among the hazards: the merge of the experiment takes every `merged.part`
as it is, whatever the status of its batch; a shard whose write failed counts as written; and
the comment on `purge_group` (`fxcorr/run_batch.sh:209-210`, "only called after the x shard
succeeded") is out of date: lines 261-270 purge failed groups too, and `FengineBounded` needs that.

## What is proved

`VisRingProofs` proves, for every `VisBufferLength >= 4` (`VisBufferLengthAssumption`, the
only assumption): `RingTypeOK`, `NoRace`, `NoDeadlock`, `AdvanceStops` and
`WindowBound` of `RingSpec`. None of them is inductive. The invariant `Inv` adds, while
`keepwriting` holds,

- `LocksInv`: who has which mutex. The main thread has those `islocked` says; the write
  thread has exactly one.
- `OrderInv`: locked buffers are in the window, its ends are locked (the oldest except
  while it is run on), and, *seen from the write thread*, the newest comes last. This is why the write
  thread cannot be inside the window: it would have to pass the oldest, which is
  locked, so that the oldest would come after the newest.
- `SizeInv`: the length of the window at each place of the main thread, down to the
  buffers still to be locked by the loop over `count`. It is why the buffer after the newest
  is neither in the window nor followed by the window at once.
- `ChosenInv`: the buffer chosen by `locateVisIndex` is in the window.

and `EndInv` says how the threads stop. `InitInv` and `StepInv` (one step per action, one
under it per part of the invariant) prove it; the lemmas on `Succ`, `Pred` and `Ahead` turn the
arithmetic modulo the length of the ring into linear arithmetic, once.

`DataStreamProofs` proves, from `SegmentsAssumption` (five segments or more, room for a request), `SegTypeOK` and
`NoOverwrite` of `SegSpec`, and `NoWaitCycle` with six segments or more. The invariant:

- `LocksInv`, `ReaderInv`, `StartInv`: which segments each thread holds, where the reader is in the first three
  segments, and that the main thread sends nothing before it has been started.
- `FreshInv`: there are no sends from the segments near the reader. The locks imply it: to send from a
  segment the main thread must hold it and the next, so it is never right behind the
  reader.
- `LagInv`: sends that are not over lie between `waitsegment` and `atsegment`, and these stay within
  `numdatasegments - 3` of each other. That is why the segment the reader waits for is not one
  whose sends the main thread would have to see end, while it waits for the reader. With five segments the bound is 3, one more than
  `numdatasegments - 3`, because `waitForSendComplete` leaves two segments alone; `five_segments` shows the consequence.

A DataStream does with its segments only what `SegmentRing` has, again by the way its actions are written; the lemma
`DsImplementsRing` says so, and with it `NoOverwrite` and `NoWaitCycle` hold of a DataStream, for every job and size.

`DispatchProofs` proves `RightSubint`, `NoCycle` and `SomebodyGoesOn` of `Dispatch` from `DispatchAssumption` (positive numbers; `Eager` either way).
Its invariant ties what DataStreams were told to what Cores expect:

- `MessageInv`: DataStream d has a command, is working on one, or has a message under way for Core c and
  subint n, if and only if c has the time of n before it or still awaits d's data for it,
  but for the subint the manager is just giving the commands for.
- `TimesInv`, `StreamInv`: both are in the order of the job. With `MessageInv` the first message to
  a Core is of the subint whose time it took (`DataInv`), which is `RightSubint`.
- `LoadInv`: a Core is never given more than `RECEIVE_RING_LENGTH` subints it has not answered
  (and the end). While the Cores are filled up this is a matter of counting turns (`TurnsOf`), later of
  one for one. So a Core that has as many in hand has no time before it, and by `MessageInv` nothing
  is on its way to it: `NoCycle`.

`SomebodyGoesOn` is the absence of deadlock, stated without ENABLED: `ManagerWaits`, `StreamWaits` and
`CoreWaits` say when a process can take no step, and with `Eager` they never all hold before the job is over.
It takes two more invariants:

- `EndInv`: a process has its end before it, or is at it, just when the manager told it to end;
  a Core at its end has no time before it, and while it waits for a time it has a free slot.
- `TotalInv`: the subints in the hands of the Cores (`Hands`, a set of Core and place, whose
  cardinality is counted) are as many as the results the manager still expects.

At a standstill, the oldest data under way would be for a Core that awaits still older data, and by `MessageInv` that
is under way too; so there is none (`NothingPending`), hence no command either, and the manager can
only be waiting for results. If the Cores had none they would all have a free slot, and `TotalInv`
says that they are full, or that nothing is expected any more. Without `Eager` the theorem is false, see the
hazard at `fxmanager.cpp:294`.

`CoreProofs` proves, from `CoreAssumption` (four slots or more, at least one thread), `CoreTypeOK`,
`SlotsExclusive`, `NeverStale` and `AllAnswered` of `Spec`, for jobs of any length, spurious wakeups
or not, and that a Core implements `Worker` (`IsWorker`). The main thread is at subint `numreceived` and thread i at
`numprocessed[i]`, and the invariant puts everything else in terms of these:

- `LocksInv`: who has which mutex, one at a time (`MainHas`, `ThreadHas`).
- `PosInv`: a thread is behind the main thread by less than a turn of the ring. It follows from the
  locks: to come level with the main thread, or to be lapped by it, a step would need a mutex that `LocksInv` gives to the other.
  While the main thread takes a slot for one thread after the other, and while it drains, the bound depends on
  whether it has passed thread i (`i < turn`). `SlotsExclusive` is then that two subints
  less than a turn apart have different slots.
- `PhaseInv`, `StartInv`, `KeepInv`: how far the job is at each place of the main thread, how threads are started, and
  that only the slot of the terminate message has `keepprocessing` false. A short job is the reason for most of their parts.
- `SubintInv`, `ResultsInv`: the slots between hold the subints they should, with the shares of
  just the threads that have passed; all others are zeroed.
- `AnswersInv`: how many answers there are at each place, and that each is whole and the right one (`WholeResults`).

For `Worker` one more thing is needed, that the manager never gives a Core more than a full ring (`HandedInv`).
A `Send` comes a whole turn after the subint it answers, so it only happens with a full ring; a `DrainSend` only after the
end. This is the safety half of what `AnswersWhenFull` says in time.

`DsRightData` says that what `calculateControlParams` counts on is there when the MPI sends read it: every part of a subint
promised to a Core is still in the ring, at its place and of its time, until it has been taken. The inductive invariant
`RightInv`: the reader is whole segments into its file (`PositionInv`), each segment outside its hands holds what its
label says (`LabelInv`), a segment that is not full is the last of a file (`EndInv`), and what is promised lies in the segment it
is sent from or the next, as they are labelled now (`PromiseInv`); with `NoOverwrite` that is `RightData`. It holds for jobs that are

- `PlainJob`: the base class; the last scan correlated (else what the last file has after it is read beyond its
  end); and no file goes on, in the same scan, where an earlier one ended with less than a subint in its last segment. There the
  reader copies data back over a segment that may be in use, as `ShortJob` of `ds_data` shows;
- `ScansApart`: labels of different scans are never whole segments apart, as in any job of one scan. Then `SameScan`
  holds: the main thread never takes a segment of another scan for the next of its own, as it does in `StaleJob`. It compares
  times within scans but not the scans. `DsRightDataSameScan` has `SameScan` itself as its hypothesis, for
  jobs of several scans in which the times never meet.

FxManager does with the ring only what `VisRing` has: its actions are written that way, so this is no
result but a lemma of `FxManagerProofs` (`FxUsesRing`). It carries the theorems of the ring over: `NoRace` and
`NoDeadlock` hold of FxManager whatever the job, the Cores and the timing. `FxManagerProofs` also proves `FxTypeOK`, `LabelIsResult` and `InOrder`, from `JobAssumption`,
`StartAssumption` (the job begins in a scan, or the constructor aborts, lines 86-101 of `fxmanager.cpp`) and the assumptions on the numbers of Cores, slots
and buffers.

`LabelIsResult` says that the time `receiveData` reads off its ring is that of the subint whose
result it took. That subint is the oldest the Core has in hand; the time is read at a place that depends on
`numsent` and `extrareceived`. `FxInv` ties the three together:

- `TurnsInv`: while the Cores are filled, each has had as many subints as there were turns.
- `CountInv`: per Core, how many it has in hand against `numsent` and `extrareceived`: the number of slots in
  the steady state, fewer in a job that never fills them, one less for each answer drained.
- `PendingInv`: between `locateVisIndex` and the sending of the next subint, the Core that answered has a slot free. Its
  time in the ring has to be read before it is replaced, and is.
- `LabelInv`: the n-th subint in hand has its time n places after the oldest, modulo the length of the ring.

`InOrder` says that integrations are written in order, none twice, however many buffers are given up. It needs the data
of all buffers (`OutInv`): `ClocksInv` says that each buffer is as many integrations after the one the write thread is at
as it is ahead of it; `LastInv` that the last integration written is
before the next to be. A buffer that is reused goes on by as many integrations as the ring is
long (`UpdateTimes`), which puts it behind all others. `UpdateTimes` is a
recursive function; that it exists, and what n applications come to, is proved by induction over the numbers
up to n, which `Numbers` has as a lemma about sets (`SetInduction`).

`NothingLost`, `WholeIntegrations` and `AddsLocked` do not hold of every job: `wrong_integration` and `early` have some for which results
go astray. They are proved of each job and Cores with

- `RegularJob`: one configuration; integrations of whole subints; scans of whole subints and whole seconds, each at least one
  integration long (the last one of a scan may be cut short), within the job;
- `Spread`: what one Core may be ahead of another (`Skew`) is no more than what `VisBufferLength - 5` integrations on end
  have. `Skew + 5 <= VisBufferLength` is enough (`SkewSpreads`), and less if integrations have several subints: in
  `manager`, of two subints each but for those cut short, 2 is allowed with 6 buffers. Two buffers are always kept out of the window, and
  three are how far it is extended ahead of what has come. With less room buffers are dropped, and results lost.

The subints have numbers in the order they are sent; by the times of the scans alone, the k-th integration of the job
(`Calendar(k)`, what the constructor gives the k-th Visibility of a ring as long as you please) is to have those in `Span(k)`. The
invariant `GatherInv` has for each number a place where it must be:

- `HandsInv`: with the Cores, each in the order sent, or in the main thread between `receiveData` and `addData`; all others
  are `Answered`. It also says that the next subint to be sent is the next of the calendar (`NextInv`), and that no answer is
  far ahead of what is missing (`SkewInv`).
- `ResultsInv`: a buffer has the results of its own integration that were answered, all of them and no others. So addData
  returns that it is complete exactly when it is.
- `WindowInv`: in the window a buffer is locked if and only if it waits for a result; before the window all have come.
  Hence the write thread, which only passes buffers that are not locked, takes whole integrations, and no
  result comes for a hole.
- `FrontInv`: the newest buffer is only locked when a result of it or of the buffer before has come. With `SkewInv` and
  `Spread` the oldest is then so near that the window is never full, which `PlaceInv` states as: nothing is ever dropped.
- `WrittenInv`: all that was answered of the integrations before the one to be written next (`Outgoing`) is on disk, also
  during the last round through the ring.

At the end the Cores have nothing (`LeftInv` counts the answers the drain still expects) and the last round has passed all buffers
(`DoneInv`).

`KeepsPromise`, the refinement of `Accumulator`, is proved of the same jobs if no scan is sent from a time
before the start of the job (`NoneBefore`): `IntegrationNumber` counts `ExecuteSeconds` integrations to a scan, and they would
overlap those of the scan before. `manager` is such a job. By the mapping, what went out (`SentOut`) is what the Cores have, the
result in the manager's hands, and what is in the buffers, on disk or ignored. That differs from what was
sent up to the time the manager is at: an interrupt skips to the end of the job, also past scans of which nothing
went out, and an earlier mapping by that time was wrong for an interrupt before the last scan. The attempt to prove it
showed that, and TLC confirmed it once `manager` could be interrupted in an earlier scan. Of each step:

- To hand out a subint (`FillIsSend`, `DeliverIsSend`) adds a place no other has (`NextIsNew`, from `SamePlace`: as many
  places as numbers); all other steps move results or leave them (`QuietStepIs`). A buffer that is reset for its
  next integration loses nothing (`RecycleLosesNothing`): by `WrittenInv` what it had is on disk.
- What the write thread appends (`WriteIsOutput`) has subints of one integration (`IntegrationIs`) that is later than
  all on disk (`IntegrationsInOrder`), and results that went out and were not written yet.
- Nothing is ignored (`NoneIgnored`), as the window always has the integration of a result.

`IntegrationTimesProofs` proves what the run `integration_times` checks for some hundreds of jobs, for all of them: any scans, in
the job or before it, correlated or not, any integration times. `JobsAssumption` is that of `Job`, and that scans last
whole seconds, as Model has them.

- `SubintsPlaced`: when the job is over each subint that goes out had exactly one integration to go to. This needs neither one
  configuration nor whole integrations, only `Placeable`: the middle of a subint is what counts, and if half a subint
  were longer than a second, the middle of the last one of a scan could be after the last integration. The invariant `SeenOK` says
  that integrations begin a multiple of the integration time after the scan does (`Past`), do not overlap (`Apart`) and
  leave no gap (`Filled`).
- `NeverEarly` with `Whole` and `OneConfig`, integrations of whole subints and one configuration: either can
  be what goes wrong in `early`. By `ExpectOK` the offset stays 0, and what is expected is the number of whole subints
  less those after the end of the scan. `CountIs` numbers the subints that go out by their places in the integration.
- `ExpectedIsSent`, that it expects exactly as many: the same numbering is onto if the scan is `Regular`.
  Otherwise it is not: of a scan that ends in mid-subint, or after the job, a subint that is expected may not go out,
  and the integration is then written when its buffer is given up or the job ends, not when it is complete.

`ExperimentProofs` proves `RunTypeOK`, `XReadsWhole`, `FengineBounded`, `DoneIsWhole`,
`SwinInOrder` and `SwinWhole` of `ExpSpec`, for any numbers of batches, groups, tasks and
integrations, any pools, any number of scripts, runs and failures, from
`RunBatchAssumption` (the numbers are positive, `NoFile` is no file). The invariant `ExpInv`:

- `GroupInv`, `TaskInv`: where the script is at, against the files. What fxcorr-f wrote *in this run*
  is whole; a shard that ended is complete; groups run, and so purge, only while the script
  launches groups.
- `PoolInv`: no more than `PARALLEL` groups run.
- `MergeInv`: while `merged.part` is written, all that is in it comes before all that is left;
  so it is in order and without duplicates at any moment, and wherever it is cut.
- `SwinInv`: the same of the SWIN file and the batches still to be appended, and every batch in the SWIN
  file has a `merged.part`. That is why `swinHasBatchRange` is enough: a `merged.part` never
  disappears, so the time range a later merge would write includes that of everything
  already written, and it only begins with an empty SWIN file.

That the first and last batch of a set exist (`FirstBatch`, `LastBatch`) is proved with the
well-foundedness of the subset ordering.

Only model-checked:

- `Accounted` of an overloaded ring, where `NothingLost` does not hold: buffers are given up, and what comes too late for them
  is ignored as stale. In the end each result is on disk once, or was ignored, or sits in a buffer past the last
  scan (`Outside`): where it drops buffers, `locateVisIndex` compares nanoseconds with seconds (the finding of `wrong_integration`) and goes one
  too far, in `late` too, and nobody writes those. It needs that the job ends no scan in the middle (`executeseconds`): else buffers after its end are
  reused unwritten;
- liveness (`Terminates`, `AnswersWhenFull`, `CoreEnds`, `DsEnds`, `RunEnds`): it needs ENABLED;
- `SentIfRead` of a DataStream: it holds for the jobs of `PassingJobs`; `ds_data` has those for which it fails. What is read
  is not sent for more reasons than those `RightData` fails for: a file that ends within `FLAGS_PER_INT` of a segment, a third
  segment that is filled without a look at what the first two had, the order of the subints.

## Not modelled

Of the pipeline: fxcorr-x without a group, which appends to the SWIN file by itself
(`FXCORR_X_SWIN_CONFLICT` too), records torn in the middle, writes that fail unnoticed, programs
that outlive their script, the roots of an experiment and their check, the phased array.

Of a DataStream: network and fake readers (they go round the same ring with `networkToMemory` and `fakeToMemory`), the
multiplexing of several inputs (`datamuxer`), changes of configuration (`updateConfig`), skipping files by
`peekfile`, a Mark5B reader that looks ahead to the time the manager asks for, delays that change within a job. Of
the monitor: the socket.

The arithmetic of the correlation, the recorded formats, the parsers and the programs around the correlator: sequential
code that computes in floating point or reads and writes files, where TLC has nothing to interleave. They are
nearly all of the repository's lines. See the components in `PROJECT.json`, each with the reason.

## Plan

In this order:

1. done: `VisRing` and its proofs; `FxManager` over it with `Job`, `Visibility` and
   `Accumulator`; `IntegrationTimes`; `Startup`; `Core`.
2. done: `SegmentRing` and `DataStream` with their proofs. Left: `datamuxer`, more than one configuration.
3. done: `Monitor`.
4. done: `Dispatch` with its proofs: the circle manager - DataStream - Core - manager.
5. done: `RunBatch` and `Experiment`, with their proofs. Left: the full mode of fxcorr-x beside the
   merge of the experiment, torn records, orphans.
6. done: `Worker`, which `Core` refines. Left: the Cores of `Dispatch` and `inflight` of `FxManager` as Workers.
7. done: the proofs of `Core`; `LabelIsResult` and `InOrder` of `FxManager`; the absence of deadlock in `Dispatch`;
   `IntegrationTimes`; `RightData` of `DataStream`; `NothingLost`, `WholeIntegrations` and `KeepsPromise` of `FxManager`.
   Left: `SentIfRead` from conditions on the job that exclude those of `ds_data`.
