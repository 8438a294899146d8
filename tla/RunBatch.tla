------------------------------ MODULE RunBatch ------------------------------
(***************************************************************************)
(* fxcorr/run_batch.sh: a batch (a stretch of the observation) is          *)
(* correlated group by group of datastreams.  The fxcorr-f tasks of a      *)
(* group write its fengine files, fxcorr-x turns them into a shard         *)
(* ds<G>.part, and "fxcorr-x merge" sorts the shards of the batch into     *)
(* merged.part.  The stages only meet in files, and so do two runs: what a *)
(* killed or failed run leaves behind, the next one finds.                 *)
(*                                                                         *)
(* Abstractions: a record of visibilities is <<batch, integration, group>>;*)
(* a shard is the number of integrations in it, for its records are always *)
(* written in order.  A killed or failed program leaves whole records: the *)
(* streams write them out one by one.  That a write to a shard may fail    *)
(* unnoticed (flushBuffersToDisk) is left out.                             *)
(***************************************************************************)
EXTENDS Integers, Sequences, FiniteSets

CONSTANTS
  NumBatches,    \* batches of the experiment, numbered in order of time
  NGRP,          \* groups of datastreams
  NumTasks,      \* fxcorr-f tasks of a group
  Integrations,  \* integrations of a batch
  PARALLEL,      \* FXCORR_PARALLEL
  GROUP_JOBS,    \* FXCORR_GROUP_JOBS
  PURGE,         \* FXCORR_PURGE_FENGINE = 1
  MaxScripts,    \* bounds: on the scripts that run at a time,
  MaxRuns,       \* on all runs of run_batch.sh,
  MaxFaults,     \* and on programs that fail or are killed
  NoFile

ASSUME RunBatchAssumption ==
  /\ {NumBatches, NGRP, NumTasks, Integrations, PARALLEL, GROUP_JOBS} \subseteq Nat \ {0}
  /\ PURGE \in BOOLEAN /\ MaxScripts \in Nat /\ MaxRuns \in Nat /\ MaxFaults \in Nat
  /\ NoFile \notin Nat
  /\ NoFile \notin Seq((1 .. NumBatches) \X (1 .. Integrations) \X (0 .. NGRP - 1))

VARIABLES
  status,    \* batch -> "status" in batches/<batch>.json
  pc,        \* batch -> where its run_batch.sh is
  group,     \* batch -> group -> where run_group is, or how it ended
  task,      \* batch -> group -> task -> how far fxcorr-f is in a running script
  fengine,   \* batch -> group -> task -> the files of that task
  part,      \* batch -> group -> integrations in ds<G>.part
  merged,    \* batch -> the records in merged.part
  runs, faults

files == <<fengine, part, merged>>
runvars == <<status, pc, group, task, files, runs, faults>>

Batches == 1 .. NumBatches
Groups == 0 .. NGRP - 1
Tasks == 1 .. NumTasks

Rec == Batches \X (1 .. Integrations) \X Groups

\* The order of partRecordLess, and of difx2fits over the batches.
Before(r, s) ==
  \/ r[1] < s[1]
  \/ r[1] = s[1] /\ r[2] < s[2]
  \/ r[1] = s[1] /\ r[2] = s[2] /\ r[3] < s[3]

InOrder(seq) == \A i, j \in DOMAIN seq : i < j => Before(seq[i], seq[j])
Content(seq) == {seq[i] : i \in DOMAIN seq}

\* The records of batch b, and those that are in its shards.
Whole(b) == {r \in Rec : r[1] = b}
Records(b) == {r \in Whole(b) : r[2] <= part[b][r[3]]}

NoTasks == [g \in Groups |-> [t \in Tasks |-> "waiting"]]

Init ==
  /\ status = [b \in Batches |-> "planned"]
  /\ pc = [b \in Batches |-> "idle"]
  /\ group = [b \in Batches |-> [g \in Groups |-> "waiting"]]
  /\ task = [b \in Batches |-> NoTasks]
  /\ fengine = [b \in Batches |-> [g \in Groups |-> [t \in Tasks |-> "none"]]]
  /\ part = [b \in Batches |-> [g \in Groups |-> NoFile]]
  /\ merged = [b \in Batches |-> NoFile]
  /\ runs = 0 /\ faults = 0

Fault == faults < MaxFaults /\ faults' = faults + 1

\* mark_status and the end of the script.
Exit(b, s) ==
  /\ status' = [status EXCEPT ![b] = s]
  /\ pc' = [pc EXCEPT ![b] = "idle"]
  /\ task' = [task EXCEPT ![b] = NoTasks]

-----------------------------------------------------------------------------
(* The script *)

\* run_batch.sh starts, with FXCORR_PARALLEL or with FXCORR_X_SHARD=1.
\* Nothing of an earlier run is removed.
StartRun(b) ==
  /\ pc[b] = "idle"
  /\ runs < MaxRuns /\ Cardinality({c \in Batches : pc[c] # "idle"}) < MaxScripts
  /\ \E first \in {"groups", "tasks"} : pc' = [pc EXCEPT ![b] = first]
  /\ status' = [status EXCEPT ![b] = "running"]
  /\ group' = [group EXCEPT ![b] = [g \in Groups |-> "waiting"]]
  /\ runs' = runs + 1
  /\ UNCHANGED <<task, files, faults>>

MutRunning(b) == {g \in Groups : group[b][g] \notin {"waiting", "exit0"}}

\* What "jobs -rp" counts.
Running(b) == {g \in Groups : group[b][g] \in {"f", "x", "passed", "failed"}}

\* A group is launched, in order, as soon as the pool has room.
LaunchGroup(b, g) ==
  /\ pc[b] = "groups"
  /\ group[b][g] = "waiting" /\ \A h \in 0 .. g - 1 : group[b][h] # "waiting"
  /\ Cardinality(Running(b)) < PARALLEL
  /\ group' = [group EXCEPT ![b][g] = "f"]
  /\ UNCHANGED <<status, pc, task, files, runs, faults>>

MutEndGroups(b) ==
  /\ pc[b] = "groups"
  /\ \A g \in Groups : group[b][g] \in {"exit0", "exit1"}
  /\ pc' = [pc EXCEPT ![b] = "merge"]
  /\ UNCHANGED <<status, task, group, files, runs, faults>>

\* All groups have ended: one that failed makes the batch fail, but only now.
EndGroups(b) ==
  /\ pc[b] = "groups"
  /\ \A g \in Groups : group[b][g] \in {"exit0", "exit1"}
  /\ IF \E g \in Groups : group[b][g] = "exit1"
     THEN Exit(b, "failed")
     ELSE pc' = [pc EXCEPT ![b] = "merge"] /\ UNCHANGED <<status, task>>
  /\ UNCHANGED <<group, files, runs, faults>>

\* Without FXCORR_PARALLEL: after the last task the shards, then the merge.
EndTasks(b) ==
  /\ pc[b] = "tasks"
  /\ \A g \in Groups, t \in Tasks : task[b][g][t] = "ok"
  /\ pc' = [pc EXCEPT ![b] = "shards"]
  /\ UNCHANGED <<status, group, task, files, runs, faults>>

EndShards(b) ==
  /\ pc[b] = "shards"
  /\ \A g \in Groups : group[b][g] = "sharded"
  /\ pc' = [pc EXCEPT ![b] = "merge"]
  /\ UNCHANGED <<status, group, task, files, runs, faults>>

-----------------------------------------------------------------------------
(* fxcorr-f *)

\* In a group, GROUP_JOBS tasks at a time in the order of the stations; without
\* FXCORR_PARALLEL, station by station, the groups in turn.
MayStart(b, g, t) ==
  \/ /\ pc[b] = "groups" /\ group[b][g] = "f"
     /\ \A u \in 1 .. t - 1 : task[b][g][u] # "waiting"
     /\ Cardinality({u \in Tasks : task[b][g][u] = "running"}) < GROUP_JOBS
  \/ /\ pc[b] = "tasks"
     /\ \A h \in Groups, u \in Tasks :
          u < t \/ (u = t /\ h < g) => task[b][h][u] = "ok"

\* A task truncates the files that may be there from an earlier run, ...
StartTask(b, g, t) ==
  /\ task[b][g][t] = "waiting"
  /\ MayStart(b, g, t)
  /\ task' = [task EXCEPT ![b][g][t] = "running"]
  /\ fengine' = [fengine EXCEPT ![b][g][t] = "torn"]
  /\ UNCHANGED <<status, pc, group, part, merged, runs, faults>>

\* ... ends with whole ones (finalise checks every write and close), ...
EndTask(b, g, t) ==
  /\ task[b][g][t] = "running"
  /\ task' = [task EXCEPT ![b][g][t] = "ok"]
  /\ fengine' = [fengine EXCEPT ![b][g][t] = "whole"]
  /\ UNCHANGED <<status, pc, group, part, merged, runs, faults>>

\* ... or fails: a group runs its other tasks all the same, the serial script
\* stops.
FailTask(b, g, t) ==
  /\ task[b][g][t] = "running"
  /\ Fault
  /\ IF pc[b] = "tasks"
     THEN Exit(b, "failed")
     ELSE task' = [task EXCEPT ![b][g][t] = "failed"] /\ UNCHANGED <<status, pc>>
  /\ UNCHANGED <<group, files, runs>>

-----------------------------------------------------------------------------
(* run_group and fxcorr-x for one group *)

MutWaitTasks(b, g) ==
  /\ group[b][g] = "f"
  /\ \A t \in Tasks : task[b][g][t] \in {"ok", "failed"}
  /\ group' = [group EXCEPT ![b][g] = IF task[b][g][NumTasks] = "failed" THEN "failed" ELSE "x"]
  /\ UNCHANGED <<status, pc, task, files, runs, faults>>

\* All f tasks of the group were waited for.
WaitTasks(b, g) ==
  /\ group[b][g] = "f"
  /\ \A t \in Tasks : task[b][g][t] \in {"ok", "failed"}
  /\ group' = [group EXCEPT ![b][g] =
                 IF \E t \in Tasks : task[b][g][t] = "failed" THEN "failed" ELSE "x"]
  /\ UNCHANGED <<status, pc, task, files, runs, faults>>

\* fxcorr-x correlates group g.
InShard(b, g) ==
  \/ group[b][g] = "x"
  \/ /\ pc[b] = "shards" /\ group[b][g] = "waiting"
     /\ \A h \in 0 .. g - 1 : group[b][h] = "sharded"

MutShard(b, g) ==
  /\ InShard(b, g)
  /\ \A t \in Tasks : fengine[b][g][t] = "whole"
  /\ part' = [part EXCEPT ![b][g] = (IF @ = NoFile THEN 0 ELSE @) + Integrations]
  /\ group' = [group EXCEPT ![b][g] = IF @ = "x" THEN "passed" ELSE "sharded"]
  /\ UNCHANGED <<status, pc, task, fengine, merged, runs, faults>>

\* The first integration overwrites the shard of an earlier run.
Shard(b, g) ==
  /\ InShard(b, g)
  /\ \A t \in Tasks : fengine[b][g][t] = "whole"
  /\ part' = [part EXCEPT ![b][g] = Integrations]
  /\ group' = [group EXCEPT ![b][g] = IF @ = "x" THEN "passed" ELSE "sharded"]
  /\ UNCHANGED <<status, pc, task, fengine, merged, runs, faults>>

\* What may be in a shard whose program stops early.
Cut(n) == {n} \union (0 .. Integrations)

FailShard(b, g) ==
  /\ InShard(b, g)
  /\ Fault
  /\ \E n \in Cut(part[b][g]) : part' = [part EXCEPT ![b][g] = n]
  /\ IF group[b][g] = "x"
     THEN group' = [group EXCEPT ![b][g] = "failed"] /\ UNCHANGED <<status, pc, task>>
     ELSE Exit(b, "failed") /\ UNCHANGED group
  /\ UNCHANGED <<fengine, merged, runs>>

MutEndGroup(b, g) ==
  /\ group[b][g] \in {"passed", "failed"}
  /\ group' = [group EXCEPT ![b][g] = IF @ = "passed" THEN "exit0" ELSE "exit1"]
  /\ fengine' = [fengine EXCEPT ![b][g] =
                   IF PURGE /\ group[b][g] = "passed" THEN [t \in Tasks |-> "none"] ELSE @]
  /\ task' = [task EXCEPT ![b][g] = [t \in Tasks |-> "waiting"]]
  /\ UNCHANGED <<status, pc, part, merged, runs, faults>>

\* The group ends; it is purged whether it failed or not.
EndGroup(b, g) ==
  /\ group[b][g] \in {"passed", "failed"}
  /\ group' = [group EXCEPT ![b][g] = IF @ = "passed" THEN "exit0" ELSE "exit1"]
  /\ fengine' = [fengine EXCEPT ![b][g] =
                   IF PURGE THEN [t \in Tasks |-> "none"] ELSE @]
  /\ task' = [task EXCEPT ![b][g] = [t \in Tasks |-> "waiting"]]
  /\ UNCHANGED <<status, pc, part, merged, runs, faults>>

-----------------------------------------------------------------------------
(* fxcorr-x merge *)

\* doMerge has read all shards and truncates merged.part, ...
OpenMerged(b) ==
  /\ pc[b] = "merge"
  /\ \A g \in Groups : part[b][g] # NoFile
  /\ merged' = [merged EXCEPT ![b] = <<>>]
  /\ pc' = [pc EXCEPT ![b] = "writing"]
  /\ UNCHANGED <<status, group, task, fengine, part, runs, faults>>

Left(b) == Records(b) \ Content(merged[b])

\* ... writes one record after the other, sorted, ...
WriteMerged(b) ==
  /\ pc[b] = "writing"
  /\ \E r \in Left(b) :
       /\ \A s \in Left(b) : s = r \/ Before(r, s)
       /\ merged' = [merged EXCEPT ![b] = Append(@, r)]
  /\ UNCHANGED <<status, pc, group, task, fengine, part, runs, faults>>

\* ... and the batch is done.
EndMerge(b) ==
  /\ pc[b] = "writing"
  /\ Left(b) = {}
  /\ Exit(b, "done")
  /\ UNCHANGED <<group, files, runs, faults>>

\* If a write fails, what was written stays.
FailMerge(b) ==
  /\ pc[b] \in {"merge", "writing"}
  /\ Fault
  /\ Exit(b, "failed")
  /\ UNCHANGED <<group, files, runs>>

-----------------------------------------------------------------------------

\* The script is killed with all its programs (or the node goes down).  The
\* status stays as it is.
Kill(b) ==
  /\ pc[b] # "idle"
  /\ Fault
  /\ pc' = [pc EXCEPT ![b] = "idle"]
  /\ group' = [group EXCEPT ![b] =
                 [g \in Groups |-> IF g \in Running(b) THEN "killed" ELSE @[g]]]
  /\ task' = [task EXCEPT ![b] = NoTasks]
  /\ \E p \in [Groups -> {NoFile} \union (0 .. Integrations)] :
       /\ \A g \in Groups : p[g] \in IF InShard(b, g) THEN Cut(part[b][g]) ELSE {part[b][g]}
       /\ part' = [part EXCEPT ![b] = p]
  /\ UNCHANGED <<status, fengine, merged, runs>>

Step(b) ==
  \/ EndGroups(b)
  \/ EndTasks(b)
  \/ EndShards(b)
  \/ OpenMerged(b)
  \/ WriteMerged(b)
  \/ EndMerge(b)
  \/ \E g \in Groups : LaunchGroup(b, g) \/ WaitTasks(b, g) \/ Shard(b, g) \/ EndGroup(b, g)
  \/ \E g \in Groups, t \in Tasks : StartTask(b, g, t) \/ EndTask(b, g, t)

Failure(b) ==
  \/ FailMerge(b)
  \/ Kill(b)
  \/ \E g \in Groups : FailShard(b, g)
  \/ \E g \in Groups, t \in Tasks : FailTask(b, g, t)

RunNext == \E b \in Batches : StartRun(b) \/ Step(b) \/ Failure(b)

RunSpec == Init /\ [][RunNext]_runvars

-----------------------------------------------------------------------------
(* Properties *)

\* Every variable has its type.
RunTypeOK ==
  /\ status \in [Batches -> {"planned", "running", "failed", "done"}]
  /\ pc \in [Batches -> {"idle", "groups", "tasks", "shards", "merge", "writing"}]
  /\ group \in [Batches -> [Groups -> {"waiting", "f", "x", "passed", "failed",
                                       "exit0", "exit1", "sharded", "killed"}]]
  /\ task \in [Batches -> [Groups -> [Tasks -> {"waiting", "running", "ok", "failed"}]]]
  /\ fengine \in [Batches -> [Groups -> [Tasks -> {"none", "torn", "whole"}]]]
  /\ part \in [Batches -> [Groups -> {NoFile} \union (0 .. Integrations)]]
  /\ merged \in [Batches -> {NoFile} \union Seq(Rec)]
  /\ runs \in 0 .. MaxRuns /\ faults \in 0 .. MaxFaults

\* fxcorr-x only works on a group whose tasks have all ended well in this run
\* and whose files are still there, whatever earlier runs left behind.
XReadsWhole ==
  \A b \in Batches, g \in Groups :
    InShard(b, g) =>
      \A t \in Tasks : task[b][g][t] = "ok" /\ fengine[b][g][t] = "whole"

\* With FXCORR_PARALLEL, the files a run itself put into the fengine directory
\* (a tmpfs that only holds so much) are those of the groups that are running,
\* and of no more than PARALLEL: a group that failed leaves nothing either.
FengineBounded ==
  PURGE =>
    \A b \in Batches :
      LET made == {g \in Groups :
                     /\ group[b][g] \notin {"waiting", "sharded", "killed"}
                     /\ \E t \in Tasks : fengine[b][g][t] # "none"}
      IN made \subseteq Running(b) /\ Cardinality(made) <= PARALLEL

\* A batch that says "done" has all of its records in merged.part, once and in
\* order, though earlier runs may have been cut short anywhere.
DoneIsWhole ==
  \A b \in Batches :
    status[b] = "done" =>
      /\ merged[b] # NoFile
      /\ InOrder(merged[b]) /\ Content(merged[b]) = Whole(b)
=============================================================================
