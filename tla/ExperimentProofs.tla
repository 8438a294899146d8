-------------------------- MODULE ExperimentProofs --------------------------
(***************************************************************************)
(* Proofs about RunBatch and Experiment, for any numbers of batches,       *)
(* groups, tasks and integrations, any pools, and any number of runs and   *)
(* failures.                                                               *)
(*                                                                         *)
(* The invariant has one part per stage.  GroupInv and TaskInv tie the     *)
(* files to the places the script is at: what fxcorr-f wrote in this run   *)
(* is whole, and a shard that ended is complete.  MergeInv says that what  *)
(* is in merged.part comes before what is still to be written.  SwinInv    *)
(* says the same of the SWIN file and the batches still to be appended,    *)
(* and that every batch in the SWIN file has a merged.part, so that a      *)
(* later merge, whose batches are all that have one, finds it.             *)
(***************************************************************************)
EXTENDS Experiment, Numbers, TLAPS

GroupInv ==
  \A b \in Batches, g \in Groups :
    /\ g \in Running(b) => pc[b] = "groups"
    /\ pc[b] \in {"tasks", "shards"} => group[b][g] \in {"waiting", "sharded"}
    /\ pc[b] \in {"merge", "writing"} => group[b][g] \in {"exit0", "sharded"}
    /\ group[b][g] \in {"passed", "exit0", "sharded"} => part[b][g] = Integrations

TaskInv ==
  \A b \in Batches, g \in Groups, t \in Tasks :
    /\ task[b][g][t] = "ok" => fengine[b][g][t] = "whole"
    /\ task[b][g][t] = "running" => group[b][g] = "f" \/ pc[b] = "tasks"
    /\ group[b][g] = "x" \/ pc[b] = "shards" => task[b][g][t] = "ok"
    /\ PURGE /\ group[b][g] \in {"exit0", "exit1"} => fengine[b][g][t] = "none"

PoolInv == \A b \in Batches : Cardinality(Running(b)) <= PARALLEL

StatusInv == \A b \in Batches : pc[b] # "idle" => status[b] = "running"

MergeInv ==
  \A b \in Batches :
    /\ merged[b] # NoFile => InOrder(merged[b]) /\ Content(merged[b]) \subseteq Whole(b)
    /\ pc[b] = "writing" =>
         /\ merged[b] # NoFile
         /\ \A r \in Content(merged[b]), s \in Left(b) : Before(r, s)

SwinInv ==
  /\ InOrder(swin)
  /\ \A r \in Content(swin) : merged[r[1]] # NoFile
  /\ \A c \in todo : merged[c] # NoFile /\ \A r \in Content(swin) : r[1] < c
  /\ settled => /\ \A b \in Batches : status[b] = "done"
                /\ \A b \in Batches \ todo : Whole(b) \subseteq Content(swin)

RunInv == RunTypeOK /\ GroupInv /\ TaskInv /\ PoolInv /\ StatusInv /\ MergeInv /\ DoneIsWhole
ExpInv == ExpTypeOK /\ RunInv /\ SwinInv

-----------------------------------------------------------------------------
(* Sequences of records *)

\* No file is not a file.
LEMMA FileExists == \A f \in Seq(Rec) : f # NoFile
BY RunBatchAssumption DEF Rec, Batches, Groups

\* The empty file.
LEMMA EmptyFile == InOrder(<< >>) /\ Content(<< >>) = {} /\ << >> \in Seq(Rec) /\ << >> # NoFile
<1>1. << >> \in Seq(Rec)
  OBVIOUS
<1>2. InOrder(<< >>) /\ Content(<< >>) = {}
  BY DEF InOrder, Content
<1> QED
  BY <1>1, <1>2, FileExists

\* One more record at the end of a file.
LEMMA AppendRecord ==
  ASSUME NEW f \in Seq(Rec), NEW r \in Rec
  PROVE  /\ Append(f, r) \in Seq(Rec) /\ Append(f, r) # NoFile
         /\ Content(Append(f, r)) = Content(f) \union {r}
         /\ InOrder(f) /\ (\A q \in Content(f) : Before(q, r)) => InOrder(Append(f, r))
<1>1. /\ Append(f, r) \in Seq(Rec)
      /\ DOMAIN Append(f, r) = 1 .. Len(f) + 1
      /\ Append(f, r)[Len(f) + 1] = r
      /\ \A i \in 1 .. Len(f) : Append(f, r)[i] = f[i]
      /\ DOMAIN f = 1 .. Len(f) /\ Len(f) \in Nat
  OBVIOUS
<1>2. Append(f, r) # NoFile
  BY <1>1, FileExists
<1>3. Content(Append(f, r)) = Content(f) \union {r}
  BY <1>1 DEF Content
<1>4. ASSUME InOrder(f), \A q \in Content(f) : Before(q, r)
      PROVE  InOrder(Append(f, r))
  <2> SUFFICES ASSUME NEW i \in 1 .. Len(f) + 1, NEW j \in 1 .. Len(f) + 1, i < j
               PROVE  Before(Append(f, r)[i], Append(f, r)[j])
    BY <1>1 DEF InOrder
  <2>1. i \in 1 .. Len(f)
    BY <1>1
  <2>2. CASE j = Len(f) + 1
    BY <1>1, <1>4, <2>1, <2>2 DEF Content
  <2>3. CASE j # Len(f) + 1
    BY <1>1, <1>4, <2>1, <2>3 DEF InOrder
  <2> QED
    BY <2>2, <2>3
<1> QED
  BY <1>1, <1>2, <1>3, <1>4

\* One file after the other.
LEMMA AppendFile ==
  ASSUME NEW e \in Seq(Rec), NEW f \in Seq(Rec)
  PROVE  /\ e \o f \in Seq(Rec)
         /\ Content(e \o f) = Content(e) \union Content(f)
         /\ InOrder(e) /\ InOrder(f) /\ (\A q \in Content(e), r \in Content(f) : Before(q, r))
              => InOrder(e \o f)
<1>1. /\ e \o f \in Seq(Rec)
      /\ DOMAIN (e \o f) = 1 .. Len(e) + Len(f)
      /\ \A i \in 1 .. Len(e) : (e \o f)[i] = e[i]
      /\ \A i \in 1 .. Len(f) : (e \o f)[Len(e) + i] = f[i]
      /\ DOMAIN e = 1 .. Len(e) /\ Len(e) \in Nat
      /\ DOMAIN f = 1 .. Len(f) /\ Len(f) \in Nat
  OBVIOUS
<1> DEFINE ef == e \o f
<1>2. \A i \in DOMAIN ef :
        \/ i \in DOMAIN e /\ ef[i] = e[i]
        \/ i - Len(e) \in DOMAIN f /\ ef[i] = f[i - Len(e)]
  <2> SUFFICES ASSUME NEW i \in 1 .. Len(e) + Len(f), i \notin DOMAIN e
               PROVE  i - Len(e) \in DOMAIN f /\ ef[i] = f[i - Len(e)]
    BY <1>1
  <2>1. i - Len(e) \in 1 .. Len(f)
    BY <1>1
  <2>2. ef[Len(e) + (i - Len(e))] = f[i - Len(e)]
    BY <1>1, <2>1
  <2>3. Len(e) + (i - Len(e)) = i
    BY <1>1
  <2> QED
    BY <1>1, <2>1, <2>2, <2>3
<1> HIDE DEF ef
<1>3. Content(ef) \subseteq Content(e) \union Content(f)
  BY <1>2 DEF Content
<1>4. Content(e) \subseteq Content(ef)
  BY <1>1 DEF Content, ef
<1>5. Content(f) \subseteq Content(ef)
  <2> SUFFICES ASSUME NEW i \in 1 .. Len(f)
               PROVE  f[i] \in Content(ef)
    BY <1>1 DEF Content
  <2>1. Len(e) + i \in DOMAIN ef /\ ef[Len(e) + i] = f[i]
    BY <1>1 DEF ef
  <2> QED
    BY <2>1 DEF Content
<1>6. ASSUME InOrder(e), InOrder(f), \A q \in Content(e), r \in Content(f) : Before(q, r)
      PROVE  InOrder(ef)
  <2> SUFFICES ASSUME NEW i \in DOMAIN ef, NEW j \in DOMAIN ef, i < j
               PROVE  Before(ef[i], ef[j])
    BY DEF InOrder
  <2>1. i \in Int /\ j \in Int /\ Len(e) \in Nat /\ Len(f) \in Nat
    BY <1>1 DEF ef
  <2>2. CASE j \in DOMAIN e /\ ef[j] = e[j]
    BY <1>1, <1>2, <1>6, <2>1, <2>2 DEF InOrder
  <2>3. CASE i - Len(e) \in DOMAIN f /\ ef[i] = f[i - Len(e)]
    <3>1. j - Len(e) \in DOMAIN f /\ ef[j] = f[j - Len(e)] /\ i - Len(e) < j - Len(e)
      BY <1>1, <1>2, <2>1, <2>3
    <3> QED
      BY <1>6, <2>3, <3>1 DEF InOrder
  <2>4. CASE i \in DOMAIN e /\ ef[i] = e[i] /\ j - Len(e) \in DOMAIN f /\ ef[j] = f[j - Len(e)]
    BY <1>6, <2>4 DEF Content
  <2> QED
    BY <1>2, <2>2, <2>3, <2>4
<1> QED
  BY <1>1, <1>3, <1>4, <1>5, <1>6 DEF ef

\* The beginning of a file.
LEMMA CutFile ==
  ASSUME NEW f \in Seq(Rec), NEW n \in 0 .. Len(f)
  PROVE  /\ SubSeq(f, 1, n) \in Seq(Rec)
         /\ Content(SubSeq(f, 1, n)) \subseteq Content(f)
         /\ InOrder(f) => InOrder(SubSeq(f, 1, n))
<1>1. /\ SubSeq(f, 1, n) \in Seq(Rec)
      /\ DOMAIN SubSeq(f, 1, n) = 1 .. n
      /\ \A i \in 1 .. n : SubSeq(f, 1, n)[i] = f[i]
      /\ 1 .. n \subseteq DOMAIN f
  OBVIOUS
<1> QED
  BY <1>1 DEF Content, InOrder

\* A set of batches has a first one.
LEMMA FirstBatch ==
  ASSUME NEW S \in SUBSET Batches, S # {}
  PROVE  First(S) \in S /\ \A c \in S : First(S) <= c
<1>1. S \in SUBSET Nat
  BY DEF Batches
<1>2. \E b \in S : \A c \in S : b <= c
  BY <1>1, Least
<1> QED
  BY <1>2 DEF First

\* A set of batches has a last one.
LEMMA LastBatch ==
  ASSUME NEW S \in SUBSET Batches, S # {}
  PROVE  Last(S) \in S /\ \A c \in S : c <= Last(S)
<1> DEFINE R == {NumBatches + 1 - c : c \in S}
<1>1. NumBatches \in Nat
  BY RunBatchAssumption
<1>2. R \in SUBSET Batches
  <2> SUFFICES ASSUME NEW c \in S PROVE NumBatches + 1 - c \in Batches
    OBVIOUS
  <2>1. c \in 1 .. NumBatches
    BY DEF Batches
  <2> QED
    BY <1>1, <2>1 DEF Batches
<1>3. PICK b \in S : \A r \in R : NumBatches + 1 - b <= r
  <2>1. R # {}
    OBVIOUS
  <2>2. First(R) \in R /\ \A r \in R : First(R) <= r
    BY ONLY <1>2, <2>1, FirstBatch
  <2> QED
    BY <2>2
<1>4. \A c \in S : NumBatches + 1 - b <= NumBatches + 1 - c
  BY <1>3
<1>5. \A c \in S : c <= b
  BY <1>1, <1>4 DEF Batches
<1> QED
  BY <1>5 DEF Last

-----------------------------------------------------------------------------
(* Types *)

LEMMA RunTypeStep == RunTypeOK /\ MergeInv /\ RunNext => RunTypeOK'
<1> SUFFICES ASSUME RunTypeOK, MergeInv, NEW b \in Batches, StartRun(b) \/ Step(b) \/ Failure(b)
             PROVE  RunTypeOK'
  BY DEF RunNext
<1> USE DEF RunTypeOK, files, Exit, Fault, NoTasks
<1>0. MaxRuns \in Nat /\ MaxFaults \in Nat /\ Integrations \in Nat
  BY RunBatchAssumption
<1>1. CASE StartRun(b)
  BY <1>0, <1>1 DEF StartRun
<1>2. CASE EndGroups(b)
  <2>1. CASE Exit(b, "failed") /\ UNCHANGED <<group, files, runs, faults>>
    BY <2>1
  <2>2. CASE /\ pc' = [pc EXCEPT ![b] = "merge"]
             /\ UNCHANGED <<status, task, group, files, runs, faults>>
    BY <2>2
  <2> QED
    BY <1>2, <2>1, <2>2 DEF EndGroups
<1>3. CASE EndTasks(b)
  BY <1>3 DEF EndTasks
<1>4. CASE EndShards(b)
  BY <1>4 DEF EndShards
<1>5. CASE OpenMerged(b)
  BY <1>5, EmptyFile DEF OpenMerged
<1>6. CASE WriteMerged(b)
  <2>1. PICK r \in Left(b) : merged' = [merged EXCEPT ![b] = Append(@, r)]
    BY <1>6 DEF WriteMerged
  <2>2. r \in Rec /\ merged[b] \in Seq(Rec)
    BY <1>6 DEF WriteMerged, MergeInv, Left, Records, Whole
  <2>3. Append(merged[b], r) \in Seq(Rec)
    BY <2>2, AppendRecord
  <2> QED
    BY <1>6, <2>1, <2>3 DEF WriteMerged
<1>7. CASE EndMerge(b)
  BY <1>7 DEF EndMerge
<1>8. CASE FailMerge(b)
  BY <1>0, <1>8 DEF FailMerge
<1>9. CASE Kill(b)
  BY <1>0, <1>9 DEF Kill
<1>10. ASSUME NEW g \in Groups, LaunchGroup(b, g) PROVE RunTypeOK'
  BY <1>10 DEF LaunchGroup
<1>11. ASSUME NEW g \in Groups, WaitTasks(b, g) PROVE RunTypeOK'
  BY <1>11 DEF WaitTasks
<1>12. ASSUME NEW g \in Groups, Shard(b, g) PROVE RunTypeOK'
  BY <1>0, <1>12 DEF Shard
<1>13. ASSUME NEW g \in Groups, FailShard(b, g) PROVE RunTypeOK'
  <2>1. part' \in [Batches -> [Groups -> {NoFile} \union (0 .. Integrations)]]
    BY <1>0, <1>13 DEF FailShard, Cut
  <2>2. CASE group' = [group EXCEPT ![b][g] = "failed"] /\ UNCHANGED <<status, pc, task>>
    BY <1>0, <1>13, <2>1, <2>2 DEF FailShard
  <2>3. CASE Exit(b, "failed") /\ UNCHANGED group
    BY <1>0, <1>13, <2>1, <2>3 DEF FailShard
  <2> QED
    BY <1>13, <2>2, <2>3 DEF FailShard
<1>14. ASSUME NEW g \in Groups, EndGroup(b, g) PROVE RunTypeOK'
  BY <1>14 DEF EndGroup
<1>15. ASSUME NEW g \in Groups, NEW t \in Tasks, StartTask(b, g, t) PROVE RunTypeOK'
  BY <1>15 DEF StartTask
<1>16. ASSUME NEW g \in Groups, NEW t \in Tasks, EndTask(b, g, t) PROVE RunTypeOK'
  BY <1>16 DEF EndTask
<1>17. ASSUME NEW g \in Groups, NEW t \in Tasks, FailTask(b, g, t) PROVE RunTypeOK'
  <2>1. CASE Exit(b, "failed")
    BY <1>0, <1>17, <2>1 DEF FailTask
  <2>2. CASE task' = [task EXCEPT ![b][g][t] = "failed"] /\ UNCHANGED <<status, pc>>
    BY <1>0, <1>17, <2>2 DEF FailTask
  <2> QED
    BY <1>17, <2>1, <2>2 DEF FailTask
<1> QED
  BY <1>1, <1>2, <1>3, <1>4, <1>5, <1>6, <1>7, <1>8, <1>9, <1>10, <1>11, <1>12, <1>13,
     <1>14, <1>15, <1>16, <1>17 DEF Step, Failure

-----------------------------------------------------------------------------
(* The invariant is preserved *)

\* Where the script and its groups are, and the shards of groups that ended.
LEMMA GroupStep == RunTypeOK /\ GroupInv /\ RunNext => GroupInv'
<1> SUFFICES ASSUME RunTypeOK, GroupInv, NEW b \in Batches, StartRun(b) \/ Step(b) \/ Failure(b)
             PROVE  GroupInv'
  BY DEF RunNext
<1> USE DEF RunTypeOK, GroupInv, Running, files, Exit, Fault, InShard
<1>1. CASE StartRun(b)
  BY <1>1 DEF StartRun
<1>2. CASE EndGroups(b)
  BY <1>2 DEF EndGroups
<1>3. CASE EndTasks(b)
  BY <1>3 DEF EndTasks
<1>4. CASE EndShards(b)
  BY <1>4 DEF EndShards
<1>5. CASE OpenMerged(b)
  BY <1>5 DEF OpenMerged
<1>6. CASE WriteMerged(b)
  BY <1>6 DEF WriteMerged
<1>7. CASE EndMerge(b)
  BY <1>7 DEF EndMerge
<1>8. CASE FailMerge(b)
  BY <1>8 DEF FailMerge
<1>9. CASE Kill(b)
  BY <1>9 DEF Kill
<1>10. ASSUME NEW g \in Groups, LaunchGroup(b, g) PROVE GroupInv'
  BY <1>10 DEF LaunchGroup
<1>11. ASSUME NEW g \in Groups, WaitTasks(b, g) PROVE GroupInv'
  BY <1>11 DEF WaitTasks
<1>12. ASSUME NEW g \in Groups, Shard(b, g) PROVE GroupInv'
  BY <1>12 DEF Shard
<1>13. ASSUME NEW g \in Groups, FailShard(b, g) PROVE GroupInv'
  BY <1>13 DEF FailShard
<1>14. ASSUME NEW g \in Groups, EndGroup(b, g) PROVE GroupInv'
  BY <1>14 DEF EndGroup
<1>15. ASSUME NEW g \in Groups, NEW t \in Tasks, StartTask(b, g, t) PROVE GroupInv'
  BY <1>15 DEF StartTask
<1>16. ASSUME NEW g \in Groups, NEW t \in Tasks, EndTask(b, g, t) PROVE GroupInv'
  BY <1>16 DEF EndTask
<1>17. ASSUME NEW g \in Groups, NEW t \in Tasks, FailTask(b, g, t) PROVE GroupInv'
  BY <1>17 DEF FailTask
<1> QED
  BY <1>1, <1>2, <1>3, <1>4, <1>5, <1>6, <1>7, <1>8, <1>9, <1>10, <1>11, <1>12, <1>13,
     <1>14, <1>15, <1>16, <1>17 DEF Step, Failure

\* The status of a script that runs.
LEMMA StatusStep == RunTypeOK /\ StatusInv /\ RunNext => StatusInv'
<1> SUFFICES ASSUME RunTypeOK, StatusInv, NEW b \in Batches, StartRun(b) \/ Step(b) \/ Failure(b)
             PROVE  StatusInv'
  BY DEF RunNext
<1> USE DEF RunTypeOK, StatusInv, files, Exit, Fault
<1>1. CASE StartRun(b)
  BY <1>1 DEF StartRun
<1>2. CASE EndGroups(b)
  BY <1>2 DEF EndGroups
<1>3. CASE EndTasks(b)
  BY <1>3 DEF EndTasks
<1>4. CASE EndShards(b)
  BY <1>4 DEF EndShards
<1>5. CASE OpenMerged(b)
  BY <1>5 DEF OpenMerged
<1>6. CASE WriteMerged(b)
  BY <1>6 DEF WriteMerged
<1>7. CASE EndMerge(b)
  BY <1>7 DEF EndMerge
<1>8. CASE FailMerge(b)
  BY <1>8 DEF FailMerge
<1>9. CASE Kill(b)
  BY <1>9 DEF Kill
<1>10. ASSUME NEW g \in Groups, LaunchGroup(b, g) PROVE StatusInv'
  BY <1>10 DEF LaunchGroup
<1>11. ASSUME NEW g \in Groups, WaitTasks(b, g) PROVE StatusInv'
  BY <1>11 DEF WaitTasks
<1>12. ASSUME NEW g \in Groups, Shard(b, g) PROVE StatusInv'
  BY <1>12 DEF Shard
<1>13. ASSUME NEW g \in Groups, FailShard(b, g) PROVE StatusInv'
  BY <1>13 DEF FailShard
<1>14. ASSUME NEW g \in Groups, EndGroup(b, g) PROVE StatusInv'
  BY <1>14 DEF EndGroup
<1>15. ASSUME NEW g \in Groups, NEW t \in Tasks, StartTask(b, g, t) PROVE StatusInv'
  BY <1>15 DEF StartTask
<1>16. ASSUME NEW g \in Groups, NEW t \in Tasks, EndTask(b, g, t) PROVE StatusInv'
  BY <1>16 DEF EndTask
<1>17. ASSUME NEW g \in Groups, NEW t \in Tasks, FailTask(b, g, t) PROVE StatusInv'
  BY <1>17 DEF FailTask
<1> QED
  BY <1>1, <1>2, <1>3, <1>4, <1>5, <1>6, <1>7, <1>8, <1>9, <1>10, <1>11, <1>12, <1>13,
     <1>14, <1>15, <1>16, <1>17 DEF Step, Failure

\* What fxcorr-f wrote in this run is whole, and what is purged is gone.
LEMMA TaskStep == RunTypeOK /\ GroupInv /\ TaskInv /\ RunNext => TaskInv'
<1> SUFFICES ASSUME RunTypeOK, GroupInv, TaskInv, NEW b \in Batches, StartRun(b) \/ Step(b) \/ Failure(b)
             PROVE  TaskInv'
  BY DEF RunNext
<1> USE DEF RunTypeOK, GroupInv, TaskInv, Running, files, Exit, Fault, InShard, MayStart, NoTasks
<1>1. CASE StartRun(b)
  BY <1>1 DEF StartRun
<1>2. CASE EndGroups(b)
  BY <1>2 DEF EndGroups
<1>3. CASE EndTasks(b)
  BY <1>3 DEF EndTasks
<1>4. CASE EndShards(b)
  BY <1>4 DEF EndShards
<1>5. CASE OpenMerged(b)
  BY <1>5 DEF OpenMerged
<1>6. CASE WriteMerged(b)
  BY <1>6 DEF WriteMerged
<1>7. CASE EndMerge(b)
  BY <1>7 DEF EndMerge
<1>8. CASE FailMerge(b)
  BY <1>8 DEF FailMerge
<1>9. CASE Kill(b)
  BY <1>9 DEF Kill
<1>10. ASSUME NEW g \in Groups, LaunchGroup(b, g) PROVE TaskInv'
  BY <1>10 DEF LaunchGroup
<1>11. ASSUME NEW g \in Groups, WaitTasks(b, g) PROVE TaskInv'
  BY <1>11 DEF WaitTasks
<1>12. ASSUME NEW g \in Groups, Shard(b, g) PROVE TaskInv'
  BY <1>12 DEF Shard
<1>13. ASSUME NEW g \in Groups, FailShard(b, g) PROVE TaskInv'
  <2>1. CASE group' = [group EXCEPT ![b][g] = "failed"] /\ UNCHANGED <<status, pc, task>>
    BY <1>13, <2>1 DEF FailShard
  <2>2. CASE Exit(b, "failed") /\ UNCHANGED group
    BY <1>13, <2>2 DEF FailShard
  <2> QED
    BY <1>13, <2>1, <2>2 DEF FailShard
<1>14. ASSUME NEW g \in Groups, EndGroup(b, g) PROVE TaskInv'
  BY <1>14 DEF EndGroup
<1>15. ASSUME NEW g \in Groups, NEW t \in Tasks, StartTask(b, g, t) PROVE TaskInv'
  BY <1>15 DEF StartTask
<1>16. ASSUME NEW g \in Groups, NEW t \in Tasks, EndTask(b, g, t) PROVE TaskInv'
  <2> SUFFICES ASSUME NEW c \in Batches, NEW h \in Groups, NEW u \in Tasks
               PROVE  /\ task'[c][h][u] = "ok" => fengine'[c][h][u] = "whole"
                      /\ task'[c][h][u] = "running" => group'[c][h] = "f" \/ pc'[c] = "tasks"
                      /\ group'[c][h] = "x" \/ pc'[c] = "shards" => task'[c][h][u] = "ok"
                      /\ PURGE /\ group'[c][h] \in {"exit0", "exit1"} => fengine'[c][h][u] = "none"
    OBVIOUS
  <2>1. CASE c = b /\ h = g /\ u = t
    <3>1. task'[c][h][u] = "ok" /\ fengine'[c][h][u] = "whole"
      BY <1>16, <2>1 DEF EndTask
    <3>2. group'[c][h] \notin {"exit0", "exit1"}
      BY <1>16, <2>1 DEF EndTask
    <3> QED
      BY <3>1, <3>2
  <2>2. CASE ~(c = b /\ h = g /\ u = t)
    <3>1. task'[c][h][u] = task[c][h][u] /\ fengine'[c][h][u] = fengine[c][h][u]
      BY <1>16, <2>2 DEF EndTask
    <3> QED
      BY <1>16, <3>1 DEF EndTask
  <2> QED
    BY <2>1, <2>2
<1>17. ASSUME NEW g \in Groups, NEW t \in Tasks, FailTask(b, g, t) PROVE TaskInv'
  <2>1. CASE Exit(b, "failed")
    BY <1>17, <2>1 DEF FailTask
  <2>2. CASE task' = [task EXCEPT ![b][g][t] = "failed"] /\ UNCHANGED <<status, pc>>
    BY <1>17, <2>2 DEF FailTask
  <2> QED
    BY <1>17, <2>1, <2>2 DEF FailTask
<1> QED
  BY <1>1, <1>2, <1>3, <1>4, <1>5, <1>6, <1>7, <1>8, <1>9, <1>10, <1>11, <1>12, <1>13,
     <1>14, <1>15, <1>16, <1>17 DEF Step, Failure

RunningGrows ==
  \A c \in Batches :
    \/ Running(c)' \subseteq Running(c)
    \/ /\ Cardinality(Running(c)) < PARALLEL
       /\ \E h \in Groups : Running(c)' \subseteq Running(c) \union {h}

\* A group is only added to a pool with room.
LEMMA RunningStep == RunTypeOK /\ GroupInv /\ RunNext => RunningGrows
<1> SUFFICES ASSUME RunTypeOK, GroupInv, NEW b \in Batches, StartRun(b) \/ Step(b) \/ Failure(b)
             PROVE  RunningGrows
  BY DEF RunNext
<1> USE DEF RunTypeOK, GroupInv, RunningGrows, files, Exit, Fault, InShard, Running
<1>1. CASE StartRun(b)
  BY <1>1 DEF StartRun
<1>2. CASE EndGroups(b)
  BY <1>2 DEF EndGroups
<1>3. CASE EndTasks(b)
  BY <1>3 DEF EndTasks
<1>4. CASE EndShards(b)
  BY <1>4 DEF EndShards
<1>5. CASE OpenMerged(b)
  BY <1>5 DEF OpenMerged
<1>6. CASE WriteMerged(b)
  BY <1>6 DEF WriteMerged
<1>7. CASE EndMerge(b)
  BY <1>7 DEF EndMerge
<1>8. CASE FailMerge(b)
  BY <1>8 DEF FailMerge
<1>9. CASE Kill(b)
  BY <1>9 DEF Kill
<1>10. ASSUME NEW g \in Groups, LaunchGroup(b, g) PROVE RunningGrows
  <2>1. Cardinality(Running(b)) < PARALLEL
    BY <1>10 DEF LaunchGroup
  <2>2. Running(b)' \subseteq Running(b) \union {g}
    BY <1>10 DEF LaunchGroup
  <2>3. \A c \in Batches \ {b} : Running(c)' \subseteq Running(c)
    BY <1>10 DEF LaunchGroup
  <2> HIDE DEF Running
  <2> QED
    BY <2>1, <2>2, <2>3
<1>11. ASSUME NEW g \in Groups, WaitTasks(b, g) PROVE RunningGrows
  BY <1>11 DEF WaitTasks
<1>12. ASSUME NEW g \in Groups, Shard(b, g) PROVE RunningGrows
  BY <1>12 DEF Shard
<1>13. ASSUME NEW g \in Groups, FailShard(b, g) PROVE RunningGrows
  <2>1. CASE group' = [group EXCEPT ![b][g] = "failed"] /\ UNCHANGED <<status, pc, task>>
    BY <1>13, <2>1 DEF FailShard
  <2>2. CASE Exit(b, "failed") /\ UNCHANGED group
    BY <1>13, <2>2 DEF FailShard
  <2> QED
    BY <1>13, <2>1, <2>2 DEF FailShard
<1>14. ASSUME NEW g \in Groups, EndGroup(b, g) PROVE RunningGrows
  BY <1>14 DEF EndGroup
<1>15. ASSUME NEW g \in Groups, NEW t \in Tasks, StartTask(b, g, t) PROVE RunningGrows
  BY <1>15 DEF StartTask
<1>16. ASSUME NEW g \in Groups, NEW t \in Tasks, EndTask(b, g, t) PROVE RunningGrows
  BY <1>16 DEF EndTask
<1>17. ASSUME NEW g \in Groups, NEW t \in Tasks, FailTask(b, g, t) PROVE RunningGrows
  BY <1>17 DEF FailTask
<1> QED
  BY <1>1, <1>2, <1>3, <1>4, <1>5, <1>6, <1>7, <1>8, <1>9, <1>10, <1>11, <1>12, <1>13,
     <1>14, <1>15, <1>16, <1>17 DEF Step, Failure

\* The pool of groups.
LEMMA PoolStep == RunTypeOK /\ GroupInv /\ PoolInv /\ RunNext => PoolInv'
<1> SUFFICES ASSUME RunTypeOK, GroupInv, PoolInv, RunNext, NEW c \in Batches
             PROVE  Cardinality(Running(c)') <= PARALLEL
  BY DEF PoolInv, Running
<1>1. PARALLEL \in Nat /\ IsFiniteSet(Groups)
  BY FS_Interval, RunBatchAssumption DEF Groups
<1>2. Running(c) \subseteq Groups /\ Running(c)' \subseteq Groups
  BY DEF Running
<1>3. IsFiniteSet(Running(c)) /\ Cardinality(Running(c)) \in Nat
  BY <1>1, <1>2, FS_Subset, FS_CardinalityType
<1>4. IsFiniteSet(Running(c)') /\ Cardinality(Running(c)') \in Nat
  BY <1>1, <1>2, FS_Subset, FS_CardinalityType
<1>5. Cardinality(Running(c)) <= PARALLEL
  BY DEF PoolInv
<1>6. CASE Running(c)' \subseteq Running(c)
  <2>1. Cardinality(Running(c)') <= Cardinality(Running(c))
    BY <1>3, <1>6, FS_Subset
  <2> QED
    BY <1>1, <1>3, <1>4, <1>5, <2>1
<1>7. CASE /\ Cardinality(Running(c)) < PARALLEL
           /\ \E h \in Groups : Running(c)' \subseteq Running(c) \union {h}
  <2>1. PICK h \in Groups : Running(c)' \subseteq Running(c) \union {h}
    BY <1>7
  <2>2. /\ IsFiniteSet(Running(c) \union {h})
        /\ Cardinality(Running(c) \union {h}) <= Cardinality(Running(c)) + 1
    BY <1>3, FS_AddElement
  <2>3. Cardinality(Running(c) \union {h}) \in Nat
    BY <2>2, FS_CardinalityType
  <2>4. Cardinality(Running(c)') <= Cardinality(Running(c) \union {h})
    BY <2>1, <2>2, FS_Subset
  <2> QED
    BY <1>1, <1>3, <1>4, <1>7, <2>2, <2>3, <2>4
<1> QED
  BY <1>6, <1>7, RunningStep DEF RunningGrows

\* A merged.part, and the shards it is made of, only change in a merge, and
\* only a merge makes a batch done.
MergedStays(c) ==
  /\ merged'[c] = merged[c]
  /\ pc'[c] = "writing" => pc[c] = "writing" /\ part'[c] = part[c]
  /\ status'[c] = "done" => status[c] = "done" \/ EndMerge(c)

OthersStay ==
  \A c \in Batches : OpenMerged(c) \/ WriteMerged(c) \/ MergedStays(c)

\* Every step but those of its merge leaves merged.part alone.
LEMMA OthersStep == RunTypeOK /\ GroupInv /\ RunNext => OthersStay
<1> SUFFICES ASSUME RunTypeOK, GroupInv, NEW b \in Batches, StartRun(b) \/ Step(b) \/ Failure(b)
             PROVE  OthersStay
  BY DEF RunNext
<1> USE DEF RunTypeOK, GroupInv, OthersStay, MergedStays, Running, files, Exit, Fault, InShard
<1>1. CASE StartRun(b)
  BY <1>1 DEF StartRun
<1>2. CASE EndGroups(b)
  BY <1>2 DEF EndGroups
<1>3. CASE EndTasks(b)
  BY <1>3 DEF EndTasks
<1>4. CASE EndShards(b)
  BY <1>4 DEF EndShards
<1>5. CASE OpenMerged(b)
  <2>1. \A c \in Batches \ {b} : MergedStays(c)
    BY <1>5 DEF OpenMerged
  <2> QED
    BY <1>5, <2>1
<1>6. CASE WriteMerged(b)
  <2>1. \A c \in Batches \ {b} : MergedStays(c)
    BY <1>6 DEF WriteMerged
  <2> QED
    BY <1>6, <2>1
<1>7. CASE EndMerge(b)
  <2>1. \A c \in Batches \ {b} : MergedStays(c)
    BY <1>7 DEF EndMerge
  <2>2. merged'[b] = merged[b] /\ pc'[b] = "idle"
    BY <1>7 DEF EndMerge
  <2> QED
    BY <1>7, <2>1, <2>2
<1>8. CASE FailMerge(b)
  BY <1>8 DEF FailMerge
<1>9. CASE Kill(b)
  BY <1>9 DEF Kill
<1>10. ASSUME NEW g \in Groups, LaunchGroup(b, g) PROVE OthersStay
  BY <1>10 DEF LaunchGroup
<1>11. ASSUME NEW g \in Groups, WaitTasks(b, g) PROVE OthersStay
  BY <1>11 DEF WaitTasks
<1>12. ASSUME NEW g \in Groups, Shard(b, g) PROVE OthersStay
  BY <1>12 DEF Shard
<1>13. ASSUME NEW g \in Groups, FailShard(b, g) PROVE OthersStay
  BY <1>13 DEF FailShard
<1>14. ASSUME NEW g \in Groups, EndGroup(b, g) PROVE OthersStay
  BY <1>14 DEF EndGroup
<1>15. ASSUME NEW g \in Groups, NEW t \in Tasks, StartTask(b, g, t) PROVE OthersStay
  BY <1>15 DEF StartTask
<1>16. ASSUME NEW g \in Groups, NEW t \in Tasks, EndTask(b, g, t) PROVE OthersStay
  BY <1>16 DEF EndTask
<1>17. ASSUME NEW g \in Groups, NEW t \in Tasks, FailTask(b, g, t) PROVE OthersStay
  BY <1>17 DEF FailTask
<1> QED
  BY <1>1, <1>2, <1>3, <1>4, <1>5, <1>6, <1>7, <1>8, <1>9, <1>10, <1>11, <1>12, <1>13,
     <1>14, <1>15, <1>16, <1>17 DEF Step, Failure

\* What is in merged.part comes before what is still to be written.
LEMMA MergeStep == RunTypeOK /\ GroupInv /\ MergeInv /\ RunNext => MergeInv'
<1> SUFFICES ASSUME RunTypeOK, MergeInv, NEW c \in Batches,
                    OpenMerged(c) \/ WriteMerged(c) \/ MergedStays(c)
             PROVE  /\ merged'[c] # NoFile =>
                         InOrder(merged'[c]) /\ Content(merged'[c]) \subseteq Whole(c)
                    /\ pc'[c] = "writing" =>
                         /\ merged'[c] # NoFile
                         /\ \A r \in Content(merged'[c]), s \in Left(c)' : Before(r, s)
  BY OthersStep DEF OthersStay, MergeInv, InOrder, Content, Whole
<1>1. CASE MergedStays(c)
  <2>1. pc'[c] = "writing" => Left(c)' = Left(c)
    BY <1>1 DEF MergedStays, Left, Records, Content
  <2> QED
    BY <1>1, <2>1 DEF MergedStays, MergeInv
<1>2. CASE OpenMerged(c)
  <2>1. merged'[c] = << >>
    BY <1>2 DEF OpenMerged, RunTypeOK
  <2> QED
    BY <2>1, EmptyFile
<1>3. CASE WriteMerged(c)
  <2>1. PICK r \in Left(c) : /\ \A s \in Left(c) : s = r \/ Before(r, s)
                            /\ merged' = [merged EXCEPT ![c] = Append(@, r)]
    BY <1>3 DEF WriteMerged
  <2>2. /\ r \in Rec /\ r \in Whole(c) /\ merged[c] \in Seq(Rec)
        /\ InOrder(merged[c]) /\ Content(merged[c]) \subseteq Whole(c)
        /\ \A q \in Content(merged[c]), s \in Left(c) : Before(q, s)
    BY <1>3 DEF WriteMerged, RunTypeOK, MergeInv, Left, Records, Whole
  <2>3. /\ InOrder(Append(merged[c], r)) /\ Append(merged[c], r) # NoFile
        /\ Content(Append(merged[c], r)) = Content(merged[c]) \union {r}
    BY <2>1, <2>2, AppendRecord
  <2>4. merged'[c] = Append(merged[c], r)
    BY <2>1 DEF RunTypeOK
  <2>5. Left(c)' = Left(c) \ {r}
    <3>1. Records(c)' = Records(c)
      BY <1>3 DEF WriteMerged, Records
    <3> QED
      BY <2>3, <2>4, <3>1 DEF Left, Content
  <2> QED
    BY <2>1, <2>2, <2>3, <2>4, <2>5
<1> QED
  BY <1>1, <1>2, <1>3

\* A batch that is done has all of its records.
LEMMA DoneStep ==
  RunTypeOK /\ GroupInv /\ StatusInv /\ MergeInv /\ DoneIsWhole /\ RunNext => DoneIsWhole'
<1> SUFFICES ASSUME RunTypeOK, GroupInv, StatusInv, MergeInv, DoneIsWhole, NEW c \in Batches,
                    OpenMerged(c) \/ WriteMerged(c) \/ MergedStays(c), status'[c] = "done"
             PROVE  /\ merged'[c] # NoFile
                    /\ InOrder(merged'[c]) /\ Content(merged'[c]) = Whole(c)
  BY OthersStep DEF OthersStay, DoneIsWhole, InOrder, Content, Whole
<1>1. MergedStays(c)
  BY DEF OpenMerged, WriteMerged, StatusInv
<1>2. CASE status[c] = "done"
  BY <1>1, <1>2 DEF MergedStays, DoneIsWhole
<1>3. CASE EndMerge(c)
  <2>1. \A g \in Groups : part[c][g] = Integrations
    BY <1>3 DEF EndMerge, GroupInv
  <2>2. Records(c) = Whole(c)
    BY <2>1, RunBatchAssumption DEF Records, Whole, Rec
  <2>3. /\ merged[c] # NoFile /\ Left(c) = {}
        /\ InOrder(merged[c]) /\ Content(merged[c]) \subseteq Whole(c)
    BY <1>3 DEF EndMerge, MergeInv
  <2> QED
    <3>1. Content(merged[c]) = Whole(c)
      BY <2>2, <2>3 DEF Left
    <3> QED
      BY <1>1, <2>3, <3>1 DEF MergedStays
<1> QED
  BY <1>1, <1>2, <1>3 DEF MergedStays

\* A batch that has a merged.part keeps one.
LEMMA ReadyStep ==
  RunTypeOK /\ GroupInv /\ MergeInv /\ RunNext =>
    \A c \in Batches : merged[c] # NoFile => merged'[c] # NoFile
<1> SUFFICES ASSUME RunTypeOK, MergeInv, NEW c \in Batches, merged[c] # NoFile,
                    OpenMerged(c) \/ WriteMerged(c) \/ MergedStays(c)
             PROVE  merged'[c] # NoFile
  BY OthersStep DEF OthersStay
<1>1. CASE OpenMerged(c)
  BY <1>1, EmptyFile DEF OpenMerged, RunTypeOK
<1>2. CASE WriteMerged(c)
  <2>1. PICK r \in Left(c) : merged' = [merged EXCEPT ![c] = Append(@, r)]
    BY <1>2 DEF WriteMerged
  <2>2. r \in Rec /\ merged[c] \in Seq(Rec)
    BY DEF RunTypeOK, Left, Records, Whole
  <2> QED
    BY <2>1, <2>2, AppendRecord DEF RunTypeOK
<1> QED
  BY <1>1, <1>2 DEF MergedStays

\* The steps of the batches.
LEMMA RunStep == RunInv /\ RunNext => RunInv'
BY RunTypeStep, GroupStep, StatusStep, TaskStep, PoolStep, MergeStep, DoneStep DEF RunInv

\* The steps that leave the batches alone.
LEMMA RunStays ==
  RunInv /\ UNCHANGED <<status, pc, group, task, files, runs>> /\ faults' \in 0 .. MaxFaults
    => RunInv'
BY DEF RunInv, RunTypeOK, GroupInv, TaskInv, PoolInv, StatusInv, MergeInv, DoneIsWhole,
       Running, Left, Records, Content, InOrder, files

\* The initial states.
LEMMA ExpInitial == ExpInit => ExpInv
<1> SUFFICES ASSUME ExpInit PROVE ExpInv
  OBVIOUS
<1>1. RunTypeOK
  <2>1. MaxRuns \in Nat /\ MaxFaults \in Nat
    BY RunBatchAssumption
  <2> QED
    BY <2>1 DEF ExpInit, Init, RunTypeOK, NoTasks
<1>2. GroupInv /\ TaskInv /\ StatusInv /\ MergeInv /\ DoneIsWhole
  BY DEF ExpInit, Init, NoTasks, GroupInv, TaskInv, StatusInv, MergeInv, DoneIsWhole, Running
<1>3. PoolInv
  <2>1. \A b \in Batches : Running(b) = {}
    BY DEF ExpInit, Init, Running
  <2>2. PARALLEL \in Nat
    BY RunBatchAssumption
  <2> QED
    BY <2>1, <2>2, FS_EmptySet DEF PoolInv
<1>4. SwinInv
  BY EmptyFile DEF ExpInit, SwinInv
<1>5. ExpTypeOK
  BY <1>1, EmptyFile DEF ExpInit, ExpTypeOK
<1> QED
  BY <1>1, <1>2, <1>3, <1>4, <1>5 DEF ExpInv, RunInv

\* What AppendBatch and FailAppend append: records of one batch that is later
\* than all in the SWIN file.
LEMMA AppendPart ==
  ASSUME ExpInv, todo # {}, NEW f \in Seq(Rec), InOrder(f),
         Content(f) \subseteq Content(merged[First(todo)])
  PROVE  /\ First(todo) \in todo /\ \A c \in todo \ {First(todo)} : First(todo) < c
         /\ swin \o f \in Seq(Rec) /\ InOrder(swin \o f)
         /\ Content(swin \o f) = Content(swin) \union Content(f)
         /\ \A r \in Content(f) : r[1] = First(todo)
<1> DEFINE b == First(todo)
<1>1. b \in todo /\ \A c \in todo : b <= c
  BY FirstBatch DEF ExpInv, ExpTypeOK
<1>2. \A c \in todo \ {b} : b < c
  <2>1. todo \subseteq Int
    BY DEF ExpInv, ExpTypeOK, Batches
  <2> HIDE DEF b
  <2> QED
    BY <1>1, <2>1
<1>3. b \in Batches /\ merged[b] # NoFile
  BY <1>1 DEF ExpInv, ExpTypeOK, SwinInv
<1>4. \A r \in Content(f) : r \in Whole(b)
  BY <1>3 DEF ExpInv, RunInv, MergeInv
<1>5. \A q \in Content(swin), r \in Content(f) : Before(q, r)
  BY <1>1, <1>4 DEF ExpInv, SwinInv, Before, Whole
<1>6. swin \in Seq(Rec) /\ InOrder(swin)
  BY DEF ExpInv, ExpTypeOK, SwinInv
<1> HIDE DEF b
<1>7. /\ swin \o f \in Seq(Rec) /\ InOrder(swin \o f)
      /\ Content(swin \o f) = Content(swin) \union Content(f)
  BY <1>5, <1>6, AppendFile
<1> QED
  BY <1>1, <1>2, <1>4, <1>7 DEF Whole, b

\* The steps of a merge of the experiment, and those of the batches meanwhile.
LEMMA SwinStep == ExpInv /\ [ExpNext]_vars => ExpInv'
<1> SUFFICES ASSUME ExpInv, [ExpNext]_vars PROVE ExpInv'
  OBVIOUS
<1> USE DEF ExpInv
<1>1. MaxFaults \in Nat /\ swin \in Seq(Rec) /\ todo \in SUBSET Batches /\ faults \in 0 .. MaxFaults
  BY RunBatchAssumption DEF ExpTypeOK, RunTypeOK
<1>2. ASSUME NEW forced \in BOOLEAN, BeginMerge(forced) PROVE ExpInv'
  <2>1. RunInv'
    BY <1>1, <1>2, RunStays DEF BeginMerge, runvars
  <2>2. Content(swin) = {}
    <3> SUFFICES ASSUME NEW i \in DOMAIN swin PROVE FALSE
      BY DEF Content
    <3>1. swin[i] \in Rec /\ swin[i] \in Content(swin)
      BY <1>1 DEF Content
    <3>2. swin[i][1] \in Ready /\ Ready \in SUBSET Batches
      BY <3>1 DEF SwinInv, Ready, Rec
    <3>3. First(Ready) <= swin[i][1] /\ swin[i][1] <= Last(Ready)
      BY <3>2, FirstBatch, LastBatch
    <3>4. Ready \subseteq Int /\ First(Ready) \in Ready /\ Last(Ready) \in Ready
      <4>1. Ready \subseteq Int
        BY DEF Ready, Batches
      <4> QED
        BY <3>2, <4>1, FirstBatch, LastBatch
    <3>5. swin[i][1] \in First(Ready) .. Last(Ready)
      <4>1. swin[i][1] \in Int /\ First(Ready) \in Int /\ Last(Ready) \in Int
        BY ONLY <3>2, <3>4
      <4> QED
        BY ONLY <3>3, <4>1
    <3> QED
      BY <1>2, <3>5 DEF BeginMerge, SwinHas
  <2>3. settled' => /\ \A c \in Batches : status'[c] = "done"
                    /\ todo' = Batches
    BY <1>2 DEF BeginMerge, runvars, RunInv, DoneIsWhole, Ready
  <2>4. SwinInv'
    BY <1>2, <2>2, <2>3 DEF BeginMerge, runvars, files, SwinInv, Ready, Content, InOrder
  <2>5. ExpTypeOK'
    BY <1>1, <1>2, <2>1 DEF BeginMerge, ExpTypeOK, RunInv, Ready
  <2> QED
    BY <2>1, <2>4, <2>5
<1>3. CASE AppendBatch
  <2> DEFINE b == First(todo)
  <2>1. b \in Batches /\ merged[b] \in Seq(Rec) /\ InOrder(merged[b])
    BY <1>1, <1>3, FirstBatch DEF AppendBatch, SwinInv, RunInv, RunTypeOK, MergeInv
  <2>2. /\ b \in todo /\ \A c \in todo \ {b} : b < c
        /\ swin' \in Seq(Rec) /\ InOrder(swin')
        /\ Content(swin') = Content(swin) \union Content(merged[b])
        /\ \A r \in Content(merged[b]) : r[1] = b
    BY <1>3, <2>1, AppendPart DEF AppendBatch
  <2> HIDE DEF b
  <2>3. RunInv' /\ UNCHANGED <<merged, status, settled>> /\ todo' = todo \ {b}
    BY <1>1, <1>3, RunStays DEF AppendBatch, runvars, files, b
  <2>4. InOrder(swin)' /\ \A r \in Content(swin)' : merged'[r[1]] # NoFile
    BY <2>1, <2>2, <2>3 DEF SwinInv, InOrder, Content
  <2>5. \A c \in todo' : merged'[c] # NoFile /\ \A r \in Content(swin)' : r[1] < c
    BY <2>1, <2>2, <2>3 DEF SwinInv, Content
  <2>6. settled' => /\ \A c \in Batches : status'[c] = "done"
                    /\ \A c \in Batches \ todo' : Whole(c) \subseteq Content(swin)'
    BY <2>1, <2>2, <2>3 DEF SwinInv, Content, RunInv, DoneIsWhole
  <2>7. SwinInv'
    BY <2>4, <2>5, <2>6 DEF SwinInv, Content
  <2>8. ExpTypeOK'
    BY <1>1, <2>2, <2>3 DEF ExpTypeOK, RunInv
  <2> QED
    BY <2>3, <2>7, <2>8
<1>4. CASE FailAppend
  <2> DEFINE b == First(todo)
  <2>1. b \in Batches /\ merged[b] \in Seq(Rec) /\ InOrder(merged[b])
    BY <1>1, <1>4, FirstBatch DEF FailAppend, SwinInv, RunInv, RunTypeOK, MergeInv
  <2>2. PICK n \in 0 .. Len(merged[b]) : swin' = swin \o SubSeq(merged[b], 1, n)
    BY <1>4 DEF FailAppend
  <2> DEFINE f == SubSeq(merged[b], 1, n)
  <2>3. f \in Seq(Rec) /\ InOrder(f) /\ Content(f) \subseteq Content(merged[b])
    BY <2>1, <2>2, CutFile
  <2>4. todo # {} /\ swin' = swin \o f
    BY <1>4, <2>2 DEF FailAppend
  <2> HIDE DEF f
  <2>5. /\ swin' \in Seq(Rec) /\ InOrder(swin')
        /\ Content(swin') = Content(swin) \union Content(f)
        /\ \A r \in Content(f) : r[1] = b
    BY <2>3, <2>4, AppendPart
  <2> HIDE DEF b
  <2>6. faults' \in 0 .. MaxFaults
    BY <1>1, <1>4 DEF FailAppend, Fault
  <2>7. RunInv' /\ UNCHANGED merged /\ todo' = {} /\ settled' = FALSE
    BY <1>4, <2>6, RunStays DEF FailAppend, files
  <2>8. SwinInv'
    <3>1. InOrder(swin)' /\ \A r \in Content(swin)' : merged'[r[1]] # NoFile
      BY <2>1, <2>5, <2>7, FileExists DEF SwinInv, InOrder, Content
    <3> QED
      BY <2>7, <3>1 DEF SwinInv
  <2>9. ExpTypeOK'
    BY <2>5, <2>7 DEF ExpTypeOK, RunInv
  <2> QED
    BY <2>7, <2>8, <2>9
<1>5. CASE RemoveSwin
  <2>1. RunInv' /\ UNCHANGED <<merged, todo>> /\ swin' = << >> /\ settled' = FALSE /\ todo = {}
    BY <1>1, <1>5, RunStays DEF RemoveSwin, runvars, files
  <2>2. InOrder(swin)' /\ Content(swin)' = {} /\ swin' \in Seq(Rec)
    BY <2>1, EmptyFile DEF InOrder, Content
  <2> QED
    BY <2>1, <2>2 DEF SwinInv, ExpTypeOK, RunInv
<1>6. CASE RunNext /\ Keep
  <2>1. RunInv'
    BY <1>6, RunStep
  <2>2. \A c \in Batches : merged[c] # NoFile => merged'[c] # NoFile
    BY <1>6, ReadyStep DEF RunInv
  <2>3. UNCHANGED <<swin, todo>> /\ (settled' => settled /\ \A c \in Batches : status'[c] = "done")
    BY <1>6 DEF Keep
  <2>4. \A r \in Content(swin) : r[1] \in Batches
    BY <1>1 DEF Content, Rec
  <2>5. SwinInv'
    BY <1>1, <2>2, <2>3, <2>4 DEF SwinInv, InOrder, Content
  <2>6. ExpTypeOK'
    BY <1>1, <1>6, <2>1, <2>3 DEF ExpTypeOK, RunInv, Keep
  <2> QED
    BY <2>1, <2>5, <2>6
<1>7. CASE UNCHANGED vars
  <2>1. RunInv'
    BY <1>1, <1>7, RunStays DEF vars, runvars, files
  <2> QED
    BY <1>7, <2>1 DEF vars, expvars, runvars, files, SwinInv, InOrder, Content, ExpTypeOK, RunInv
<1> QED
  BY <1>2, <1>3, <1>4, <1>5, <1>6, <1>7 DEF ExpNext

-----------------------------------------------------------------------------
(* Theorems *)

\* The invariant holds in every behaviour of the experiment.
THEOREM ExpInvariant == ExpSpec => []ExpInv
BY ExpInitial, SwinStep, PTL DEF ExpSpec

\* For any numbers of batches, groups, tasks, integrations, runs and failures,
\* every variable has its type.
THEOREM ExpTypeCorrect == ExpSpec => []ExpTypeOK
<1>1. ExpInv => ExpTypeOK
  BY DEF ExpInv
<1> QED
  BY <1>1, ExpInvariant, PTL

\* fxcorr-x only ever works on a group whose tasks have all ended well in this
\* run and whose files are still there.
THEOREM ExpXReadsWhole == ExpSpec => []XReadsWhole
<1>1. ExpInv => XReadsWhole
  BY DEF ExpInv, RunInv, RunTypeOK, TaskInv, XReadsWhole, InShard
<1> QED
  BY <1>1, ExpInvariant, PTL

\* The fengine files of a run with purging are those of at most PARALLEL groups.
THEOREM ExpFengineBounded == ExpSpec => []FengineBounded
<1>1. ASSUME ExpInv, PURGE, NEW b \in Batches
      PROVE  LET made == {g \in Groups :
                            /\ group[b][g] \notin {"waiting", "sharded", "killed"}
                            /\ \E t \in Tasks : fengine[b][g][t] # "none"}
             IN  made \subseteq Running(b) /\ Cardinality(made) <= PARALLEL
  <2> DEFINE made == {g \in Groups :
                        /\ group[b][g] \notin {"waiting", "sharded", "killed"}
                        /\ \E t \in Tasks : fengine[b][g][t] # "none"}
  <2>1. made \subseteq Running(b)
    BY <1>1 DEF ExpInv, RunInv, RunTypeOK, TaskInv, Running
  <2>2. IsFiniteSet(Running(b)) /\ Running(b) \subseteq Groups
    <3>1. IsFiniteSet(Groups)
      BY FS_Interval, RunBatchAssumption DEF Groups
    <3>2. Running(b) \subseteq Groups
      BY DEF Running
    <3> QED
      BY <3>1, <3>2, FS_Subset
  <2> HIDE DEF made
  <2>3. /\ Cardinality(made) <= Cardinality(Running(b))
        /\ Cardinality(made) \in Nat /\ Cardinality(Running(b)) \in Nat
    BY <2>1, <2>2, FS_Subset, FS_CardinalityType
  <2>4. Cardinality(Running(b)) <= PARALLEL /\ PARALLEL \in Nat
    BY <1>1, RunBatchAssumption DEF ExpInv, RunInv, PoolInv
  <2>5. Cardinality(made) <= PARALLEL
    BY <2>3, <2>4
  <2> QED
    BY <2>1, <2>5 DEF made
<1>2. ExpInv => FengineBounded
  BY <1>1 DEF FengineBounded
<1> QED
  BY <1>2, ExpInvariant, PTL

\* A batch that says "done" has all of its records in merged.part, once and in
\* order, whatever earlier runs left behind.
THEOREM ExpDoneIsWhole == ExpSpec => []DoneIsWhole
<1>1. ExpInv => DoneIsWhole
  BY DEF ExpInv, RunInv
<1> QED
  BY <1>1, ExpInvariant, PTL

\* The SWIN file never has a record twice or one that is earlier than the one
\* before it.
THEOREM ExpSwinInOrder == ExpSpec => []SwinInOrder
<1>1. ExpInv => SwinInOrder
  BY DEF ExpInv, SwinInv, SwinInOrder
<1> QED
  BY <1>1, ExpInvariant, PTL

\* A merge that ended, with every batch done since before it began, has
\* written everything.
THEOREM ExpSwinWhole == ExpSpec => []SwinWhole
<1>1. ASSUME ExpInv, settled, todo = {} PROVE Content(swin) = Rec
  <2>1. Content(swin) \subseteq Rec
    BY <1>1 DEF ExpInv, ExpTypeOK, Content
  <2>2. \A b \in Batches : Whole(b) \subseteq Content(swin)
    BY <1>1 DEF ExpInv, SwinInv
  <2>3. \A r \in Rec : r[1] \in Batches /\ r \in Whole(r[1])
    BY DEF Rec, Whole
  <2> QED
    BY <2>1, <2>2, <2>3
<1>2. ExpInv => SwinWhole
  BY <1>1 DEF SwinWhole
<1> QED
  BY <1>2, ExpInvariant, PTL
=============================================================================
