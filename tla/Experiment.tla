----------------------------- MODULE Experiment -----------------------------
(***************************************************************************)
(* The batches of an experiment (RunBatch) and "fxcorr-x merge             *)
(* --experiment" (doMergeExperiment), which appends the merged.part of     *)
(* each batch to the SWIN file.  Nothing keeps the two apart but the files *)
(* themselves: a batch may be run again while its merged.part is read, and *)
(* a merge may be repeated.                                                *)
(*                                                                         *)
(* Assumed: one merge of the experiment runs at a time, with               *)
(* FXCORR_X_SWIN_CONFLICT unset, and no fxcorr-x without a group, which    *)
(* writes into the SWIN file too.                                          *)
(***************************************************************************)
EXTENDS RunBatch

VARIABLES
  swin,      \* the records in the SWIN file
  todo,      \* batches the running merge has still to append
  settled    \* history: every batch has been done since the last merge began

expvars == <<swin, todo, settled>>
vars == <<runvars, expvars>>

ExpInit == Init /\ swin = <<>> /\ todo = {} /\ settled = FALSE

Ready == {b \in Batches : merged[b] # NoFile}

First(S) == CHOOSE b \in S : \A c \in S : b <= c
Last(S) == CHOOSE b \in S : \A c \in S : c <= b

MutSwinHas(S) == \E i \in DOMAIN swin : swin[i][1] = First(S)

\* swinHasBatchRange, over the time from the first to the last of these batches
SwinHas(S) == \E i \in DOMAIN swin : swin[i][1] \in First(S) .. Last(S)

\* All that is checked before the SWIN file is touched: every batch has a
\* merged.part (or FXCORR_X_MERGE_FORCE is set), with a first record to find
\* its time, and the SWIN file has nothing of that time yet.
BeginMerge(forced) ==
  /\ todo = {}
  /\ Ready # {}
  /\ Ready = Batches \/ forced
  /\ \A b \in Ready : merged[b] # <<>>
  /\ ~SwinHas(Ready)
  /\ todo' = Ready
  /\ settled' = \A b \in Batches : status[b] = "done"
  /\ UNCHANGED <<swin, runvars>>

\* The batches in order of time, each read as its file is by then.
AppendBatch ==
  /\ todo # {}
  /\ swin' = swin \o merged[First(todo)]
  /\ todo' = todo \ {First(todo)}
  /\ UNCHANGED <<settled, runvars>>

\* A write fails or the merge is killed: what was written stays.
FailAppend ==
  /\ todo # {}
  /\ Fault
  /\ \E n \in 0 .. Len(merged[First(todo)]) :
       swin' = swin \o SubSeq(merged[First(todo)], 1, n)
  /\ todo' = {}
  /\ settled' = FALSE
  /\ UNCHANGED <<status, pc, group, task, files, runs>>

\* "Remove or rename the SWIN file if you really mean to redo it."
RemoveSwin ==
  /\ todo = {}
  /\ swin # <<>>
  /\ swin' = <<>>
  /\ settled' = FALSE
  /\ UNCHANGED <<todo, runvars>>

\* A step of a batch.
Keep ==
  /\ settled' = (settled /\ \A b \in Batches : status'[b] = "done")
  /\ UNCHANGED <<swin, todo>>

ExpNext ==
  \/ \E forced \in BOOLEAN : BeginMerge(forced)
  \/ AppendBatch
  \/ FailAppend
  \/ RemoveSwin
  \/ RunNext /\ Keep

ExpSpec == ExpInit /\ [][ExpNext]_vars

\* A program that was started runs until it ends.
FairExpSpec == ExpSpec /\ \A b \in Batches : WF_vars(Step(b) /\ Keep)

-----------------------------------------------------------------------------
(* Properties *)

\* Every variable has its type.
ExpTypeOK ==
  /\ RunTypeOK
  /\ swin \in Seq(Rec) /\ todo \subseteq Batches /\ settled \in BOOLEAN

\* However often merges are repeated, forced, or cut short, and batches are run
\* again meanwhile, the SWIN file has no record twice and none that is earlier
\* than the one before it (difx2fits would drop it).
SwinInOrder == InOrder(swin)

\* A merge that ended, with every batch done since before it began, has
\* written everything.
SwinWhole == settled /\ todo = {} => Content(swin) = Rec

\* Every run of the script comes to its end: the pools let every group and
\* every task in.
RunEnds == \A b \in Batches : pc[b] # "idle" ~> pc[b] = "idle"
=============================================================================
