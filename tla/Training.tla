------------------------------ MODULE Training ------------------------------
(***************************************************************************)
(* A training job of several data-parallel ranks that saves checkpoints,   *)
(* is killed and is started again: the loop of gpt2/main.cc and            *)
(* llama3/main.cc, checkpoint.cc and checkpoint_manager.cc, with the       *)
(* batches of DataLoader.                                                  *)
(*                                                                         *)
(* Parameters are the history of the updates made to them: what each       *)
(* update averaged, with which rate, at which optimizer step.  Two models  *)
(* are equal exactly if their histories are.  A scheduler is the number of *)
(* steps it has taken: that its rates are a function of that number, saved *)
(* and loaded or not, is LRScheduler's property.  The ranks are those of   *)
(* the data-parallel group, 0 the main one.                                *)
(***************************************************************************)
EXTENDS Integers, Sequences, FiniteSets, FiniteSetsExt, DataLoader

CONSTANTS
    World,         \* data-parallel ranks
    NumIteration,  \* FLAGS_num_iteration
    SaveInterval,  \* FLAGS_save_interval
    MaxKeep,       \* FLAGS_max_checkpoint_keep; 0 keeps all
    TotalBatch,    \* samples of one step, over all ranks
    DatasetSize,
    MaxLaunches,   \* bound: how often the job is started
    Options,       \* [optimizer, scheduler] to try
    FreshRoots     \* every launch saves under a directory of its own

Ranks == 0..World - 1

(* Batch sizes a launch may give its loader: per micro-step without        *)
(* pipeline parallelism, the whole step's with it.                         *)
LoaderBatches == {b \in 1..TotalBatch : TotalBatch % (b * World) = 0}

ASSUME TrainingAssumption ==
    /\ World \in Nat \ {0} /\ NumIteration \in Nat /\ SaveInterval \in Nat \ {0}
    /\ MaxKeep \in Nat /\ MaxLaunches \in Nat \ {0}
    /\ TotalBatch \in Nat \ {0} /\ TotalBatch % World = 0
    /\ DatasetSize \in Nat /\ DatasetSize >= TotalBatch * NumIteration
    /\ Options \subseteq [optimizer : {"sgd", "adam"}, scheduler : BOOLEAN]

VARIABLES
    options,  \* the same in every launch
    launch,   \* how often the job was started
    batch,    \* train_loader_batch_size of this launch
    load,     \* the directory given as --load, or NoDir
    disk,     \* directory, rank -> its files
    pc, step, consumed, iter, params, optStep, sched, grads,
    saved     \* files of the checkpoint in progress a rank has written

vars == <<options, launch, batch, load, disk,
          pc, step, consumed, iter, params, optStep, sched, grads, saved>>

NoDir == [root |-> 0, step |-> 0]
Root == IF FreshRoots THEN launch ELSE 1
StepDir(r) == [root |-> Root, step |-> step[r]]

(***************************************************************************)
(* The files of one rank in one checkpoint directory, in the order         *)
(* Checkpoint::Save writes them.  SGD has no state, and the optimizer's    *)
(* file is then not written; "none" has no scheduler.                      *)
(***************************************************************************)
HasState == options.optimizer = "adam"

SaveOrderStateFirst ==
    <<"trainer_state", "model">> \o (IF HasState THEN <<"optimizer">> ELSE <<>>)
                                \o (IF options.scheduler THEN <<"lr_scheduler">> ELSE <<>>)

SaveOrder ==
    <<"model">> \o (IF HasState THEN <<"optimizer">> ELSE <<>>)
                \o (IF options.scheduler THEN <<"lr_scheduler">> ELSE <<>>)
                \o <<"trainer_state">>

FileNames == {"model", "optimizer", "lr_scheduler", "trainer_state"}

Absent  == [status |-> "absent", content |-> <<>>]
Partial == [status |-> "partial", content |-> <<>>]
Complete(content) == [status |-> "complete", content |-> content]
NoFiles == [f \in FileNames |-> Absent]

(* rank_dir exists once Save has created it. *)
Files(d, r) == IF <<d, r>> \in DOMAIN disk THEN disk[<<d, r>>] ELSE NoFiles

(* What Save writes into file f of rank r. *)
Content(f, r) ==
    CASE f = "model"         -> params[r]
      [] f = "optimizer"     -> optStep[r]
      [] f = "lr_scheduler"  -> sched[r]
      [] f = "trainer_state" -> [step |-> step[r], consumed |-> consumed[r], ddp |-> World]

Written(dk, d, r, f, file) ==
    [k \in DOMAIN dk \cup {<<d, r>>} |->
        IF k = <<d, r>>
        THEN [(IF k \in DOMAIN dk THEN dk[k] ELSE NoFiles) EXCEPT ![f] = file]
        ELSE dk[k]]

(* A directory a user takes for a whole checkpoint: trainer_state.json,    *)
(* which is written last, is there and not empty for every rank.           *)
WholeDirs(dk) ==
    {d \in {k[1] : k \in DOMAIN dk} :
        \A r \in Ranks : <<d, r>> \in DOMAIN dk
                         /\ dk[<<d, r>>]["trainer_state"].status = "complete"}

-----------------------------------------------------------------------------
NoGrads == [samples |-> {}, reads |-> 0]

(* Train up to ResumeFromCheckpoint: a new model, optimizer and scheduler. *)
Started(r) == [pc |-> "resume", step |-> 0, consumed |-> 0, iter |-> LoaderBegin(r),
               params |-> <<>>, optStep |-> 0, sched |-> 0]

Init ==
    /\ options \in Options
    /\ launch = 1 /\ batch \in LoaderBatches /\ load = NoDir
    /\ disk = [k \in {} |-> NoFiles]
    /\ pc = [r \in Ranks |-> "resume"]
    /\ step = [r \in Ranks |-> 0] /\ consumed = [r \in Ranks |-> 0]
    /\ iter = [r \in Ranks |-> LoaderBegin(r)]
    /\ params = [r \in Ranks |-> <<>>] /\ optStep = [r \in Ranks |-> 0]
    /\ sched = [r \in Ranks |-> 0]
    /\ grads = [r \in Ranks |-> NoGrads] /\ saved = [r \in Ranks |-> 0]

(***************************************************************************)
(* ResumeFromCheckpoint, then the skipping of batches.  A missing or       *)
(* damaged file, other sizes, or samples that do not divide end the        *)
(* process.  Of a model or optimizer file cut short only the headers are   *)
(* checked: if it was cut in the last tensor's data it loads, wrongly.     *)
(***************************************************************************)
Garbage == <<[damaged |-> TRUE]>>

Loadable(file, garbage) ==
    CASE file.status = "complete" -> {file.content}
      [] file.status = "partial"  -> garbage
      [] file.status = "absent"   -> {}

Abort(r) ==
    /\ pc' = [pc EXCEPT ![r] = "failed"]
    /\ UNCHANGED <<step, consumed, iter, params, optStep, sched>>

ResumeFromCheckpoint(r) ==
    LET files == Files(load, r)
        state == files["trainer_state"].content
    IN
    /\ pc[r] = "resume"
    /\ \/ /\ load = NoDir
          /\ pc' = [pc EXCEPT ![r] = "train"]
          /\ UNCHANGED <<step, consumed, iter, params, optStep, sched>>
       \/ /\ load # NoDir
          /\ files["trainer_state"].status = "complete"
          /\ files["lr_scheduler"].status # "partial"
          /\ state.ddp = World /\ SkipsAligned(state.consumed, batch, World)
          /\ \E p \in Loadable(files["model"], {Garbage}),
                t \in IF HasState THEN Loadable(files["optimizer"], {-1}) ELSE {0} :
                /\ params' = [params EXCEPT ![r] = p]
                /\ optStep' = [optStep EXCEPT ![r] = t]
          /\ sched' = IF options.scheduler /\ files["lr_scheduler"].status = "complete"
                      THEN [sched EXCEPT ![r] = files["lr_scheduler"].content]
                      ELSE sched
          /\ step' = [step EXCEPT ![r] = state.step]
          /\ consumed' = [consumed EXCEPT ![r] = state.consumed]
          /\ iter' = [iter EXCEPT ![r] =
                          LoaderAt(r, state.consumed, DatasetSize, batch, World)]
          /\ pc' = [pc EXCEPT ![r] = "train"]
       \/ /\ load # NoDir
          /\ \/ files["trainer_state"].status # "complete"
             \/ files["lr_scheduler"].status = "partial"
             \/ files["model"].status # "complete"
             \/ HasState /\ files["optimizer"].status # "complete"
             \/ /\ files["trainer_state"].status = "complete"
                /\ state.ddp # World \/ ~SkipsAligned(state.consumed, batch, World)
          /\ Abort(r)
    /\ UNCHANGED <<options, launch, batch, load, disk, grads, saved>>

(***************************************************************************)
(* The micro-steps of one step: read a batch, move on, add its gradients.  *)
(* The ranks meet in their reductions, which Reducer models; here they     *)
(* meet once, in OptimizerStep.                                            *)
(***************************************************************************)
LastStepLate(s) == s > NumIteration

(* last_step of the training loop. *)
LastStep(s) == s = NumIteration

MicroSteps == TotalBatch \div (batch * World)

ForwardBackward(r) ==
    LET read[n \in 0..MicroSteps] ==
            IF n = 0 THEN [iter |-> iter[r], grads |-> NoGrads]
            ELSE LET p == read[n - 1]
                     b == LoaderBatch(p.iter, DatasetSize, batch)
                 IN  [iter  |-> LoaderNext(p.iter, World, DatasetSize, batch),
                      grads |-> [samples |-> p.grads.samples \cup b,
                                 reads   |-> p.grads.reads + Cardinality(b)]]
    IN
    /\ pc[r] = "train" /\ ~LastStep(step[r])
    /\ iter' = [iter EXCEPT ![r] = read[MicroSteps].iter]
    /\ grads' = [grads EXCEPT ![r] = read[MicroSteps].grads]
    /\ consumed' = [consumed EXCEPT ![r] = @ + MicroSteps * batch * World]
    /\ pc' = [pc EXCEPT ![r] = "reduce"]
    /\ UNCHANGED <<options, launch, batch, load, disk,
                   step, params, optStep, sched, saved>>

(* The update all ranks make of the averaged gradients. *)
Update(r) ==
    [lr      |-> sched[r],
     samples |-> UNION {grads[q].samples : q \in Ranks},
     reads   |-> MapThenSumSet(LAMBDA q : grads[q].reads, Ranks),
     optStep |-> optStep'[r]]

SavesNow(s) == s % SaveInterval = 0 \/ LastStep(s)

(***************************************************************************)
(* Optimizer Step, scheduler Step, and the all-reduce of the loss, which   *)
(* no rank leaves before all have come to it.                              *)
(***************************************************************************)
OptimizerStep ==
    /\ \A r \in Ranks : pc[r] = "reduce"
    /\ optStep' = [r \in Ranks |-> IF HasState THEN optStep[r] + 1 ELSE 0]
    /\ params' = [r \in Ranks |-> Append(params[r], Update(r))]
    /\ sched' = [r \in Ranks |-> IF options.scheduler THEN sched[r] + 1 ELSE 0]
    /\ step' = [r \in Ranks |-> step[r] + 1]
    /\ pc' = [r \in Ranks |-> IF SavesNow(step[r] + 1) THEN "save" ELSE "train"]
    /\ grads' = [r \in Ranks |-> NoGrads]
    /\ UNCHANGED <<options, launch, batch, load, disk, consumed, iter, saved>>

(***************************************************************************)
(* SaveCheckpoint: every rank writes its files one after the other, each   *)
(* truncated first; the main rank then prunes.                             *)
(***************************************************************************)
NextFile(r) == SaveOrder[saved[r] + 1]

AfterSave(r) == IF r = 0 THEN "prune" ELSE "train"

WriteFile(r) ==
    /\ pc[r] = "save"
    /\ disk' = Written(disk, StepDir(r), r, NextFile(r), Complete(Content(NextFile(r), r)))
    /\ LET last == saved[r] + 1 = Len(SaveOrder) IN
       /\ saved' = [saved EXCEPT ![r] = IF last THEN 0 ELSE @ + 1]
       /\ pc' = [pc EXCEPT ![r] = IF last THEN AfterSave(r) ELSE @]
    /\ UNCHANGED <<options, launch, batch, load,
                   step, consumed, iter, params, optStep, sched, grads>>

PrunedOneMore ==
    LET dirs == {d \in {k[1] : k \in DOMAIN disk} : d.root = Root}
    IN  IF MaxKeep = 0 THEN {}
        ELSE {d \in dirs : Cardinality({e \in dirs : e.step > d.step}) + 1 >= MaxKeep}

(* The directories beyond the newest MaxKeep, by name and so by step. *)
Pruned ==
    LET dirs == {d \in {k[1] : k \in DOMAIN disk} : d.root = Root}
    IN  IF MaxKeep = 0 THEN {}
        ELSE {d \in dirs : Cardinality({e \in dirs : e.step > d.step}) >= MaxKeep}

Prune ==
    /\ pc[0] = "prune"
    /\ disk' = [k \in {j \in DOMAIN disk : j[1] \notin Pruned} |-> disk[k]]
    /\ pc' = [pc EXCEPT ![0] = "train"]
    /\ UNCHANGED <<options, launch, batch, load,
                   step, consumed, iter, params, optStep, sched, grads, saved>>

Finish(r) ==
    /\ pc[r] = "train" /\ LastStep(step[r])
    /\ pc' = [pc EXCEPT ![r] = "done"]
    /\ UNCHANGED <<options, launch, batch, load, disk,
                   step, consumed, iter, params, optStep, sched, grads, saved>>

-----------------------------------------------------------------------------
(***************************************************************************)
(* The job dies: a signal, a lost node, or a rank that failed and whose    *)
(* launcher ends the others.  A file being written may be cut short, and   *)
(* of a directory being removed some file may be gone already.             *)
(***************************************************************************)
Crash ==
    LET saving   == {r \in Ranks : pc[r] = "save"}
        removing == IF pc[0] = "prune"
                    THEN {k \in DOMAIN disk : k[1] \in Pruned} ELSE {}
    IN
    /\ launch < MaxLaunches
    /\ \E r \in Ranks : pc[r] \notin {"down", "done"}
    /\ \E cut \in SUBSET saving, gone \in SUBSET (removing \X FileNames) :
          /\ Cardinality(gone) <= 1
          /\ disk' = [k \in DOMAIN disk \cup {<<StepDir(r), r>> : r \in cut} |->
                        [f \in FileNames |->
                            IF \E r \in cut : k = <<StepDir(r), r>> /\ f = NextFile(r)
                            THEN Partial
                            ELSE IF <<k, f>> \in gone \/ k \notin DOMAIN disk THEN Absent
                            ELSE disk[k][f]]]
    /\ pc' = [r \in Ranks |-> "down"]
    /\ UNCHANGED <<options, launch, batch, load,
                   step, consumed, iter, params, optStep, sched, grads, saved>>

(* The user starts the job again from the newest whole checkpoint, or from *)
(* nothing, with any loader batch size.                                    *)
Relaunch ==
    LET whole  == WholeDirs(disk)
        newest == {d \in whole : \A e \in whole :
                      e.step < d.step \/ (e.step = d.step /\ e.root <= d.root)}
    IN
    /\ \A r \in Ranks : pc[r] = "down"
    /\ launch' = launch + 1
    /\ load' \in IF newest = {} THEN {NoDir} ELSE newest
    /\ batch' \in LoaderBatches
    /\ LET new == [r \in Ranks |-> Started(r)] IN
       /\ pc' = [r \in Ranks |-> new[r].pc]
       /\ step' = [r \in Ranks |-> new[r].step]
       /\ consumed' = [r \in Ranks |-> new[r].consumed]
       /\ iter' = [r \in Ranks |-> new[r].iter]
       /\ params' = [r \in Ranks |-> new[r].params]
       /\ optStep' = [r \in Ranks |-> new[r].optStep]
       /\ sched' = [r \in Ranks |-> new[r].sched]
    /\ grads' = [r \in Ranks |-> NoGrads] /\ saved' = [r \in Ranks |-> 0]
    /\ UNCHANGED <<options, disk>>

(* The job is over: done, or aborted by a rank for good. *)
Terminated ==
    /\ \/ \A r \in Ranks : pc[r] = "done"
       \/ launch = MaxLaunches /\ \E r \in Ranks : pc[r] = "failed"
    /\ UNCHANGED vars

RankStep(r) == ResumeFromCheckpoint(r) \/ ForwardBackward(r) \/ WriteFile(r) \/ Finish(r)

(* What the job does unless it is killed. *)
Progress == (\E r \in Ranks : RankStep(r)) \/ OptimizerStep \/ Prune \/ Relaunch

Next == Progress \/ Crash \/ Terminated

(* Some rank that can run does, and a job that died is started again.  It  *)
(* is weaker than fairness to each rank, and enough: no step can be taken  *)
(* for ever.                                                               *)
Spec == Init /\ [][Next]_vars /\ WF_vars(Progress)

-----------------------------------------------------------------------------
TypeOK ==
    /\ options \in Options
    /\ launch \in 1..MaxLaunches /\ batch \in LoaderBatches
    /\ load = NoDir \/ load.step \in 1..NumIteration
    /\ \A k \in DOMAIN disk : k[1].step \in 1..NumIteration /\ k[2] \in Ranks
    /\ pc \in [Ranks -> {"resume", "train", "reduce", "save", "prune", "done", "down", "failed"}]
    /\ step \in [Ranks -> 0..NumIteration]
    /\ \A r \in Ranks : saved[r] < Len(SaveOrder)

(* The parameters of a job that was never interrupted. *)
ExpectedUpdate(k) ==
    [lr      |-> IF options.scheduler THEN k - 1 ELSE 0,
     samples |-> (k - 1) * TotalBatch .. k * TotalBatch - 1,
     reads   |-> TotalBatch,
     optStep |-> IF HasState THEN k ELSE 0]

(* Killed at any moment and resumed from the newest checkpoint whose       *)
(* trainer_state.json every rank has (ResumeFromCheckpoint), with another  *)
(* batch size, a job trains on exactly the samples, learning rates and     *)
(* optimizer state it would have had uninterrupted.                        *)
ResumesExactly ==
    \A r \in Ranks : pc[r] \in {"train", "reduce", "save", "prune", "done"} =>
        params[r] = [k \in 1..step[r] |-> ExpectedUpdate(k)]

Restorable(dk) ==
    {d \in WholeDirs(dk) : \A r \in Ranks, i \in DOMAIN SaveOrder :
        dk[<<d, r>>][SaveOrder[i]].status = "complete"}

(* Once there is a checkpoint the job can be restored from, SaveCheckpoint *)
(* and its pruning always leave one, whoever is still writing.             *)
CheckpointSurvives == [][Restorable(disk) # {} => Restorable(disk') # {}]_vars

(* Whatever is killed, a resumed job passes every check of                 *)
(* ResumeFromCheckpoint and trains to the end.                             *)
TrainingCompletes == <>(\A r \in Ranks : pc[r] = "done")
=============================================================================
