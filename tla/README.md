# Verification of InfiniTrain

TLA+ models of InfiniTrain: which gradients reach the optimizer and in which
order collectives and transfers are issued, how processes find each other and
how a job survives being killed, and whether what a rank computes, loads and
saves is what one process alone would. TLC checks the models on small
instances; TLAPS proves the central properties of eight of them for every size.

Paths below are relative to the repository; `nn/`, `autograd/` and so on stand
for `infini_train/src/nn/`, `infini_train/src/autograd/`.

## 1. The system

One host thread drives one device: a *rank*. Processes are forked by
`tools/infini_run`; inside a process the examples start one thread per device.
Ranks do not share tensors. They meet in the collectives and transfers of a
`ProcessGroup`, which enqueues work on a communication stream of its own per
device. `Work::WaitNonBlocking` makes the compute stream wait for the
communication stream; the host goes on. So what interleaves is: ranks with each
other, on each rank the compute stream with the communication stream, the
processes of a run with each other and with their launchers, and a job with
its earlier launches over what they left on disk.

| Component | State it keeps | Operations | Modelled |
|---|---|---|---|
| Autograd engine (`autograd/function.cc`, `accumulate.cc`, `tensor.cc`) | functions with `next_functions_`, dependency counts, pending gradients; `grad`, accumulator and overwrite flag of a tensor | `Apply`, `BackwardPartial` (recursive), `AccumulateGrad::Backward`, `Tensor::Backward`, `ZeroGrad`; calls DDP's hooks | partly |
| Autograd functions (`autograd/*.cc`) | tensors saved for backward | `Forward`, `SetupContext`, `Backward` of every function | partly |
| Kernels and dispatcher (`kernels/`) | none | arithmetic on CPU and CUDA | partly |
| Bucket assignment (`nn/parallel/ddp/reducer.cc`) | none | `ComputeBucketAssignmentBySize`, by DDP's constructor and `RebuildBuckets` | modelled |
| DDP Reducer (`reducer.cc`, `distributed_data_parallel.cc`) | buckets (contents, pending count, work), `next_bucket_`, recorded ready order, rebuild flags | `PrepareForBackward`, `MarkVariableReadyDense`, `MarkBucketReady`, `FinalizeBucketDense`, `FinalizeBackward`, `RebuildBuckets`; called by autograd's hook | partly |
| ZeRO buffers and distributed optimizer (`param_and_grad_buffer.cc`, `distributed_optimizer.cc`) | flat buffers, bucket groups with dispatched flags and work lists, shard tensors | `RegisterGradReady`, `AccumulateParamGrad`, `StartGradSync`, `FinishGradSync`, `StartParamSync`, `FinishParamSync`, `Reset`, `ClipGradNorm_`, `Step`, `ZeroGrad` | partly |
| Pipeline parallelism (`nn/parallel/pp/`) | the schedule, activations per chunk and micro-batch | `GenerateGPipeSchedule`, `GenerateInterleaved1F1BSchedule`, `StepMicroBatches`, `Step`, `ISend`/`IRecv` in both directions | partly |
| Pipeline layout (`pipeline_layout.cc`) | chunks per stage | building, parsing, suggestion, validation; read by the model, the pipeline wrapper and the schedulers | modelled |
| Process groups (`process_group.cc`, `core/ccl/`) | named groups, communicators, files with unique ids | `GetOrCreate`, `CommInitRank`, `ReadUniqueId`, `WriteUniqueId`, clean-up | partly |
| Global environment, rank layout (`global.cc`, `rank.cc`) | sizes of the axes, rank arithmetic | `RankOf`, `CoordOf`, `GroupId`, `GroupRanks` | modelled |
| Launcher (`tools/infini_run`) | set of children | fork, wait, terminate | modelled |
| Checkpointing (`checkpoint/`) | directories and their files, training state | save, prune, resume | partly |
| Data loading (`dataloader.cc`) | position | iteration per rank, batches to skip | partly |
| Optimizers (`optimizer.cc`) | moments, step counts | `Step`, `ZeroGrad`, `ClipGradNorm_`, `StateDict` | partly |
| Learning-rate schedulers (`lr_scheduler.cc`) | last step, rates, children | `Step`, `StateDict`, `LoadStateDict` | modelled |
| Tensor and sequence parallelism (`tensor_parallel.cc`) | each rank's part of a weight | column-, row- and vocabulary-parallel layers, copy, gather, scatter, reduce, cross entropy | partly |
| Modules, transformer, mixture of experts (`nn/modules/`) | parameters | constructors and `Forward` | partly |
| LoRA (`nn/lora/`) | adapters, merged flag, which parameters train | injection, freezing, `Forward`, merge, unmerge, save, load | partly |
| Example programs (`example/`) | training loop, model files | loops, `LoadFromLLMC` | partly |
| `Work`; parameter-server data parallelism; device runtime and CCL backends; autocast, hooks, precision checker, profiler | — | see section 7 | no |

What is hard, and what each part has to get right:

- **Autograd.** The engine is recursive and counts dependencies, and it
  accumulates gradients in place while handing the same tensor to several
  consumers. Right means: every function runs once, with the whole gradient,
  and nothing is left over for the next pass.
- **Reducer.** Buckets become ready in any order and are reduced
  asynchronously in place; gradients may be null, views or copies; buckets are
  rebuilt once, possibly between micro-steps; several forwards may precede a
  backward. Right means: the optimizer reads the average of exactly this
  step's rounds, and ranks issue the same collectives in the same order.
- **ZeRO.** The same, with reductions dispatched from hooks, flags that
  remember what was dispatched, temporary buffers that come and go, and
  parameters gathered behind the host's back.
- **Pipeline.** Untagged transfers both ways between stages, several chunks per
  stage. Right means: every task gets its own input and no cycle of waiting
  stages.
- **Process groups and launcher.** Threads of a process race for a group,
  processes meet over files in a directory earlier runs have used, and any of
  them may die. Right means: the members of a group agree on their ranks and on
  one id of this run, or the run ends.
- **Checkpointing.** A job may be killed between any two files. Right means: it
  resumes as if it had never stopped, and pruning never costs it the last
  checkpoint.
- **What ranks compute.** A kernel has a CPU and a CUDA form, a function a
  hand-written backward, a layer a form for each number of ranks, a weight file
  a reader for each layout. Right means: the forms agree.

`PROJECT.json` lists every component with what is left out of it, and every
hazard at its line.

## 2. The plan

The first plan was: data-parallel reduction and the engine that feeds it;
pipeline; ZeRO; process groups with launcher; checkpoints; then the pure
algorithms from layouts and rates to kernels, layers and files. All of it is
done. What is left, most useful first:

1. In `Reducer` and `DistributedOptimizer`: parameters that take no part in a
   round (experts no token is sent to), and the norm's reductions across
   pipeline stages when one stage has no gradients.
2. `PipelineParallel` with a layout that has empty chunks, in `Pipeline`.
3. `Work`'s status flags, once something in the training path reads them.

Every safety property the runs check of a state machine is proved (section 5);
what these points add to the models extends the same inductive invariants. Of
the algorithms, buckets, ZeRO's layout, schedules and rates are proved too.
Theorems worth proving next are about `BuildDefault`, whose chunks `Pipeline`
takes for granted.

## 3. The modules

### BucketAssignment, Reducer

`BucketAssignment` translates `ComputeBucketAssignmentBySize` step by step: one
open bucket and one limit index per (device, dtype) key. `RebuiltAssignment`
keeps what `RebuildBuckets` does: it passes both the permuted tensors and the
permutation, which the callee applies again, so sizes are accounted to other
parameters. Rebuilt buckets are still a partition, which the Reducer relies on,
but may exceed their limits.

`Reducer` extends it and has one action per operation and rank.

| Action | Code |
|---|---|
| `PrepareForBackward` | `DistributedDataParallel::Forward`, `Reducer::PrepareForBackward`, `RebuildBuckets` |
| `MarkVariableReadyDense` | `AccumulateGrad::Backward` and its hook: `MarkVariableReadyDense`, `MarkBucketReady`, `FinalizeBucketDense` |
| `FinalizeBackward` | the same, called by the hook that launched the last bucket |
| `BackwardReturns` | `loss->Backward()` returns without a finalize |
| `OptimizerStep`, `StartStep` | the loop of `example/gpt2/main.cc`: `Step`, loss all-reduce and read-back, `ZeroGrad` |
| `AllReduceCompletes` | the collective at the head of every rank's communication stream |

Host and compute stream of a rank are one process, because the host reads no
device memory inside a round; waiting for a `Work` is a guard of the action
that follows. Gradients are abstracted to the set of backward rounds they sum,
split into rounds already averaged and rounds of this rank alone; averaging
unequal or already invalid slices gives `Junk`, the value of uninitialised
memory. That is enough to see a round that is missing, counted twice, stale, or
not averaged. The mutex of the Reducer is not modelled: only the rank's own
thread takes it.

### Autograd

A behaviour applies functions (kernels that return fresh gradients, `add`,
views, and functions with two outputs) to leaves and earlier results, and calls
`Backward` on results; more graphs may be built over the same leaves
afterwards. The recursion of `BackwardPartial` is a stack of deliveries. What
matters of a tensor is its buffer: a heap holds a number per buffer and every
derivative is one, so the right gradient of a node is the number of paths that
lead to it, which is the reference definition `Gradient`.

`Add::Backward` hands the same tensor to both inputs and later contributions
are added in place. This is harmless for `x + f(..x..)` where `f` ends in a
kernel whose result is used nowhere else, the form a residual connection has,
and `autograd.cfg` checks exactly that (`ResidualOnly`). With
`ResidualOnly = FALSE` TLC finds `FullGradientsOnly` violated: for other
operands of an `add` a gradient can be corrupted.

### PipelineSchedule, PipelineDataflow, Pipeline, PipelineLayout

`PipelineSchedule` states both schedules as sets of tasks and an order.
`PipelineDataflow` is what a pipeline promises: each chunk runs forward and
backward once per micro-batch and iteration, after the task it needs.
`Pipeline` runs the GPipe program of every stage (the one `StepMicroBatches`
uses) over channels. A program is a set of operations, each with the phase, the
task and the number that order it; the next one of a stage is the least that is
left. A stage enqueues all its transfers on one stream its
compute stream waits for, so it is a sequential program. A send is either
buffered, up to `capacity` messages per pair of stages, or, with capacity 0, a
rendezvous; NCCL promises no buffering. Refinement: `shape` is the
configuration, `ran` the tasks that have run.

`PipelineLayout` is how layers and the special modules get to stages: the
default layout, one given as a partition, one in the Megatron style (with its
repetitions expanded), and one suggested for the costs of the layers; then the
validation, and what the model's constructor, the pipeline wrapper and the
schedulers each read from it. `LayersPlaced` compares these readers.

### ParamAndGradBuffer, DistributedOptimizer

`ParamAndGradBuffer` is the layout: padding of parameter starts and bucket
ends, and the shards cut from it. `DistributedOptimizer` is the life of the
gradients: the forward with `RebindGradViews`, both kinds of hook
(`AccumulateGrad`), `StartGradSync`/`FinishGradSync` as operators shared by
hook, `ClipGradNorm_` and `Step`, the gather, and `ZeroGrad` with every `Reset`.
A parameter of the model is a run of elements inside one rank's shard. Loops over
the bucket groups visit them in the order of `bucket_groups_` (`Sorted`). `config`
is picked at the start: stage, both overlap settings, micro-steps per step,
clipping. Gradient values also count how often they were scaled by a clipping
coefficient.

### RankLayout, ProcessGroups

`RankLayout` is the arithmetic of `global.cc` and `rank.cc`. `ProcessGroups` is
a run of the launcher from fork to the last wait, on one node or two.

| Action | Code |
|---|---|
| `Fork`, `ForkFails`, `Reap`, `LauncherExits` | `infini_run.cc`: the loop over `fork`, the loop over `waitpid`, the termination of the other children, the exit code |
| `GetsGroup`, `CreatesGroup`, `PublishGroup` | `ProcessGroupFactory::GetOrCreate`: found, placeholder put in the map, group put in its place and waiters woken |
| `WriteTmpFile`, `RenameTmpFile`, `PollFile`, `ReadFile` | `WriteUniqueId`, `ReadUniqueId` in `core/ccl/ccl_utils.cc` |
| `CommInitRank`, `CommunicatorReady` | the communicator's initialisation, complete when all members have called it |
| `Train`, `Exit`, `Kill` | a collective over all ranks; the destructors, which remove the id file; death at any moment |

Files are shared by all nodes and may hold what an earlier run left. Their
names carry the run's id, and so does `WriteUniqueId`'s temporary file.

### LRScheduler, DataLoader, Training

`LRScheduler` has every scheduler, alone, in sequence and chained, with what a
checkpoint keeps of them. Rates are integers and factors fractions; the
instances choose rates every factor divides. `DataLoader` says which samples a
rank's iterator gives, and what is skipped after a resume.

`Training` composes them with the loops of `gpt2/main.cc` and `llama3/main.cc`
and with `checkpoint.cc` and `checkpoint_manager.cc`. Parameters are the history
of the updates made to them (samples averaged, rate, optimizer step), so two
models are equal exactly if their histories are. A file is written in two steps
so that a crash can leave half of one; ranks save on their own; rank 0 prunes,
a directory at a time, a file at a time. `Crash` is enabled in every state while
launches are left; `Relaunch` picks another loader batch size and resumes from
the latest directory all ranks can read. `FreshRoots` says that every launch
saves under a root of its own, as a `run_id` in the path makes it.

### Tensors, the kernels, AutogradFunctions

`Tensors` has dims and a contiguous buffer. An element is a dual number over the
integers modulo 251: exact, finite, and carrying next to each value its change
along a direction, so that one run yields a function and what its gradient must
predict. `DataKernels`, `ElementwiseKernels`, `MatrixKernels` and
`ReductionKernels` have the CPU kernels as their loops and the CUDA kernels as
what a thread does with its index: vectorised loads, warps that add up by
shuffles, blocks that share a sum, histograms for a broadcast gradient, and
BLAS calls with their leading dimensions and strides on column-major matrices.
`AutogradFunctions` is what each function saves and calls in `Backward`;
`FunctionCalls` enumerates calls. Functions without an algebraic meaning modulo
a prime (exponential, tanh, ...) are arbitrary fixed maps with a derivative.

### TensorParallel, ModelRun, Transformer, MixtureOfExperts, Networks

A network is a *program*, a sequence of nodes that each apply a function to
earlier ones. `Transformer` and `MixtureOfExperts` translate `Forward` of the
modules to such programs, by operators that append nodes: attention with rotary
embedding and grouped queries, both MLPs, norms, the parallel layers, router,
dispatcher, experts, losses. `TensorParallel` gives the communication functions
and their backwards on all ranks at once: a value is a function from ranks to
tensors. `ModelRun` runs a program forward and backward; its backward visits
nodes from last to first, which gives the same sums as the recursion, whose
order is `Autograd`'s subject. `Networks` are the instances. `RanksComputeOneModel`
compares outputs, losses and the gradients of every part of every weight with
those of the same network on one process.

### ModelFile, LoRA, Adapters

`ModelFile` reads a model file as `LoadFromLLMC` does: by position, rank by
rank, skipping what other ranks hold. Every float of the file is named by
tensor, layer, row and column, so a misplaced read is seen as such. The
order of a llama3 file is that of its writer,
`scripts/assets/prepare_llama3_assets.py`; that it reorders the rows of q and k
within a head, and the reader does not undo it, is left out. The writer of a
gpt2 file is not part of the repository (`prepare-infinitrain-assets.sh` downloads
the file): its order is the one in which the reader for one process takes it.

`LoRA` has a model as a function from paths to modules and every operation of
`lora_utils.cc` on it. A merge computes its product in grad mode and drops it,
which leaves the accumulators of the adapter with a dependency that never comes;
`dangling` is that. `Adapters` lets one process and a group do the same with a
model in any order: train, merge, unmerge, save, start again on another number
of ranks, load.

### LocalAlgorithms, MCAlgorithms

Both compose things that are functions of their input: an initial state is an
input, a step computes what the code makes of it. `LocalAlgorithms` has the four
algorithms every rank runs alone and expects the others to have run alike:
`BucketAssignment`, the layout of `ParamAndGradBuffer`, `PipelineSchedule` and the
training's rates of `LRScheduler`. What is stated there is proved for every size.
`MCAlgorithms` adds the rest (a network takes one step per node, an adapter one
per operation).

## 4. The runs

| Run | Instance | Shows |
|---|---|---|
| `reducer` | 2 ranks, 4 parameters in 3 buckets, none or one frozen, 2 steps × 2 rounds × 2 forwards, 2 engine orders, both storage modes, both `ZeroGrad` modes | all properties of `Reducer` |
| `frozen` | a frozen parameter | violation: gradients are not averaged |
| `autograd` | 2 leaves, 3 functions, all kinds | all properties of `Autograd` |
| `pipeline` | 2–3 stages, 1–2 chunks, 1–4 micro-batches, capacities 0–2, 2 iterations | all properties of `Pipeline`, and that it implements `PipelineDataflow` |
| `zero` | 2 ranks, 3 parameters in 2 groups, 2 steps of 1–2 rounds, 14 settings, 2 engine orders | all properties of `DistributedOptimizer` |
| `zero_accumulation` | overlap with 2 micro-steps | violation: a micro-step is never reduced |
| `zero_padding` | parameter sizes not multiples of the alignment | violation: shards miss elements |
| `groups` | 6 layouts on 1–2 nodes, 1–2 processes, 1–2 threads; one fault; files of one earlier run | groups agree; every launcher that can know of a failure ends |
| `training` | 2 ranks, 3 steps of 4 samples from 17, a checkpoint each step, 2 kept, 2 launches | resume is exact, a checkpoint survives, the job completes |
| `algorithms` | see below | ten properties of pure algorithms |
| `kernel_gradients` | a CUDA linear layer with bias on two rows | violation: the bias gradient is not the column sum |
| `adapters_unmerged` | adapters that are merged, unmerged and trained | violation: they no longer train |

The properties of `algorithms`:

| Property | Says, for every input | Inputs |
|---|---|---|
| `BucketsSound` | buckets and rebuilt buckets are partitions of the parameters; the first ones have one key each and are cut where a limit is reached | 3 tensors, 2 keys, 3 sizes, 6 recorded orders |
| `SchedulesSound` | both schedules have every task once, after what it needs | 1–4 micro-batches, 1–3 stages, 1–3 chunks |
| `ElementsOwnedOnce` | every element of every parameter is updated by one rank | aligned sizes, 2–3 ranks |
| `RatesResume` | the rate of each training step is the one the options promise, also for a process resumed after any step | all styles with and without warm-up, two schedulers chained, 8 steps |
| `KernelsAgree` | each output and gradient of a call is the same on every device, but for those of `KnownDifferences` between CPU and CUDA, which do differ | every function on the CPU and in float and bf16 on CUDA, the gradient of `Exp` left out; small shapes, block sizes 2–4 |
| `GradientsPredictChanges` | a backward's gradients predict the change of the result along a direction, except on the devices of `WrongGradients`, where they do not | the same |
| `LayersPlaced` | every layer and special module is in one stage and chunk, and the model, the wrapper and the schedulers mean the same one | all four kinds of description |
| `WeightsPlaced` | every parameter a rank has holds its part of the tensor of its name | gpt2 1–3 layers, llama3 1–4, 1–2 stages and chunks, 1, 2 and 4 ranks |
| `RanksComputeOneModel` | outputs, losses and gradients of a group are those of one process | gpt2 (also tied with sequence parallelism), llama3, a linear layer that skips its bias, LoRA gathered, sequence-parallel and merged, three mixtures of experts; 2 ranks against 1 |
| `AdaptersTravel` | a model with adapters is the same on any number of ranks after any operations, through a file too | a block with grouped queries on 1–2 ranks, `c_attn` on 2–4, a plain layer; up to 2 trainings and 2 starts |

**Why the bounds are enough.** The Reducer needs three buckets so that one can
become ready before, at and after `next_bucket_`; sizes 2, 3, 1, 4 with limits
1, 4 make the rebuilt buckets differ from the first ones. Two rounds per step
let the rebuild fall between two micro-steps, two steps let it be followed by a
step with rebuilt buckets, two forwards let a second `PrepareForBackward`
follow the rebuild. For ZeRO the second group lies in one shard alone, so a
rank may own nothing of a group, and the two engine orders make groups ready in
both orders; `value` and the rounds are bounded by the number of steps. Three
functions are enough for a diamond and for a value used twice by one function.
Two iterations of the pipeline let a message of one step be taken by the next.
For the groups two threads race for one group, two processes meet over a file,
two nodes have launchers that do not know of each other, and one fault at any
moment shows every half-finished exchange. In `training` the second launch
starts from any state the first can leave; three steps with two kept make the
pruning of a directory coincide with a crash; a launch with another
loader batch size resumes at a sample in the middle of its own batches, and the
three steps use 12 of the 17 samples, so the end of the data set is not reached
(what happens there is in section 6). Shapes of two and three with
blocks of two to four threads make a line shorter, equal and longer than a
block. A network has one layer of each kind and is shared by two ranks; in the
files 1, 2 and 4 ranks separate the number of ranks, of key-value heads and of
query heads. The bounds that cap the
state are `Steps`, `AccumSteps`, `MaxAccum`, `MaxFunctions`, `Iterations`,
`MaxLaunches`, `NumIteration`, `MaxFaults`, `RateSteps`; in `DistributedOptimizer` the
clipping count stops at 2. `ParamAlign` and `BucketAlign` are 2 and 4 instead of
64 and 128: the code uses only that one divides the other.

**Deadlock** is checked in `reducer`, `frozen`, `pipeline`, `zero`,
`zero_accumulation` and `training`, where the terminated state is the only one
that may stop. It is off for `autograd` (a program may simply end), for the runs
of `MCAlgorithms` (an input is computed and that is all), and for `groups`: the
launcher of another node is never told of a failure and its processes wait for
ever, which the code does nothing about; `RunEnds` says which launchers end.

**Fairness.** A rank's host thread and its compute stream, and the
communication streams of a group, keep going while they have something to do:
weak fairness of each rank's steps and of the collective. A collective runs
only when all ranks have it at the head of their streams, which is not assumed
but follows, or does not, from what the ranks enqueue. For the pipeline, weak
fairness that some stage moves when one can is enough, since a behaviour has
finitely many steps. The same holds of `Training` and `ProcessGroups`: weak
fairness of `Progress`, the steps the program takes by itself. Crashes, kills
and failing forks are not in `Progress`: they may happen and need not.

**ZeRO settings.** The model settles which settings reduce a step once:

| | 1 micro-step | 2 micro-steps |
|---|---|---|
| no overlap, no clipping | right | right |
| overlap, no clipping | right | wrong (`zero_accumulation`) |
| clipping, stage 2, overlap | right | wrong |
| clipping otherwise | wrong (reduced twice) | wrong |

`SyncedOnce` in `DistributedOptimizer` is this table. In the stage-2 overlap
case clipping is harmless because the temporary buffers are released when the
first `FinishGradSync` has waited, so the second finds nothing to reduce.

**Virtual pipeline.** Least capacity per pair of stages with which two chunks
per stage finish: two stages need 0, 1, 1, 2 for 1, 2, 3, 4 micro-batches;
three stages 0, 0, 1, 1. The run uses these; with one less the step deadlocks,
which over a transport that buffers nothing is as soon as there are as many
micro-batches as stages. With one chunk per stage a rendezvous is always enough.

## 5. The proofs

**`ReducerProofs`** proves three theorems about `Reducer` from the assumptions
`CountsAssumption` (positive sizes), `EngineOrdersAssumption` (gradients become
ready one after the other, as in an engine that runs one function at a time,
and in one order on all ranks, whose graphs are the same) and
`BucketsAssumption` (the first bucket list and every rebuilt one put each
parameter in exactly one bucket), for any number of ranks, parameters, buckets,
micro-steps and steps, and any set of trainable parameters.

- `TypeCorrect`: `Spec => []TypeOK`. One lemma per action. The lemmas it rests
  on are about the operators: `LocatorUnique` (a parameter has one bucket),
  `LaunchEndStops` (the launch loop stops within the bucket list, which needs a
  least-number argument, `LeastNat`), `AverageType`, `RecordReady` (the recorded
  order stays within `ReadyOrders`).
- `CountsCorrect`: `Spec => []CountInv`: during a backward a bucket's `pending`
  is the number of its parameters that have not been marked ready, those
  without `requires_grad` included. `TypeOK /\ CountInv` is inductive.
- `ChecksHold`: `Spec => []NoCheckFailure`: `CHECK(bucket.pending > 0)` of
  `MarkVariableReadyDense` never fails. It is not inductive by itself: that no
  count is used up too early is known only from `CountInv`, by which a count of
  zero means that no parameter of the bucket is outstanding.

**`ReducerStreamProofs`** builds on it, from the same assumptions. A collective
has no tag: what a rank issues as its k-th meets what the others issue as their
k-th, whatever either of them meant. So the argument is that there is one
*history* of collectives, which depends on the engine order and the trainable
parameters alone: round by round the buckets up to the first one with a frozen
parameter, and the loss after the last round of a step. `IsAt` gives its entry
at a position.

- `OneHistory`: a rank has issued as much of the history as where it stands says
  (`Issued`), and its stream holds what follows the part all ranks have
  completed (`History`). To know that ranks rebuild to the same buckets, in the
  same round, one needs `RankInv`: a rank's recorded order is the sorted prefix
  of the engine order, it has rebuilt after the first round and never if a
  parameter is frozen, the buckets before `next_bucket_` are complete and the
  one at it is not.
- `StreamsMatch`: `Spec => []CollectivesMatch` follows at once, frozen
  parameters, rebuilds and ranks that run ahead included.
- `ValuesCorrect`, for runs with every parameter trainable: what each gradient
  and each slice of a bucket holds (`ValueInv`): the rounds of the step before
  this one averaged, this rank's round alone once it is marked, the average once
  the collective has completed; and that the stream is the segment of the bucket
  list between the first bucket in flight and `next_bucket_` (`StreamInv`).
- `GradsAveraged`: `Spec => []StepGradsAveragedUnlessFrozen`, and `SlicesStable`:
  `Spec => StableWhileInFlight`, an action property: the slice of a bucket is
  written from launch to completion by nothing but the collective.

`CountInv` also explains the `frozen` run: the count of a bucket with a frozen
parameter never reaches zero. `FinalizeBackward` is then never called, so even
the buckets before it are not averaged in time, and without
`gradient_as_bucket_view` the next round copies gradients into a bucket whose
all-reduce may still run. That the code's own assignment, first or rebuilt from any
recorded order, satisfies `BucketsAssumption` is `EveryAssignmentPartitions` in
`LocalAlgorithmsProofs`.

**`PipelineProofs`** proves about `Pipeline`, for any number of stages, chunks per
stage, micro-batches and iterations and any capacity of the transport
(rendezvous included), `TypeCorrect`, `MessagesMatch` (`InputsMatch`),
`ChannelsDrain` (`NothingLeftOver`) and `Refinement`: `Spec => ImplementsDataflow`.
The only assumption, `PipelineAssumption`, is about sizes (two stages or more);
what the schedules contain and in which order is not assumed but proved (`ProgramIsIds`, `StageOps`, `NextOpIs`). A task, and the message
it sends, is named by iteration, direction, micro-batch and chunk, and all names
are in one order, `Ahead`. The inductive `IInv` says: the operations left to a
stage are the last ones of its program; a channel lists, in that order, exactly
the messages that were sent and not received (`Lists`, `Underway`); what has run
is what the stages' positions say, each on what it wanted; and a task has run
only if the one before it has. A receive names only its peer, so what it takes is
the head of a channel: it is the right one because sender and receiver put the
messages of a pair of stages in one order, backward ones against the direction
of the forward ones. Every step of `Pipeline` maps to the run of one
task or to a stutter.

**`DistributedOptimizerProofs`** proves about `DistributedOptimizer`, for any number
of ranks, groups, parameters and steps, any assignment of shards, any engine
order and *every* setting, from `CountsAssumption` (sizes), `GroupsAssumption` (groups
are disjoint and not empty, the parameters finitely many) and
`EngineOrdersAssumption` (an order lists every parameter):

- `TypeCorrect`, `ChecksHold` (`NoCheckFailure`), `ParamsGathered`
  (`ParamsCurrent`): a pass reads every parameter updated by all earlier steps
  and no other. Between `Step` and the completion of the gather a parameter of
  another shard lags by one (`ParamInv`); that no pass starts in between is
  `LoopInv`, which says what may be outstanding in each phase.
- `StreamsMatch` (`CollectivesMatch`). Unlike the Reducer's, the history is not a
  formula of the position: a group is launched by hooks as it becomes ready, and
  flags of earlier rounds decide whether it is launched again. But the next host
  state of a rank, and what it issues on the way, are functions of the setting
  and its host state (`Succ`, `Emits`). `History` says that there is one sequence of
  host states all ranks run through, some further than others, and that a
  stream is the log of that sequence beyond what all have completed. Proving it
  needs `SortedExists` and `SortedUnique`: there is one ascending sequence of
  any finite set of groups.

and, under `SyncedOnce(config)` (the settings of the table in section 4 that
reduce a step once; `zero_accumulation` shows that it cannot be dropped):

- `GradientInvariance`, with three further invariants: how `grad` is bound and
  what is overwritten (`BindingInv`), that with overlap a group is dispatched
  exactly when it is ready (`GroupInv`), and what a gradient sums (`GradInv`):
  the rounds so far until its group's reduction is issued, all rounds of the step
  until the reduction completes, and on its owner the average from then on.
- `GradsSynced`: `Spec /\ SyncedOnce(config) => []StepGradsSynced`, and
  `SlicesStable`: `Spec /\ SyncedOnce(config) => StableWhileInFlight`: no write to,
  and no new buffer for, the full gradients of a group in flight.

**`TrainingProofs`** proves `Survival`, `Spec => CheckpointSurvives`: once a step
has been saved whole, some directory stays from which all ranks can restore,
through any pruning and any number of crashes; and `TypeCorrect`. Both are for
any number of ranks, steps, launches and any save interval, under `Settings`:
`FreshRoots`, and `MaxKeep # 1`. Neither can be dropped: see section 6. The
property is about a step, but to know that pruning spares a whole directory one
must know which are whole: the inductive `IInv` adds to types that no
directory belongs to a later launch and each `trainer_state` names its step (`DiskInv`), that ranks are at most one
save apart (`StepsInv`), and that the directories of all finished saves
that pruning has not chosen are whole on every rank (`SavesInv`).

The second part of the module builds on this, under the same `Settings`, and proves
`ExactResume`, `Spec => []ResumesExactly`, and `ResumeNeverFails`. `ExactInv` is
inductive together with `IInv`:

- `Ranked`: where a training rank stands is a function of its step: its
  parameters (`History`), moments, schedule and samples consumed, and its
  iterator (`Position`: batches of the launch's size, every `World`-th of them, up
  to the end of the data). That a launch with another batch size starts at the
  same sample, and that the ranks' shares of a step are the step's samples, each
  once (`ResumedPosition`, `StepSamples`), is arithmetic of division with remainder.
- `FilesInv`: a complete file holds that function of the step in its
  directory's name, whichever launch wrote it with whichever batch size.
- `WholeInv`: a directory that has every `trainer_state` but lacks another file is
  one whose removal a crash interrupted; its launch left a later one that is
  whole, so it is never the newest. The order in which `Save` writes matters here
  (`trainer_state` last), and so does pruning's removing the oldest first.
- `LoadInv`: no one writes to the directory a launch resumes from, or removes it,
  as that belongs to an earlier launch.

**`ProcessGroupsProofs`** proves first, about `RankLayout`, `RanksAreCoords`
(`RankOf` and `CoordOf` are inverse to each other) and `GroupsPartition` (the
groups along an axis partition the world, and members compute the same group
under the same number), for all sizes of the axes, from the arithmetic of
division with remainder. Then it proves `Agreement`, `Spec => []GroupsAgree`, for any
number of nodes, processes, threads, faults and files left behind, if the sizes
of the axes divide the world (`ProcessGroupsAssumption`; the code truncates).
It uses `GroupsPartition`. The inductive `IInv` says: a final id file under this
run's name holds the id its main process made (`FilesInv`); what a rank holds or
was given is that id (`GivenInv`, `ReadsInv`); one thread makes the group behind
a placeholder (`MakersInv`); and a published group was called for by all its
processes (`FactoryInv`). The delicate part is the clean-up: a
process removes its id file when it exits, and the file must stay until all
members have read it. That holds because a process exits only after its ranks
have trained, and they train only in initialised groups, which every member has
called.

**`AutogradProofs`** is about every graph a program can build of any number of
leaves and functions, with and without `ResidualOnly`: `TypeCorrect`,
`Drains` (`Spec => []EngineDrains`) and `LeavesServedFirst`. The recursion of
`BackwardPartial` is correct because a count kept by `Apply` meets the calls that
arrive, so the inductive `IInv` relates the two through the uses of a node's
results. There is a list `uses` that names, for each delivery on the stack, the
use it comes from, each at most once (`Lists`). A use is outstanding while its
function has not run or its delivery is listed. Then `Counts` says: a node that
has not run has `dependencies_number_` equal to what reached it plus its
outstanding uses, it never holds all its slots with all its dependencies reached,
and a node that has run has no use outstanding and holds nothing. A delivery that
fires a node is thus the last outstanding use. `GraphInv` keeps graphs acyclic,
and `Drains` takes the greatest function that has not run. A leaf is reached by
several graphs and its count restarts (`ResetAccumulator`), so for leaves the
count is of what has arrived since.

The second part of the module is about values, under `ResidualOnly` (without it
`FullGradientsOnly` is false, section 3): `FullGradients` and `LeavesSummed`
prove `FullGradientsOnly` and `LeafGradients`. Its inductive `ValueInv` adds, of
the same list of uses:

- `ResidualInv`: an addition is `x + y` where `y` is a kernel's result with no
  other use, computed from `x`.
- `Values`: a delivery brings the gradient its function was run with, a node holds
  the sum over the uses that have arrived (a leaf together with its `grad`), and a
  function was run with the sum over all its uses.
- `Owned`: no two slots, gradients of leaves or deliveries hold the same buffer,
  except that an addition's one gradient is on its way to both inputs. Adding in
  place then changes nothing else (`Delivered`). In the exception the first
  input `x` cannot run, because `y`, computed from it, has not (`InputWaits`),
  and the branch `y` runs as soon as it is served, before anything is added to the
  buffer they share (`BranchAlone`).

That `Gradient`, which is defined by recursion from the last function back, has
a solution at all is `PathsExist`; `RunsWithGradient` takes the greatest function
whose gradient differs.

**`LocalAlgorithmsProofs`** proves the four properties of `LocalAlgorithms`, for any
number of tensors, keys, parameters, ranks, stages, chunks, micro-batches and steps
and any sizes, from `DivisionAssumption` and `RatesAssumption` (these are numbers, and
a configuration is one `CreateLRScheduler` accepts; as rates are whole numbers here,
the fall of a linear decay divides by its steps) and `AlignAssumption`:

- `BucketsAreSound` (`BucketsSound`) and `EveryAssignmentPartitions`. The
  assignment takes one parameter after the other, so its invariant `BucketInv` is
  over the parameters taken so far: the closed and the open buckets hold each of
  them once; an open bucket has one key and is below its limit.
- `EveryElementOwnedOnce` (`ElementsOwnedOnce`), for parameters with a multiple of
  `ParamAlign` elements (`zero_padding` shows that it cannot be dropped). `LayoutInv`
  says that the buckets so far lie end to end, a parameter after the other inside
  them; then each element lies in one bucket, and in one shard of it.
- `SchedulesAreSound` (`SchedulesSound`). Of each schedule the tasks are ranked by a
  strict order, and a task's place is the number of tasks not after it; places are
  then a bijection, which takes a counting argument, and what a task needs comes
  earlier in the order.
- `RatesAreExact` (`RatesResume`): after k steps the training scheduler is `After(c, k)`,
  a closed formula with warm-up, milestone and decay; saved and loaded again it is
  the same, so a resumed process goes on with the same rates.

The recursive functions of these algorithms are defined by `CHOOSE`, so before anything
can be said of them a solution has to exist: one is built step by step
(`Recursion`).

Only model-checked: `KernelsAgree`, `GradientsPredictChanges`, `LayersPlaced`,
`WeightsPlaced`, `RanksComputeOneModel`, `AdaptersTravel`, and `RatesResume` of chained schedulers,
as `MCAlgorithms` reaches a `RECURSIVE` operator (`Expand` of `PipelineLayout`), under
which tlapm has no SMT backend, and recurses over networks, shapes and files; and
liveness and deadlock (`TrainingFinishes`, `StepsFinish`, `TrainingCompletes`,
`RunEnds`), which are outside the prover's reach. Where a proof needs induction over
numbers (the sorted sequence of a set, the first bucket that is not ready), it takes a
least counterexample, which the well-foundedness of the naturals gives.

## 6. What the checks found

Five runs end in a violation; each is quoted against the line it contradicts in
`PROJECT.json`.

1. `frozen`: a frozen parameter at DDP construction keeps its bucket, and all
   later ones, from ever being reduced.
2. `zero_accumulation`: ZeRO with overlap reduces only the first micro-step.
3. `zero_padding`: ZeRO cuts shards at unpadded offsets from a padded layout.
4. `kernel_gradients`: the CUDA bias gradient sums runs of consecutive elements.
5. `adapters_unmerged`: merged and unmerged adapters get no gradients any more.

Met while modelling, with no run of their own:

- Differences between the CPU's and CUDA's kernels besides the bias gradient.
  `KernelsAgree` runs these calls too, lists the results that differ in
  `KnownDifferences` and asserts that these and no others do: the CPU
  `ReduceOpForward` reads contiguous elements for a dimension that is not the
  last (`cpu/reduction.cc:38`), so the CPU's mean, sum, maximum and minimum over
  it, and the gradients of the latter two, are wrong; CUDA `LayerNormBackward`
  subtracts a mean term twice (`layernorm.cu:139`), so the gradient of its input
  is wrong; a mask of leading dimensions is one for CUDA (`transform.cu:324`)
  while the CPU repeats it over the elements (`cpu/transform.cc:133`); CUDA
  `GatherBackward` needs equal sizes off the gathered dimension, its forward
  does not (`gather.cu:167`, `:66`). If one of them is repaired, or another
  result starts to differ, the property fails.
- `Exp::Backward` passes one argument to a kernel that takes two
  (`autograd/elementwise.cc:190`): its gradient is undefined, and left out of both
  properties.
- ZeRO with clipping reduces gradients twice except in one setting, and the
  virtual pipeline deadlocks over an unbuffered transport (section 4).
- The norm's all-reduce over pipeline stages is skipped by a stage without
  gradients while the others wait (`optimizer.cc:139`).
- Checkpoints: with `max_keep = 1` a crash during pruning or the next save can
  lose all of them; with a root shared by launches, two crashes can leave a
  directory with files of both. gpt2 and llama3 dereference the loader's end
  when an epoch is over inside a step; mixtral starts again.
- `GetDefaultProcessGroup` reads the map without its lock, and the factory's
  instance is double-checked over a plain pointer. A `rdzv_id` used again after
  a crash of a run on several nodes can meet that run's file.
- `example/mixtral/main.cc` installs no pipeline layout, which the model's
  constructor asks for (`pipeline_layout.cc:218`), and its checkpoint reader
  names `lm_head.weight` without the model's prefix. The gpt2 reader leaves
  `n_kv_head` at its default, so the larger gpt2 files are refused by the
  configuration's check (`WeightsPlaced` asks only what `CanLoad` allows).
- With fewer layers than chunks the default layout has empty chunks the
  schedulers still enumerate. Label smoothing with a padded vocabulary gives
  NaN in the parallel cross entropy. Under sequence parallelism the gradients
  of replicated parameters are partial sums that nothing adds up over the
  tensor-parallel ranks (`docs/gradient_norm_clipping.md:22`);
  `RanksComputeOneModel` compares their sum.
- `LoadLoRAWeights` into a merged model and a later unmerge subtract what was
  never added.

## 7. What is not modelled

- **Work**: waiting is a guard of the modules above; its status, time-out and
  error flags have no reader in the training path.
- **Parameter-server data parallelism** (`data_parallel.cc`): no example uses it.
- **Device runtime and CCL backends**: wrappers of CUDA and NCCL. Their streams
  and transfers appear as communication streams and channels.
- **Autocast, hooks, precision checker, profiler**: instrumentation around what
  is modelled. All arithmetic here is exact, so casting has nothing to show.
- Rounding, overflow of floats, random numbers (dropout is absent, initial
  weights are given), allocation, logging, flags and text generation.
- Custom communication hooks (the code aborts on them), the all-reduce hook of
  unbucketed DDP, bucket groups with several buckets (never built).
- Ranks whose graphs differ and parameters unused in a round: listed as hazards
  without a property.
- The bytes of checkpoint, adapter and model files beyond the order of their
  contents; adapters of a pipeline, whose saving the documentation excludes.
- A mixture of experts under sequence parallelism, and inside a whole block.
- Failures of a rank during training other than those of `ProcessGroups` and
  `Training`: the training path does not handle them, a run simply ends.
