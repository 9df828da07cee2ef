-------------------------- MODULE LocalAlgorithms --------------------------
(***************************************************************************)
(* The algorithms that every rank runs alone, without communicating, and   *)
(* relies on the others to have run alike.  Three divide the work before   *)
(* training starts: the gradient buckets of DDP, the flat buffers and      *)
(* shards of ZeRO, and the schedules of the pipeline; the fourth gives     *)
(* every step its learning rate.  An initial state is an input of one of   *)
(* them, and the one step computes what the algorithm makes of it.         *)
(***************************************************************************)
EXTENDS BucketAssignment, PipelineSchedule, ParamAndGradBuffer, LRScheduler

CONSTANTS
    MaxTensors, Keys, TensorSizes, \* trainable parameters: how many, (device, dtype), bytes
    BucketCaps,                    \* bytes of first_bucket_cap_mb and normal_bucket_cap_mb
    MaxParams, LayoutNumels,       \* parameters of a flat buffer and their numbers of elements
    Worlds, BucketSizes,           \* ranks of the data-parallel group, bucket_size_in_elements
    MaxMicroBatches, MaxStages, MaxVpp,
    RateConfigs, RateSteps         \* TrainingLRSchedulerConfig, steps of a training run

ASSUME DivisionAssumption ==
    /\ MaxTensors \in Nat /\ TensorSizes \subseteq Nat /\ BucketCaps \subseteq Nat
    /\ MaxParams \in Nat /\ LayoutNumels \subseteq Nat
    /\ Worlds \subseteq Nat \ {0} /\ BucketSizes \subseteq Nat
    /\ MaxMicroBatches \in Nat /\ MaxStages \in Nat /\ MaxVpp \in Nat

(* What CreateLRScheduler accepts.  The rates are whole numbers here; the  *)
(* linear decay then has one for each step if its fall divides evenly.     *)
RateStyles == {"constant", "linear", "cosine", "inverse-square-root"}

IsRateConfig(c) ==
    /\ c \in [style : RateStyles, lr : Nat, min : Nat, init : Nat, warmup : Nat, decay : Nat]
    /\ ValidConfig(c)
    /\ c.style = "linear" => (c.lr - c.min) % DecayIters(c) = 0

ASSUME RatesAssumption ==
    /\ RateSteps \in Nat
    /\ \A c \in RateConfigs : IsRateConfig(c)

VARIABLES input, output

(* What the first round can record of n parameters: some, each once. *)
RecordedOrders(n) ==
    UNION {{r \in [1..m -> 1..n] : \A i, j \in 1..m : r[i] = r[j] => i = j} : m \in 1..n}

(* The parameters of the module, the two caps and the recorded order. *)
BucketInputsOf(n) ==
    {[about |-> "buckets", key |-> k, bytes |-> z, limits |-> l, order |-> o] :
        k \in [1..n -> Keys], z \in [1..n -> TensorSizes], l \in [1..2 -> BucketCaps],
        o \in RecordedOrders(n)}

BucketInputs == UNION {BucketInputsOf(n) : n \in 1..MaxTensors}

LayoutInputs ==
    UNION {{[about |-> "layout", numels |-> z, world |-> w, size |-> b] :
               z \in [1..n -> LayoutNumels], w \in Worlds, b \in BucketSizes} :
           n \in 0..MaxParams}

ScheduleInputs ==
    {[about |-> "schedule", n |-> n, stages |-> s, vpp |-> v, interleaved |-> i] :
        n \in 1..MaxMicroBatches, s \in 1..MaxStages, v \in 1..MaxVpp, i \in BOOLEAN}

(* The process is replaced after the given one of RateSteps steps. *)
RateInputs ==
    {[about |-> "rates", config |-> c, resume |-> k] : c \in RateConfigs, k \in 0..RateSteps}

LocalInputs == BucketInputs \cup LayoutInputs \cup ScheduleInputs \cup RateInputs

Assigned(in) ==
    [initial |-> InitialAssignment(in.key, in.bytes, in.limits),
     rebuilt |-> RebuiltAssignment(in.key, in.bytes, in.limits, in.order)]

Scheduled(in) ==
    IF in.interleaved
    THEN OneForwardOneBackwardSchedule(in.n, in.stages, in.vpp)
    ELSE GPipeSchedule(in.n, in.stages, in.vpp)

Rated(in) ==
    RatesWithResume(TrainingScheduler(in.config), <<2, 1>>, in.config.lr, RateSteps, in.resume)

LocalResult(in) ==
    CASE in.about = "buckets"  -> Assigned(in)
      [] in.about = "layout"   -> BuildBuckets(in.numels, in.world, in.size)
      [] in.about = "schedule" -> Scheduled(in)
      [] in.about = "rates"    -> Rated(in)

LocalInit ==
    /\ input \in LocalInputs
    /\ output = [about |-> "none"]

ComputeLocally ==
    /\ output.about = "none" /\ input.about \in {"buckets", "layout", "schedule", "rates"}
    /\ output' = [about |-> input.about, result |-> LocalResult(input)]
    /\ UNCHANGED input

LocalSpec == LocalInit /\ [][ComputeLocally]_<<input, output>>

-----------------------------------------------------------------------------
(* ComputeBucketAssignmentBySize, first and rebuilt: every parameter is in *)
(* exactly one bucket whatever was recorded, as BuildBuckets' locators     *)
(* need; before the rebuild a bucket has one dtype, the first of a dtype   *)
(* closes exactly when it reaches the first cap and the others when they   *)
(* reach the normal one, and only the last of a dtype stays below.         *)
BucketsSound ==
    output.about = "buckets" =>
        /\ IsPartition(output.result.initial, Len(input.key))
        /\ IsPartition(output.result.rebuilt, Len(input.key))
        /\ AreCapped(output.result.initial, input.key, input.bytes, input.limits)

(* BuildBuckets and BuildShardParamsAndBindGrads: "Iterate param in        *)
(* bucket, build each param (or param_shard)": every element of every      *)
(* parameter is updated by exactly one rank, with its own gradient.        *)
ElementsOwnedOnce ==
    output.about = "layout" =>
        IsSharding(output.result, input.numels, input.world)

(* GenerateGPipeSchedule and GenerateInterleaved1F1BSchedule: every chunk  *)
(* of every micro-batch runs forward and backward once, and after what it  *)
(* needs.                                                                  *)
SchedulesSound ==
    output.about = "schedule" =>
        IsSchedule(output.result, input.n, input.stages * input.vpp)

(* The rate of step i that the options promise; schedulers that an         *)
(* instance chains multiply.                                               *)
PromisedRate(in, i) ==
    IF in.about = "chained" THEN ChainedRate(in.config, in.lr, i) ELSE TrainingRate(in.config, i)

(* CreateLRScheduler, Step, StateDict and LoadStateDict: the rate of every *)
(* step is the one the options promise, warm-up, decay and after it, also  *)
(* if training stops after any step and is resumed from the saved state.   *)
RatesResume ==
    output.about \in {"rates", "chained"} =>
        \A i \in 0..RateSteps : output.result[i] = PromisedRate(input, i)
=============================================================================
