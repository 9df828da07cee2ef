------------------------------- MODULE Reducer -------------------------------
(***************************************************************************)
(* Bucketed data-parallel gradient reduction:                              *)
(* nn/parallel/ddp/reducer.cc driven by AccumulateGrad                     *)
(* (autograd/accumulate.cc), DistributedDataParallel::Forward and the      *)
(* training loop of example/gpt2/main.cc, on every rank of a data-parallel *)
(* group.                                                                  *)
(*                                                                         *)
(* Each rank is one host thread with a compute stream and a communication  *)
(* stream.  The host never reads device memory during a round, so host and *)
(* compute stream are one process here; the communication stream is the    *)
(* FIFO comm[r], whose head runs once every rank of the group has the      *)
(* matching collective at its own head.  WaitNonBlocking makes the compute *)
(* stream wait, i.e. it guards the action that follows it.                 *)
(*                                                                         *)
(* A gradient value is the set of backward rounds it sums: avg holds the   *)
(* rounds already averaged over all ranks, loc the rounds of this rank     *)
(* alone.  Junk stands for uninitialised or unusable memory.               *)
(***************************************************************************)
EXTENDS Naturals, Sequences, FiniteSets, BucketAssignment

CONSTANTS
    Ranks,               \* members of the data-parallel group
    NumParams,           \* parameters are 1..NumParams, in registration order
    TrainableSets,       \* sets of parameters with requires_grad to try
    InitialBuckets,      \* bucket assignment of the DDP constructor
    Rebuilt,             \* the assignment RebuildBuckets derives from a ready order
    EngineOrders,        \* gradient-ready orders the autograd engine may have
    AccumSteps,          \* backward rounds per optimizer step (grad_accum_steps)
    Steps,               \* optimizer steps of the run
    ForwardsPerBackward  \* forwards ahead of a round (micro-batches under GPipe)

Params == 1..NumParams
Rounds == 1..(AccumSteps * Steps)
JunkRound == 0

ParamsIn(bucket) == {bucket[i] : i \in DOMAIN bucket}

(* What BuildBuckets relies on: every parameter gets exactly one locator.  *)
IsBucketList(bs) == IsPartition(bs, NumParams)

(* What the first round can record: parameters, none twice.                *)
ReadyOrders ==
    {o \in UNION {[1..n -> Params] : n \in 0..NumParams} :
        \A i, j \in DOMAIN o : o[i] = o[j] => i = j}

ASSUME CountsAssumption ==
    /\ NumParams \in Nat \ {0} /\ AccumSteps \in Nat \ {0}
    /\ Steps \in Nat \ {0} /\ ForwardsPerBackward \in Nat \ {0}
    /\ Ranks # {} /\ TrainableSets \subseteq SUBSET Params

(* The engine runs one node at a time, in the same order on every rank.    *)
ASSUME EngineOrdersAssumption ==
    /\ EngineOrders \subseteq [Params -> Nat]
    /\ \A e \in EngineOrders : \A p, q \in Params : e[p] = e[q] => p = q

ASSUME BucketsAssumption ==
    /\ IsBucketList(InitialBuckets)
    /\ \A o \in ReadyOrders : IsBucketList(Rebuilt[o])

VARIABLES
    engineOrder, \* the ready order of the engine while it is being recorded
    trainable,   \* the parameters with requires_grad
    asView,      \* ddp_config_.gradient_as_bucket_view
    phase,       \* where the rank's training loop is
    round,       \* current backward round
    forwards,    \* forwards still to run before this round's backward
    todo,        \* parameters whose AccumulateGrad has not run in this round
    grad,        \* param.grad: null, a view of the bucket, or its own tensor
    own,         \* value of a gradient tensor that is not a bucket view
    overwrite,   \* Tensor::grad_overwrite_once_
    mem,         \* value of each parameter's slice of bucket.contents
    buckets,     \* buckets_[b].variable_indices
    pending,     \* buckets_[b].pending
    work,        \* indices of buckets whose work is set
    nextBucket,  \* next_bucket_ (1-based)
    readyOrder,  \* grad_ready_order_indices_
    needRebuild, hasRebuilt, allReady,
    comm         \* collectives enqueued on the rank's communication stream

gradVars   == <<grad, own, overwrite>>
flagVars   == <<needRebuild, hasRebuilt, allReady>>
bucketVars == <<buckets, pending, work, nextBucket, readyOrder>>
loopVars   == <<phase, round, forwards, todo>>
vars == <<engineOrder, trainable, asView, loopVars, gradVars, mem, bucketVars, flagVars, comm>>

-----------------------------------------------------------------------------
(* Gradient values.                                                        *)

Value == [avg : SUBSET Rounds, loc : SUBSET (Rounds \cup {JunkRound})]
Zero  == [avg |-> {}, loc |-> {}]
Junk  == [avg |-> {}, loc |-> {JunkRound}]

(* The sum of a value and this rank's gradient of round i.                 *)
Plus(v, i) == [v EXCEPT !.loc = @ \cup {i}]

(* kAvg over one slice per rank: exact only if all ranks sum the same.     *)
Average(slices) ==
    IF \A u, v \in slices : u = v
    THEN LET v == CHOOSE x \in slices : TRUE
         IN  IF JunkRound \in v.loc THEN Junk
             ELSE [avg |-> v.avg \cup v.loc, loc |-> {}]
    ELSE Junk

(* The value the optimizer reads for parameter p on rank r.                *)
GradValue(r, p) == IF grad[r][p] = "view" THEN mem[r][p] ELSE own[r][p]

(* Rounds accumulated into the optimizer step that ends with round i.      *)
RoundsOfStep(i) == (i - AccumSteps + 1)..i

-----------------------------------------------------------------------------
(* Collectives on a communication stream.                                  *)

LossReduce == <<>>                      \* the scalar AllReduce of the loss
InFlight(r) == UNION {ParamsIn(comm[r][k]) : k \in DOMAIN comm[r]}

(* locators_: the bucket that holds parameter p.                           *)
Locator(bs, p) == CHOOSE b \in DOMAIN bs : p \in ParamsIn(bs[b])

-----------------------------------------------------------------------------
Init ==
    /\ engineOrder \in EngineOrders
    /\ trainable \in TrainableSets
    /\ asView \in BOOLEAN
    /\ phase    = [r \in Ranks |-> "forward"]
    /\ round    = [r \in Ranks |-> 1]
    /\ forwards = [r \in Ranks |-> ForwardsPerBackward]
    /\ todo     = [r \in Ranks |-> {}]
    /\ grad      = [r \in Ranks |-> [p \in Params |-> "null"]]
    /\ own       = [r \in Ranks |-> [p \in Params |-> Zero]]
    /\ overwrite = [r \in Ranks |-> [p \in Params |-> FALSE]]
    /\ mem       = [r \in Ranks |-> [p \in Params |-> Junk]]
    /\ buckets    = [r \in Ranks |-> InitialBuckets]
    /\ pending    = [r \in Ranks |-> [b \in DOMAIN InitialBuckets |-> Len(InitialBuckets[b])]]
    /\ work       = [r \in Ranks |-> {}]
    /\ nextBucket = [r \in Ranks |-> 1]
    /\ readyOrder = [r \in Ranks |-> <<>>]
    /\ needRebuild = [r \in Ranks |-> FALSE]
    /\ hasRebuilt  = [r \in Ranks |-> FALSE]
    /\ allReady    = [r \in Ranks |-> FALSE]
    /\ comm = [r \in Ranks |-> <<>>]

FreshPendingKept(bs, old) == old

(* bucket.pending = bucket.variables.size() for every bucket.              *)
FreshPending(bs, old) == [b \in DOMAIN bs |-> Len(bs[b])]

MarksOverwriteNever(g) == FALSE

(* A null gradient leaves stale data in the view: overwrite it next.       *)
MarksOverwrite(g) == g = "null"

(***************************************************************************)
(* DistributedDataParallel::Forward: the module's forward, then            *)
(* Reducer::PrepareForBackward.  Rebuilding allocates new bucket contents; *)
(* a gradient that is not a view of them is copied over, a missing one is  *)
(* marked for overwriting, and both become views.                          *)
(***************************************************************************)
PrepareForBackward(r) ==
    LET rebuilds == needRebuild[r] /\ ~hasRebuilt[r]
        moves    == rebuilds /\ readyOrder[r] # <<>>
        bs       == IF moves THEN Rebuilt[readyOrder[r]] ELSE buckets[r]
    IN
    /\ phase[r] = "forward"
    /\ buckets'     = [buckets EXCEPT ![r] = bs]
    /\ pending'     = [pending EXCEPT ![r] = FreshPending(bs, @)]
    /\ work'        = IF moves THEN [work EXCEPT ![r] = {}] ELSE work
    /\ hasRebuilt'  = [hasRebuilt EXCEPT ![r] = @ \/ rebuilds]
    /\ needRebuild' = [needRebuild EXCEPT ![r] = @ /\ ~rebuilds]
    /\ nextBucket'  = [nextBucket EXCEPT ![r] = 1]
    /\ readyOrder'  = [readyOrder EXCEPT ![r] = <<>>]
    /\ overwrite'   = [overwrite EXCEPT ![r] =
           [p \in Params |-> @[p] \/ (asView /\ MarksOverwrite(grad[r][p]))]]
    /\ grad' = [grad EXCEPT ![r] = IF asView THEN [p \in Params |-> "view"] ELSE @]
    /\ mem'  = [mem EXCEPT ![r] =
           [p \in Params |->
               IF asView /\ grad[r][p] = "own" THEN own[r][p]
               ELSE IF moves /\ grad[r][p] # "view" THEN Junk
               ELSE @[p]]]
    /\ forwards' = [forwards EXCEPT ![r] = @ - 1]
    /\ IF forwards[r] = 1
       THEN /\ phase' = [phase EXCEPT ![r] = "backward"]
            /\ todo'  = [todo EXCEPT ![r] = trainable]
       ELSE UNCHANGED <<phase, todo>>
    /\ UNCHANGED <<engineOrder, trainable, asView, round, own, allReady, comm>>

-----------------------------------------------------------------------------
IsReadyEarly(pend, b) == pend[b] <= 1

(* A bucket is ready when no gradient of it is outstanding.                *)
IsReady(pend, b) == pend[b] = 0

(* Index after the last bucket MarkBucketReady launches: the ready prefix  *)
(* that starts at next, or nothing while an earlier bucket is outstanding. *)
LaunchEnd(pend, next, b, n) ==
    IF b > next THEN next
    ELSE CHOOSE e \in next..(n + 1) :
             /\ \A c \in next..(e - 1) : IsReady(pend, c)
             /\ e <= n => ~IsReady(pend, e)

LaunchedNewestFirst(bs, first, end) ==
    [i \in 1..(end - first) |-> bs[end - i]]

(* FinalizeBucketDense for the buckets from first to before end, in order. *)
Launched(bs, first, end) == SubSeq(bs, first, end - 1)

(***************************************************************************)
(* AccumulateGrad::Backward for parameter p, which ends in its post-       *)
(* accumulate hook, Reducer::MarkVariableReadyDense: copy the gradient to  *)
(* the bucket unless it is a view of it, count it, and launch every bucket *)
(* that became ready in order.  While the order is being recorded the      *)
(* engine visits the parameters in engineOrder, the same on every rank.    *)
(***************************************************************************)
Accumulated(r, p) ==
    IF overwrite[r][p] \/ grad[r][p] = "null"
    THEN Plus(Zero, round[r])
    ELSE Plus(GradValue(r, p), round[r])

MarkVariableReadyDense(r, p) ==
    LET bs    == buckets[r]
        b     == Locator(bs, p)
        pend  == [pending[r] EXCEPT ![b] = @ - 1]
        order == IF hasRebuilt[r] \/ p \in ParamsIn(readyOrder[r])
                 THEN readyOrder[r] ELSE Append(readyOrder[r], p)
        next  == nextBucket[r]
        end   == IF IsReady(pend, b) THEN LaunchEnd(pend, next, b, Len(bs)) ELSE next
        all   == allReady[r] \/ (IsReady(pend, b) /\ b <= next /\ end = Len(bs) + 1)
    IN
    /\ phase[r] = "backward"
    /\ p \in todo[r]
    /\ ~hasRebuilt[r] => \A q \in todo[r] : engineOrder[p] <= engineOrder[q]
    /\ pending[r][b] > 0                       \* CHECK(bucket.pending > 0)
    /\ todo'      = [todo EXCEPT ![r] = @ \ {p}]
    /\ overwrite' = [overwrite EXCEPT ![r][p] = FALSE]
    /\ grad'      = [grad EXCEPT ![r][p] = IF @ = "null" THEN "own" ELSE @]
    /\ own'       = [own EXCEPT ![r][p] = IF grad[r][p] = "view" THEN @ ELSE Accumulated(r, p)]
    /\ mem'       = [mem EXCEPT ![r][p] = Accumulated(r, p)]
    /\ readyOrder' = [readyOrder EXCEPT ![r] = order]
    /\ pending'    = [pending EXCEPT ![r] = pend]
    /\ nextBucket' = [nextBucket EXCEPT ![r] = end]
    /\ work'       = [work EXCEPT ![r] = @ \cup (next..(end - 1))]
    /\ comm'       = [comm EXCEPT ![r] = @ \o Launched(bs, next, end)]
    /\ allReady'   = [allReady EXCEPT ![r] = all]
    /\ needRebuild' = [needRebuild EXCEPT ![r] =
           @ \/ (all /\ ~allReady[r] /\ ~hasRebuilt[r] /\ order # <<>>)]
    /\ phase' = [phase EXCEPT ![r] = IF all THEN "finalize" ELSE @]
    /\ UNCHANGED <<engineOrder, trainable, asView, round, forwards, buckets, hasRebuilt>>

(* Reaching the end of a backward round: the training loop goes on with    *)
(* the next micro-step, or with the optimizer after AccumSteps of them.    *)
EndRound(r) ==
    IF round[r] % AccumSteps = 0
    THEN /\ phase' = [phase EXCEPT ![r] = "step"]
         /\ UNCHANGED <<round, forwards>>
    ELSE /\ phase' = [phase EXCEPT ![r] = "forward"]
         /\ round' = [round EXCEPT ![r] = @ + 1]
         /\ forwards' = [forwards EXCEPT ![r] = ForwardsPerBackward]

(* Parameters of the buckets whose work is set.                            *)
Launchings(r) == UNION {ParamsIn(buckets[r][b]) : b \in work[r]}

(***************************************************************************)
(* FinalizeBackward, called by the hook that launched the last bucket: the *)
(* compute stream waits for the work of every bucket, and a gradient that  *)
(* is not a view of its bucket gets its slice copied back.  Backward       *)
(* returns once no other gradient is outstanding.                          *)
(***************************************************************************)
FinalizeBackward(r) ==
    /\ phase[r] = "finalize"
    /\ Launchings(r) \cap InFlight(r) = {}
    /\ own' = [own EXCEPT ![r] =
           [p \in Params |-> IF ~asView /\ p \in Launchings(r) THEN mem[r][p] ELSE @[p]]]
    /\ work'     = [work EXCEPT ![r] = {}]
    /\ allReady' = [allReady EXCEPT ![r] = FALSE]
    /\ IF todo[r] = {}
       THEN EndRound(r)
       ELSE phase' = [phase EXCEPT ![r] = "backward"] /\ UNCHANGED <<round, forwards>>
    /\ UNCHANGED <<engineOrder, trainable, asView, todo, grad, overwrite, mem, buckets, pending,
                   nextBucket, readyOrder, needRebuild, hasRebuilt, comm>>

(* Backward returns although some bucket never became ready.               *)
BackwardReturns(r) ==
    /\ phase[r] = "backward"
    /\ todo[r] = {}
    /\ EndRound(r)
    /\ UNCHANGED <<engineOrder, trainable, asView, todo, gradVars, mem, bucketVars, flagVars, comm>>

-----------------------------------------------------------------------------
(* The training loop between two optimizer steps.                          *)

IsLastRoundLate(i) == i > AccumSteps * Steps

(* last_step of the training loop.                                         *)
IsLastRound(i) == i = AccumSteps * Steps

(* optimizer->Step() reads the gradients; the loss is averaged after it.   *)
OptimizerStep(r) ==
    /\ phase[r] = "step"
    /\ phase' = [phase EXCEPT ![r] = "loss"]
    /\ comm'  = [comm EXCEPT ![r] = Append(@, LossReduce)]
    /\ UNCHANGED <<engineOrder, trainable, asView, round, forwards, todo, gradVars, mem, bucketVars, flagVars>>

(* The host has read the averaged loss back.  The next iteration starts    *)
(* with ZeroGrad(set_to_none).                                             *)
StartStep(r, setToNone) ==
    /\ phase[r] = "loss"
    /\ \A k \in DOMAIN comm[r] : comm[r][k] # LossReduce
    /\ IF IsLastRound(round[r])
       THEN /\ phase' = [phase EXCEPT ![r] = "done"]
            /\ UNCHANGED <<round, forwards, grad, own, mem>>
       ELSE /\ phase' = [phase EXCEPT ![r] = "forward"]
            /\ round' = [round EXCEPT ![r] = @ + 1]
            /\ forwards' = [forwards EXCEPT ![r] = ForwardsPerBackward]
            /\ IF setToNone
               THEN /\ grad' = [grad EXCEPT ![r] =
                           [p \in Params |-> IF p \in trainable THEN "null" ELSE @[p]]]
                    /\ UNCHANGED <<own, mem>>
               ELSE /\ own' = [own EXCEPT ![r] =
                           [p \in Params |-> IF p \in trainable /\ grad[r][p] = "own"
                                             THEN Zero ELSE @[p]]]
                    /\ mem' = [mem EXCEPT ![r] =
                           [p \in Params |-> IF p \in trainable /\ grad[r][p] = "view"
                                             THEN Zero ELSE @[p]]]
                    /\ UNCHANGED grad
    /\ UNCHANGED <<engineOrder, trainable, asView, todo, overwrite, bucketVars, flagVars, comm>>

(* The head of every communication stream runs, on all ranks together.     *)
AllReduceCompletes ==
    /\ \A r \in Ranks : comm[r] # <<>>
    /\ \A r, s \in Ranks : Head(comm[r]) = Head(comm[s])
    /\ comm' = [r \in Ranks |-> Tail(comm[r])]
    /\ mem'  = [r \in Ranks |-> [p \in Params |->
                   IF p \in ParamsIn(Head(comm[r]))
                   THEN Average({mem[s][p] : s \in Ranks}) ELSE mem[r][p]]]
    /\ UNCHANGED <<engineOrder, trainable, asView, loopVars, gradVars, bucketVars, flagVars>>

-----------------------------------------------------------------------------
RankStep(r) ==
    \/ PrepareForBackward(r)
    \/ \E p \in Params : MarkVariableReadyDense(r, p)
    \/ FinalizeBackward(r)
    \/ BackwardReturns(r)
    \/ OptimizerStep(r)
    \/ \E setToNone \in BOOLEAN : StartStep(r, setToNone)

AllDone == \A r \in Ranks : phase[r] = "done"

(* The run has ended: the only state in which nothing may happen.          *)
Terminated == AllDone /\ UNCHANGED vars

Next ==
    \/ \E r \in Ranks : RankStep(r)
    \/ AllReduceCompletes
    \/ Terminated

(* A host thread and its streams go on while they have something to do.    *)
Spec ==
    /\ Init
    /\ [][Next]_vars
    /\ \A r \in Ranks : WF_vars(RankStep(r))
    /\ WF_vars(AllReduceCompletes)

-----------------------------------------------------------------------------
Phases == {"forward", "backward", "finalize", "step", "loss", "done"}

(* Type invariant.  The counts of a rank stay those of its bucket list,    *)
(* which gives every parameter one bucket.                                 *)
TypeOK ==
    /\ engineOrder \in EngineOrders
    /\ trainable \in TrainableSets
    /\ asView \in BOOLEAN
    /\ phase \in [Ranks -> Phases]
    /\ round \in [Ranks -> Rounds]
    /\ forwards \in [Ranks -> 0..ForwardsPerBackward]
    /\ \A r \in Ranks : phase[r] = "forward" => forwards[r] > 0
    /\ todo \in [Ranks -> SUBSET trainable]
    /\ grad \in [Ranks -> [Params -> {"null", "view", "own"}]]
    /\ own \in [Ranks -> [Params -> Value]]
    /\ overwrite \in [Ranks -> [Params -> BOOLEAN]]
    /\ mem \in [Ranks -> [Params -> Value]]
    /\ buckets \in [Ranks -> Seq(Seq(Params))]
    /\ \A r \in Ranks : IsBucketList(buckets[r])
    /\ pending \in [Ranks -> Seq(Nat)]
    /\ \A r \in Ranks : pending[r] \in [DOMAIN buckets[r] -> Nat]
    /\ work \in [Ranks -> SUBSET Nat]
    /\ \A r \in Ranks : work[r] \subseteq DOMAIN buckets[r]
    /\ nextBucket \in [Ranks -> Nat]
    /\ \A r \in Ranks : nextBucket[r] \in 1..(Len(buckets[r]) + 1)
    /\ readyOrder \in [Ranks -> ReadyOrders]
    /\ needRebuild \in [Ranks -> BOOLEAN]
    /\ hasRebuilt \in [Ranks -> BOOLEAN]
    /\ allReady \in [Ranks -> BOOLEAN]
    /\ comm \in [Ranks -> Seq(Seq(Params))]

-----------------------------------------------------------------------------
(* Parameters of a bucket that have not been marked ready in this round,   *)
(* those without requires_grad, which never are, included.                 *)
Outstanding(r, b) == ParamsIn(buckets[r][b]) \cap (todo[r] \cup (Params \ trainable))

(* Reducer::MarkVariableReadyDense: during a backward, bucket.pending is    *)
(* the number of outstanding parameters of the bucket, however many        *)
(* forwards, rounds without a finalize and rebuilds came before.           *)
CountInv ==
    \A r \in Ranks : phase[r] \in {"backward", "finalize"} =>
        \A b \in DOMAIN buckets[r] : pending[r][b] = Cardinality(Outstanding(r, b))

(* Reducer::FinalizeBackward, PrepareForBackward: when the optimizer reads *)
(* the gradients, each is the average over the ranks of exactly the rounds *)
(* of this step: nothing missing, nothing left from an earlier step,       *)
(* nothing of this rank alone, whatever mode the gradients are kept in and *)
(* however buckets were rebuilt on the way.                                *)
StepGradsAveraged ==
    \A r \in Ranks : phase[r] = "step" =>
        \A p \in trainable :
            GradValue(r, p) = [avg |-> RoundsOfStep(round[r]), loc |-> {}]

(* What `frozen` shows not to hold otherwise: without frozen parameters    *)
(* the optimizer reads gradients that are exactly averaged.                *)
StepGradsAveragedUnlessFrozen == trainable = Params => StepGradsAveraged

(* MarkBucketReady launches in bucket order: the k-th collective still     *)
(* outstanding on two streams is the same one, over the same parameters,   *)
(* unless one rank is ahead; otherwise the group hangs or mixes tensors.   *)
CollectivesMatch ==
    \A r, s \in Ranks : \A k \in DOMAIN comm[r] \cap DOMAIN comm[s] :
        comm[r][k] = comm[s][k]

(* CHECK(bucket.pending > 0) of MarkVariableReadyDense cannot fail: no     *)
(* gradient becomes ready in a bucket that has none left to wait for.      *)
NoCheckFailure ==
    \A r \in Ranks : phase[r] = "backward" =>
        \A p \in todo[r] : pending[r][Locator(buckets[r], p)] > 0

(* FinalizeBucketDense reduces bucket.contents in place: unless a frozen   *)
(* parameter keeps FinalizeBackward from being called, no host or          *)
(* compute-stream step writes a slice from launch to completion.           *)
StableWhileInFlight ==
    [][trainable = Params => \A r \in Ranks : \A p \in InFlight(r) \cap InFlight(r)' :
           mem'[r][p] = mem[r][p]]_vars

(* Every rank gets through its optimizer steps: no rank waits for ever for *)
(* a collective another rank does not start.                               *)
TrainingFinishes == <>AllDone
=============================================================================
