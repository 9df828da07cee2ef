------------------------ MODULE DistributedOptimizer ------------------------
(***************************************************************************)
(* ZeRO stages 1 and 2 on every rank of a data-parallel group:             *)
(* ParamAndGradBucketGroup and ParamAndGradBuffer                          *)
(* (ddp/param_and_grad_buffer.cc), DistributedOptimizer                    *)
(* (ddp/distributed_optimizer.cc), the backward hooks of                   *)
(* DistributedDataParallel and the training loop of example/gpt2/main.cc.  *)
(*                                                                         *)
(* A bucket group holds one bucket (PartitionBuckets).  A parameter stands *)
(* for a run of elements that lies in one rank's shard of its bucket; one  *)
(* that crosses shards is several of them.  Host thread and compute stream *)
(* are one process; comm[r] is the rank's communication stream, whose head *)
(* runs once it is at the head on every rank.                              *)
(*                                                                         *)
(* A gradient value is the set of backward rounds it sums: avg those       *)
(* averaged over the ranks, loc those of this rank alone; clipped counts   *)
(* how often it was scaled by a clipping coefficient.  A parameter value   *)
(* is the number of updates it has seen.                                   *)
(***************************************************************************)
EXTENDS Naturals, Sequences, FiniteSets

CONSTANTS
    Ranks,        \* members of the data-parallel group
    Groups,       \* bucket groups, as a sequence of sets of parameters
    Owner,        \* the rank whose shard holds the parameter
    EngineOrders, \* sequences of parameters: gradient-ready orders of the engine
    Configs,      \* settings of a run (see Config)
    MaxAccum,     \* bound on grad_accum_steps
    Steps         \* optimizer steps of the run

GroupIds == DOMAIN Groups
Params   == UNION {Groups[g] : g \in GroupIds}
Rounds   == 1..(MaxAccum * Steps)

(* stage: zero_stage; overlap: overlap_grad_reduce; gather:                *)
(* overlap_param_gather; accum: backward rounds per optimizer step; clip:  *)
(* whether ClipGradNorm_ is called before Step.                            *)
Config == [stage : {1, 2}, overlap : BOOLEAN, gather : BOOLEAN,
           accum : 1..MaxAccum, clip : BOOLEAN]

ASSUME CountsAssumption ==
    /\ MaxAccum \in Nat \ {0} /\ Steps \in Nat \ {0} /\ Ranks # {}
    /\ Configs \subseteq Config

ASSUME GroupsAssumption ==
    /\ Groups \in Seq(SUBSET Params) /\ \A g \in GroupIds : Groups[g] # {}
    /\ \A g, h \in GroupIds : g # h => Groups[g] \cap Groups[h] = {}
    /\ Owner \in [Params -> Ranks] /\ IsFiniteSet(Params)

ASSUME EngineOrdersAssumption ==
    \A o \in EngineOrders : o \in [1..Cardinality(Params) -> Params]
                            /\ \A p \in Params : \E i \in DOMAIN o : o[i] = p

VARIABLES
    config,      \* the settings, the same on every rank
    engineOrder, \* the order in which a round's gradients become ready
    phase,       \* where the rank's training loop is
    round,       \* current backward round
    ready,       \* gradients of this round that were accumulated
    bound,       \* param.grad is a view of the flat gradient buffer (stage 1)
    needRebind,  \* need_rebind_grad_views_
    overwrite,   \* parameters with grad_overwrite_once_
    temp,        \* groups whose temp_full_grad_buffer_list_ entry is allocated
    full,        \* full gradients: grad_data (stage 1) or the temporary buffer
    shard,       \* the rank's grad_shard_buffer_list_ (stage 2)
    withGrad,    \* params_with_grad_ of all groups
    dispatched,  \* groups with grad_reduce_dispatched_
    works,       \* groups with a non-empty grad_reduce_work_list_
    gathers,     \* groups with a non-empty param_gather_work_list_
    value,       \* parameter values, as numbers of updates
    comm         \* collectives enqueued on the rank's communication stream

loopVars == <<phase, round, ready>>
bufVars  == <<bound, needRebind, overwrite, full, shard>>
syncVars == <<temp, withGrad, dispatched, works>>
vars == <<config, engineOrder, loopVars, bufVars, syncVars, gathers, value, comm>>

-----------------------------------------------------------------------------
(* Gradient values.                                                        *)

JunkRound == 0
Value == [avg : SUBSET Rounds, loc : SUBSET (Rounds \cup {JunkRound}), clipped : 0..2]
Zero  == [avg |-> {}, loc |-> {}, clipped |-> 0]
Junk  == [avg |-> {}, loc |-> {JunkRound}, clipped |-> 0]

Plus(v, i) == [v EXCEPT !.loc = @ \cup {i}]

(* kAvg over one slice per rank: exact only if all ranks sum the same.     *)
Average(slices) ==
    IF \A u, v \in slices : u = v
    THEN LET v == CHOOSE x \in slices : TRUE
         IN  IF JunkRound \in v.loc THEN Junk
             ELSE [v EXCEPT !.avg = @ \cup v.loc, !.loc = {}]
    ELSE Junk

Sharded == config.stage = 2

(* Settings under which a step is synchronised once: a reduction launched  *)
(* during backward sees one round only, and if ClipGradNorm_ finished the  *)
(* reductions then Step has nothing left to reduce again.                  *)
SyncedOnce(c) ==
    /\ c.overlap => c.accum = 1
    /\ c.clip => c.stage = 2 /\ c.overlap

(* The gradient piece the base optimizer of rank r has for p, which r owns.*)
PieceGrad(r, p) == IF Sharded THEN shard[r][p] ELSE full[r][p]

RoundsOfStep(i) == (i - config.accum + 1)..i

-----------------------------------------------------------------------------
(* Collectives.                                                            *)

Reduce(g) == [op |-> "reduce", group |-> g]
Gather(g) == [op |-> "gather", group |-> g]
Norm == [op |-> "norm", group |-> 0]
Loss == [op |-> "loss", group |-> 0]
Collective ==
    {Reduce(g) : g \in GroupIds} \cup {Gather(g) : g \in GroupIds} \cup {Norm, Loss}

(* The compute stream has waited for every enqueued collective of kind op. *)
Waited(r, op) == \A k \in DOMAIN comm[r] : comm[r][k].op # op

(* The groups gs in the order of bucket_groups_, and one collective each.  *)
Sorted(gs) ==
    CHOOSE s \in [1..Cardinality(gs) -> gs] : \A i, j \in DOMAIN s : i < j => s[i] < s[j]

InGroupOrder(Op(_), gs) == [k \in DOMAIN Sorted(gs) |-> Op(Sorted(gs)[k])]

GroupOf(p) == CHOOSE g \in GroupIds : p \in Groups[g]
ParamsOf(gs) == UNION {Groups[g] : g \in gs}

-----------------------------------------------------------------------------
(* DistributedDataParallel's constructor builds the buffers; the gradient  *)
(* of every parameter is a view of the flat buffer in stage 1.  The loop   *)
(* then begins with ZeroGrad.                                              *)
Init ==
    /\ config \in Configs
    /\ engineOrder \in EngineOrders
    /\ phase = [r \in Ranks |-> "zero"]
    /\ round = [r \in Ranks |-> 0]
    /\ ready = [r \in Ranks |-> {}]
    /\ bound      = [r \in Ranks |-> ~Sharded]
    /\ needRebind = [r \in Ranks |-> TRUE]
    /\ overwrite  = [r \in Ranks |-> {}]
    /\ full  = [r \in Ranks |-> [p \in Params |-> Junk]]
    /\ shard = [r \in Ranks |-> [p \in Params |-> Junk]]
    /\ temp       = [r \in Ranks |-> {}]
    /\ withGrad   = [r \in Ranks |-> {}]
    /\ dispatched = [r \in Ranks |-> {}]
    /\ works      = [r \in Ranks |-> {}]
    /\ gathers    = [r \in Ranks |-> {}]
    /\ value = [r \in Ranks |-> [p \in Params |-> 0]]
    /\ comm  = [r \in Ranks |-> <<>>]

RebindMarksNone(ps) == {}

(* RebindGradViews marks every parameter MarkGradOverwriteOnNextAccum.     *)
RebindMarks(ps) == ps

(* DistributedDataParallel::Forward, which ends in RebindGradViews.        *)
Forward(r) ==
    LET rebinds == needRebind[r] /\ ~Sharded IN
    /\ phase[r] = "forward"
    /\ bound'      = [bound EXCEPT ![r] = @ \/ rebinds]
    /\ overwrite'  = [overwrite EXCEPT ![r] = IF rebinds THEN @ \cup RebindMarks(Params) ELSE @]
    /\ needRebind' = [needRebind EXCEPT ![r] = @ /\ ~rebinds]
    /\ phase' = [phase EXCEPT ![r] = "backward"]
    /\ ready' = [ready EXCEPT ![r] = {}]
    /\ UNCHANGED <<config, engineOrder, round, full, shard, syncVars, gathers, value, comm>>

-----------------------------------------------------------------------------
(* StartGradSync for the groups gs; allocated are the groups with a        *)
(* temporary buffer.  A dispatched group is left alone, one with work in   *)
(* its list is only marked, and in stage 2 one without a buffer has        *)
(* nothing to reduce.                                                      *)
Starting(r, gs) == gs \ dispatched[r]

LaunchingOwned(r, gs, allocated) ==
    {g \in Starting(r, gs) : \E p \in Groups[g] : Owner[p] = r}

Launching(r, gs, allocated) ==
    {g \in Starting(r, gs) : g \notin works[r] /\ (Sharded => g \in allocated)}

WithGradAfter(r, gs, marked) == marked \ ParamsOf(Starting(r, gs) \ works[r])

GroupReadyEarly(g, marked) == Cardinality(Groups[g] \ marked) <= 1

(* RegisterGradReady: every gradient of the group was registered.          *)
GroupReady(g, marked) == Groups[g] \subseteq marked

(***************************************************************************)
(* AccumulateGrad::Backward for parameter p.  Stage 1: accumulate into     *)
(* param.grad, then the post-accumulate hook, OnGradReady.  Stage 2: the   *)
(* pre-accumulate hook, AccumulateParamGrad, takes the gradient into the   *)
(* group's temporary buffer, which it allocates and zeroes if need be.     *)
(* With overlap_grad_reduce both register the gradient, and the last one   *)
(* of its group starts the reduce-scatter.                                 *)
(***************************************************************************)
AccumulateGrad(r, p) ==
    LET g         == GroupOf(p)
        allocated == IF Sharded THEN temp[r] \cup {g} ELSE temp[r]
        cleared   == [q \in Params |->
                         IF g \in allocated \ temp[r] /\ q \in Groups[g]
                         THEN Zero ELSE full[r][q]]
        sum       == Plus(IF p \in overwrite[r] THEN Zero ELSE cleared[p], round[r])
        marked    == IF config.overlap THEN withGrad[r] \cup {p} ELSE withGrad[r]
        starts    == IF config.overlap /\ GroupReady(g, marked) THEN {g} ELSE {}
        launches  == Launching(r, starts, allocated)
    IN
    /\ phase[r] = "backward"
    /\ p \notin ready[r] /\ p = engineOrder[Cardinality(ready[r]) + 1]
    /\ ready'     = [ready EXCEPT ![r] = @ \cup {p}]
    /\ overwrite' = [overwrite EXCEPT ![r] = @ \ {p}]
    /\ temp' = [temp EXCEPT ![r] = allocated]
    /\ full' = [full EXCEPT ![r] =
                   IF Sharded \/ bound[r] THEN [cleared EXCEPT ![p] = sum] ELSE @]
    /\ withGrad'   = [withGrad EXCEPT ![r] = WithGradAfter(r, starts, marked)]
    /\ dispatched' = [dispatched EXCEPT ![r] = @ \cup starts]
    /\ works'      = [works EXCEPT ![r] = @ \cup launches]
    /\ comm'       = [comm EXCEPT ![r] = @ \o InGroupOrder(Reduce, launches)]
    /\ UNCHANGED <<config, engineOrder, phase, round, bound, needRebind, shard,
                   gathers, value>>

(* Backward has run: the next micro-step, or the end of the step.          *)
BackwardReturns(r) ==
    /\ phase[r] = "backward"
    /\ ready[r] = Params
    /\ IF round[r] % config.accum # 0
       THEN /\ phase' = [phase EXCEPT ![r] = "forward"]
            /\ round' = [round EXCEPT ![r] = @ + 1]
       ELSE /\ phase' = [phase EXCEPT ![r] = IF config.clip THEN "clip" ELSE "step"]
            /\ UNCHANGED round
    /\ UNCHANGED <<config, engineOrder, ready, bufVars, syncVars, gathers, value, comm>>

-----------------------------------------------------------------------------
(* Temporary buffers FinishGradSync leaves: it releases those of the works *)
(* it waits for, and without overlap it waits for none.                    *)
TempAfter(allocated, finished) ==
    IF config.overlap THEN allocated \ finished ELSE allocated

(* FinishGradSync of every group: start what has not been dispatched, make *)
(* the compute stream wait (the guard of what follows), forget the works.  *)
FinishGradSync(r) ==
    LET launches == Launching(r, GroupIds, temp[r]) IN
    /\ comm' = [comm EXCEPT ![r] = @ \o InGroupOrder(Reduce, launches)]
    /\ withGrad'   = [withGrad EXCEPT ![r] = WithGradAfter(r, GroupIds, @)]
    /\ temp'       = [temp EXCEPT ![r] = TempAfter(@, works[r] \cup launches)]
    /\ dispatched' = [dispatched EXCEPT ![r] = {}]
    /\ works'      = [works EXCEPT ![r] = {}]

(* ClipGradNorm_ begins by finishing the gradient reductions ...           *)
ClipFinishesGradSync(r) ==
    /\ phase[r] = "clip"
    /\ FinishGradSync(r)
    /\ phase' = [phase EXCEPT ![r] = "norm"]
    /\ UNCHANGED <<config, engineOrder, round, ready, bufVars, gathers, value>>

(* ... reduces the norm of the local pieces over the group ...             *)
ClipReducesNorm(r) ==
    /\ phase[r] = "norm"
    /\ Waited(r, "reduce")
    /\ comm'  = [comm EXCEPT ![r] = Append(@, Norm)]
    /\ phase' = [phase EXCEPT ![r] = "scale"]
    /\ UNCHANGED <<config, engineOrder, round, ready, bufVars, syncVars, gathers, value>>

Clipped(v) == [v EXCEPT !.clipped = IF @ < 2 THEN @ + 1 ELSE @]

OwnedBy(r) == {p \in Params : Owner[p] = r}

(* ... and scales the local pieces once the norm was read back.            *)
ScaleGradients(r) ==
    LET scaled(old) == [p \in Params |-> IF p \in OwnedBy(r) THEN Clipped(old[p]) ELSE old[p]]
    IN
    /\ phase[r] = "scale"
    /\ Waited(r, "norm")
    /\ phase' = [phase EXCEPT ![r] = "step"]
    /\ IF Sharded
       THEN /\ shard' = [shard EXCEPT ![r] = scaled(@)]
            /\ UNCHANGED full
       ELSE /\ full' = [full EXCEPT ![r] = scaled(@)]
            /\ UNCHANGED shard
    /\ UNCHANGED <<config, engineOrder, round, ready, bound, needRebind, overwrite,
                   syncVars, gathers, value, comm>>

(* Step finishes the gradient reductions first.                            *)
StepFinishesGradSync(r) ==
    /\ phase[r] = "step"
    /\ FinishGradSync(r)
    /\ phase' = [phase EXCEPT ![r] = "update"]
    /\ UNCHANGED <<config, engineOrder, round, ready, bufVars, gathers, value>>

GatherGroupsChained == {Len(Groups)}

(* DistributedOptimizer::StartParamSync starts every group itself: Step    *)
(* skips the chain in which a finished group dispatches the one before it. *)
GatherGroups == GroupIds

(***************************************************************************)
(* The rest of Step once the reductions are done: the base optimizer       *)
(* updates the owned pieces, StartParamSync gathers every group, and       *)
(* FinishParamSync, with overlap_param_gather, waits and empties the work  *)
(* lists.  Without it the gathers were waited for as they were issued, and *)
(* their null works stay listed until Reset.                               *)
(***************************************************************************)
Update(r) ==
    /\ phase[r] = "update"
    /\ Waited(r, "reduce")
    /\ gathers[r] = {}                      \* CHECK(param_gather_work_list_.empty())
    /\ value' = [value EXCEPT ![r] =
           [p \in Params |-> IF p \in OwnedBy(r) THEN @[p] + 1 ELSE @[p]]]
    /\ comm'    = [comm EXCEPT ![r] = @ \o InGroupOrder(Gather, GatherGroups)]
    /\ gathers' = [gathers EXCEPT ![r] = IF config.gather THEN {} ELSE GatherGroups]
    /\ phase'   = [phase EXCEPT ![r] = "gathered"]
    /\ UNCHANGED <<config, engineOrder, round, ready, bufVars, syncVars>>

(* The loss is averaged over the group at the end of the iteration.        *)
ReduceLoss(r) ==
    /\ phase[r] = "gathered"
    /\ Waited(r, "gather")
    /\ comm'  = [comm EXCEPT ![r] = Append(@, Loss)]
    /\ phase' = [phase EXCEPT ![r] = "zero"]
    /\ UNCHANGED <<config, engineOrder, round, ready, bufVars, syncVars, gathers, value>>

IsLastRoundLate(i) == i > config.accum * Steps

IsLastRound(i) == i = config.accum * Steps

ResetGathersKept(gs) == gs

(* ParamAndGradBucketGroup::Reset empties param_gather_work_list_.         *)
ResetGathers(gs) == {}

(* ZeroGrad at the start of an iteration: Reset of every buffer and group, *)
(* and, to set gradients to none, ZeroGrad of every parameter.  A stage-2  *)
(* buffer has no gradient storage and Reset returns early.                 *)
ZeroGrad(r, setToNone) ==
    /\ phase[r] = "zero"
    /\ Waited(r, "loss")
    /\ ~IsLastRound(round[r])
    /\ full' = [full EXCEPT ![r] =
                   IF Sharded \/ setToNone THEN @ ELSE [p \in Params |-> Zero]]
    /\ needRebind' = [needRebind EXCEPT ![r] = IF Sharded THEN @ ELSE setToNone]
    /\ bound'      = [bound EXCEPT ![r] = @ /\ ~setToNone]
    /\ withGrad'   = [withGrad EXCEPT ![r] = {}]
    /\ works'      = [works EXCEPT ![r] = {}]
    /\ dispatched' = [dispatched EXCEPT ![r] = {}]
    /\ gathers'    = [gathers EXCEPT ![r] = ResetGathers(@)]
    /\ temp'       = [temp EXCEPT ![r] = {}]
    /\ round' = [round EXCEPT ![r] = @ + 1]
    /\ phase' = [phase EXCEPT ![r] = "forward"]
    /\ UNCHANGED <<config, engineOrder, ready, overwrite, shard, value, comm>>

TrainingEnds(r) ==
    /\ phase[r] = "zero"
    /\ Waited(r, "loss")
    /\ IsLastRound(round[r])
    /\ phase' = [phase EXCEPT ![r] = "done"]
    /\ UNCHANGED <<config, engineOrder, round, ready, bufVars, syncVars, gathers, value, comm>>

-----------------------------------------------------------------------------
(* A reduce-scatter writes each rank's own shard with the average; it is   *)
(* in place in stage 1.                                                    *)
Scattered(old, g) ==
    [r \in Ranks |-> [p \in Params |->
        IF p \in Groups[g] /\ Owner[p] = r
        THEN Average({full[s][p] : s \in Ranks}) ELSE old[r][p]]]

(* An all-gather copies every rank's shard of the parameters to all.       *)
Gathered(g) ==
    [r \in Ranks |-> [p \in Params |->
        IF p \in Groups[g] THEN value[Owner[p]][p] ELSE value[r][p]]]

(* The head of every communication stream runs, on all ranks together.     *)
CollectiveCompletes ==
    /\ \A r \in Ranks : comm[r] # <<>>
    /\ \A r, s \in Ranks : Head(comm[r]) = Head(comm[s])
    /\ comm' = [r \in Ranks |-> Tail(comm[r])]
    /\ LET c == Head(comm[CHOOSE r \in Ranks : TRUE]) IN
       /\ value' = IF c.op = "gather" THEN Gathered(c.group) ELSE value
       /\ full'  = IF c.op = "reduce" /\ ~Sharded THEN Scattered(full, c.group) ELSE full
       /\ shard' = IF c.op = "reduce" /\ Sharded THEN Scattered(shard, c.group) ELSE shard
    /\ UNCHANGED <<config, engineOrder, loopVars, bound, needRebind, overwrite,
                   syncVars, gathers>>

-----------------------------------------------------------------------------
RankStep(r) ==
    \/ \E setToNone \in BOOLEAN : ZeroGrad(r, setToNone)
    \/ Forward(r)
    \/ \E p \in Params : AccumulateGrad(r, p)
    \/ BackwardReturns(r)
    \/ ClipFinishesGradSync(r)
    \/ ClipReducesNorm(r)
    \/ ScaleGradients(r)
    \/ StepFinishesGradSync(r)
    \/ Update(r)
    \/ ReduceLoss(r)
    \/ TrainingEnds(r)

AllDone == \A r \in Ranks : phase[r] = "done"

(* The run has ended: the only state in which nothing may happen.          *)
Terminated == AllDone /\ UNCHANGED vars

Next ==
    \/ \E r \in Ranks : RankStep(r)
    \/ CollectiveCompletes
    \/ Terminated

(* A host thread and its streams go on while they have something to do.    *)
Spec ==
    /\ Init
    /\ [][Next]_vars
    /\ \A r \in Ranks : WF_vars(RankStep(r))
    /\ WF_vars(CollectiveCompletes)

-----------------------------------------------------------------------------
Phases == {"zero", "forward", "backward", "clip", "norm", "scale", "step", "update",
           "gathered", "done"}

(* Type invariant.  A group with reductions listed is marked dispatched,   *)
(* which is why StartGradSync never starts one twice in a step.            *)
TypeOK ==
    /\ config \in Configs /\ engineOrder \in EngineOrders
    /\ phase \in [Ranks -> Phases]
    /\ round \in [Ranks -> Rounds \cup {0}]
    /\ ready \in [Ranks -> SUBSET Params]
    /\ bound \in [Ranks -> BOOLEAN]
    /\ needRebind \in [Ranks -> BOOLEAN]
    /\ overwrite \in [Ranks -> SUBSET Params]
    /\ full \in [Ranks -> [Params -> Value]]
    /\ shard \in [Ranks -> [Params -> Value]]
    /\ temp \in [Ranks -> SUBSET GroupIds]
    /\ withGrad \in [Ranks -> SUBSET Params]
    /\ dispatched \in [Ranks -> SUBSET GroupIds]
    /\ works \in [Ranks -> SUBSET GroupIds]
    /\ \A r \in Ranks : works[r] \subseteq dispatched[r]
    /\ gathers \in [Ranks -> SUBSET GroupIds]
    /\ value \in [Ranks -> [Params -> 0..Steps]]
    /\ comm \in [Ranks -> Seq(Collective)]

(* DistributedOptimizer::Step, "Ensure grads are synced": when the base    *)
(* optimizer reads its pieces, each is the average over the ranks of       *)
(* exactly the rounds of this step, scaled once if the step is clipped and *)
(* never otherwise, whatever was dispatched early or released meanwhile.   *)
StepGradsSynced ==
    \A r \in Ranks : phase[r] = "update" /\ Waited(r, "reduce") =>
        \A p \in OwnedBy(r) :
            PieceGrad(r, p) = [avg     |-> RoundsOfStep(round[r]),
                               loc     |-> {},
                               clipped |-> IF config.clip THEN 1 ELSE 0]

(* Step gathers updated shards back: a forward or backward pass finds every*)
(* parameter, of whatever shard, updated by all earlier steps and no more. *)
ParamsCurrent ==
    \A r \in Ranks : phase[r] \in {"forward", "backward"} =>
        \A p \in Params : value[r][p] = (round[r] - 1) \div config.accum

(* Bucket groups launch as soon as they are ready and so have no order of  *)
(* their own: the streams still agree on the k-th collective outstanding,  *)
(* unless one rank is ahead; otherwise the group hangs or mixes tensors.   *)
CollectivesMatch ==
    \A r, s \in Ranks : \A k \in DOMAIN comm[r] \cap DOMAIN comm[s] :
        comm[r][k] = comm[s][k]

(* CHECK(param_gather_work_list_.empty()) of StartParamSync cannot fail,   *)
(* although without overlap_param_gather only ZeroGrad empties the list.   *)
NoCheckFailure == \A r \in Ranks : phase[r] = "update" => gathers[r] = {}

(* A reduction reads the full gradients of its group: from launch to       *)
(* completion no host or compute-stream step writes them, or clears them   *)
(* for a buffer allocated anew.  That FinishGradSync drops the buffer      *)
(* while the collective may still run is no write: its memory can only be  *)
(* used again after the compute stream's wait.                             *)
ReducedGroups(r) == {comm[r][k].group : k \in {i \in DOMAIN comm[r] : comm[r][i].op = "reduce"}}

StableWhileInFlight ==
    [][\A r \in Ranks : \A p \in ParamsOf(ReducedGroups(r) \cap ReducedGroups(r)') :
           full'[r][p] = full[r][p]]_vars

(* Every rank gets through its optimizer steps.                            *)
TrainingFinishes == <>AllDone
=============================================================================
