------------------------------ MODULE Adapters ------------------------------
(***************************************************************************)
(* Small models with adapters for TLC: one process and a tensor-parallel   *)
(* group do the same with a model, train, merge, save, start again, load.  *)
(***************************************************************************)
EXTENDS Networks

(* The parallel layers of a block, and a plain layer on one process.       *)
Block == {<<"attn", "c_attn">>, <<"attn", "c_proj">>, <<"mlp", "c_fc">>, <<"mlp", "c_proj">>}
Plain == {<<"out">>}

ClassOf(path) ==
    CASE path \in Plain            -> "Linear"
      [] Last(path) = "c_proj"     -> "RowParallelLinear"
      [] OTHER                     -> "ColumnParallelLinear"

KVWidth(c) == c.n_kv_head * (c.n_embd \div c.n_head)

WeightDims(path, c) ==
    CASE path = <<"attn", "c_attn">> -> <<c.n_embd + 2 * KVWidth(c), c.n_embd>>
      [] path = <<"mlp", "c_fc">>    -> <<c.n_hidden, c.n_embd>>
      [] path = <<"mlp", "c_proj">>  -> <<c.n_embd, c.n_hidden>>
      [] OTHER                       -> <<c.n_embd, c.n_embd>>

HowOf(path, which) ==
    LET class == ClassOf(path)
    IN  CASE class = "ColumnParallelLinear" /\ which # "lora_A" ->
                 IF path = <<"attn", "c_attn">> THEN "qkv" ELSE "rows"
          [] class = "RowParallelLinear" /\ which # "lora_B" -> "columns"
          [] OTHER -> "whole"

(* The row of the whole of a rank's i-th.                                  *)
WholeRow(how, rows, c, n, r, i) ==
    LET q  == c.n_embd \div n
        kv == KVWidth(c) \div n
    IN  CASE how = "rows" -> r * (rows \div n) + i
          [] how = "qkv"  -> IF i < q THEN r * q + i
                             ELSE IF i < q + kv THEN c.n_embd + r * kv + i - q
                             ELSE c.n_embd + KVWidth(c) + r * kv + i - q - kv
          [] OTHER        -> i

RankShares(x, path, which, c, n) ==
    LET how  == HowOf(path, which)
        dims == CASE how = "whole"   -> x.dims
                  [] how = "columns" -> <<x.dims[1], x.dims[2] \div n>>
                  [] OTHER           -> <<x.dims[1] \div n, x.dims[2]>>
        column(r, j) == IF how = "columns" THEN r * dims[2] + j ELSE j
        source(r, k) == WholeRow(how, x.dims[1], c, n, r, k \div dims[2]) * x.dims[2] + column(r, k % dims[2])
    IN  [r \in 0..n - 1 |-> Tensor(dims, [k \in Elements(dims) |-> x.el[source(r, k)]])]

(* Every path has values of its own. *)
SeedOf(path) == Len(path) + (CHOOSE k \in 1..5 :
    path = <<<<"attn", "c_attn">>, <<"attn", "c_proj">>, <<"mlp", "c_fc">>, <<"mlp", "c_proj">>, <<"out">>>>[k])

DrawnBySeed(path, rank, dims) == Input(20 + SeedOf(path) + 7 * rank, dims)
Checkpoint(path, c) == Input(SeedOf(path), WeightDims(path, c))

FreshModel(c, n) ==
    [p \in c.paths |-> Module(ClassOf(p), RankShares(Checkpoint(p, c), p, "weight", c, n))]

(* One update of everything, whole and as each rank makes it.              *)
Updates(c, rank, n) ==
    LET dims(p) == WeightDims(p, c)
        whole(p) == [weight |-> Input(30 + SeedOf(p), dims(p)),
                     lora_A |-> Input(40 + SeedOf(p), <<rank, dims(p)[2]>>),
                     lora_B |-> Input(50 + SeedOf(p), <<dims(p)[1], rank>>)]
    IN  [p \in c.paths |->
            [which \in {"weight", "lora_A", "lora_B"} |-> RankShares(whole(p)[which], p, which, c, n)]]

Scaling == Number(3)
LoRAConfigOf(rank, targets) == [rank |-> rank, target_modules |-> targets]
SomeTargets == {<<"c_attn">>, <<"attn", "c_proj">>, <<"out">>}
AllTargets == {<<"c_attn">>, <<"c_proj">>, <<"c_fc">>, <<"out">>}

NoFile == [absent |-> TRUE]

-----------------------------------------------------------------------------
(***************************************************************************)
(* size is of the group; base has the whole weights without adapters;      *)
(* misfit says that adapters of another rank were loaded.                  *)
(***************************************************************************)
BothModels(c, n, config) ==
    [k \in {"whole", "sharded"} |->
        GetLoRAModel(FreshModel(c, IF k = "whole" THEN 1 ELSE n), config)]

Started(c, n, config) ==
    [config |-> c, size |-> n, rank |-> config.rank, models |-> BothModels(c, n, config),
     base |-> [p \in c.paths |-> Checkpoint(p, c)],
     files |-> NoFile, file_rank |-> 0, trainings |-> 0, starts |-> 0, misfit |-> FALSE]

OnBoth(job, change(_, _)) ==
    [job EXCEPT !.models = [k \in DOMAIN job.models |-> change(job.models[k], k)]]

SizeOf(job, k) == IF k = "whole" THEN 1 ELSE job.size
HasCrashed(job) == \E k \in DOMAIN job.models : job.models[k] = Crashed
SomeMerged(job) == \E p \in LoRAPaths(job.models.whole) : job.models.whole[p].merged

Delta(m) == LoRADelta(m.lora_A[0], m.lora_B[0], Scaling)

Trained(job) ==
    LET step(model, k) == TrainStep(model, Updates(job.config, job.rank, SizeOf(job, k)))
        update == Updates(job.config, job.rank, 1)
    IN  [OnBoth(job, step) EXCEPT
            !.trainings = @ + 1,
            !.base = [p \in DOMAIN job.base |->
                IF job.models.whole[p].weight_grad THEN AddForward(@[p], update[p].weight[0]) ELSE @[p]]]

MergedJob(job) == OnBoth(job, LAMBDA model, k : MergeLoRAWeights(model, Scaling))
UnmergedJob(job) == OnBoth(job, LAMBDA model, k : UnmergeLoRAWeights(model, Scaling))

Unloaded(job) ==
    LET whole == job.models.whole
    IN  [OnBoth(job, LAMBDA model, k : MergeAndUnload(model, Scaling)) EXCEPT
            !.starts = @ + 1,
            !.base = [p \in DOMAIN job.base |->
                IF whole[p].is_lora THEN AddForward(@[p], Delta(whole[p])) ELSE @[p]]]

Injected(job, targets) ==
    OnBoth(job, LAMBDA model, k : GetLoRAModel(model, LoRAConfigOf(job.rank, targets)))

Saved(job) ==
    [job EXCEPT !.files = [k \in DOMAIN job.models |-> SaveLoRAWeights(job.models[k])],
                !.file_rank = job.rank]

Loaded(job) ==
    [OnBoth(job, LAMBDA model, k : LoadLoRAWeights(model, job.files[k])) EXCEPT
        !.misfit = job.rank # job.file_rank
                   /\ LoRAStateDict(job.models.whole) \cap DOMAIN job.files.whole # {}]

(* Another run of the program, of other ranks, that loads the adapters.    *)
Restarted(job, n, config) ==
    Loaded([Started(job.config, n, config) EXCEPT
                !.files = job.files, !.file_rank = job.file_rank,
                !.trainings = job.trainings, !.starts = job.starts + 1])

-----------------------------------------------------------------------------
SameModules(whole, sharded, c, n) ==
    \A p \in c.paths :
        /\ \A f \in {"class", "is_lora", "merged", "weight_grad", "lora_grad"} : whole[p][f] = sharded[p][f]
        /\ sharded[p].weight = RankShares(whole[p].weight[0], p, "weight", c, n)
        /\ whole[p].is_lora =>
              \A which \in {"lora_A", "lora_B"} :
                  sharded[p][which] = RankShares(whole[p][which][0], p, which, c, n)

(* An adapter counts once: in the weight, or next to it and trainable.     *)
CountsOnce(m, base) ==
    /\ m.weight[0] = IF m.merged THEN AddForward(base, Delta(m)) ELSE base
    /\ m.is_lora => m.lora_grad = ~m.merged /\ ~m.weight_grad

AreOneModel(job) ==
    /\ SameModules(job.models.whole, job.models.sharded, job.config, job.size)
    /\ \A p \in job.config.paths : CountsOnce(job.models.whole[p], job.base[p])
=============================================================================
