-------------------------------- MODULE LoRA --------------------------------
(***************************************************************************)
(* nn/lora: the adapters of a model's linear modules on the ranks of a     *)
(* tensor-parallel group, from their injection to a file and back.         *)
(*                                                                         *)
(* A model is a function from paths, the names of a module and of those    *)
(* around it, to modules.  Of a module: its class, and whether the LoRA    *)
(* class made from it stands in its place; weight, lora_A and lora_B, each *)
(* with a tensor per rank; merged_; which of them have requires_grad; and  *)
(* whether lora_A and lora_B still count as inputs of a result that was    *)
(* dropped, so that their gradients never are complete.                    *)
(***************************************************************************)
EXTENDS Transformer

CONSTANT Drawn(_, _, _) \* what the random generator gives a rank for a path and dims

Crashed == [crashed |-> TRUE]

Module(class, weight) ==
    [class |-> class, is_lora |-> FALSE, weight |-> weight, lora_A |-> Null, lora_B |-> Null,
     merged |-> FALSE, weight_grad |-> TRUE, lora_grad |-> FALSE, dangling |-> FALSE]

LoRAPaths(model) == {p \in DOMAIN model : model[p].is_lora}

(* x->Slice(d, first, end). *)
Part(x, d, first, end) ==
    CudaSliceForward(x, [starts |-> [e \in DOMAIN x.dims |-> IF e = d THEN first ELSE 0],
                         ends   |-> Resized(x.dims, d, end),
                         steps  |-> [e \in DOMAIN x.dims |-> 1]])

-----------------------------------------------------------------------------
(* A name without a dot in it is a sequence of one. *)
ShouldApplyLoRA(config, path) == \E target \in config.target_modules : IsSuffix(target, path)

(***************************************************************************)
(* A is drawn by one rank where all have it whole or a part of it; B is    *)
(* zero.  A LoRALinear draws on every rank.  Drawn(path, rank, dims) is    *)
(* what the random generator gives a rank.                                 *)
(***************************************************************************)
InitLoRAWeights(path, m, config) ==
    LET ranks == DOMAIN m.weight
        out   == m.weight[0].dims[1]
        in    == m.weight[0].dims[2]
        whole == Drawn(path, 0, <<config.rank, in * GroupSize(m.weight)>>)
    IN  [m EXCEPT
            !.is_lora = TRUE, !.weight_grad = FALSE, !.lora_grad = TRUE,
            !.lora_A = [r \in ranks |->
                CASE m.class = "Linear" -> Drawn(path, r, <<config.rank, in>>)
                  [] m.class = "ColumnParallelLinear" -> Drawn(path, 0, <<config.rank, in>>)
                  [] m.class = "RowParallelLinear" -> SplitForward(whole, in, 2)[r + 1]],
            !.lora_B = [r \in ranks |-> Filled(<<out, config.rank>>)]]

InjectLoRALayers(model, config) ==
    [p \in DOMAIN model |->
        IF ShouldApplyLoRA(config, p) /\ ~model[p].is_lora
        THEN InitLoRAWeights(p, model[p], config) ELSE model[p]]

(* GetLoRAParameters wants no module merged. *)
FreezeBaseModel(model) ==
    IF \E p \in LoRAPaths(model) : model[p].merged THEN Crashed
    ELSE [p \in DOMAIN model |->
            [model[p] EXCEPT !.weight_grad = FALSE, !.lora_grad = model[p].is_lora]]

GetLoRAModel(model, config) ==
    FreezeBaseModel(InjectLoRALayers(model, config))

-----------------------------------------------------------------------------
LoRADelta(A, B, scaling) == MulScalarForward(MatmulForward(B, A), scaling)

(* The product is recorded for a backward that never comes. *)
MergeWeights(m, scaling) ==
    IF m.merged THEN m
    ELSE [m EXCEPT
            !.weight = [r \in DOMAIN m.weight |->
                AddForward(m.weight[r], LoRADelta(m.lora_A[r], m.lora_B[r], scaling))],
            !.merged = TRUE, !.lora_grad = FALSE, !.dangling = m.dangling \/ m.lora_grad]

UnmergeWeights(m, scaling) ==
    IF ~m.merged THEN m
    ELSE [m EXCEPT
            !.weight = [r \in DOMAIN m.weight |->
                SubForward(m.weight[r], LoRADelta(m.lora_A[r], m.lora_B[r], scaling))],
            !.merged = FALSE, !.lora_grad = TRUE, !.dangling = m.dangling \/ m.lora_grad]

MergeLoRAWeights(model, scaling) ==
    [p \in DOMAIN model |->
        IF model[p].is_lora THEN MergeWeights(model[p], scaling) ELSE model[p]]

UnmergeLoRAWeights(model, scaling) ==
    [p \in DOMAIN model |->
        IF model[p].is_lora THEN UnmergeWeights(model[p], scaling) ELSE model[p]]

(* Plain modules with the merged weights; UnfreezeModel. *)
MergeAndUnload(model, scaling) ==
    LET merged == MergeLoRAWeights(model, scaling)
    IN  [p \in DOMAIN model |-> Module(model[p].class, merged[p].weight)]

(***************************************************************************)
(* A step of an optimizer over what has requires_grad: each rank adds its  *)
(* part of an update, unless the gradient never comes.  Forward refuses a  *)
(* merged module whose adapters are trainable.                             *)
(***************************************************************************)
AddUpdates(x, updates) == [r \in DOMAIN x |-> AddForward(x[r], updates[r])]

TrainStep(model, update) ==
    IF \E p \in LoRAPaths(model) : model[p].merged /\ model[p].lora_grad THEN Crashed
    ELSE [p \in DOMAIN model |->
            LET m == model[p] IN
            IF m.is_lora /\ m.lora_grad /\ ~m.dangling
            THEN [m EXCEPT !.lora_A = AddUpdates(m.lora_A, update[p].lora_A),
                           !.lora_B = AddUpdates(m.lora_B, update[p].lora_B)]
            ELSE IF m.weight_grad THEN [m EXCEPT !.weight = AddUpdates(m.weight, update[p].weight)]
            ELSE m]

-----------------------------------------------------------------------------
(* The name of an adapter's parameter is its module's path and "lora_A" or *)
(* "lora_B"; the attention's projection of q, k and v is packed.           *)
LoRAStateDict(model) == LoRAPaths(model) \X {"lora_A", "lora_B"}

IsPackedQKV(path) == Len(path) > 1 /\ path[Len(path) - 1] = "attn" /\ Last(path) = "c_attn"

(* A mutant: the packed projection is taken for a plain column-parallel one. *)
BuildLoRATensorShardingsByClass(model, name) ==
    CASE model[name[1]].class = "ColumnParallelLinear" /\ name[2] = "lora_B" -> "ColumnParallelDim0"
      [] model[name[1]].class = "RowParallelLinear" /\ name[2] = "lora_A" -> "RowParallelDim1"
      [] OTHER -> "Replicated"

BuildLoRATensorShardings(model, name) ==
    LET class == model[name[1]].class
    IN  CASE class = "ColumnParallelLinear" /\ name[2] = "lora_B" ->
                 IF IsPackedQKV(name[1]) THEN "PackedQKVColumnParallelDim0" ELSE "ColumnParallelDim0"
          [] class = "RowParallelLinear" /\ name[2] = "lora_A" -> "RowParallelDim1"
          [] OTHER -> "Replicated"

(* [Q | K | V] to a rank's [Qi | Ki | Vi], and back from the gathered. *)
SlicePackedQKVRowsForTensorParallel(x, q_rows, tp_rank, tp_size) ==
    LET kv_rows == (x.dims[1] - q_rows) \div 2
        q  == q_rows \div tp_size
        kv == kv_rows \div tp_size
    IN  CudaConcatForward(
            <<Part(x, 1, tp_rank * q, (tp_rank + 1) * q),
              Part(x, 1, q_rows + tp_rank * kv, q_rows + (tp_rank + 1) * kv),
              Part(x, 1, q_rows + kv_rows + tp_rank * kv, q_rows + kv_rows + (tp_rank + 1) * kv)>>, 1)

RestorePackedQKVRowsFromTensorParallel(x, q_rows, tp_size) ==
    LET rows == x.dims[1] \div tp_size
        q    == q_rows \div tp_size
        kv   == (rows - q) \div 2
        parts(first, count) ==
            [r \in 1..tp_size |-> Part(x, 1, (r - 1) * rows + first, (r - 1) * rows + first + count)]
    IN  CudaConcatForward(parts(0, q) \o parts(q, kv) \o parts(q + kv, kv), 1)

ExportLoRATensorForSave(model, name) ==
    LET t == model[name[1]][name[2]]
        gathered == GatherTensorParallelShard(t, 1)
        q_rows   == model[name[1]].lora_A[0].dims[2]
        sharding == BuildLoRATensorShardings(model, name)
    IN  CASE sharding = "Replicated" -> t[0]
          [] sharding = "ColumnParallelDim0" -> gathered[0]
          [] sharding = "PackedQKVColumnParallelDim0" ->
                 RestorePackedQKVRowsFromTensorParallel(gathered[0], q_rows, GroupSize(t))
          [] sharding = "RowParallelDim1" -> GatherTensorParallelShard(t, 2)[0]

(* The file, written by the first rank. *)
SaveLoRAWeights(model) ==
    [name \in LoRAStateDict(model) |-> ExportLoRATensorForSave(model, name)]

-----------------------------------------------------------------------------
(* The part of src along the first dimension in which it differs. *)
SlicedToFit(src, dst, tp_rank, tp_size) ==
    LET d    == CHOOSE d \in DOMAIN src.dims :
                    src.dims[d] # dst.dims[d] /\ \A e \in 1..d - 1 : src.dims[e] = dst.dims[e]
        size == src.dims[d] \div tp_size
    IN  IF src.dims[d] % tp_size # 0 THEN Null
        ELSE Part(src, d, tp_rank * size, (tp_rank + 1) * size)

LoadLoRATensorIntoModel(model, name, src) ==
    LET dst    == model[name[1]][name[2]]
        q_rows == model[name[1]].lora_A[0].dims[2]
    IN  [r \in DOMAIN dst |->
            IF dst[r].dims = src.dims THEN src
            ELSE IF BuildLoRATensorShardings(model, name) = "PackedQKVColumnParallelDim0"
            THEN SlicePackedQKVRowsForTensorParallel(src, q_rows, r, GroupSize(dst))
            ELSE SlicedToFit(src, dst[r], r, GroupSize(dst))]

(* A name that is not in the model is left out; a shape that does not fit  *)
(* ends the program.                                                       *)
LoadLoRAWeights(model, file) ==
    LET names  == LoRAStateDict(model) \cap DOMAIN file
        loaded == [name \in names |-> LoadLoRATensorIntoModel(model, name, file[name])]
        fits(name) == \A r \in DOMAIN loaded[name] :
                          loaded[name][r].dims = model[name[1]][name[2]][r].dims
        value(p, which) == IF <<p, which>> \in names THEN loaded[<<p, which>>] ELSE model[p][which]
    IN  IF \E name \in names : ~fits(name) THEN Crashed
        ELSE [p \in DOMAIN model |->
                [model[p] EXCEPT !.lora_A = value(p, "lora_A"), !.lora_B = value(p, "lora_B")]]
=============================================================================
