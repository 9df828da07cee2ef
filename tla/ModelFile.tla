----------------------------- MODULE ModelFile -----------------------------
(***************************************************************************)
(* example/gpt2 and example/llama3: LoadFromLLMC, which reads a rank's     *)
(* part of every tensor of a model file by position.  A file is a sequence *)
(* of floats; a float is named by its tensor, layer, row and column.       *)
(*                                                                         *)
(* c has the header's numbers.  padded_vocab_size is vocab_size in a       *)
(* llama3 file; n_kv_head is GPT2Config's for a gpt2 file; the multiplier  *)
(* is a fraction, 1 for gpt2.                                              *)
(***************************************************************************)
EXTENDS PipelineLayout

RoundUpTo(x, m) == ((x + m - 1) \div m) * m
Llround(x, q) == (2 * x * q[1] + q[2]) \div (2 * q[2])

HeadDim(c) == c.n_embd \div c.n_head

(* MLP's constructor, with an expansion ratio of 4. *)
MLPHidden(c) ==
    LET base == IF c.family = "llama3" THEN (2 * (4 * c.n_embd)) \div 3 ELSE 4 * c.n_embd
    IN  RoundUpTo(Llround(base, c.multiplier), c.multiple_of)

(* The loaders' own: fc_out. *)
FcOut(c) ==
    LET base == (2 * (4 * c.n_embd)) \div 3
        scaled == IF c.multiplier[1] > 0 THEN Llround(base, c.multiplier) ELSE base
    IN  IF c.family = "gpt2" THEN 4 * c.n_embd ELSE RoundUpTo(scaled, c.multiple_of)

ModelVocabSize(c, tp_size) ==
    IF c.family = "gpt2" /\ tp_size > 1 THEN c.padded_vocab_size ELSE c.vocab_size

(* SetupAttention: q, k and v. *)
KVRows(c) == (IF c.n_kv_head < c.n_head THEN c.n_kv_head ELSE c.n_head) * HeadDim(c)

(* Rows and columns of a tensor; a vector has one column. *)
Dims(c, name, hidden, vocab) ==
    CASE name \in {"wte", "lm_head"} -> <<vocab, c.n_embd>>
      [] name = "wpe"                -> <<c.block_size, c.n_embd>>
      [] name = "c_attn"             -> <<c.n_embd + 2 * KVRows(c), c.n_embd>>
      [] name = "c_attn_bias"        -> <<c.n_embd + 2 * KVRows(c), 1>>
      [] name = "c_proj"             -> <<c.n_embd, c.n_embd>>
      [] name \in {"c_fc", "c_fc2"}  -> <<hidden, c.n_embd>>
      [] name = "c_fc_bias"          -> <<hidden, 1>>
      [] name = "mlp_proj"           -> <<c.n_embd, hidden>>
      [] OTHER                       -> <<c.n_embd, 1>>

-----------------------------------------------------------------------------
(* What is written: a tensor of every layer, then the next tensor.         *)
Floats(name, layer, dims) ==
    [i \in 1..dims[1] * dims[2] |->
        [name |-> name, layer |-> layer, row |-> (i - 1) \div dims[2], col |-> (i - 1) % dims[2]]]

WrittenOfLayers(c) ==
    IF c.family = "gpt2"
    THEN <<"ln_1", "ln_1_bias", "c_attn", "c_attn_bias", "c_proj", "c_proj_bias", "ln_2",
           "ln_2_bias", "c_fc", "c_fc_bias", "mlp_proj", "mlp_proj_bias">>
    ELSE <<"ln_1", "c_attn", "c_proj", "ln_2", "c_fc", "c_fc2", "mlp_proj">>

Written(c) ==
    LET floats(name, layer) ==
            Floats(name, layer, Dims(c, name, MLPHidden(c), c.padded_vocab_size))
        all(names) == FlattenSeq([k \in DOMAIN names |-> floats(names[k], 0)])
        layers == WrittenOfLayers(c)
    IN  all(IF c.family = "gpt2" THEN <<"wte", "wpe">> ELSE <<"wte">>)
        \o FlattenSeq([k \in DOMAIN layers |->
               FlattenSeq([i \in 1..c.n_layer |-> floats(layers[k], i - 1)])])
        \o all(IF c.family = "gpt2" THEN <<"ln_f", "ln_f_bias">> ELSE <<"ln_f", "lm_head">>)

-----------------------------------------------------------------------------
(* A stream: the file and the position in it.  Each reader gives the       *)
(* floats it reads, all but All's leave the position after the tensor, and *)
(* All's tensor ends with what it read.                                    *)
Cells(s, first, n) == SubSeq(s.file, s.at + first + 1, s.at + first + n)
Seek(s, n) == [s EXCEPT !.at = @ + n]

RowShard(s, cols, first, n) == Cells(s, first * cols, n * cols)

ColShard(s, rows, cols, first, n) ==
    FlattenSeq([r \in 1..rows |-> Cells(s, (r - 1) * cols + first, n)])

(* As of any column-parallel layer; and q_i, k_i and v_i, each from base_pos. *)
PackedShardAsRows(s, c, cols, tp_rank, tp_size) ==
    LET rows == (c.n_embd + 2 * KVRows(c)) \div tp_size IN RowShard(s, cols, tp_rank * rows, rows)

PackedShard(s, c, cols, tp_rank, tp_size) ==
    LET q  == c.n_embd \div tp_size
        kv == KVRows(c) \div tp_size
    IN  RowShard(s, cols, tp_rank * q, q)
        \o RowShard(s, cols, c.n_embd + tp_rank * kv, kv)
        \o RowShard(s, cols, c.n_embd + KVRows(c) + tp_rank * kv, kv)

(* What a rank reads of a tensor that starts at the position. *)
ReadShard(s, c, name, tp_rank, tp_size) ==
    LET dims == Dims(c, name, FcOut(c), ModelVocabSize(c, tp_size))
        rows == dims[1] \div tp_size
        cols == dims[2] \div tp_size
    IN  CASE name \in {"wte", "lm_head", "c_fc", "c_fc2", "c_fc_bias"} ->
               RowShard(s, dims[2], tp_rank * rows, rows)
          [] name \in {"c_attn", "c_attn_bias"} -> PackedShard(s, c, dims[2], tp_rank, tp_size)
          [] name \in {"c_proj", "mlp_proj"} -> ColShard(s, dims[1], dims[2], tp_rank * cols, cols)
          [] OTHER -> Cells(s, 0, dims[1] * dims[2])

(* Reads a tensor into the model's, key, or skips it. *)
Past(s, c, name, tp_size) ==
    LET dims == Dims(c, name, FcOut(c), ModelVocabSize(c, tp_size))
    IN  Seek(s, dims[1] * dims[2])

ReadInto(s, c, name, key, owned, tp_rank, tp_size) ==
    LET past == Past(s, c, name, tp_size)
    IN  IF ~owned THEN past
        ELSE [past EXCEPT !.state = (key :> ReadShard(s, c, name, tp_rank, tp_size)) @@ @]

(* The loop over the layers for one tensor, with local_layer_index.        *)
ReadLayers(s, c, name, owned_layers, tp_rank, tp_size) ==
    LET local(layer) == Cardinality({k \in owned_layers : k < layer})
        next(t, layer) == ReadInto(t, c, name, <<name, local(layer)>>, layer \in owned_layers,
                                   tp_rank, tp_size)
    IN  FoldLeft(next, s, [i \in 1..c.n_layer |-> i - 1])

ReadAllLayers(s, c, names, owned_layers, tp_rank, tp_size) ==
    FoldLeft(LAMBDA t, name : ReadLayers(t, c, name, owned_layers, tp_rank, tp_size), s, names)

SkipPadding(s, c, tp_size) ==
    IF tp_size = 1 THEN Seek(s, (c.padded_vocab_size - ModelVocabSize(c, tp_size)) * c.n_embd) ELSE s

(* The stage with the head but not the embedding reads wte into lm_head.   *)
ReadGPT2(s, c, owns, owned_layers, stages, tp_rank, tp_size) ==
    LET read(t, name, owned) == ReadInto(t, c, name, <<name>>, owned, tp_rank, tp_size)
        headOnly == stages > 1 /\ owns.head /\ ~owns.embedding
        wte == ReadInto(s, c, "wte", IF headOnly THEN <<"lm_head">> ELSE <<"wte">>,
                        owns.embedding \/ headOnly, tp_rank, tp_size)
        wpe == read(SkipPadding(wte, c, tp_size), "wpe", owns.embedding)
        layers == ReadAllLayers(wpe, c,
                      <<"ln_1", "ln_1_bias", "c_attn", "c_attn_bias", "c_proj", "c_proj_bias", "ln_2",
                        "ln_2_bias", "c_fc", "c_fc_bias", "mlp_proj", "mlp_proj_bias">>,
                      owned_layers, tp_rank, tp_size)
    IN  read(read(layers, "ln_f", owns.norm), "ln_f_bias", owns.norm)

ReadLLaMA3(s, c, owns, owned_layers, tp_rank, tp_size) ==
    LET read(t, name, owned) == ReadInto(t, c, name, <<name>>, owned, tp_rank, tp_size)
        layers == ReadAllLayers(read(s, "wte", owns.embedding), c,
                      <<"ln_1", "c_attn", "c_proj", "ln_2", "c_fc", "c_fc2", "mlp_proj">>,
                      owned_layers, tp_rank, tp_size)
    IN  read(read(layers, "ln_f", owns.norm), "lm_head", owns.head)

-----------------------------------------------------------------------------
(* TransformerModel's constructor: what a stage registers, by the name the *)
(* state dict gives it.                                                    *)
LayerParameters(c) ==
    {"ln_1", "c_attn", "c_proj", "ln_2", "c_fc", "mlp_proj"}
    \cup (IF c.family = "llama3" THEN {"c_fc2"}
          ELSE {"ln_1_bias", "c_attn_bias", "c_proj_bias", "ln_2_bias", "c_fc_bias", "mlp_proj_bias"})

Registered(c, l, stage) ==
    {k \in {<<"wte">>, <<"wpe">>} :
        Owns(l, "embedding", stage) /\ (k = <<"wpe">> => c.family = "gpt2")}
    \cup {<<name, i - 1>> : name \in LayerParameters(c), i \in DOMAIN ModelLayers(l, stage)}
    \cup {k \in {<<"ln_f">>, <<"ln_f_bias">>} :
             Owns(l, "norm", stage) /\ (k = <<"ln_f_bias">> => c.family = "gpt2")}
    \cup {k \in {<<"lm_head">>} : Owns(l, "head", stage)}

(* The checks of Sanitize...Config, of the constructors and of the loaders. *)
IsSane(c) ==
    /\ c.n_embd % c.n_head = 0
    /\ IF c.family = "gpt2" THEN c.n_kv_head = c.n_head
       ELSE c.n_kv_head <= c.n_head /\ c.n_head % c.n_kv_head = 0

IsDivisible(c, tp_size) ==
    /\ MLPHidden(c) > 0
    /\ \A n \in {ModelVocabSize(c, tp_size), c.n_embd, c.n_head, c.n_kv_head, MLPHidden(c)} :
          n % tp_size = 0

(* With one stage GPT-2's wte and lm_head are one tensor.                  *)
Tied(state, c, stages) ==
    IF c.family = "gpt2" /\ stages = 1 THEN [state EXCEPT ![<<"lm_head">>] = state[<<"wte">>]] ELSE state

LoadFromLLMC(file, c, l, stage, tp_rank, tp_size) ==
    LET owns == [m \in {"embedding", "norm", "head"} |-> Owns(l, m, stage)]
        owned_layers == {k \in 0..c.n_layer - 1 : ChunkOfLayer(l, k).stage = stage}
        s == [file |-> file, at |-> 0, state |-> [k \in Registered(c, l, stage) |-> <<>>]]
        read == IF c.family = "gpt2"
                THEN ReadGPT2(s, c, owns, owned_layers, l.stages, tp_rank, tp_size)
                ELSE ReadLLaMA3(s, c, owns, owned_layers, tp_rank, tp_size)
    IN  Tied(read.state, c, l.stages)

(* The models of all ranks, by stage and tp_rank.                          *)
LoadedModels(c, l, tp_size) ==
    LET file == Written(c)
    IN  IF ~IsSane(c) \/ ~IsDivisible(c, tp_size) \/ l = Refused THEN Refused
        ELSE [models |-> [r \in (0..l.stages - 1) \X (0..tp_size - 1) |->
                             LoadFromLLMC(file, c, l, r[1], r[2], tp_size)]]

-----------------------------------------------------------------------------
(* The part of a tensor that a rank's layers use: the rows or columns of   *)
(* its heads, of its part of the hidden units or of the vocabulary.        *)
HeadOfRow(c, row) ==
    CASE row < c.n_embd             -> ((row \div HeadDim(c)) * c.n_kv_head) \div c.n_head
      [] row < c.n_embd + KVRows(c) -> (row - c.n_embd) \div HeadDim(c)
      [] OTHER                      -> (row - c.n_embd - KVRows(c)) \div HeadDim(c)

UnitOf(c, name, float) ==
    CASE name \in {"c_attn", "c_attn_bias"} -> <<HeadOfRow(c, float.row), c.n_kv_head>>
      [] name = "c_proj"                    -> <<float.col \div HeadDim(c), c.n_head>>
      [] name \in {"c_fc", "c_fc2", "c_fc_bias"} -> <<float.row, MLPHidden(c)>>
      [] name = "mlp_proj"                  -> <<float.col, MLPHidden(c)>>

RankPart(c, name, layer, vocab, tp_rank, tp_size) ==
    LET mine(float) ==
            CASE name \in {"wte", "lm_head"} -> (float.row * tp_size) \div vocab = tp_rank
              [] name \in {"wpe", "ln_1", "ln_1_bias", "ln_2", "ln_2_bias", "ln_f", "ln_f_bias",
                           "c_proj_bias", "mlp_proj_bias"} -> TRUE
              [] OTHER -> LET u == UnitOf(c, name, float) IN (u[1] * tp_size) \div u[2] = tp_rank
    IN  SelectSeq(Floats(name, layer, Dims(c, name, MLPHidden(c), vocab)), mine)

(* Every parameter of every rank has its part of its own layer's tensor;   *)
(* GPT-2's head has the embedding's.                                       *)
ArePlaced(models, c, l, tp_size) ==
    \A r \in DOMAIN models :
        LET tensor(k) == IF k = <<"lm_head">> /\ c.family = "gpt2" THEN "wte" ELSE k[1]
            layer(k)  == IF Len(k) = 1 THEN 0 ELSE ModelLayers(l, r[1])[k[2] + 1]
        IN  models[r] = [k \in Registered(c, l, r[1]) |->
                RankPart(c, tensor(k), layer(k), ModelVocabSize(c, tp_size), r[2], tp_size)]
=============================================================================
