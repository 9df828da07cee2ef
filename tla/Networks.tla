------------------------------ MODULE Networks ------------------------------
(***************************************************************************)
(* Small networks for TLC: the program that every rank runs, the values of *)
(* its leaves, and how the leaves are divided among the ranks.             *)
(***************************************************************************)
EXTENDS MixtureOfExperts, LoRA

CONSTANTS
    NetworkNames, \* those run
    Networks      \* their programs and leaves: NetworksOfNames, built once

(* A leaf: its name, dims as one process has it, and how it is divided:    *)
(* whole, rows or columns of a weight, the rows of q, k and v each, or the *)
(* sequence of an activation.  Of a leaf by "tokens" every rank has a copy *)
(* but uses it for its own tokens under sequence parallelism; one by       *)
(* "heads" is a constant, used for the rank's own heads.                   *)
LeafOf(name, dims, how) == [name |-> name, dims |-> dims, how |-> how]

WithValues(leaves, c) ==
    [k \in DOMAIN leaves |-> [name |-> leaves[k].name, how |-> leaves[k].how,
                              value |-> Input(k + c.seed, leaves[k].dims)]]

(* Rows of q, as many of k and as many of v as there are for their heads.  *)
QKVShard(x, c, n, r) ==
    LET D     == c.n_embd \div c.n_head
        heads == <<c.n_head, c.n_kv_head, c.n_kv_head>>
    IN  ConcatForward([s \in 1..3 |->
            LET before == SumOf(SubSeq(heads, 1, s - 1))
                share  == heads[s] \div n
            IN  Part(x, 1, (before + r * share) * D, (before + (r + 1) * share) * D)], 1)

ShareOf(x, how, c, n, r) ==
    CASE how \in {"whole", "tokens", "heads"} -> x
      [] how = "rows"     -> SplitForward(x, x.dims[1] \div n, 1)[r + 1]
      [] how = "sequence" -> SplitForward(x, x.dims[2] \div n, 2)[r + 1]
      [] how = "columns"  -> SplitForward(x, Last(x.dims) \div n, Len(x.dims))[r + 1]
      [] how = "qkv"      -> QKVShard(x, c, n, r)

(* What the ranks have of a leaf, and a program with its leaves alone.     *)
Division(how, c) ==
    IF c.sequence_parallel THEN how
    ELSE CASE how \in {"sequence", "tokens"} -> "whole"
           [] OTHER -> how

LeafValues(leaves, c) ==
    [k \in DOMAIN leaves |-> [r \in 0..c.tp_size - 1 |->
        ShareOf(leaves[k].value, Division(leaves[k].how, c), c, c.tp_size, r)]]

Start(leaves) ==
    [nodes |-> [k \in DOMAIN leaves |-> [op |-> "Leaf", in |-> <<>>, args |-> None]],
     out |-> Len(leaves)]

(* The leaf of each name; None for the names that are not there.           *)
Parameters(leaves, names) ==
    [n \in names |-> IF \E k \in DOMAIN leaves : leaves[k].name = n
                     THEN CHOOSE k \in DOMAIN leaves : leaves[k].name = n ELSE None]

-----------------------------------------------------------------------------
(* A transformer of one layer with its embedding and its loss.             *)
ModelLeaves(c) ==
    LET C == c.n_embd
        D == C \div c.n_head
        F == c.n_hidden
        qkv == (c.n_head + 2 * c.n_kv_head) * D
        norm(name) ==
            <<LeafOf(name, <<C>>, "tokens")>>
            \o (IF c.norm_type = "LayerNorm" THEN <<LeafOf(name \o "_bias", <<C>>, "tokens")>> ELSE <<>>)
        biases ==
            IF ~c.add_bias_linear THEN <<>>
            ELSE <<LeafOf("c_attn_bias", <<qkv>>, "qkv"), LeafOf("c_proj_bias", <<C>>, "tokens"),
                   LeafOf("c_fc_bias", <<F>>, "rows"), LeafOf("mlp_proj_bias", <<C>>, "tokens")>>
        positions ==
            IF c.position_embedding_type = "RoPE"
            THEN <<LeafOf("freqs_cos", <<1, c.T, 1, D \div 2>>, "heads"),
                   LeafOf("freqs_sin", <<1, c.T, 1, D \div 2>>, "heads")>>
            ELSE <<LeafOf("wpe", <<c.T, C>>, "tokens")>>
    IN  <<LeafOf("wte", <<c.n_vocab, C>>, "rows")>> \o positions
        \o norm("ln_1") \o norm("ln_2") \o norm("ln_f") \o biases
        \o <<LeafOf("c_attn", <<qkv, C>>, "qkv"), LeafOf("c_proj", <<C, C>>, "columns"),
             LeafOf("c_fc", <<F, C>>, "rows"), LeafOf("mlp_proj", <<C, F>>, "columns")>>
        \o (IF c.activation_type = "SwiGLU" THEN <<LeafOf("c_fc2", <<F, C>>, "rows")>> ELSE <<>>)
        \o (IF c.tie_weights THEN <<>> ELSE <<LeafOf("lm_head", <<c.n_vocab, C>>, "rows")>>)

ModelNames ==
    {"wte", "wpe", "freqs_cos", "freqs_sin", "ln_1", "ln_1_bias", "ln_2", "ln_2_bias", "ln_f",
     "ln_f_bias", "c_attn", "c_attn_bias", "c_proj", "c_proj_bias", "c_fc", "c_fc_bias", "c_fc2",
     "c_fc2_bias", "mlp_proj", "mlp_proj_bias", "lm_head"}

(* What is run: the leaves, the program, the configuration, and how what   *)
(* it computes is divided.                                                 *)
Network(leaves, values, t, c, how) ==
    [leaves |-> leaves, values |-> values, program |-> t.nodes, config |-> c, how |-> how]

ModelNetwork(c) ==
    LET leaves == WithValues(ModelLeaves(c), c)
        named  == Parameters(leaves, ModelNames)
        p      == IF c.tie_weights THEN [named EXCEPT !.lm_head = named.wte] ELSE named
    IN  Network(leaves, LeafValues(leaves, c), TransformerModel(Start(leaves), p, c), c, "whole")

-----------------------------------------------------------------------------
(* A column- and a row-parallel layer, with adapters or without, weighted  *)
(* by a leaf so that the gradients differ.                                 *)
PairNames ==
    {"x", "weights", "up", "up_bias", "up_A", "up_B", "down", "down_bias", "down_A", "down_B"}

PairLeaves(c) ==
    <<LeafOf("x", <<1, 2, 4>>, "sequence"), LeafOf("weights", <<1, 2, 4>>, "sequence"),
      LeafOf("up", <<4, 4>>, "rows"), LeafOf("up_bias", <<4>>, "rows"),
      LeafOf("down", <<4, 4>>, "columns"), LeafOf("down_bias", <<4>>, "tokens")>>
    \o (IF c.layers = "linear" THEN <<>>
        ELSE <<LeafOf("up_A", <<1, 4>>, "whole"), LeafOf("up_B", <<4, 1>>, "rows"),
               LeafOf("down_A", <<1, 4>>, "columns"), LeafOf("down_B", <<4, 1>>, "whole")>>)

Weighted(t, p) == With(t, "Mul", p.weights)

(* The caller adds the biases that the layers leave to it.                 *)
LinearPair(t, p, c) ==
    LET column == [ColumnOf(c) EXCEPT !.gather_output = c.gather_output, !.skip_bias_add = c.skip_bias_add]
        row    == [RowOf(c) EXCEPT !.input_is_parallel = ~c.gather_output, !.skip_bias_add = c.skip_bias_add]
        up     == ColumnParallelLinear(From(t, p.x), p.up, p.up_bias, column)
        hidden == IF c.skip_bias_add THEN With(up, "Add", p.up_bias) ELSE up
        down   == RowParallelLinear(hidden, p.down, p.down_bias, row)
    IN  IF c.skip_bias_add THEN With(down, "Add", p.down_bias) ELSE down

AdaptedPair(t, p, c) ==
    LET column == [ColumnOf(c) EXCEPT !.gather_output = c.gather_output]
        row    == [RowOf(c) EXCEPT !.input_is_parallel = ~c.gather_output]
        up     == LoRAColumnParallelLinear(From(t, p.x), p.up, p.up_bias, p.up_A, p.up_B, c.scaling, column)
    IN  LoRARowParallelLinear(up, p.down, p.down_bias, p.down_A, p.down_B, c.scaling, row)

(* The same with LoRALinear on one rank.                                   *)
AdaptedWhole(t, p, c) ==
    LoRALinear(LoRALinear(From(t, p.x), p.up, p.up_bias, p.up_A, p.up_B, c.scaling),
               p.down, p.down_bias, p.down_A, p.down_B, c.scaling)

(* MergeWeights on every rank, UnmergeWeights, and MergeWeights again.     *)
Merged(values, p, c) ==
    LET module(w, A, B) ==
            [Module("", values[w]) EXCEPT !.is_lora = TRUE, !.lora_A = values[A], !.lora_B = values[B]]
        again(m) == MergeWeights(UnmergeWeights(MergeWeights(m, c.scaling), c.scaling), c.scaling)
    IN  [values EXCEPT ![p.up]   = again(module(p.up, p.up_A, p.up_B)).weight,
                       ![p.down] = again(module(p.down, p.down_A, p.down_B)).weight]

PairNetwork(c) ==
    LET leaves == WithValues(PairLeaves(c), c)
        values == LeafValues(leaves, c)
        p      == Parameters(leaves, PairNames)
        start  == Start(leaves)
        network(v, t) == Network(leaves, v, Weighted(t, p), c, "sequence")
    IN  CASE c.layers = "linear" -> network(values, LinearPair(start, p, c))
          [] c.layers = "lora" /\ c.tp_size > 1 -> network(values, AdaptedPair(start, p, c))
          [] c.layers = "merged" /\ c.tp_size > 1 ->
                 network(Merged(values, p, c), LinearPair(start, p, c))
          [] OTHER -> network(values, AdaptedWhole(start, p, c))

-----------------------------------------------------------------------------
(* A layer of experts; the one process runs every expert on every token    *)
(* and weights what it does not need with zero.                            *)
ExpertFields == {"c_fc", "c_fc_bias", "c_fc2", "c_fc2_bias", "mlp_proj", "mlp_proj_bias"}

ExpertLeaves(e, c) ==
    <<LeafOf(<<"c_fc", e>>, <<2, c.n_embd>>, "rows"), LeafOf(<<"c_fc2", e>>, <<2, c.n_embd>>, "rows"),
      LeafOf(<<"mlp_proj", e>>, <<c.n_embd, 2>>, "columns")>>

MoELeaves(c) ==
    <<LeafOf(<<"x">>, c.dims, "whole"), LeafOf(<<"weights">>, c.dims, "whole"),
      LeafOf(<<"router">>, <<c.num_experts, c.n_embd>>, "whole"),
      LeafOf(<<"router_bias">>, <<c.num_experts>>, "whole")>>
    \o FlattenSeq([e \in 1..c.num_experts |-> ExpertLeaves(e, c)])

DenseExperts(t, p, probs, c) ==
    LET dims == Append(Front(c.dims), c.num_experts)
        add(u, e) ==
            LET mlp    == MLP(From(u, p.x), p.experts[e], c)
                weight == SliceLast(From(mlp, probs), dims, e - 1, e, 1)
                term   == Node(weight, "Mul", <<mlp.out, weight.out>>, None)
            IN  IF e = 1 THEN term ELSE With(term, "Add", u.out)
    IN  FoldLeft(add, t, [e \in 1..c.num_experts |-> e])

MoENetwork(c) ==
    LET leaves  == WithValues(MoELeaves(c), c)
        values  == LeafValues(leaves, c)
        at      == Parameters(leaves, {<<f>> : f \in {"x", "weights", "router", "router_bias"}}
                                      \cup (ExpertFields \X (1..c.num_experts)))
        p       == [x |-> at[<<"x">>], weights |-> at[<<"weights">>], router |-> at[<<"router">>],
                    router_bias |-> at[<<"router_bias">>],
                    experts |-> [e \in 1..c.num_experts |-> [f \in ExpertFields |-> at[<<f, e>>]]]]
        logits  == LinearForward(values[p.x][0], values[p.router][0], TRUE, values[p.router_bias][0])
        indices == TopIndices(logits, c)
        start   == From(Start(leaves), p.x)
        router  == TopKRouter(start, p, logits.dims, indices, c)
    IN  Network(leaves, values,
                Weighted(IF c.tp_size = 1 THEN DenseExperts(router, p, router.out, c)
                         ELSE MoELayer(start, p, indices, c), p),
                c, "whole")

-----------------------------------------------------------------------------
(***************************************************************************)
(* The configurations run.  Where the vocabulary is padded the loss is not *)
(* smoothed: the code multiplies minus infinity by zero then.              *)
(***************************************************************************)
Gpt2 ==
    [kind |-> "model", n_embd |-> 4, n_head |-> 2, n_kv_head |-> 2, n_hidden |-> 4, n_vocab |-> 4,
     B |-> 1, T |-> 2, tokens |-> [i \in 0..1 |-> 3 - 2 * i], target |-> [i \in 0..1 |-> 1 + i],
     vocab |-> 3, smoothing |-> Zero, sequence_parallel |-> FALSE, tp_size |-> 2, seed |-> 1,
     norm_type |-> "LayerNorm", norm_eps |-> Number(3), add_bias_linear |-> TRUE,
     position_embedding_type |-> "Learned", activation_type |-> "GELU", tie_weights |-> FALSE]

Llama3 ==
    [Gpt2 EXCEPT !.n_embd = 8, !.n_head = 4, !.n_hidden = 2, !.vocab = 4, !.smoothing = Number(20),
                 !.norm_type = "RMSNorm", !.add_bias_linear = FALSE,
                 !.position_embedding_type = "RoPE", !.activation_type = "SwiGLU"]

Pair ==
    [kind |-> "pair", layers |-> "linear", gather_output |-> FALSE, skip_bias_add |-> FALSE,
     scaling |-> Number(2), sequence_parallel |-> FALSE, tp_size |-> 2, seed |-> 1]

Mixtral ==
    [kind |-> "experts", dims |-> <<1, 3, 2>>, n_embd |-> 2, num_tokens |-> 3, num_experts |-> 4, topk |-> 2,
     score_function |-> "softmax", pre_softmax |-> FALSE, scaling |-> <<>>,
     activation_type |-> "SwiGLU", sequence_parallel |-> FALSE, tp_size |-> 2, seed |-> 1]

Config(name) ==
    CASE name = "gpt2"            -> Gpt2
      [] name = "gpt2_tied_sp"    -> [Gpt2 EXCEPT !.tie_weights = TRUE, !.sequence_parallel = TRUE]
      [] name = "llama3_sp"       -> [Llama3 EXCEPT !.sequence_parallel = TRUE]
      [] name = "linear_skip"     -> [Pair EXCEPT !.skip_bias_add = TRUE]
      [] name = "lora_gathered"   -> [Pair EXCEPT !.layers = "lora", !.gather_output = TRUE]
      [] name = "lora_sp"         -> [Pair EXCEPT !.layers = "lora", !.sequence_parallel = TRUE]
      [] name = "lora_merged"     -> [Pair EXCEPT !.layers = "merged"]
      [] name = "moe"             -> Mixtral
      [] name = "moe_pre_softmax" -> [Mixtral EXCEPT !.pre_softmax = TRUE, !.scaling = <<Number(3)>>]
      [] name = "moe_sigmoid"     -> [Mixtral EXCEPT !.score_function = "sigmoid"]

OnOneProcess(c) == [c EXCEPT !.tp_size = 1, !.sequence_parallel = FALSE]

NetworksOfNames ==
    LET network(c) ==
            CASE c.kind = "model"   -> ModelNetwork(c)
              [] c.kind = "pair"    -> PairNetwork(c)
              [] c.kind = "experts" -> MoENetwork(c)
    IN  [n \in NetworkNames |->
            [whole |-> network(OnOneProcess(Config(n))), sharded |-> network(Config(n))]]

-----------------------------------------------------------------------------
(* Both runs of a network go on together.                                  *)
Begun(network) ==
    [k \in DOMAIN network |-> [network |-> network[k], run |-> NewRun(network[k].values)]]

IsOver(state) == \A k \in DOMAIN state : HasRun(state[k].network.program, state[k].run)

Further(state) ==
    [k \in DOMAIN state |->
        IF HasRun(state[k].network.program, state[k].run) THEN state[k]
        ELSE [state[k] EXCEPT !.run = Advanced(state[k].network.program, state[k].run)]]

(***************************************************************************)
(* The ranks of a network have of a result, and of a gradient, what the    *)
(* one process has: their part of it, or of a parameter that each uses for *)
(* its own tokens, a term of the sum.  A part without a gradient counts as *)
(* zero.  Of gradients the changes are not compared.                       *)
(***************************************************************************)
SharesOf(x, how, n) ==
    [r \in 0..n.config.tp_size - 1 |->
        ShareOf(x, Division(how, n.config), n.config, n.config.tp_size, r)]

GradientOf(run, k) ==
    IF run.grads[k] # NoGrad THEN run.grads[k]
    ELSE [r \in DOMAIN run.values[k] |-> Filled(run.values[k][r].dims)]

SameNumbers(t, u) == t.dims = u.dims /\ \A i \in DOMAIN u.el : t.el[i][1] = u.el[i][1]

GradientAgrees(state, k) ==
    LET n     == state.sharded.network
        how   == Division(n.leaves[k].how, n.config)
        whole == GradientOf(state.whole.run, k)[0]
        own   == GradientOf(state.sharded.run, k)
    IN  CASE how = "heads"  -> TRUE
          [] how = "tokens" -> SameNumbers(AllReduce(own)[0], whole)
          [] OTHER -> \A r \in DOMAIN own : SameNumbers(own[r], SharesOf(whole, how, n)[r])

(* Merged weights have no adapters next to them.                           *)
Compared(n) ==
    {k \in DOMAIN n.leaves :
        n.config.kind = "pair" =>
            ~(n.config.layers = "merged" /\ n.leaves[k].name \in {"up_A", "up_B", "down_A", "down_B"})}

RanksAgree(state) ==
    LET n == state.sharded.network
    IN  /\ Last(state.sharded.run.values) = SharesOf(Last(state.whole.run.values)[0], n.how, n)
        /\ \A k \in Compared(n) : GradientAgrees(state, k)
=============================================================================
