----------------------------- MODULE Transformer -----------------------------
(***************************************************************************)
(* The modules of nn/modules and nn/parallel as the programs their Forward *)
(* builds.  A program under construction, t, has its nodes and the one     *)
(* that Forward goes on from, out; p has the leaf of each parameter, None  *)
(* where there is none; c is the configuration.                            *)
(***************************************************************************)
EXTENDS ModelRun

None == 0

Node(t, op, in, args) ==
    [nodes |-> Append(t.nodes, [op |-> op, in |-> in, args |-> args]), out |-> Len(t.nodes) + 1]
On(t, op, args) == Node(t, op, <<t.out>>, args)
With(t, op, other) == Node(t, op, <<t.out, other>>, None)
From(t, node) == [t EXCEPT !.out = node]

SliceLast(t, dims, first, end, step) ==
    On(t, "Slice", [starts |-> [d \in DOMAIN dims |-> IF d = Len(dims) THEN first ELSE 0],
                    ends   |-> Resized(dims, Len(dims), end),
                    steps  |-> [d \in DOMAIN dims |-> IF d = Len(dims) THEN step ELSE 1]])

LinearOn(t, w, bias) ==
    Node(t, "Linear", <<t.out, w>> \o (IF bias = None THEN <<>> ELSE <<bias>>), None)

-----------------------------------------------------------------------------
(* c: gather_output, input_is_parallel, skip_bias_add, sequence_parallel.  *)
ColumnInput(t, c) ==
    LET copied == IF c.input_is_parallel \/ c.sequence_parallel THEN t
                  ELSE On(t, "CopyToTPRegion", None)
    IN  IF c.sequence_parallel THEN On(copied, "GatherFromSPRegion", None) ELSE copied

ColumnOutput(t, c) == IF c.gather_output THEN On(t, "GatherFromTPRegion", None) ELSE t

ColumnParallelLinear(t, w, bias, c) ==
    ColumnOutput(LinearOn(ColumnInput(t, c), w, IF c.skip_bias_add THEN None ELSE bias), c)

(* c: reduce_output, input_is_parallel, skip_bias_add, sequence_parallel.  *)
RowInput(t, c) == IF c.input_is_parallel THEN t ELSE On(t, "ScatterToTPRegion", None)

RowOutput(t, bias, c) ==
    LET reduced == IF ~c.reduce_output THEN t
                   ELSE IF c.sequence_parallel THEN On(t, "ReduceScatterToSPRegion", None)
                   ELSE On(t, "ReduceFromTPRegion", None)
    IN  IF bias = None \/ c.skip_bias_add THEN reduced ELSE With(reduced, "Add", bias)

RowParallelLinear(t, w, bias, c) == RowOutput(LinearOn(RowInput(t, c), w, None), bias, c)

(* c: tokens, dims, reduce_scatter_embeddings.                             *)
VocabParallelEmbedding(t, w, c) ==
    On(Node(t, "VocabParallelEmbedding", <<w>>, [tokens |-> c.tokens, dims |-> c.dims]),
       IF c.reduce_scatter_embeddings THEN "ReduceScatterToSPRegion" ELSE "ReduceFromTPRegion", None)

VocabParallelCrossEntropyLoss(t, c) ==
    LET loss == On(t, "VocabParallelCrossEntropy",
                   [target |-> c.target, vocab |-> c.vocab, smoothing |-> c.smoothing])
    IN  On(On(loss, "View", <<Cardinality(DOMAIN c.target)>>), "Mean", [dim |-> 1, keep |-> FALSE])

-----------------------------------------------------------------------------
(***************************************************************************)
(* nn/lora: next to the frozen weight w, A and B of a low rank, of which   *)
(* the one that every rank has whole goes through CopyToTPRegion.          *)
(***************************************************************************)
Adapted(base, x, A, B, scaling) ==
    LET adapter == LinearOn(LinearOn(From(base, x), A, None), B, None)
    IN  With(From(On(adapter, "MulScalar", scaling), base.out), "Add", Len(adapter.nodes) + 1)

LoRALinear(t, w, bias, A, B, scaling) == Adapted(LinearOn(t, w, bias), t.out, A, B, scaling)

LoRAColumnParallelLinear(t, w, bias, A, B, scaling, c) ==
    LET x    == ColumnInput(t, c)
        base == LinearOn(x, w, IF c.skip_bias_add THEN None ELSE bias)
        copy == Node(base, "CopyToTPRegion", <<A>>, None)
    IN  ColumnOutput(Adapted(From(copy, base.out), x.out, copy.out, B, scaling), c)

LoRARowParallelLinear(t, w, bias, A, B, scaling, c) ==
    LET x    == RowInput(t, c)
        base == LinearOn(x, w, None)
        copy == Node(base, "CopyToTPRegion", <<B>>, None)
    IN  RowOutput(Adapted(From(copy, base.out), x.out, A, copy.out, scaling), bias, c)

-----------------------------------------------------------------------------
NewGELU(t) ==
    LET cubed == On(On(t, "Pow", 3), "MulScalar", Number(4))
        inner == On(With(From(cubed, t.out), "Add", cubed.out), "MulScalar", Number(9))
        outer == On(On(inner, "Tanh", None), "AddScalar", One)
        half  == On(From(outer, t.out), "MulScalar", Number(126))
    IN  With(half, "Mul", outer.out)

SwiGLU(t) ==
    LET s == On(t, "Sigmoid", None) IN With(From(s, t.out), "Mul", s.out)

RMSNorm(t, dims, weight, eps) ==
    LET mean  == On(On(t, "Pow", 2), "Mean", [dim |-> Len(dims), keep |-> TRUE])
        rsqrt == On(On(mean, "AddScalar", eps), "Rsqrt", None)
    IN  With(With(From(rsqrt, t.out), "Mul", rsqrt.out), "Mul", weight)

Norm(t, dims, weight, bias, c) ==
    IF c.norm_type = "RMSNorm" THEN RMSNorm(t, dims, weight, c.norm_eps)
    ELSE Node(t, "LayerNorm", <<t.out, weight, bias>>, c.norm_eps)

-----------------------------------------------------------------------------
(* The parallel layers of a block, as causal_self_attention.cc and mlp.cc  *)
(* make them.                                                              *)
ColumnOf(c) == [gather_output |-> FALSE, input_is_parallel |-> FALSE, skip_bias_add |-> FALSE,
                sequence_parallel |-> c.sequence_parallel]
RowOf(c) == [reduce_output |-> TRUE, input_is_parallel |-> TRUE, skip_bias_add |-> FALSE,
             sequence_parallel |-> c.sequence_parallel]

(* Pairs of the last dimension, rotated by the leaves cos and sin.         *)
ApplyRotaryEmbedding(t, dims, cos, sin) ==
    LET D     == Last(dims)
        even  == SliceLast(t, dims, 0, D, 2)
        odd   == SliceLast(From(even, t.out), dims, 1, D, 2)
        times(u, x, f) == Node(u, "Mul", <<x, f>>, None)
        ec    == times(odd, even.out, cos)
        os    == times(ec, odd.out, sin)
        left  == Node(os, "Sub", <<ec.out, os.out>>, None)
        es    == times(left, even.out, sin)
        oc    == times(es, odd.out, cos)
        right == Node(oc, "Add", <<es.out, oc.out>>, None)
    IN  On(Node(right, "Stack", <<left.out, right.out>>, Len(dims) + 1), "View", dims)

RepeatKV(t, dims, n_rep) ==
    IF n_rep = 1 THEN t
    ELSE On(On(On(t, "View", <<dims[1], dims[2], dims[3], 1, dims[4]>>),
               "RepeatInterleave", [repeat |-> n_rep, dim |-> 4]),
            "View", <<dims[1], dims[2], dims[3] * n_rep, dims[4]>>)

(***************************************************************************)
(* A rank has n_head / tp_size heads; under sequence parallelism the input *)
(* has its part of the T tokens, but q, k and v have all of them.          *)
(***************************************************************************)
CausalSelfAttention(t, p, c) ==
    LET D  == c.n_embd \div c.n_head
        H  == c.n_head \div c.tp_size
        KV == c.n_kv_head \div c.tp_size
        qkv == ColumnParallelLinear(t, p.c_attn, p.c_attn_bias, ColumnOf(c))
        part(u, first, heads) ==
            On(SliceLast(From(u, qkv.out), <<c.B, c.T, (H + 2 * KV) * D>>, first * D, (first + heads) * D, 1),
               "View", <<c.B, c.T, heads, D>>)
        rotated(u, heads) ==
            IF c.position_embedding_type = "RoPE"
            THEN ApplyRotaryEmbedding(u, <<c.B, c.T, heads, D>>, p.freqs_cos, p.freqs_sin) ELSE u
        q0 == part(qkv, 0, H)
        k0 == part(q0, H, KV)
        v0 == part(k0, H + KV, KV)
        q  == On(rotated(From(v0, q0.out), H), "Transpose", <<2, 3>>)
        k  == On(RepeatKV(rotated(From(q, k0.out), KV), <<c.B, c.T, KV, D>>, c.n_head \div c.n_kv_head),
                 "Transpose", <<2, 3>>)
        v  == On(RepeatKV(From(k, v0.out), <<c.B, c.T, KV, D>>, c.n_head \div c.n_kv_head),
                 "Transpose", <<2, 3>>)
        kt == On(From(v, k.out), "Transpose", <<3, 4>>)
        att == On(On(Node(kt, "Matmul", <<q.out, kt.out>>, None), "MulScalar", Number(3)),
                  "CausalSoftmax", None)
        y  == On(On(With(att, "Matmul", v.out), "Transpose", <<2, 3>>), "View", <<c.B, c.T, H * D>>)
    IN  RowParallelLinear(y, p.c_proj, p.c_proj_bias, RowOf(c))

MLP(t, p, c) ==
    LET fc     == ColumnParallelLinear(t, p.c_fc, p.c_fc_bias, ColumnOf(c))
        fc2    == ColumnParallelLinear(From(fc, t.out), p.c_fc2, p.c_fc2_bias, ColumnOf(c))
        hidden == IF c.activation_type = "SwiGLU"
                  THEN LET s == SwiGLU(fc2) IN Node(s, "Mul", <<fc.out, s.out>>, None)
                  ELSE NewGELU(fc)
    IN  RowParallelLinear(hidden, p.mlp_proj, p.mlp_proj_bias, RowOf(c))

-----------------------------------------------------------------------------
(* What of the tokens a rank's activations are of.                         *)
LocalDims(c) ==
    <<c.B, IF c.sequence_parallel THEN c.T \div c.tp_size ELSE c.T, c.n_embd>>

TransformerFirstStage(t, p, c) ==
    LET tok == VocabParallelEmbedding(t, p.wte,
                   [tokens |-> c.tokens, dims |-> <<c.B, c.T>>,
                    reduce_scatter_embeddings |-> c.sequence_parallel])
        pos == Node(tok, "PositionEmbedding", <<p.wpe>>,
                     [t_local |-> LocalDims(c)[2], sequence_parallel |-> c.sequence_parallel])
    IN  IF c.position_embedding_type = "RoPE" THEN tok
        ELSE Node(pos, "Add", <<tok.out, pos.out>>, None)

TransformerLayer(t, p, c) ==
    LET attn == CausalSelfAttention(Norm(t, LocalDims(c), p.ln_1, p.ln_1_bias, c), p, c)
        x1   == Node(attn, "Add", <<t.out, attn.out>>, None)
        mlp  == MLP(Norm(x1, LocalDims(c), p.ln_2, p.ln_2_bias, c), p, c)
    IN  Node(mlp, "Add", <<x1.out, mlp.out>>, None)

TransformerLastStage(t, p, c) ==
    ColumnParallelLinear(Norm(t, LocalDims(c), p.ln_f, p.ln_f_bias, c), p.lm_head, None, ColumnOf(c))

(* One layer, with the loss of its logits.                                 *)
TransformerModel(t, p, c) ==
    VocabParallelCrossEntropyLoss(
        TransformerLastStage(TransformerLayer(TransformerFirstStage(t, p, c), p, c), p, c), c)
=============================================================================
