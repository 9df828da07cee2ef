--------------------------- MODULE MixtureOfExperts ---------------------------
(***************************************************************************)
(* nn/modules/transformer/moe: a router picks topk experts for a token,    *)
(* the tokens are sorted by expert, every expert runs on its own, and the  *)
(* results go back, weighted, to where their tokens came from.             *)
(*                                                                         *)
(* The indices have no gradient; a program is built for the values its     *)
(* leaves have, so it holds the indices that the router picks for them.    *)
(***************************************************************************)
EXTENDS Transformer

(* What the topk is taken of.                                              *)
Scored(logits, c) ==
    CASE c.score_function = "softmax" /\ ~c.pre_softmax -> logits
      [] c.score_function = "softmax" /\ c.pre_softmax  -> SoftmaxForward(logits, Len(logits.dims))
      [] c.score_function = "sigmoid"                   -> SigmoidForward(logits)

TopIndices(logits, c) == TopKForward(Scored(logits, c), c.topk, Len(logits.dims), TRUE)[2]

(* From the logits, t.out, of these dims: the weights of all experts, zero *)
(* for those that were not picked.                                         *)
TopkRoutingWithScoreFunction(t, dims, indices, c) ==
    LET d       == Len(dims)
        top(u)  == On(u, "TopK", [topk |-> c.topk, dim |-> d])
        shares(u) ==
            LET sum == On(On(u, "Sum", [dim |-> d, keep |-> TRUE]), "AddScalar", Zero)
            IN  With(From(sum, u.out), "Div", sum.out)
        probs   ==
            CASE c.score_function = "softmax" /\ c.pre_softmax  -> top(On(t, "Softmax", d))
              [] c.score_function = "softmax" /\ ~c.pre_softmax -> On(top(t), "Softmax", d)
              [] c.score_function = "sigmoid" ->
                     IF c.topk > 1 THEN shares(top(On(t, "Sigmoid", None)))
                     ELSE top(On(t, "Sigmoid", None))
        scaled  == IF c.scaling = <<>> THEN probs ELSE On(probs, "MulScalar", c.scaling[1])
    IN  On(scaled, "Scatter", [index |-> indices, dims |-> dims])

TopKRouter(t, p, dims, indices, c) ==
    TopkRoutingWithScoreFunction(LinearOn(t, p.router, p.router_bias), dims, indices, c)

-----------------------------------------------------------------------------
(* routing_map: by token and expert, flat; experts and tokens from 0.      *)
RoutingMap(indices, c) ==
    [i \in 0..c.num_tokens * c.num_experts - 1 |->
        \E s \in 0..c.topk - 1 : indices[(i \div c.num_experts) * c.topk + s] = i % c.num_experts]

(* Expert by expert, the tokens in their order.                            *)
BuildPermutationMetadata(map, c) ==
    LET tokensOf(e) == SelectSeq([n \in 1..c.num_tokens |-> n - 1],
                                 LAMBDA n : map[n * c.num_experts + e])
        experts == [e \in 1..c.num_experts |-> e - 1]
    IN  [sorted_indices         |-> FlattenSeq([e \in 1..c.num_experts |-> tokensOf(e - 1)]),
         selected_probs_indices |->
             FlattenSeq([e \in 1..c.num_experts |->
                            [k \in DOMAIN tokensOf(e - 1) |-> tokensOf(e - 1)[k] * c.num_experts + e - 1]]),
         tokens_per_expert      |-> [e \in 1..c.num_experts |-> Len(tokensOf(e - 1))]]

(* sorted_indices, once for each element of a row.                         *)
ExpandedIndices(meta, c) ==
    [i \in 0..Len(meta.sorted_indices) * c.n_embd - 1 |-> meta.sorted_indices[i \div c.n_embd + 1]]

(* From the tokens, t.out, and the probabilities: the rows of the experts, *)
(* t.out, and the node of the probabilities that go with them.             *)
Permute(t, probs, meta, c) ==
    LET M      == Len(meta.sorted_indices)
        picked == On(On(From(t, probs), "View", <<c.num_tokens * c.num_experts>>), "Gather",
                     [index |-> [i \in 0..M - 1 |-> meta.selected_probs_indices[i + 1]], dims |-> <<M>>])
    IN  [program |-> On(From(picked, t.out), "Gather",
                        [index |-> ExpandedIndices(meta, c), dims |-> <<M, c.n_embd>>]),
         probs   |-> picked.out]

Unpermute(t, probs, meta, c) ==
    LET M       == Len(meta.sorted_indices)
        weights == On(From(t, probs), "View", <<M, 1>>)
    IN  On(Node(weights, "Mul", <<t.out, weights.out>>, None), "ScatterAdd",
           [index |-> ExpandedIndices(meta, c), dims |-> <<c.num_tokens, c.n_embd>>])

-----------------------------------------------------------------------------
(* The slice of an expert's tokens through its MLP; none for no tokens.    *)
RunExpert(state, e, p, input, meta, c) ==
    LET size  == meta.tokens_per_expert[e]
        slice == On(From(state.program, input), "Slice",
                    [starts |-> <<state.start, 0>>, ends |-> <<state.start + size, c.n_embd>>,
                     steps  |-> <<1, 1>>])
        mlp   == MLP(slice, p.experts[e], c)
    IN  IF size = 0 THEN state
        ELSE [program |-> mlp, start |-> state.start + size, outputs |-> Append(state.outputs, mlp.out)]

SequentialMLP(t, p, probs, indices, c) ==
    LET meta     == BuildPermutationMetadata(RoutingMap(indices, c), c)
        dispatch == Permute(On(t, "View", <<c.num_tokens, c.n_embd>>), probs, meta, c)
        ran      == FoldLeft(LAMBDA state, e :
                                 RunExpert(state, e, p, dispatch.program.out, meta, c),
                             [program |-> dispatch.program, start |-> 0, outputs |-> <<>>],
                             [e \in 1..c.num_experts |-> e])
        joined   == IF Len(ran.outputs) = 1 THEN From(ran.program, ran.outputs[1])
                    ELSE Node(ran.program, "Concat", ran.outputs, 1)
    IN  On(Unpermute(joined, dispatch.probs, meta, c), "View", c.dims)

(* indices: what TopIndices gives for the router's logits.                 *)
MoELayer(t, p, indices, c) ==
    LET router == TopKRouter(t, p, Append(Front(c.dims), c.num_experts), indices, c)
    IN  SequentialMLP(From(router, t.out), p, router.out, indices, c)
=============================================================================
