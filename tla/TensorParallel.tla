--------------------------- MODULE TensorParallel ---------------------------
(***************************************************************************)
(* nn/parallel/tensor_parallel.cc and utils.cc: what the ranks of a        *)
(* tensor-parallel group compute and exchange.  The ranks run the same     *)
(* program, so a value is a function from ranks, 0.., to tensors.          *)
(***************************************************************************)
EXTENDS AutogradFunctions

Alone(t) == DOMAIN t = {0}
GroupSize(t) == Cardinality(DOMAIN t)
RankMajor(t) == [k \in 1..GroupSize(t) |-> t[k - 1]]

AllReduce(t) ==
    [r \in DOMAIN t |-> Tensor(t[r].dims,
        [i \in DOMAIN t[r].el |-> Sum([k \in DOMAIN t |-> t[k].el[i]])])]

AllGather(t) == [r \in DOMAIN t |-> ConcatForward(RankMajor(t), 1)]

ReduceScatter(t) ==
    [r \in DOMAIN t |->
        SplitForward(AllReduce(t)[r], t[r].dims[1] \div GroupSize(t), 1)[r + 1]]

-----------------------------------------------------------------------------
(* AllGather puts the shards one after another in the first dimension.     *)
GatherTensorParallelShard(t, d) ==
    IF Alone(t) THEN t
    ELSE [r \in DOMAIN t |->
            IF d = 1 THEN AllGather(t)[r]
            ELSE ConcatForward(SplitForward(AllGather(t)[r], t[r].dims[1], 1), d)]

GatherAlongFirstDim(t) == GatherTensorParallelShard(t, 1)
GatherAlongLastDim(t) == GatherTensorParallelShard(t, Len(t[0].dims))

SplitAlongLastDim(t) ==
    IF Alone(t) THEN t
    ELSE [r \in DOMAIN t |->
            LET d == Len(t[r].dims)
            IN  SplitForward(t[r], t[r].dims[d] \div GroupSize(t), d)[r + 1]]

ReduceInGroup(t) == IF Alone(t) THEN t ELSE AllReduce(t)
ReduceScatterAlongFirstDim(t) == IF Alone(t) THEN t ELSE ReduceScatter(t)

(* [B, S, H] to [S, B, H] and back. *)
Swapped01(t) == [r \in DOMAIN t |-> TransposeForward(t[r], 1, 2)]

(* A mutant: a column-parallel layer's input gradient is not summed.       *)
CopyToTPRegionBackwardAlone(g) == g

CopyToTPRegionForward(t) == t
CopyToTPRegionBackward(g) == ReduceInGroup(g)

GatherFromTPRegionForward(t) == GatherAlongLastDim(t)
GatherFromTPRegionBackward(g) == SplitAlongLastDim(g)

ScatterToTPRegionForward(t) == SplitAlongLastDim(t)
ScatterToTPRegionBackward(g) == GatherAlongLastDim(g)

ReduceFromTPRegionForward(t) == ReduceInGroup(t)
ReduceFromTPRegionBackward(g) == g

ReduceScatterToSPRegionForward(t) == Swapped01(ReduceScatterAlongFirstDim(Swapped01(t)))
ReduceScatterToSPRegionBackward(g) == Swapped01(GatherAlongFirstDim(Swapped01(g)))

GatherFromSPRegionForward(t) == Swapped01(GatherAlongFirstDim(Swapped01(t)))
GatherFromSPRegionBackward(g) == Swapped01(ReduceScatterAlongFirstDim(Swapped01(g)))

-----------------------------------------------------------------------------
(***************************************************************************)
(* A rank looks up the ids of its part of the vocabulary.  For the others  *)
(* it looks up id 0 and masks the row it gets.                             *)
(***************************************************************************)
VocabStart(r, w) == r * w[r].dims[1]
InVocab(id, r, w) == VocabStart(r, w) <= id /\ id < VocabStart(r, w) + w[r].dims[1]

Masked(tokens, r, w) ==
    IF Alone(w) THEN {} ELSE {i \in DOMAIN tokens : ~InVocab(tokens[i], r, w)}
MaskedInput(tokens, r, w) ==
    [i \in DOMAIN tokens |->
        IF i \in Masked(tokens, r, w) THEN 0 ELSE tokens[i] - VocabStart(r, w)]

(* The mask has a one for each row of the output. *)
MaskRows(x, rows) ==
    Tensor(x.dims, [i \in DOMAIN x.el |-> IF i \div Last(x.dims) \in rows THEN Zero ELSE x.el[i]])

VocabParallelEmbeddingForward(w, tokens, dims) ==
    [r \in DOMAIN w |->
        MaskRows(EmbeddingForward(MaskedInput(tokens, r, w), dims, w[r]), Masked(tokens, r, w))]

VocabParallelEmbeddingBackward(w, g, tokens, dims) ==
    [r \in DOMAIN w |->
        EmbeddingBackward(MaskedInput(tokens, r, w), dims, w[r].dims,
                          MaskRows(g[r], Masked(tokens, r, w)))]

-----------------------------------------------------------------------------
(***************************************************************************)
(* The loss over logits split by class.  The ids from vocab on are padding *)
(* and masked with minus infinity: they have no exponential.  What is      *)
(* saved is this rank's softmax, target mask, masked target and valid mask.*)
(***************************************************************************)
ValidLogits(logits, r, vocab) ==
    LET V == Last(logits[r].dims) IN {j \in 0..V - 1 : r * V + j < vocab}

GlobalMax(logits, vocab, i) ==
    LET found == UNION {{Logits(logits[r], i)[j] : j \in ValidLogits(logits, r, vocab)} :
                           r \in DOMAIN logits}
    IN  CHOOSE x \in found : \A y \in found : ~Exceeds(y, x)

ShiftedLogits(logits, vocab) ==
    [r \in DOMAIN logits, i \in 0..NumRows(logits[0]) - 1 |->
        LET top == GlobalMax(logits, vocab, i)
        IN  [j \in ValidLogits(logits, r, vocab) |-> Minus(Logits(logits[r], i)[j], top)]]

CrossEntropyOfShifted(logits, shifted, target, vocab, smoothing) ==
    LET rows  == 0..NumRows(logits[0]) - 1
        valid == [r \in DOMAIN logits |-> ValidLogits(logits, r, vocab)]
        V     == Last(logits[0].dims)
        total(f) == Sum([r \in DOMAIN logits |-> Sum(f[r])])
        exps    == [r \in DOMAIN logits, i \in rows |-> [j \in valid[r] |-> ExpOf(shifted[r, i][j])]]
        sum_exp == [i \in rows |-> total([r \in DOMAIN logits |-> exps[r, i]])]
        own(r, i) == {j \in valid[r] : r * V + j = target[i]}
        predicted(i) ==
            total([r \in DOMAIN logits |-> [j \in own(r, i) |-> shifted[r, i][j]]])
        mean_logp(i) ==
            Minus(Times(total([r \in DOMAIN logits |-> shifted[r, i]]), Reciprocal(Number(vocab))),
                  LogOf(sum_exp[i]))
        loss(i) ==
            LET nll == Minus(LogOf(sum_exp[i]), predicted(i))
            IN  IF smoothing = Zero THEN nll
                ELSE Minus(Times(nll, Minus(One, smoothing)), Times(mean_logp(i), smoothing))
    IN  [r \in DOMAIN logits |->
            [loss    |-> Tensor(Front(logits[r].dims), [i \in rows |-> loss(i)]),
             softmax |-> Tensor(logits[r].dims, [k \in Elements(logits[r].dims) |->
                            IF k % V \in valid[r] THEN Divided(exps[r, k \div V][k % V], sum_exp[k \div V])
                            ELSE Zero]),
             target_mask   |-> [i \in rows |-> IF Alone(logits) \/ target[i] \div V = r THEN Zero ELSE One],
             masked_target |-> [i \in rows |-> IF Alone(logits) \/ target[i] \div V = r
                                               THEN target[i] - r * V ELSE 0],
             valid_mask    |-> [j \in 0..V - 1 |-> IF j \in valid[r] THEN One ELSE Zero]]]

VocabParallelCrossEntropyForward(logits, target, vocab, smoothing) ==
    CrossEntropyOfShifted(logits, ShiftedLogits(logits, vocab), target, vocab, smoothing)

(* From what the rank saved. *)
GradOfLogits(g, saved, vocab, smoothing) ==
    VocabParallelCrossEntropyBackward(g, saved.softmax, saved.target_mask, saved.masked_target,
                                      saved.valid_mask, vocab, smoothing)

VocabParallelCrossEntropyGrad(g, saved, vocab, smoothing) ==
    [r \in DOMAIN g |-> GradOfLogits(g[r], saved[r], vocab, smoothing)]
=============================================================================
