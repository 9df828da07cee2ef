---------------------------- MODULE ReductionKernels ----------------------------
(***************************************************************************)
(* The kernels that reduce over a dimension: kernels/{cpu,cuda}/ reduction,*)
(* softmax, cross_entropy, layernorm, topk and embedding, and the updates  *)
(* of accumulate_grad.  The threads of a CUDA block take every             *)
(* ReduceThreads-th element of a line and add up what they found.          *)
(***************************************************************************)
EXTENDS Tensors

Larger(x, y)  == IF Exceeds(y, x) THEN y ELSE x
Smaller(x, y) == IF Exceeds(x, y) THEN y ELSE x

(* f is a function on 0..n-1, n > 0. *)
MaxOf(f) == FoldFunction(Larger, f[0], f)
MinOf(f) == FoldFunction(Smaller, f[0], f)
MeanOf(f) == Divided(Sum(f), Number(Cardinality(DOMAIN f)))

(* What the threads of a block find, each in its share, put together. *)
Shares(n) == {{i \in 0..n - 1 : i % ReduceThreads = t} : t \in 0..ReduceThreads - 1} \ {{}}
BlockSum(f) == Sum([share \in Shares(Cardinality(DOMAIN f)) |-> Sum([i \in share |-> f[i]])])
BlockMax(f) ==
    LET found == {CHOOSE x \in {f[i] : i \in share} : \A j \in share : ~Exceeds(f[j], x) :
                     share \in Shares(Cardinality(DOMAIN f))}
    IN  CHOOSE x \in found : \A y \in found : ~Exceeds(y, x)
BlockMin(f) ==
    LET found == {CHOOSE x \in {f[i] : i \in share} : \A j \in share : ~Exceeds(x, f[j]) :
                     share \in Shares(Cardinality(DOMAIN f))}
    IN  CHOOSE x \in found : \A y \in found : ~Exceeds(x, y)

ReducedDims(dims, d, keep) == IF keep THEN Resized(dims, d, 1) ELSE RemoveAt(dims, d)

(***************************************************************************)
(* The CPU hands its function the address of the line's first element and  *)
(* the length: it reads H elements that follow one another in memory, which*)
(* is the line only if W = 1.                                              *)
(***************************************************************************)
Segment(x, n, w, d) ==
    [i \in 0..x.dims[d] - 1 |-> x.el[n * x.dims[d] * InnerSize(x.dims, d) + w + i]]

(* The line that a CUDA block reads. *)
Line(x, n, w, d) ==
    LET W == InnerSize(x.dims, d) IN [h \in 0..x.dims[d] - 1 |-> x.el[(n * x.dims[d] + h) * W + w]]

Reduced(x, d, keep, result) ==
    LET W == InnerSize(x.dims, d)
    IN  Tensor(ReducedDims(x.dims, d, keep),
               [k \in 0..OuterSize(x.dims, d) * W - 1 |-> result[k \div W, k % W]])

Positions(x, d) == (0..OuterSize(x.dims, d) - 1) \X (0..InnerSize(x.dims, d) - 1)

MeanForward(x, d, keep) == Reduced(x, d, keep, [p \in Positions(x, d) |-> MeanOf(Segment(x, p[1], p[2], d))])
SumForward(x, d, keep)  == Reduced(x, d, keep, [p \in Positions(x, d) |-> Sum(Segment(x, p[1], p[2], d))])
MaxForward(x, d, keep)  == Reduced(x, d, keep, [p \in Positions(x, d) |-> MaxOf(Segment(x, p[1], p[2], d))])
MinForward(x, d, keep)  == Reduced(x, d, keep, [p \in Positions(x, d) |-> MinOf(Segment(x, p[1], p[2], d))])

CudaMeanForward(x, d, keep) ==
    Reduced(x, d, keep, [p \in Positions(x, d) |->
        Divided(BlockSum(Line(x, p[1], p[2], d)), Number(x.dims[d]))])
CudaSumForward(x, d, keep) == Reduced(x, d, keep, [p \in Positions(x, d) |-> BlockSum(Line(x, p[1], p[2], d))])
CudaMaxForward(x, d, keep) == Reduced(x, d, keep, [p \in Positions(x, d) |-> BlockMax(Line(x, p[1], p[2], d))])
CudaMinForward(x, d, keep) == Reduced(x, d, keep, [p \in Positions(x, d) |-> BlockMin(Line(x, p[1], p[2], d))])

(* reduced_idx: the result to which element i of the input went. *)
ReducedIndex(i, dims, d) ==
    (i \div (dims[d] * InnerSize(dims, d))) * InnerSize(dims, d) + (i % InnerSize(dims, d))

ReduceOpBackward(g, dims, d, scale) ==
    Tensor(dims, [i \in Elements(dims) |-> Times(g.el[ReducedIndex(i, dims, d)], scale)])

ReduceOpBackwardMask(input, g, reduced, d) ==
    Tensor(input.dims, [i \in Elements(input.dims) |->
        LET k == ReducedIndex(i, input.dims, d)
        IN  IF input.el[i][1] = reduced.el[k][1] THEN g.el[k] ELSE Zero])

MeanBackward(g, dims, d) == ReduceOpBackward(g, dims, d, Reciprocal(Number(dims[d])))
SumBackward(g, dims, d)  == ReduceOpBackward(g, dims, d, One)
MaxBackward(g, input, reduced, d) == ReduceOpBackwardMask(input, g, reduced, d)
MinBackward(g, input, reduced, d) == ReduceOpBackwardMask(input, g, reduced, d)

(* GenericReduceBackwardKernel *)
CudaReduceOpBackward(g, input, reduced, dims, d, isMean, isMasked) ==
    Tensor(dims, [idx \in Elements(dims) |->
        LET W == InnerSize(dims, d)
            k == (idx \div (dims[d] * W)) * W + ((idx % (dims[d] * W)) % W)
        IN  IF isMasked
            THEN IF input.el[idx][1] = reduced.el[k][1] THEN g.el[k] ELSE Zero
            ELSE IF isMean THEN Divided(g.el[k], Number(dims[d])) ELSE g.el[k]])

-----------------------------------------------------------------------------
(* Lines of softmax: their exponentials over the maximum. *)
Shifted(line, top) == [j \in DOMAIN line |-> ExpOf(Minus(line[j], top))]

Laid(dims, d, lines) ==
    LET W == InnerSize(dims, d)
    IN  Tensor(dims, [i \in Elements(dims) |->
            lines[i \div (dims[d] * W), i % W][(i \div W) % dims[d]]])

SoftmaxForward(x, d) ==
    LET of(line) == LET e == Shifted(line, MaxOf(line)) IN [j \in DOMAIN e |-> Divided(e[j], Sum(e))]
    IN  Laid(x.dims, d, [p \in Positions(x, d) |-> of(Line(x, p[1], p[2], d))])

SoftmaxBackward(g, y, d) ==
    LET of(go, out) ==
            LET dot == Sum([j \in DOMAIN out |-> Times(out[j], go[j])])
            IN  [j \in DOMAIN out |-> Times(out[j], Minus(go[j], dot))]
    IN  Laid(y.dims, d, [p \in Positions(y, d) |-> of(Line(g, p[1], p[2], d), Line(y, p[1], p[2], d))])

CudaSoftmaxForward(x, d) ==
    LET of(line) == LET e == Shifted(line, BlockMax(line)) IN [j \in DOMAIN e |-> Divided(e[j], BlockSum(e))]
    IN  Laid(x.dims, d, [p \in Positions(x, d) |-> of(Line(x, p[1], p[2], d))])

CudaSoftmaxBackward(g, y, d) ==
    LET of(go, out) ==
            LET sum == BlockSum([j \in DOMAIN out |-> Times(go[j], out[j])])
            IN  [j \in DOMAIN out |-> Times(out[j], Minus(go[j], sum))]
    IN  Laid(y.dims, d, [p \in Positions(y, d) |-> of(Line(g, p[1], p[2], d), Line(y, p[1], p[2], d))])

-----------------------------------------------------------------------------
(* Row i of the logits; target[i] is its class. *)
Logits(x, i) == Line(x, i, 0, Len(x.dims))
NumRows(x) == OuterSize(x.dims, Len(x.dims))

CrossEntropyForward(x, target) ==
    LET loss(i) ==
            LET e == Shifted(Logits(x, i), MaxOf(Logits(x, i)))
            IN  Negated(LogOf(Divided(e[target[i]], Sum(e))))
    IN  Tensor(<<>>, [k \in {0} |->
            Divided(Sum([i \in 0..NumRows(x) - 1 |-> loss(i)]), Number(NumRows(x)))])

CrossEntropyBackward(x, target, g) ==
    LET row(i) ==
            LET e == Shifted(Logits(x, i), MaxOf(Logits(x, i)))
            IN  [j \in DOMAIN e |->
                    Divided(Times(g.el[0], Minus(Divided(e[j], Sum(e)),
                                                 IF j = target[i] THEN One ELSE Zero)),
                            Number(NumRows(x)))]
    IN  Laid(x.dims, Len(x.dims), [p \in Positions(x, Len(x.dims)) |-> row(p[1])])

(* A loss for each row on the device, their mean on the host. *)
CudaCrossEntropyForward(x, target) ==
    LET loss(i) ==
            LET line == Logits(x, i)
                top  == BlockMax(line)
            IN  Minus(LogOf(BlockSum(Shifted(line, top))), Minus(line[target[i]], top))
    IN  Tensor(<<>>, [k \in {0} |->
            Divided(Sum([i \in 0..NumRows(x) - 1 |-> loss(i)]), Number(NumRows(x)))])

CudaCrossEntropyBackward(x, target, g) ==
    LET row(i) ==
            LET e     == Shifted(Logits(x, i), BlockMax(Logits(x, i)))
                scale == Reciprocal(BlockSum(e))
                inv   == Reciprocal(Number(NumRows(x)))
            IN  [j \in DOMAIN e |->
                    Times(Times(Minus(Times(e[j], scale), IF j = target[i] THEN One ELSE Zero), inv),
                          g.el[0])]
    IN  Laid(x.dims, Len(x.dims), [p \in Positions(x, Len(x.dims)) |-> row(p[1])])

(***************************************************************************)
(* The backward of the loss over a vocabulary split over ranks: softmax,   *)
(* the targets and masks are this rank's; a target of another rank has     *)
(* targetMask 1, an entry of the padding validMask 0.  smoothing is        *)
(* label_smoothing, vocab the size before padding.                         *)
(***************************************************************************)
VocabParallelCrossEntropyBackward(g, softmax, targetMask, target, validMask, vocab, smoothing) ==
    LET V    == Last(softmax.dims)
        dm(r) == IF NumElements(g.dims) = 1 THEN g.el[0] ELSE g.el[r]
        term == IF smoothing # Zero /\ vocab > 0 THEN Divided(smoothing, Number(vocab)) ELSE Zero
        scale(r) == Times(Times(dm(r), Minus(One, smoothing)), Minus(One, targetMask[r]))
        grad(r, j) == Minus(Minus(Times(dm(r), softmax.el[r * V + j]),
                                  IF j = target[r] THEN scale(r) ELSE Zero),
                            Times(Times(dm(r), term), validMask[j]))
    IN  Tensor(softmax.dims, [i \in Elements(softmax.dims) |->
            Times(grad(i \div V, i % V), validMask[i % V])])

-----------------------------------------------------------------------------
(* Layer norm of rows of embed_dim; returns output, mean and rstd. *)
Width(x) == Last(x.dims)
Row(x, r) == [i \in 0..Width(x) - 1 |-> x.el[r * Width(x) + i]]

Normalised(x, mean, rstd, w, b) ==
    Tensor(x.dims, [k \in Elements(x.dims) |->
        LET r == k \div Width(x) IN
        Plus(Times(Times(rstd[r], Minus(x.el[k], mean[r])), w.el[k % Width(x)]), b.el[k % Width(x)])])

LayerNormForward(x, w, b, eps) ==
    LET mean == [r \in 0..NumRows(x) - 1 |-> MeanOf(Row(x, r))]
        rstd == [r \in 0..NumRows(x) - 1 |->
                    RsqrtOf(Plus(MeanOf([i \in 0..Width(x) - 1 |->
                        Times(Minus(Row(x, r)[i], mean[r]), Minus(Row(x, r)[i], mean[r]))]), eps))]
    IN  <<Normalised(x, mean, rstd, w, b), mean, rstd>>

LayerNormBackward(x, w, mean, rstd, g) ==
    LET C == Width(x)
        norm(r, i)  == Times(Minus(Row(x, r)[i], mean[r]), rstd[r])
        dnorm(r, i) == Times(w.el[i], Row(g, r)[i])
        dnorm_mean(r) == MeanOf([i \in 0..C - 1 |-> dnorm(r, i)])
        dnorm_norm_mean(r) == MeanOf([i \in 0..C - 1 |-> Times(dnorm(r, i), norm(r, i))])
        rows == 0..NumRows(x) - 1
    IN  <<Tensor(x.dims, [k \in Elements(x.dims) |->
              LET r == k \div C
                  i == k % C
              IN  Times(Minus(Minus(dnorm(r, i), dnorm_mean(r)),
                              Times(norm(r, i), dnorm_norm_mean(r))), rstd[r])]),
          Tensor(w.dims, [i \in Elements(w.dims) |->
              Sum([r \in rows |-> Times(norm(r, i), Row(g, r)[i])])]),
          Tensor(w.dims, [i \in Elements(w.dims) |-> Sum([r \in rows |-> Row(g, r)[i]])])>>

(* The variance from the sum of squares. *)
CudaLayerNormForward(x, w, b, eps) ==
    LET C == Number(Width(x))
        mean == [r \in 0..NumRows(x) - 1 |-> Divided(BlockSum(Row(x, r)), C)]
        sqsum(r) == BlockSum([i \in 0..Width(x) - 1 |-> Times(Row(x, r)[i], Row(x, r)[i])])
        rstd == [r \in 0..NumRows(x) - 1 |->
                    RsqrtOf(Plus(Minus(Divided(sqsum(r), C), Times(mean[r], mean[r])), eps))]
    IN  <<Normalised(x, mean, rstd, w, b), mean, rstd>>

(***************************************************************************)
(* dnorm_norm_mean is of x - mean, and norm_d takes away the mean's share  *)
(* once more.                                                              *)
(***************************************************************************)
CudaLayerNormBackward(x, w, mean, rstd, g) ==
    LET C == Number(Width(x))
        norm(r, i)  == Times(Minus(Row(x, r)[i], mean[r]), rstd[r])
        dnorm(r, i) == Times(w.el[i], Row(g, r)[i])
        mean_d(r) == Divided(BlockSum([i \in 0..Width(x) - 1 |-> dnorm(r, i)]), C)
        norm_d(r) ==
            Minus(Times(Divided(BlockSum([i \in 0..Width(x) - 1 |->
                            Times(dnorm(r, i), Minus(Row(x, r)[i], mean[r]))]), C), rstd[r]),
                  Times(Times(mean_d(r), mean[r]), rstd[r]))
        rows == 0..NumRows(x) - 1
    IN  <<Tensor(x.dims, [k \in Elements(x.dims) |->
              LET r == k \div Width(x)
                  i == k % Width(x)
              IN  Times(Minus(Minus(dnorm(r, i), mean_d(r)), Times(norm(r, i), norm_d(r))), rstd[r])]),
          Tensor(w.dims, [i \in Elements(w.dims) |->
              Sum([r \in rows |-> Times(Row(g, r)[i], norm(r, i))])]),
          Tensor(w.dims, [i \in Elements(w.dims) |-> Sum([r \in rows |-> Row(g, r)[i]])])>>

-----------------------------------------------------------------------------
Better(x, y, largest) == IF largest THEN Exceeds(x, y) ELSE Exceeds(y, x)

(* The indices of a line's topk best: each time the first of those that    *)
(* are not worse than any that is left.                                    *)
Selected(line, topk, largest) ==
    LET best(taken) ==
            CHOOSE i \in DOMAIN line \ taken :
                \A j \in DOMAIN line \ taken :
                    ~Better(line[j], line[i], largest) /\ (j < i => line[j][1] # line[i][1])
        taken[n \in 0..topk] ==
            IF n = 0 THEN <<>> ELSE Append(taken[n - 1], best(ToSet(taken[n - 1])))
    IN  taken[topk]

(* Values and indices, the latter by flat element. *)
Chosen(x, topk, d, pick) ==
    LET dims == Resized(x.dims, d, topk)
        W    == InnerSize(x.dims, d)
        at(i) == pick[i \div (topk * W), i % W][((i \div W) % topk) + 1]
    IN  <<Tensor(dims, [i \in Elements(dims) |-> Line(x, i \div (topk * W), i % W, d)[at(i)]]),
          [i \in Elements(dims) |-> at(i)]>>

TopKForward(x, topk, d, largest) ==
    Chosen(x, topk, d, [p \in Positions(x, d) |-> Selected(Line(x, p[1], p[2], d), topk, largest)])

(* By rank: those ahead are better, or equal with a lower index. *)
Ranked(line, topk, largest) ==
    LET rank(i) == Cardinality({j \in DOMAIN line :
                       Better(line[j], line[i], largest) \/ (line[j][1] = line[i][1] /\ j < i)})
    IN  [k \in 1..topk |-> CHOOSE i \in DOMAIN line : rank(i) = k - 1]

CudaTopKForward(x, topk, d, largest) ==
    Chosen(x, topk, d, [p \in Positions(x, d) |-> Ranked(Line(x, p[1], p[2], d), topk, largest)])

(* From zeros, the gradients of the chosen go back to where they were. *)
TopKBackward(g, indices, dims, d) ==
    LET W == InnerSize(dims, d)
        from(i) == {k \in Elements(g.dims) :
                       /\ k \div (g.dims[d] * W) = i \div (dims[d] * W)
                       /\ k % W = i % W
                       /\ indices[k] = (i \div W) % dims[d]}
    IN  Tensor(dims, [i \in Elements(dims) |-> Sum([k \in from(i) |-> g.el[k]])])

CudaTopKBackward(g, indices, dims, d) ==
    LET W == InnerSize(dims, d)
        stores == {<<(row \div W) * dims[d] * W
                         + indices[(row \div W) * g.dims[d] * W + s * W + (row % W)] * W + (row % W),
                     g.el[(row \div W) * g.dims[d] * W + s * W + (row % W)]>> :
                      row \in 0..OuterSize(dims, d) * W - 1, s \in 0..g.dims[d] - 1}
    IN  Tensor(dims, [i \in Elements(dims) |->
            IF \E s \in stores : s[1] = i THEN (CHOOSE s \in stores : s[1] = i)[2] ELSE Zero])

-----------------------------------------------------------------------------
(* tokens: a function from the elements of dims to rows of the weight. *)
EmbeddingForward(tokens, dims, weight) ==
    LET C == Last(weight.dims)
    IN  Tensor(Append(dims, C), [i \in Elements(Append(dims, C)) |->
            weight.el[tokens[i \div C] * C + (i % C)]])

EmbeddingBackward(tokens, dims, weightDims, g) ==
    LET C == Last(weightDims)
    IN  Tensor(weightDims, [k \in Elements(weightDims) |->
            Sum([i \in {t \in Elements(dims) : tokens[t] = k \div C} |-> g.el[i * C + (k % C)]])])

(* A token outside the vocabulary leaves its output as it was allocated.   *)
CudaEmbeddingForward(tokens, dims, weight) ==
    LET C == Last(weight.dims)
        b == IF Len(dims) = 2 THEN dims[1] ELSE 1
        t == IF Len(dims) = 2 THEN dims[2] ELSE dims[1]
    IN  Stored(Append(dims, C),
            {<<idx, weight.el[tokens[idx \div C] * C + (idx % C)]>> :
                idx \in {i \in 0..b * t * C - 1 : tokens[i \div C] \in 0..weight.dims[1] - 1}})

CudaEmbeddingBackward(tokens, dims, weightDims, g) ==
    LET C == Last(weightDims)
    IN  Tensor(weightDims, [k \in Elements(weightDims) |->
            Sum([idx \in {t \in Elements(dims) :
                             tokens[t] \in 0..weightDims[1] - 1 /\ tokens[t] = k \div C} |->
                     g.el[idx * C + (k % C)]])])

-----------------------------------------------------------------------------
(* In-place updates. *)
ScaleInplace(t, scale) == Tensor(t.dims, [i \in DOMAIN t.el |-> Times(t.el[i], scale)])
AccumulateGrad(g, rate, t) == Tensor(t.dims, [i \in DOMAIN t.el |-> Plus(t.el[i], Times(rate, g.el[i]))])

(* A thread for each element, in blocks of ReduceThreads.                  *)
CudaAccumulateGrad(g, rate, t) ==
    LET n == NumElements(g.dims)
        blocks == (n + ReduceThreads - 1) \div ReduceThreads
    IN  Stored(t.dims, {<<i, Plus(t.el[i], Times(rate, g.el[i]))>> :
                           i \in {idx \in 0..blocks * ReduceThreads - 1 : idx < n}})

PowerOf(x, t) == FoldLeft(LAMBDA p, i : Times(p, x), One, [i \in 1..t |-> i])

(* m and v after gradient g; p = [lr, beta1, beta2, eps]. *)
Moments(g, m, v, p) ==
    [m |-> [i \in DOMAIN g.el |-> Plus(Times(p.beta1, m.el[i]), Times(Minus(One, p.beta1), g.el[i]))],
     v |-> [i \in DOMAIN g.el |->
               Plus(Times(p.beta2, v.el[i]), Times(Times(Minus(One, p.beta2), g.el[i]), g.el[i]))]]

Corrected(x, beta, t) == Divided(x, Minus(One, PowerOf(beta, t)))
SqrtOf(x) == Reciprocal(RsqrtOf(x))

(* The parameter, m and v after step t. *)
AdamAccumulateGrad(g, param, m, v, p, t) ==
    LET new == Moments(g, m, v, p)
        m_hat(i) == Corrected(new.m[i], p.beta1, t)
        v_hat(i) == Corrected(new.v[i], p.beta2, t)
    IN  <<Tensor(param.dims, [i \in DOMAIN g.el |->
              Minus(param.el[i], Divided(Times(p.lr, m_hat(i)), Plus(SqrtOf(v_hat(i)), p.eps)))]),
          Tensor(m.dims, new.m), Tensor(v.dims, new.v)>>

CudaAdamAccumulateGrad(g, param, m, v, p, t) ==
    LET new == Moments(g, m, v, p)
        m_hat(i) == Corrected(new.m[i], p.beta1, t)
        v_hat(i) == Corrected(new.v[i], p.beta2, t)
    IN  <<Tensor(param.dims, [i \in DOMAIN g.el |->
              Minus(param.el[i], Times(Times(p.lr, m_hat(i)), Reciprocal(Plus(SqrtOf(v_hat(i)), p.eps))))]),
          Tensor(m.dims, new.m), Tensor(v.dims, new.v)>>
=============================================================================
