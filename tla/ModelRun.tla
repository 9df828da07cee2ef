------------------------------ MODULE ModelRun ------------------------------
(***************************************************************************)
(* A forward and a backward pass as the ranks of a tensor-parallel group   *)
(* run it.  A program is a sequence of nodes: the function applied, the    *)
(* nodes whose results it takes and its other arguments; a leaf holds a    *)
(* parameter or an input.  The backward pass goes through the nodes from   *)
(* the last to the first and adds up what arrives for each.                *)
(***************************************************************************)
EXTENDS TensorParallel

(* -inf where the query must not see the key, then softmax: the last two   *)
(* dimensions are queries and keys.                                        *)
IsCausal(i, dims) == (i % Last(dims)) <= (i \div Last(dims)) % dims[Len(dims) - 1]

CausalSoftmaxForward(x) ==
    LET W == Last(x.dims)
        seen(q) == {k \in 0..W - 1 : IsCausal(q * W + k, x.dims)}
        top == [q \in 0..NumRows(x) - 1 |->
                   LET found == {x.el[q * W + k] : k \in seen(q)}
                   IN  CHOOSE v \in found : \A u \in found : ~Exceeds(u, v)]
        e(q, k) == ExpOf(Minus(x.el[q * W + k], top[q]))
        sum == [q \in 0..NumRows(x) - 1 |-> Sum([k \in seen(q) |-> e(q, k)])]
    IN  Tensor(x.dims, [i \in Elements(x.dims) |->
            IF IsCausal(i, x.dims) THEN Divided(e(i \div W, i % W), sum[i \div W]) ELSE Zero])

CausalSoftmaxBackward(g, y) ==
    MaskBackward(SoftmaxBackward(g, y, Len(y.dims)),
                 {i \in Elements(y.dims) : ~IsCausal(i, y.dims)}, y.dims)

(***************************************************************************)
(* What one rank computes of its own tensors x; a is the node's arguments. *)
(***************************************************************************)
LocalForward(op, x, a) ==
    CASE op = "Linear"    -> LinearForward(x[1], x[2], TRUE, IF Len(x) = 3 THEN x[3] ELSE Null)
      [] op = "Matmul"    -> MatmulForward(x[1], x[2])
      [] op = "Add"       -> AddForward(x[1], x[2])
      [] op = "Sub"       -> SubForward(x[1], x[2])
      [] op = "Mul"       -> MulForward(x[1], x[2])
      [] op = "Div"       -> DivForward(x[1], x[2])
      [] op = "AddScalar" -> AddScalarForward(x[1], a)
      [] op = "MulScalar" -> MulScalarForward(x[1], a)
      [] op = "Pow"       -> PowForward(x[1], a, FALSE)
      [] op = "Rsqrt"     -> RsqrtForward(x[1])
      [] op = "Tanh"      -> TanhForward(x[1])
      [] op = "Sigmoid"   -> SigmoidForward(x[1])
      [] op = "Mean"      -> MeanForward(x[1], a.dim, a.keep)
      [] op = "Sum"       -> SumForward(x[1], a.dim, a.keep)
      [] op = "LayerNorm" -> LayerNormForward(x[1], x[2], x[3], a)[1]
      [] op = "Softmax"   -> SoftmaxForward(x[1], a)
      [] op = "CausalSoftmax"    -> CausalSoftmaxForward(x[1])
      [] op = "TopK"      -> TopKForward(x[1], a.topk, a.dim, TRUE)[1]
      [] op = "View"      -> Tensor(a, x[1].el)
      [] op = "Slice"     -> SliceForward(x[1], a)
      [] op = "Stack"     -> StackForward(x, a)
      [] op = "Concat"    -> ConcatForward(x, a)
      [] op = "Transpose" -> TransposeForward(x[1], a[1], a[2])
      [] op = "RepeatInterleave" -> RepeatInterleaveForward(x[1], a.repeat, a.dim)
      [] op = "Gather"    -> GatherForward(x[1], a.index, a.dims, 1)
      [] op = "Scatter"   -> ScatterForward(x[1], a.index, a.dims)
      [] op = "ScatterAdd" -> GatherBackward(x[1], a.index, x[1].dims, a.dims, 1)

(* The gradients of x from g, that of the result y. *)
LocalBackward(op, x, y, g, a) ==
    CASE op = "Linear" ->
             <<LinearBackwardInput(x[2], g, TRUE, x[1].dims),
               LinearBackwardWeight(x[1], g, TRUE, x[2].dims[2], x[2].dims[1])>>
             \o (IF Len(x) = 3 THEN <<LinearBackwardBias(g, x[2].dims[1])>> ELSE <<>>)
      [] op = "Matmul"    -> <<MatmulBackwardInput(x[2], g, x[1].dims),
                               MatmulBackwardOther(x[1], g, x[2].dims)>>
      [] op = "Add"       -> AddBackward(g, x[1].dims, x[2].dims)
      [] op = "Sub"       -> SubBackward(g, x[1].dims, x[2].dims)
      [] op = "Mul"       -> MulBackward(g, x[1], x[2])
      [] op = "Div"       -> DivBackward(g, x[1], x[2])
      [] op = "AddScalar" -> <<AddScalarBackward(g)>>
      [] op = "MulScalar" -> <<MulScalarBackward(g, a)>>
      [] op = "Pow"       -> <<PowBackward(g, x[1], a, FALSE)>>
      [] op = "Rsqrt"     -> <<RsqrtBackward(g, x[1])>>
      [] op = "Tanh"      -> <<TanhBackward(g, y)>>
      [] op = "Sigmoid"   -> <<SigmoidBackward(y, g)>>
      [] op = "Mean"      -> <<MeanBackward(g, x[1].dims, a.dim)>>
      [] op = "Sum"       -> <<SumBackward(g, x[1].dims, a.dim)>>
      [] op = "LayerNorm" ->
             LET saved == LayerNormForward(x[1], x[2], x[3], a)
             IN  LayerNormBackward(x[1], x[2], saved[2], saved[3], g)
      [] op = "Softmax"   -> <<SoftmaxBackward(g, y, a)>>
      [] op = "CausalSoftmax"    -> <<CausalSoftmaxBackward(g, y)>>
      [] op = "TopK"      ->
             <<TopKBackward(g, TopKForward(x[1], a.topk, a.dim, TRUE)[2], x[1].dims, a.dim)>>
      [] op = "View"      -> <<Tensor(x[1].dims, g.el)>>
      [] op = "Slice"     -> <<SliceBackward(g, x[1].dims, a)>>
      [] op = "Stack"     -> StackBackward(x[1].dims, a, g)
      [] op = "Concat"    -> ConcatBackward(g, [k \in DOMAIN x |-> x[k].dims], a)
      [] op = "Transpose" -> <<TransposeBackward(g, a[1], a[2])>>
      [] op = "RepeatInterleave" -> <<RepeatInterleaveBackward(g, x[1].dims, a.dim)>>
      [] op = "Gather"    -> <<GatherBackward(g, a.index, a.dims, x[1].dims, 1)>>
      [] op = "Scatter"   -> <<ScatterBackward(g, a.index, x[1].dims)>>
      [] op = "ScatterAdd" -> <<GatherForward(g, a.index, x[1].dims, 1)>>

-----------------------------------------------------------------------------
(* Those that communicate, or depend on the rank; x and g are of all ranks.*)
GroupFunctions ==
    {"CopyToTPRegion", "GatherFromTPRegion", "ScatterToTPRegion", "ReduceFromTPRegion",
     "ReduceScatterToSPRegion", "GatherFromSPRegion", "VocabParallelEmbedding",
     "PositionEmbedding", "VocabParallelCrossEntropy"}

(* Under sequence parallelism a rank's positions are those of its tokens.  *)
PositionsOf(r, a) == [i \in 0..a.t_local - 1 |-> (IF a.sequence_parallel THEN r * a.t_local ELSE 0) + i]

Losses(saved) == [r \in DOMAIN saved |-> saved[r].loss]

GroupForward(op, x, a) ==
    CASE op = "CopyToTPRegion"          -> CopyToTPRegionForward(x[1])
      [] op = "GatherFromTPRegion"      -> GatherFromTPRegionForward(x[1])
      [] op = "ScatterToTPRegion"       -> ScatterToTPRegionForward(x[1])
      [] op = "ReduceFromTPRegion"      -> ReduceFromTPRegionForward(x[1])
      [] op = "ReduceScatterToSPRegion" -> ReduceScatterToSPRegionForward(x[1])
      [] op = "GatherFromSPRegion"      -> GatherFromSPRegionForward(x[1])
      [] op = "VocabParallelEmbedding"  -> VocabParallelEmbeddingForward(x[1], a.tokens, a.dims)
      [] op = "PositionEmbedding" ->
             [r \in DOMAIN x[1] |-> EmbeddingForward(PositionsOf(r, a), <<a.t_local>>, x[1][r])]
      [] op = "VocabParallelCrossEntropy" ->
             Losses(VocabParallelCrossEntropyForward(x[1], a.target, a.vocab, a.smoothing))

GroupBackward(op, x, g, a) ==
    CASE op = "CopyToTPRegion"          -> CopyToTPRegionBackward(g)
      [] op = "GatherFromTPRegion"      -> GatherFromTPRegionBackward(g)
      [] op = "ScatterToTPRegion"       -> ScatterToTPRegionBackward(g)
      [] op = "ReduceFromTPRegion"      -> ReduceFromTPRegionBackward(g)
      [] op = "ReduceScatterToSPRegion" -> ReduceScatterToSPRegionBackward(g)
      [] op = "GatherFromSPRegion"      -> GatherFromSPRegionBackward(g)
      [] op = "VocabParallelEmbedding"  -> VocabParallelEmbeddingBackward(x[1], g, a.tokens, a.dims)
      [] op = "PositionEmbedding" ->
             [r \in DOMAIN g |-> EmbeddingBackward(PositionsOf(r, a), <<a.t_local>>, x[1][r].dims, g[r])]
      [] op = "VocabParallelCrossEntropy" ->
             VocabParallelCrossEntropyGrad(
                 g, VocabParallelCrossEntropyForward(x[1], a.target, a.vocab, a.smoothing),
                 a.vocab, a.smoothing)

-----------------------------------------------------------------------------
(* One node of a program, from the results of the nodes before it.         *)
Computed(node, values) ==
    LET x == [k \in DOMAIN node.in |-> values[node.in[k]]]
    IN  CASE node.op \in GroupFunctions -> GroupForward(node.op, x, node.args)
          [] OTHER ->
                 [r \in DOMAIN x[1] |->
                     LocalForward(node.op, [k \in DOMAIN x |-> x[k][r]], node.args)]

(* The gradients of the nodes it took, in their order.                     *)
ByNode(sent, node) == [k \in DOMAIN node.in |-> [r \in DOMAIN sent |-> sent[r][k]]]

Propagated(node, values, y, g) ==
    LET x == [k \in DOMAIN node.in |-> values[node.in[k]]]
    IN  CASE node.op = "Leaf"           -> <<>>
          [] node.op \in GroupFunctions -> <<GroupBackward(node.op, x, g, node.args)>>
          [] OTHER ->
                 ByNode([r \in DOMAIN g |->
                            LocalBackward(node.op, [k \in DOMAIN x |-> x[k][r]], y[r], g[r], node.args)],
                        node)

NoGrad == <<>>
Accumulated(grad, g) ==
    IF grad = NoGrad THEN g
    ELSE [r \in DOMAIN g |-> Tensor(g[r].dims, [i \in DOMAIN g[r].el |-> Plus(grad[r].el[i], g[r].el[i])])]

(* A run: the results so far, the leaves at first; then, with the backward *)
(* pass at node left, the gradients, from ones for the last result.        *)
NewRun(leaves) == [values |-> leaves, grads |-> [k \in DOMAIN leaves |-> NoGrad], left |-> 0]

Ones(t) == [r \in DOMAIN t |-> Tensor(t[r].dims, [i \in DOMAIN t[r].el |-> One])]

WithResult(run, y, isLast) ==
    [values |-> Append(run.values, y),
     grads  |-> Append(run.grads, IF isLast THEN Ones(y) ELSE NoGrad),
     left   |-> Len(run.values) + 1]

RunForward(program, run) ==
    LET n == Len(run.values) + 1
    IN  WithResult(run, Computed(program[n], run.values), n = Len(program))

WithGradients(run, in, sent) ==
    [run EXCEPT !.left  = @ - 1,
                !.grads = FoldLeft(LAMBDA grads, k : [grads EXCEPT ![in[k]] = Accumulated(@, sent[k])],
                                   @, [k \in DOMAIN in |-> k])]

RunBackward(program, run) ==
    LET node == program[run.left]
        g    == run.grads[run.left]
    IN  IF g = NoGrad THEN [run EXCEPT !.left = @ - 1]
        ELSE WithGradients(run, node.in, Propagated(node, run.values, run.values[run.left], g))

IsForward(program, run) == Len(run.values) < Len(program)
HasRun(program, run) == ~IsForward(program, run) /\ run.left = 0
Advanced(program, run) ==
    IF IsForward(program, run) THEN RunForward(program, run) ELSE RunBackward(program, run)
=============================================================================
