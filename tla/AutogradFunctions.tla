---------------------------- MODULE AutogradFunctions ----------------------------
(***************************************************************************)
(* The function classes of autograd/, each as what Forward computes from   *)
(* its inputs and what Backward, with what SetupContext saved, makes of    *)
(* the gradient of the result.  dev is "cpu", or the dtype computed in on  *)
(* a CUDA device: the dispatcher picks the kernel.  Inputs without a       *)
(* gradient (indices, masks, targets) are parameters here.                 *)
(***************************************************************************)
EXTENDS DataKernels, ElementwiseKernels, MatrixKernels, ReductionKernels

(* Dispatcher::Instance().Call({device, name}, ...) *)
Call(dev, cpu, cuda) == IF dev = "cpu" THEN cpu ELSE cuda

(* The gradient that arrives for output y. *)
G(y) == GradOutput(1, y.dims)

Function(inputs, outputs, grads) == [inputs |-> inputs, outputs |-> outputs, grads |-> grads]
Unary(x, y, grad) == Function(<<x>>, <<y>>, <<grad>>)

Neg(dev, x) ==
    LET y == Call(dev, NegForward(x), CudaNegForward(x))
    IN  Unary(x, y, Call(dev, NegBackward(G(y)), CudaNegBackward(G(y))))

ReciprocalOf(dev, x) ==
    LET y == Call(dev, ReciprocalForward(x), CudaReciprocalForward(x))
    IN  Unary(x, y, Call(dev, ReciprocalBackward(G(y), x), CudaReciprocalBackward(G(y), x)))

Sin(dev, x) ==
    LET y == Call(dev, SinForward(x), CudaSinForward(x))
    IN  Unary(x, y, Call(dev, SinBackward(G(y), x), CudaSinBackward(G(y), x)))

Cos(dev, x) ==
    LET y == Call(dev, CosForward(x), CudaCosForward(x))
    IN  Unary(x, y, Call(dev, CosBackward(G(y), x), CudaCosBackward(G(y), x)))

Rsqrt(dev, x) ==
    LET y == Call(dev, RsqrtForward(x), CudaRsqrtForward(x))
    IN  Unary(x, y, Call(dev, RsqrtBackward(G(y), x), CudaRsqrtBackward(G(y), x)))

Log(dev, x) ==
    LET y == Call(dev, LogForward(x), CudaLogForward(x))
    IN  Unary(x, y, Call(dev, LogBackward(G(y), x), CudaLogBackward(G(y), x)))

Tanh(dev, x) ==
    LET y == Call(dev, TanhForward(x), CudaTanhForward(x))
    IN  Unary(x, y, Call(dev, TanhBackward(G(y), y), CudaTanhBackward(G(y), y)))

Pow(dev, x, exponent, scalarIsBase) ==
    LET y == Call(dev, PowForward(x, exponent, scalarIsBase), CudaPowForward(x, exponent, scalarIsBase))
    IN  Unary(x, y, Call(dev, PowBackward(G(y), x, exponent, scalarIsBase), CudaPowBackward(G(y), x, exponent, scalarIsBase)))

AddScalar(dev, x, scalar) ==
    LET y == Call(dev, AddScalarForward(x, scalar), CudaAddScalarForward(x, scalar))
    IN  Unary(x, y, Call(dev, AddScalarBackward(G(y)), CudaAddScalarBackward(G(y))))

MulScalar(dev, x, scalar) ==
    LET y == Call(dev, MulScalarForward(x, scalar), CudaMulScalarForward(x, scalar))
    IN  Unary(x, y, Call(dev, MulScalarBackward(G(y), scalar), CudaMulScalarBackward(G(y), scalar)))

Sigmoid(dev, x) ==
    LET y == Call(dev, SigmoidForward(x), CudaSigmoidForward(x))
    IN  Unary(x, y, Call(dev, SigmoidBackward(y, G(y)), CudaSigmoidBackward(y, G(y))))

(* Nothing is saved, and the kernel, which takes the output too, is called *)
(* with the gradient alone: what it reads in its place is garbage.         *)
Exp(dev, x, garbage) ==
    LET y == Call(dev, ExpForward(x), CudaExpForward(x))
    IN  Unary(x, y, Call(dev, ExpBackward(G(y), garbage), CudaExpBackward(G(y), garbage)))

(* Comparisons have no gradient: Backward is fatal. *)
Equals(dev, a, b) == Function(<<>>, <<Call(dev, EqualsForward(a, b), CudaEqualsForward(a, b))>>, <<>>)
Lt(dev, a, b) == Function(<<>>, <<Call(dev, LtForward(a, b), CudaLtForward(a, b))>>, <<>>)
Le(dev, a, b) == Function(<<>>, <<Call(dev, LeForward(a, b), CudaLeForward(a, b))>>, <<>>)
Gt(dev, a, b) == Function(<<>>, <<Call(dev, GtForward(a, b), CudaGtForward(a, b))>>, <<>>)
Ge(dev, a, b) == Function(<<>>, <<Call(dev, GeForward(a, b), CudaGeForward(a, b))>>, <<>>)
Or(dev, a, b) == Function(<<>>, <<Call(dev, OrForward(a, b), CudaOrForward(a, b))>>, <<>>)
And(dev, a, b) == Function(<<>>, <<Call(dev, AndForward(a, b), CudaAndForward(a, b))>>, <<>>)
EqualsScalar(dev, a, scalar) ==
    Function(<<>>, <<Call(dev, EqualsScalarForward(a, scalar), CudaEqualsScalarForward(a, scalar))>>, <<>>)
LtScalar(dev, a, scalar) ==
    Function(<<>>, <<Call(dev, LtScalarForward(a, scalar), CudaLtScalarForward(a, scalar))>>, <<>>)
LeScalar(dev, a, scalar) ==
    Function(<<>>, <<Call(dev, LeScalarForward(a, scalar), CudaLeScalarForward(a, scalar))>>, <<>>)
GtScalar(dev, a, scalar) ==
    Function(<<>>, <<Call(dev, GtScalarForward(a, scalar), CudaGtScalarForward(a, scalar))>>, <<>>)
GeScalar(dev, a, scalar) ==
    Function(<<>>, <<Call(dev, GeScalarForward(a, scalar), CudaGeScalarForward(a, scalar))>>, <<>>)

(* Of operands of one shape the gradient is that of the result. *)
Add(dev, a, b) ==
    LET y == Call(dev, AddForward(a, b), CudaAddForward(a, b))
    IN  Function(<<a, b>>, <<y>>,
            IF a.dims = b.dims THEN <<G(y), G(y)>>
            ELSE Call(dev, AddBackward(G(y), a.dims, b.dims), CudaAddBackward(dev, G(y), a.dims, b.dims)))

Sub(dev, a, b) ==
    LET y == Call(dev, SubForward(a, b), CudaSubForward(a, b))
    IN  Function(<<a, b>>, <<y>>,
            Call(dev, SubBackward(G(y), a.dims, b.dims), CudaSubBackward(dev, G(y), a.dims, b.dims)))

Mul(dev, a, b) ==
    LET y == Call(dev, MulForward(a, b), CudaMulForward(a, b))
    IN  Function(<<a, b>>, <<y>>, Call(dev, MulBackward(G(y), a, b), CudaMulBackward(dev, G(y), a, b)))

Div(dev, a, b) ==
    LET y == Call(dev, DivForward(a, b), CudaDivForward(a, b))
    IN  Function(<<a, b>>, <<y>>, Call(dev, DivBackward(G(y), a, b), CudaDivBackward(dev, G(y), a, b)))

-----------------------------------------------------------------------------
Tril(dev, x, diagonal) ==
    LET y == Call(dev, TrilForward(x, diagonal), CudaTrilForward(x, diagonal))
    IN  Unary(x, y, Call(dev, TrilBackward(G(y), diagonal), CudaTrilBackward(G(y), diagonal)))

Triu(dev, x, diagonal) ==
    LET y == Call(dev, TriuForward(x, diagonal), CudaTriuForward(x, diagonal))
    IN  Unary(x, y, Call(dev, TriuBackward(G(y), diagonal), CudaTriuBackward(G(y), diagonal)))

Transpose(dev, x, d, e) ==
    LET y == Call(dev, TransposeForward(x, d, e), CudaTransposeForward(x, d, e))
    IN  Unary(x, y, Call(dev, TransposeBackward(G(y), d, e), CudaTransposeBackward(G(y), d, e)))

Mask(dev, x, ones, maskDims) ==
    LET y == Call(dev, MaskForward(x, ones, maskDims), CudaMaskForward(x, ones, maskDims))
    IN  Unary(x, y, Call(dev, MaskBackward(G(y), ones, maskDims), CudaMaskBackward(G(y), ones, maskDims)))

RepeatInterleave(dev, x, repeat, d) ==
    LET y == Call(dev, RepeatInterleaveForward(x, repeat, d), CudaRepeatInterleaveForward(x, repeat, d))
    IN  Unary(x, y, Call(dev, RepeatInterleaveBackward(G(y), x.dims, d),
                              CudaRepeatInterleaveBackward(G(y), x.dims, d)))

Split(dev, x, size, d) ==
    LET ys == Call(dev, SplitForward(x, size, d), CudaSplitForward(x, size, d))
        gs == [k \in DOMAIN ys |-> GradOutput(k, ys[k].dims)]
    IN  Function(<<x>>, ys, <<Call(dev, SplitBackward(x.dims, size, d, gs),
                                        CudaSplitBackward(x.dims, size, d, gs))>>)

(* On the CPU and on CUDA the output dimension is the new one. *)
Stack(dev, xs, d) ==
    LET y == Call(dev, StackForward(xs, d), CudaStackForward(xs, d))
    IN  Function(xs, <<y>>, Call(dev, StackBackward(xs[1].dims, d, G(y)),
                                      CudaStackBackward(xs[1].dims, d, G(y))))

Concat(dev, xs, d) ==
    LET y    == Call(dev, ConcatForward(xs, d), CudaConcatForward(xs, d))
        dims == [k \in DOMAIN xs |-> xs[k].dims]
    IN  Function(xs, <<y>>, Call(dev, ConcatBackward(G(y), dims, d), CudaConcatBackward(G(y), dims, d)))

Slice(dev, x, s) ==
    LET y == Call(dev, SliceForward(x, s), CudaSliceForward(x, s))
    IN  Unary(x, y, Call(dev, SliceBackward(G(y), x.dims, s), CudaSliceBackward(G(y), x.dims, s)))

(* A view: other dims, the same elements. *)
NoOp(dev, x, dims) == Unary(x, Tensor(dims, x.el), Tensor(x.dims, GradOutput(1, dims).el))

Gather(dev, x, index, indexDims, d) ==
    LET y == Call(dev, GatherForward(x, index, indexDims, d), CudaGatherForward(x, index, indexDims, d))
    IN  Unary(x, y, Call(dev, GatherBackward(G(y), index, indexDims, x.dims, d),
                              CudaGatherBackward(G(y), index, indexDims, x.dims, d)))

(* The kernels of gather, the other way round. *)
ScatterAdd(dev, values, index, dims, d) ==
    LET y == Call(dev, GatherBackward(values, index, values.dims, dims, d),
                       CudaGatherBackward(values, index, values.dims, dims, d))
    IN  Unary(values, y, Call(dev, GatherForward(G(y), index, values.dims, d),
                                   CudaGatherForward(G(y), index, values.dims, d)))

Scatter(dev, values, index, dims) ==
    LET y == Call(dev, ScatterForward(values, index, dims), CudaScatterForward(values, index, dims))
    IN  Unary(values, y, Call(dev, ScatterBackward(G(y), index, values.dims),
                                   CudaScatterBackward(G(y), index, values.dims)))

-----------------------------------------------------------------------------
Matmul(dev, x, y) ==
    LET z == Call(dev, MatmulForward(x, y), CudaMatmulForward(x, y))
    IN  Function(<<x, y>>, <<z>>,
            <<Call(dev, MatmulBackwardInput(y, G(z), x.dims), CudaMatmulBackwardInput(y, G(z), x.dims)),
              Call(dev, MatmulBackwardOther(x, G(z), y.dims), CudaMatmulBackwardOther(x, G(z), y.dims))>>)

(* transpose is true in every call; bias may be Null. *)
Linear(dev, x, w, bias) ==
    LET in  == w.dims[2]
        out == w.dims[1]
        y   == Call(dev, LinearForward(x, w, TRUE, bias), CudaLinearForward(dev, x, w, TRUE, bias))
        grads ==
            <<Call(dev, LinearBackwardInput(w, G(y), TRUE, x.dims),
                        CudaLinearBackwardInput(dev, w, G(y), TRUE, in, out, x.dims)),
              Call(dev, LinearBackwardWeight(x, G(y), TRUE, in, out),
                        CudaLinearBackwardWeight(x, G(y), TRUE, in, out))>>
    IN  IF bias = Null THEN Function(<<x, w>>, <<y>>, grads)
        ELSE Function(<<x, w, bias>>, <<y>>,
                 Append(grads, Call(dev, LinearBackwardBias(G(y), out), CudaLinearBackwardBias(G(y), out))))

Outer(dev, x, y) ==
    LET z == Call(dev, OuterForward(x, y), CudaOuterForward(x, y))
    IN  Function(<<x, y>>, <<z>>, Call(dev, OuterBackward(x, y, G(z)), CudaOuterBackward(dev, x, y, G(z))))

-----------------------------------------------------------------------------
Mean(dev, x, d, keep) ==
    LET y == Call(dev, MeanForward(x, d, keep), CudaMeanForward(x, d, keep))
    IN  Unary(x, y, Call(dev, MeanBackward(G(y), x.dims, d),
                              CudaReduceOpBackward(G(y), Null, Null, x.dims, d, TRUE, FALSE)))

Total(dev, x, d, keep) ==
    LET y == Call(dev, SumForward(x, d, keep), CudaSumForward(x, d, keep))
    IN  Unary(x, y, Call(dev, SumBackward(G(y), x.dims, d),
                              CudaReduceOpBackward(G(y), Null, Null, x.dims, d, FALSE, FALSE)))

Maximum(dev, x, d, keep) ==
    LET y == Call(dev, MaxForward(x, d, keep), CudaMaxForward(x, d, keep))
    IN  Unary(x, y, Call(dev, MaxBackward(G(y), x, y, d),
                              CudaReduceOpBackward(G(y), x, y, x.dims, d, FALSE, TRUE)))

Minimum(dev, x, d, keep) ==
    LET y == Call(dev, MinForward(x, d, keep), CudaMinForward(x, d, keep))
    IN  Unary(x, y, Call(dev, MinBackward(G(y), x, y, d),
                              CudaReduceOpBackward(G(y), x, y, x.dims, d, FALSE, TRUE)))

(* A slip: the input is saved where the kernel takes the output. *)
SoftmaxSavingInput(dev, x, d) ==
    LET y == Call(dev, SoftmaxForward(x, d), CudaSoftmaxForward(x, d))
    IN  Unary(x, y, Call(dev, SoftmaxBackward(G(y), x, d), CudaSoftmaxBackward(G(y), x, d)))

Softmax(dev, x, d) ==
    LET y == Call(dev, SoftmaxForward(x, d), CudaSoftmaxForward(x, d))
    IN  Unary(x, y, Call(dev, SoftmaxBackward(G(y), y, d), CudaSoftmaxBackward(G(y), y, d)))

CrossEntropy(dev, x, target) ==
    LET y == Call(dev, CrossEntropyForward(x, target), CudaCrossEntropyForward(x, target))
    IN  Unary(x, y, Call(dev, CrossEntropyBackward(x, target, G(y)), CudaCrossEntropyBackward(x, target, G(y))))

(* mean and rstd are outputs too, saved and marked as not differentiable. *)
LayerNorm(dev, x, w, b, eps) ==
    LET y == Call(dev, LayerNormForward(x, w, b, eps), CudaLayerNormForward(x, w, b, eps))
    IN  Function(<<x, w, b>>, <<y[1]>>,
            Call(dev, LayerNormBackward(x, w, y[2], y[3], G(y[1])),
                      CudaLayerNormBackward(x, w, y[2], y[3], G(y[1]))))

(* The second output, the indices, is saved. *)
TopK(dev, x, topk, d, largest) ==
    LET y == Call(dev, TopKForward(x, topk, d, largest), CudaTopKForward(x, topk, d, largest))
    IN  Unary(x, y[1], Call(dev, TopKBackward(G(y[1]), y[2], x.dims, d),
                                 CudaTopKBackward(G(y[1]), y[2], x.dims, d)))

Embedding(dev, tokens, dims, weight) ==
    LET y == Call(dev, EmbeddingForward(tokens, dims, weight), CudaEmbeddingForward(tokens, dims, weight))
    IN  Unary(weight, y, Call(dev, EmbeddingBackward(tokens, dims, weight.dims, G(y)),
                                   CudaEmbeddingBackward(tokens, dims, weight.dims, G(y))))
=============================================================================
