---------------------------- MODULE FunctionCalls ----------------------------
(***************************************************************************)
(* Calls of the autograd functions for TLC: a call names the function, the *)
(* shapes of its inputs and its other arguments.  Every call is made on    *)
(* every device.                                                           *)
(***************************************************************************)
EXTENDS AutogradFunctions

CONSTANTS
    FunctionNames, \* those called
    Results        \* what they return: ResultsOfCalls, computed once

OfOneTensor == {"Neg", "Reciprocal", "Sin", "Cos", "Rsqrt", "Log", "Tanh", "Sigmoid", "Exp"}
AndScalar == {"AddScalar", "MulScalar", "Pow", "PowOfBase", "EqualsScalar", "LtScalar",
               "LeScalar", "GtScalar", "GeScalar"}
OfTwoTensors == {"Equals", "Lt", "Le", "Gt", "Ge", "Or", "And", "Add", "Sub", "Mul", "Div"}
Reductions == {"Mean", "Sum", "Max", "Min"}

(* b of one shape with a, a row, a column, one number, one for each, or a  *)
(* vector too long for a histogram.                                        *)
BroadcastShapes ==
    {<<<<2, 3>>, <<2, 3>>>>, <<<<2, 3>>, <<3>>>>, <<<<2, 3>>, <<2, 1>>>>, <<<<2, 3>>, <<1>>>>,
     <<<<2, 3, 2>>, <<2, 1, 2>>>>, <<<<3, 5>>, <<5>>>>}

(* The last of LayerNorm's is eps: of its variances plus these the field   *)
(* has roots.                                                              *)
ShapesAndArguments(f) ==
    CASE f \in OfOneTensor  -> {<<<<5>>>>, <<<<2, 3>>>>} \X {<<>>}
      [] f \in AndScalar -> {<<<<2, 3>>>>} \X {<<2>>, <<3>>}
      [] f \in OfTwoTensors -> BroadcastShapes \X {<<>>}
      [] f \in {"Tril", "Triu"} -> {<<<<2, 3>>>>, <<<<3, 2>>>>} \X {<<-1>>, <<0>>, <<1>>}
      [] f = "Transpose" -> {<<<<2, 3, 2>>>>} \X {<<1, 2>>, <<1, 3>>, <<3, 2>>}
      [] f = "Mask" -> {<<<<2, 2, 3>>>>} \X {<<2, 3>>, <<3>>, <<1, 3>>, <<2, 2>>}
      [] f = "RepeatInterleave" -> {<<<<2, 3, 2>>>>} \X {<<2, 1>>, <<3, 2>>, <<2, 3>>}
      [] f = "Split" -> {<<<<2, 3, 2>>>>} \X {<<2, 2>>, <<1, 2>>, <<1, 1>>, <<3, 2>>}
      [] f = "Stack" -> {<<<<2, 3>>, <<2, 3>>>>} \X {<<1>>, <<2>>, <<3>>}
      [] f = "Concat" -> {<<<<2, 3>>, <<2, 1>>, <<2, 2>>>>} \X {<<2>>}
                            \cup {<<<<1, 2>>, <<3, 2>>>>} \X {<<1>>}
      [] f = "Slice" -> {<<<<3, 4>>>>} \X {<<0, 1, 3, 4, 1, 2>>, <<1, 0, 3, 3, 2, 1>>}
      [] f = "Gather" -> {<<<<2, 3>>>>} \X {<<2, 2, 2>>, <<2, 4, 2>>, <<3, 3, 1>>, <<1, 3, 2>>}
      [] f = "ScatterAdd" -> {<<<<2, 2>>>>} \X {<<2, 3, 2>>}
      [] f = "Scatter" -> {<<<<2, 2>>>>} \X {<<2, 3>>}
      [] f = "NoOp" -> {<<<<2, 3>>>>} \X {<<3, 2>>, <<6>>}
      [] f = "Matmul" -> {<<<<2, 3>>, <<3, 2>>>>, <<<<2, 1, 3>>, <<2, 3, 2>>>>} \X {<<>>}
      [] f = "Linear" -> {<<<<1, 3>>, <<2, 3>>>>, <<<<2, 2, 3>>, <<4, 3>>>>} \X {<<>>}
      [] f = "LinearBias" -> {<<<<2, 3>>, <<2, 3>>, <<2>>>>} \X {<<>>}
      [] f = "Outer" -> {<<<<2>>, <<3>>>>} \X {<<>>}
      [] f \in Reductions -> {<<<<2, 3>>>>, <<<<3, 5>>>>} \X {<<2, 0>>, <<2, 1>>}
                              \cup {<<<<2, 3>>>>, <<<<2, 3, 2>>>>} \X {<<1, 0>>}
      [] f = "Softmax" -> {<<<<2, 3, 2>>>>} \X {<<1>>, <<2>>, <<3>>}
      [] f = "CrossEntropy" -> {<<<<2, 3>>>>, <<<<1, 4>>>>} \X {<<>>}
      [] f = "LayerNorm" -> {<<<<1, 2, 3>>, <<3>>, <<3>>>>} \X {<<6>>, <<8>>, <<9>>}
      [] f = "TopK" -> {<<<<2, 3, 2>>>>} \X {<<2, 1, 2>>, <<1, 0, 3>>, <<2, 0, 2>>}
      [] f = "Embedding" -> {<<<<3, 2>>>>} \X {<<4>>, <<2, 2>>}
      [] f \in {"Accumulate", "Adam"} -> {<<<<5>>, <<5>>, <<5>>, <<5>>>>} \X {<<1>>, <<2>>}

FunctionInputs ==
    {[about |-> "function", op |-> f, dims |-> call[1], args |-> call[2]] :
        <<f, call>> \in UNION {{f} \X ShapesAndArguments(f) : f \in FunctionNames}}

(* Indices, targets and masks: some numbers below n, in no order. *)
Picks(dims, n) == [i \in Elements(dims) |-> (i * i + i + 1) % n]
Distinct(dims, n) == [i \in Elements(dims) |-> (i * 2) % n]

(* What c computes on dev.  The gradient of Exp is left out: its backward  *)
(* kernel is called without the output it reads, and its value undefined.  *)
Apply(c, dev) ==
    LET x == [k \in DOMAIN c.dims |-> Input(k, c.dims[k])]
        n == c.args
        s == IF n = <<>> THEN Zero ELSE Number(n[1])
    IN
    CASE c.op = "Neg" -> Neg(dev, x[1])
      [] c.op = "Reciprocal" -> ReciprocalOf(dev, x[1])
      [] c.op = "Sin" -> Sin(dev, x[1])
      [] c.op = "Cos" -> Cos(dev, x[1])
      [] c.op = "Rsqrt" -> Rsqrt(dev, x[1])
      [] c.op = "Log" -> Log(dev, x[1])
      [] c.op = "Tanh" -> Tanh(dev, x[1])
      [] c.op = "Sigmoid" -> Sigmoid(dev, x[1])
      [] c.op = "Exp" -> Function(<<>>, Exp(dev, x[1], Filled(c.dims[1])).outputs, <<>>)
      [] c.op = "AddScalar" -> AddScalar(dev, x[1], s)
      [] c.op = "MulScalar" -> MulScalar(dev, x[1], s)
      [] c.op = "Pow" -> Pow(dev, x[1], n[1], FALSE)
      [] c.op = "PowOfBase" -> Pow(dev, x[1], n[1], TRUE)
      [] c.op = "EqualsScalar" -> EqualsScalar(dev, x[1], s)
      [] c.op = "LtScalar" -> LtScalar(dev, x[1], s)
      [] c.op = "LeScalar" -> LeScalar(dev, x[1], s)
      [] c.op = "GtScalar" -> GtScalar(dev, x[1], s)
      [] c.op = "GeScalar" -> GeScalar(dev, x[1], s)
      [] c.op = "Equals" -> Equals(dev, x[1], x[2])
      [] c.op = "Lt" -> Lt(dev, x[1], x[2])
      [] c.op = "Le" -> Le(dev, x[1], x[2])
      [] c.op = "Gt" -> Gt(dev, x[1], x[2])
      [] c.op = "Ge" -> Ge(dev, x[1], x[2])
      [] c.op = "Or" -> Or(dev, x[1], x[2])
      [] c.op = "And" -> And(dev, x[1], x[2])
      [] c.op = "Add" -> Add(dev, x[1], x[2])
      [] c.op = "Sub" -> Sub(dev, x[1], x[2])
      [] c.op = "Mul" -> Mul(dev, x[1], x[2])
      [] c.op = "Div" -> Div(dev, x[1], x[2])
      [] c.op = "Tril" -> Tril(dev, x[1], n[1])
      [] c.op = "Triu" -> Triu(dev, x[1], n[1])
      [] c.op = "Transpose" -> Transpose(dev, x[1], n[1], n[2])
      [] c.op = "Mask" -> Mask(dev, x[1], {1, 2}, n)
      [] c.op = "RepeatInterleave" -> RepeatInterleave(dev, x[1], n[1], n[2])
      [] c.op = "Split" -> Split(dev, x[1], n[1], n[2])
      [] c.op = "Stack" -> Stack(dev, x, n[1])
      [] c.op = "Concat" -> Concat(dev, x, n[1])
      [] c.op = "Slice" ->
             Slice(dev, x[1], [starts |-> SubSeq(n, 1, 2), ends |-> SubSeq(n, 3, 4),
                               steps |-> SubSeq(n, 5, 6)])
      [] c.op = "Gather" -> Gather(dev, x[1], Picks(SubSeq(n, 1, 2), 3), SubSeq(n, 1, 2), n[3])
      [] c.op = "ScatterAdd" ->
             ScatterAdd(dev, x[1], Picks(c.dims[1], 3), SubSeq(n, 1, 2), n[3])
      [] c.op = "Scatter" -> Scatter(dev, x[1], Distinct(c.dims[1], 3), n)
      [] c.op = "NoOp" -> NoOp(dev, x[1], n)
      [] c.op = "Matmul" -> Matmul(dev, x[1], x[2])
      [] c.op = "Linear" -> Linear(dev, x[1], x[2], Null)
      [] c.op = "LinearBias" -> Linear(dev, x[1], x[2], x[3])
      [] c.op = "Outer" -> Outer(dev, x[1], x[2])
      [] c.op = "Mean" -> Mean(dev, x[1], n[1], n[2] = 1)
      [] c.op = "Sum" -> Total(dev, x[1], n[1], n[2] = 1)
      [] c.op = "Max" -> Maximum(dev, x[1], n[1], n[2] = 1)
      [] c.op = "Min" -> Minimum(dev, x[1], n[1], n[2] = 1)
      [] c.op = "Softmax" -> Softmax(dev, x[1], n[1])
      [] c.op = "CrossEntropy" -> CrossEntropy(dev, x[1], Picks(<<2>>, 3))
      [] c.op = "LayerNorm" -> LayerNorm(dev, x[1], x[2], x[3], s)
      [] c.op = "TopK" -> TopK(dev, x[1], n[1], n[3], n[2] = 1)
      [] c.op = "Embedding" -> Embedding(dev, Picks(n, 3), n, x[1])
      [] c.op = "Accumulate" ->
             Function(<<>>, <<Call(dev, AccumulateGrad(x[1], s, x[2]), CudaAccumulateGrad(x[1], s, x[2]))>>,
                      <<>>)
      [] c.op = "Adam" ->
             LET p == [lr |-> Number(3), beta1 |-> Number(5), beta2 |-> Number(7), eps |-> Number(2)]
             IN  Function(<<>>, Call(dev, AdamAccumulateGrad(x[1], x[2], x[3], x[4], p, n[1]),
                                     CudaAdamAccumulateGrad(x[1], x[2], x[3], x[4], p, n[1])), <<>>)

Devices == {"cpu", "fp32", "bf16"}

ResultsOfCalls ==
    LET onDevices(c) == [dev \in Devices |-> Apply(c, dev)]
    IN  [c \in FunctionInputs |-> onDevices(c)]

-----------------------------------------------------------------------------
(* The results of one call on two devices: which outputs and gradients are *)
(* not the same.  Of a gradient there is no direction to compare; log is   *)
(* no logarithm in the field, so of a loss only the change counts.         *)
SameOutput(op, t, u) ==
    IF op = "CrossEntropy" THEN t.el[0][2] = u.el[0][2] ELSE t = u

SameGradient(t, u) ==
    /\ t.dims = u.dims /\ DOMAIN t.el = DOMAIN u.el
    /\ \A i \in DOMAIN t.el : t.el[i][1] = u.el[i][1]

Differences(op, f, h) ==
    {<<"output", k>> : k \in {i \in DOMAIN f.outputs : ~SameOutput(op, f.outputs[i], h.outputs[i])}}
    \cup
    {<<"gradient", k>> : k \in {i \in DOMAIN f.grads : ~SameGradient(f.grads[i], h.grads[i])}}

(***************************************************************************)
(* The results in which the kernels of the CPU and of CUDA do differ:      *)
(* cuda/linear.cu:148 sums runs of d_output for the bias,                  *)
(* cuda/layernorm.cu:139 takes a share of the mean away twice,             *)
(* cpu/reduction.cc:38 reads what follows the first element, which is not  *)
(* the line unless it is of the last dimension, cuda/transform.cu:324      *)
(* takes a mask of the leading dimensions as one, where the CPU repeats    *)
(* it, and cuda/gather.cu:167 refuses an index its forward accepts.        *)
(***************************************************************************)
IsOfInnerDimension(c) == c.op \in Reductions /\ InnerSize(c.dims[1], c.args[1]) > 1
IsOfLeadMask(c) == c.op = "Mask" /\ ~IsTailMaskShape(c.dims[1], c.args)
IsOfSmallIndex(c) ==
    c.op = "Gather" /\ ~CudaGatherBackwardAccepts(SubSeq(c.args, 1, 2), c.dims[1], c.args[3])

KnownDifferences(c) ==
    CASE c.op = "LinearBias"   -> {<<"gradient", 3>>}
      [] c.op = "LayerNorm"    -> {<<"gradient", 1>>}
      [] IsOfInnerDimension(c) -> {<<"output", 1>>}
                                  \cup (IF c.op \in {"Max", "Min"} THEN {<<"gradient", 1>>} ELSE {})
      [] IsOfLeadMask(c)       -> {<<"output", 1>>, <<"gradient", 1>>}
      [] IsOfSmallIndex(c)     -> {<<"gradient", 1>>}
      [] OTHER                 -> {}

(* The devices on which the gradients are not those of what was computed.  *)
WrongGradients(c) ==
    CASE c.op \in {"LinearBias", "LayerNorm"} \/ IsOfSmallIndex(c) -> {"fp32", "bf16"}
      [] IsOfInnerDimension(c) -> {"cpu"}
      [] OTHER -> {}
=============================================================================
