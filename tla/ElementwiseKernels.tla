-------------------------- MODULE ElementwiseKernels --------------------------
(***************************************************************************)
(* kernels/{cpu,cuda}/elementwise: one operand, or two of which b may be   *)
(* broadcast to the shape of a.  A function of the loops is a TLA+         *)
(* function here.  CUDA kernels are modelled down to blocks and warps      *)
(* where these share a sum; promotion of dtypes keeps exact values.        *)
(***************************************************************************)
EXTENDS Tensors

CONSTANTS
    BlockSize,    \* threads of a block, ChooseBlockSize or kBlockSize
    WarpSize,     \* kWarpSize
    VecSize,      \* kVecSize
    TileHeight,   \* kTileHeight
    SmCount,      \* multiprocessors
    MaxHistogram  \* most bins of the two-pass path

At(t, i) == IF t = Null THEN Zero ELSE t.el[i]

Truth(b) == IF b THEN One ELSE Zero

UnaryForward(x, f) == Tensor(x.dims, [i \in Elements(x.dims) |-> f[x.el[i]]])

UnaryBackward(g, a, f) ==
    Tensor(g.dims, [i \in Elements(g.dims) |-> Times(g.el[i], f[At(a, i)])])

(* dims aligned to the right of n dimensions. *)
Padded(dims, n) ==
    [d \in 1..n |-> IF d <= n - Len(dims) THEN 1 ELSE dims[d - (n - Len(dims))]]

(* b_offset of element i of out. *)
BOffset(i, dims, out) ==
    LET shape == Padded(dims, Len(out))
    IN  Flat([d \in DOMAIN out |-> IF shape[d] = 1 THEN 0 ELSE Coord(i, out)[d]], Strides(shape))

BinaryForward(a, b, f) ==
    Tensor(a.dims, [i \in Elements(a.dims) |-> f[a.el[i], b.el[BOffset(i, b.dims, a.dims)]]])

(* grad_b collects, for each of its elements, what it was used for. *)
BinaryBackward(g, a, b, aDims, bDims, fa, fb) ==
    LET off(i) == BOffset(i, bDims, aDims)
        term(f, i) == Times(g.el[i], f[At(a, i), At(b, off(i))])
    IN  <<Tensor(aDims, [i \in Elements(aDims) |-> term(fa, i)]),
          Tensor(bDims, [k \in Elements(bDims) |->
              Sum([i \in {j \in Elements(aDims) : off(j) = k} |-> term(fb, i)])])>>

-----------------------------------------------------------------------------
CalcOffset(i, dims, out) ==
    LET shape == Padded(dims, Len(out))
    IN  Flat([d \in DOMAIN out |->
                 IF shape[d] = 1 THEN 0 ELSE (i \div Strides(out)[d]) % shape[d]], Strides(shape))

(* The threads of a launch: LaunchKernel's blocks cover the elements. *)
NumBlocks(n) == (n + BlockSize - 1) \div BlockSize
BlockThreads(k, n) == {i \in k * BlockSize .. (k + 1) * BlockSize - 1 : i < n}

CudaUnaryForward(x, f) ==
    LET n == NumElements(x.dims)
    IN  Stored(x.dims, UNION {{<<i, f[x.el[i]]>> : i \in BlockThreads(k, n)} : k \in 0..NumBlocks(n) - 1})

CudaUnaryBackward(g, a, f) ==
    LET n == NumElements(g.dims)
    IN  Stored(g.dims, UNION {{<<i, Times(g.el[i], f[At(a, i)])>> : i \in BlockThreads(k, n)} :
                                 k \in 0..NumBlocks(n) - 1})

CudaBinaryForward(a, b, f) ==
    IF a.dims = b.dims
    THEN Tensor(a.dims, [i \in Elements(a.dims) |-> f[a.el[i], b.el[i]]])
    ELSE Tensor(a.dims, [i \in Elements(a.dims) |->
             f[a.el[CalcOffset(i, a.dims, a.dims)], b.el[CalcOffset(i, b.dims, a.dims)]]])

(* Whole vectors of VecSize elements, then the tail. *)
Vectorized(n) ==
    LET vecs == n \div VecSize
    IN  {v * VecSize + j : v \in 0..vecs - 1, j \in 0..VecSize - 1} \cup vecs * VecSize .. n - 1

CudaBackwardNoBroadcast(g, a, b, dims, fa, fb) ==
    LET term(f, i) == Times(g.el[i], f[At(a, i), At(b, i)])
        threads == IF NumElements(dims) >= VecSize THEN Vectorized(NumElements(dims)) ELSE Elements(dims)
    IN  <<Stored(dims, {<<i, term(fa, i)>> : i \in threads}),
          Stored(dims, {<<i, term(fb, i)>> : i \in threads})>>

(* Each element of b is used once: its gradient is stored, not added.      *)
CudaBackwardOneToOne(bDims, off, val) ==
    Stored(bDims, {<<off[i], val[i]>> : i \in DOMAIN off})

(***************************************************************************)
(* The ways in which contributions val[i] of elements i reach the elements *)
(* off[i] of grad_b.  In float, lanes of a warp that share an element add  *)
(* their sum at once, else each adds its own.                              *)
(***************************************************************************)
Warps(n) == {{i \in w * WarpSize .. (w + 1) * WarpSize - 1 : i < n} : w \in 0..(n - 1) \div WarpSize}

CudaWarpReduced(bDims, off, val) ==
    LET added(warp, k) ==
            IF \A i, j \in warp : off[i] = off[j]
            THEN IF \E i \in warp : off[i] = k THEN Sum([i \in warp |-> val[i]]) ELSE Zero
            ELSE Sum([i \in {j \in warp : off[j] = k} |-> val[i]])
    IN  Tensor(bDims, [k \in Elements(bDims) |->
            Sum([warp \in Warps(Cardinality(DOMAIN off)) |-> added(warp, k)])])

(***************************************************************************)
(* In bf16, a tree over the threads of a block: with strides 1, 2, 4, ...  *)
(* a thread takes over its partner's gradient if they share the element.   *)
(***************************************************************************)
TreeStrides == SetToSortSeq({s \in 1..BlockSize - 1 : \E k \in 0..10 : s = 2^k}, <)

(* A slip: the partner keeps its offset, and its gradient counts twice.    *)
MergedByStrideTwice(s, t) ==
    [s EXCEPT !.grad = [i \in DOMAIN s.grad |->
        IF /\ i % (2 * t) = 0 /\ i + t < BlockSize
           /\ s.off[i] = s.off[i + t] /\ s.off[i] # -1
        THEN Plus(s.grad[i], s.grad[i + t]) ELSE s.grad[i]]]

MergedByStride(s, t) ==
    LET merges == {i \in 0..BlockSize - 1 :
                      /\ i % (2 * t) = 0 /\ i + t < BlockSize
                      /\ s.off[i] = s.off[i + t] /\ s.off[i] # -1}
    IN  [off  |-> [i \in DOMAIN s.off |-> IF i - t \in merges THEN -1 ELSE s.off[i]],
         grad |-> [i \in DOMAIN s.off |->
                      IF i \in merges THEN Plus(s.grad[i], s.grad[i + t]) ELSE s.grad[i]]]

CudaBlockReduced(bDims, off, val) ==
    LET n == Cardinality(DOMAIN off)
        loaded(k) ==
            [off  |-> [t \in 0..BlockSize - 1 |->
                          IF k * BlockSize + t < n THEN off[k * BlockSize + t] ELSE -1],
             grad |-> [t \in 0..BlockSize - 1 |->
                          IF k * BlockSize + t < n THEN val[k * BlockSize + t] ELSE Zero]]
        reduced == [k \in 0..NumBlocks(n) - 1 |-> FoldLeft(MergedByStride, loaded(k), TreeStrides)]
    IN  Tensor(bDims, [e \in Elements(bDims) |->
            Sum([b \in DOMAIN reduced |->
                Sum([t \in {u \in 0..BlockSize - 1 : reduced[b].off[u] = e} |-> reduced[b].grad[t]])])])

(* Or histograms: work[b, :] of each block, summed by column, in tiles of  *)
(* rows if there are many.                                                 *)
CudaHistogram(bDims, off, val) ==
    LET n      == Cardinality(DOMAIN off)
        blocks == NumBlocks(n)
        work   == [b \in 0..blocks - 1 |-> [k \in Elements(bDims) |->
                      Sum([i \in {j \in BlockThreads(b, n) : off[j] = k} |-> val[i]])]]
        rows(tile) == {b \in 0..blocks - 1 : b \div TileHeight = tile}
        use2D  == NumBlocks(NumElements(bDims)) < SmCount /\ blocks > 4 * SmCount
    IN  Tensor(bDims, [k \in Elements(bDims) |->
            IF use2D
            THEN Sum([tile \in 0..(blocks - 1) \div TileHeight |-> Sum([b \in rows(tile) |-> work[b][k]])])
            ELSE Sum([b \in 0..blocks - 1 |-> work[b][k]])])

DecideBF16Path(bShape, out) ==
    IF bShape = out THEN "NoBroadcast"
    ELSE IF Last(bShape) > 1 /\ NumElements(bShape) <= MaxHistogram THEN "TwoPassHist"
    ELSE "BlockReduce"

CudaBackwardBroadcast(dtype, g, a, b, aDims, bDims, fa, fb) ==
    LET off  == [i \in Elements(g.dims) |-> CalcOffset(i, bDims, g.dims)]
        term(f, i) == Times(g.el[i], f[At(a, CalcOffset(i, aDims, g.dims)), At(b, off[i])])
        val  == [i \in Elements(g.dims) |-> term(fb, i)]
        path == DecideBF16Path(Padded(bDims, Len(g.dims)), g.dims)
    IN  <<Stored(aDims, {<<CalcOffset(i, aDims, g.dims), term(fa, i)>> : i \in Elements(g.dims)}),
          CASE dtype = "fp32" -> CudaWarpReduced(bDims, off, val)
            [] dtype = "bf16" /\ path = "NoBroadcast" -> CudaBackwardOneToOne(bDims, off, val)
            [] dtype = "bf16" /\ path = "TwoPassHist" -> CudaHistogram(bDims, off, val)
            [] dtype = "bf16" /\ path = "BlockReduce" -> CudaBlockReduced(bDims, off, val)>>

CudaBinaryBackward(dtype, g, a, b, aDims, bDims, fa, fb) ==
    IF aDims = bDims /\ aDims = g.dims
    THEN CudaBackwardNoBroadcast(g, a, b, aDims, fa, fb)
    ELSE CudaBackwardBroadcast(dtype, g, a, b, aDims, bDims, fa, fb)

-----------------------------------------------------------------------------
(* Powers with an exponent in Nat, or of a base in 1..Prime-1. *)
PowOf(x, n) == FoldLeft(LAMBDA p, i : Times(p, x), One, [i \in 1..n |-> i])
ScalarPow(s, x) ==
    <<Powers(s)[x[1]], (((LogTable[s] * Powers(s)[x[1]]) % Prime) * x[2]) % Prime>>

MinusHalf == Times(Number(-1), Reciprocal(Number(2)))

NegForward(input) == UnaryForward(input, [x \in Values |-> Negated(x)])
NegBackward(g) == UnaryBackward(g, Null, [x \in Values |-> Number(-1)])
ReciprocalForward(input) == UnaryForward(input, [x \in Values |-> Reciprocal(x)])
ReciprocalBackward(g, input) ==
    UnaryBackward(g, input, [x \in Values |-> Divided(Number(-1), Times(x, x))])
SinForward(input) == UnaryForward(input, [x \in Values |-> SinOf(x)])
SinBackward(g, input) == UnaryBackward(g, input, [x \in Values |-> CosOf(x)])
CosForward(input) == UnaryForward(input, [x \in Values |-> CosOf(x)])
CosBackward(g, input) == UnaryBackward(g, input, [x \in Values |-> Negated(SinOf(x))])
TanhForward(input) == UnaryForward(input, [x \in Values |-> TanhOf(x)])
TanhBackward(g, output) == UnaryBackward(g, output, [x \in Values |-> Minus(One, Times(x, x))])
RsqrtForward(input) == UnaryForward(input, [x \in Values |-> RsqrtOf(x)])
RsqrtBackward(g, input) ==
    UnaryBackward(g, input, [x \in Values |-> Times(MinusHalf, Divided(RsqrtOf(x), x))])
ExpForward(input) == UnaryForward(input, [x \in Values |-> ExpOf(x)])
ExpBackward(g, output) == UnaryBackward(g, output, [x \in Values |-> x])
LogForward(input) == UnaryForward(input, [x \in Values |-> LogOf(x)])
LogBackward(g, input) == UnaryBackward(g, input, [x \in Values |-> Reciprocal(x)])
AddScalarForward(input, scalar) == UnaryForward(input, [x \in Values |-> Plus(x, scalar)])
AddScalarBackward(g) == UnaryBackward(g, Null, [x \in Values |-> One])
MulScalarForward(input, scalar) == UnaryForward(input, [x \in Values |-> Times(x, scalar)])
MulScalarBackward(g, scalar) == UnaryBackward(g, Null, [x \in Values |-> scalar])
PowForward(input, scalar, scalarIsBase) ==
    UnaryForward(input, [x \in Values |->
        IF scalarIsBase THEN ScalarPow(scalar, x) ELSE PowOf(x, scalar)])
PowBackward(g, input, scalar, scalarIsBase) ==
    UnaryBackward(g, input, [x \in Values |->
        IF scalarIsBase THEN Times(Number(LogTable[scalar]), ScalarPow(scalar, x))
        ELSE Times(Number(scalar), PowOf(x, scalar - 1))])
EqualsForward(a, b) == BinaryForward(a, b, [x, y \in Values |-> Truth(x[1] = y[1])])
EqualsScalarForward(a, scalar) == UnaryForward(a, [x \in Values |-> Truth(x[1] = scalar[1])])
LtForward(a, b) == BinaryForward(a, b, [x, y \in Values |-> Truth(Exceeds(y, x))])
LtScalarForward(a, scalar) == UnaryForward(a, [x \in Values |-> Truth(Exceeds(scalar, x))])
LeForward(a, b) == BinaryForward(a, b, [x, y \in Values |-> Truth(~Exceeds(x, y))])
LeScalarForward(a, scalar) == UnaryForward(a, [x \in Values |-> Truth(~Exceeds(x, scalar))])
GtForward(a, b) == BinaryForward(a, b, [x, y \in Values |-> Truth(Exceeds(x, y))])
GtScalarForward(a, scalar) == UnaryForward(a, [x \in Values |-> Truth(Exceeds(x, scalar))])
GeForward(a, b) == BinaryForward(a, b, [x, y \in Values |-> Truth(~Exceeds(y, x))])
GeScalarForward(a, scalar) == UnaryForward(a, [x \in Values |-> Truth(~Exceeds(scalar, x))])
OrForward(a, b) == BinaryForward(a, b, [x, y \in Values |-> Truth(x[1] # 0 \/ y[1] # 0)])
AndForward(a, b) == BinaryForward(a, b, [x, y \in Values |-> Truth(x[1] # 0 /\ y[1] # 0)])
AddForward(a, b) == BinaryForward(a, b, [x, y \in Values |-> Plus(x, y)])
AddBackward(g, aDims, bDims) ==
    BinaryBackward(g, Null, Null, aDims, bDims,
        [x, y \in Values |-> One], [x, y \in Values |-> One])
SubForward(a, b) == BinaryForward(a, b, [x, y \in Values |-> Minus(x, y)])
SubBackward(g, aDims, bDims) ==
    BinaryBackward(g, Null, Null, aDims, bDims,
        [x, y \in Values |-> One], [x, y \in Values |-> Number(-1)])
MulForward(a, b) == BinaryForward(a, b, [x, y \in Values |-> Times(x, y)])
MulBackward(g, a, b) ==
    BinaryBackward(g, a, b, a.dims, b.dims,
        [x, y \in Values |-> y], [x, y \in Values |-> x])
DivForward(a, b) == BinaryForward(a, b, [x, y \in Values |-> Divided(x, y)])
DivBackward(g, a, b) ==
    BinaryBackward(g, a, b, a.dims, b.dims,
        [x, y \in Values |-> Reciprocal(y)], [x, y \in Values |-> Divided(Negated(x), Times(y, y))])
SigmoidForward(input) ==
    UnaryForward(input, [x \in Values |-> Reciprocal(Plus(One, ExpOf(Negated(x))))])
SigmoidBackward(output, g) ==
    UnaryBackward(g, output, [x \in Values |-> Times(x, Minus(One, x))])

CudaNegForward(input) == CudaUnaryForward(input, [x \in Values |-> Negated(x)])
CudaNegBackward(g) == CudaUnaryBackward(g, Null, [x \in Values |-> Number(-1)])
CudaReciprocalForward(input) == CudaUnaryForward(input, [x \in Values |-> Reciprocal(x)])
CudaReciprocalBackward(g, input) ==
    CudaUnaryBackward(g, input, [x \in Values |-> Divided(Number(-1), Times(x, x))])
CudaSinForward(input) == CudaUnaryForward(input, [x \in Values |-> SinOf(x)])
CudaSinBackward(g, input) == CudaUnaryBackward(g, input, [x \in Values |-> CosOf(x)])
CudaCosForward(input) == CudaUnaryForward(input, [x \in Values |-> CosOf(x)])
CudaCosBackward(g, input) == CudaUnaryBackward(g, input, [x \in Values |-> Negated(SinOf(x))])
CudaTanhForward(input) == CudaUnaryForward(input, [x \in Values |-> TanhOf(x)])
CudaTanhBackward(g, output) ==
    CudaUnaryBackward(g, output, [x \in Values |-> Minus(One, Times(x, x))])
CudaRsqrtForward(input) == CudaUnaryForward(input, [x \in Values |-> RsqrtOf(x)])
CudaRsqrtBackward(g, input) ==
    CudaUnaryBackward(g, input, [x \in Values |-> Times(MinusHalf, Times(Reciprocal(x), RsqrtOf(x)))])
CudaExpForward(input) == CudaUnaryForward(input, [x \in Values |-> ExpOf(x)])
CudaExpBackward(g, output) == CudaUnaryBackward(g, output, [x \in Values |-> x])
CudaLogForward(input) == CudaUnaryForward(input, [x \in Values |-> LogOf(x)])
CudaLogBackward(g, input) == CudaUnaryBackward(g, input, [x \in Values |-> Reciprocal(x)])
CudaAddScalarForward(input, scalar) ==
    CudaUnaryForward(input, [x \in Values |-> Plus(x, scalar)])
CudaAddScalarBackward(g) == CudaUnaryBackward(g, Null, [x \in Values |-> One])
CudaMulScalarForward(input, scalar) ==
    CudaUnaryForward(input, [x \in Values |-> Times(x, scalar)])
CudaMulScalarBackward(g, scalar) == CudaUnaryBackward(g, Null, [x \in Values |-> scalar])
CudaPowForward(input, scalar, scalarIsBase) ==
    CudaUnaryForward(input, [x \in Values |->
        IF scalarIsBase THEN ScalarPow(scalar, x) ELSE PowOf(x, scalar)])
CudaPowBackward(g, input, scalar, scalarIsBase) ==
    CudaUnaryBackward(g, input, [x \in Values |->
        IF scalarIsBase THEN Times(Number(LogTable[scalar]), ScalarPow(scalar, x))
        ELSE Times(Number(scalar), PowOf(x, scalar - 1))])
CudaEqualsForward(a, b) == CudaBinaryForward(a, b, [x, y \in Values |-> Truth(x[1] = y[1])])
CudaEqualsScalarForward(a, scalar) ==
    CudaUnaryForward(a, [x \in Values |-> Truth(x[1] = scalar[1])])
CudaLtForward(a, b) == CudaBinaryForward(a, b, [x, y \in Values |-> Truth(Exceeds(y, x))])
CudaLtScalarForward(a, scalar) ==
    CudaUnaryForward(a, [x \in Values |-> Truth(Exceeds(scalar, x))])
CudaLeForward(a, b) == CudaBinaryForward(a, b, [x, y \in Values |-> Truth(~Exceeds(x, y))])
CudaLeScalarForward(a, scalar) ==
    CudaUnaryForward(a, [x \in Values |-> Truth(~Exceeds(x, scalar))])
CudaGtForward(a, b) == CudaBinaryForward(a, b, [x, y \in Values |-> Truth(Exceeds(x, y))])
CudaGtScalarForward(a, scalar) ==
    CudaUnaryForward(a, [x \in Values |-> Truth(Exceeds(x, scalar))])
CudaGeForward(a, b) == CudaBinaryForward(a, b, [x, y \in Values |-> Truth(~Exceeds(y, x))])
CudaGeScalarForward(a, scalar) ==
    CudaUnaryForward(a, [x \in Values |-> Truth(~Exceeds(scalar, x))])
CudaOrForward(a, b) ==
    CudaBinaryForward(a, b, [x, y \in Values |-> Truth(x[1] # 0 \/ y[1] # 0)])
CudaAndForward(a, b) ==
    CudaBinaryForward(a, b, [x, y \in Values |-> Truth(x[1] # 0 /\ y[1] # 0)])
CudaAddForward(a, b) == CudaBinaryForward(a, b, [x, y \in Values |-> Plus(x, y)])
CudaAddBackward(dtype, g, aDims, bDims) ==
    CudaBinaryBackward(dtype, g, Null, Null, aDims, bDims,
        [x, y \in Values |-> One], [x, y \in Values |-> One])
CudaSubForward(a, b) == CudaBinaryForward(a, b, [x, y \in Values |-> Minus(x, y)])
CudaSubBackward(dtype, g, aDims, bDims) ==
    CudaBinaryBackward(dtype, g, Null, Null, aDims, bDims,
        [x, y \in Values |-> One], [x, y \in Values |-> Number(-1)])
CudaMulForward(a, b) == CudaBinaryForward(a, b, [x, y \in Values |-> Times(x, y)])
CudaMulBackward(dtype, g, a, b) ==
    CudaBinaryBackward(dtype, g, a, b, a.dims, b.dims,
        [x, y \in Values |-> y], [x, y \in Values |-> x])
CudaDivForward(a, b) == CudaBinaryForward(a, b, [x, y \in Values |-> Divided(x, y)])
CudaDivBackward(dtype, g, a, b) ==
    CudaBinaryBackward(dtype, g, a, b, a.dims, b.dims,
        [x, y \in Values |-> Reciprocal(y)], [x, y \in Values |-> Divided(Negated(x), Times(y, y))])
CudaSigmoidForward(input) ==
    CudaUnaryForward(input, [x \in Values |-> Reciprocal(Plus(One, ExpOf(Negated(x))))])
CudaSigmoidBackward(output, g) ==
    CudaUnaryBackward(g, output, [x \in Values |-> Times(x, Minus(One, x))])
=============================================================================
