----------------------------- MODULE MatrixKernels -----------------------------
(***************************************************************************)
(* kernels/{cpu,cuda}/ matmul, linear and outer.  The CPU has loops, or    *)
(* Eigen's products of row-major matrices; CUDA calls cuBLAS, whose        *)
(* matrices are column-major: each call's dimensions, leading dimensions   *)
(* and strides are the code's.                                             *)
(***************************************************************************)
EXTENDS Tensors

(* A tensor as the matrix of its last dimension. *)
Rows(t) == Product(Front(t.dims))
Cols(t) == IF t.dims = <<>> THEN 1 ELSE Last(t.dims)

EigenMatrix(t) ==
    [rows |-> Rows(t), cols |-> Cols(t),
     at   |-> [r \in 0..Rows(t) - 1, c \in 0..Cols(t) - 1 |-> t.el[r * Cols(t) + c]]]

Transposed(a) ==
    [rows |-> a.cols, cols |-> a.rows,
     at   |-> [r \in 0..a.cols - 1, c \in 0..a.rows - 1 |-> a.at[c, r]]]

MatrixProduct(a, b) ==
    [rows |-> a.rows, cols |-> b.cols,
     at   |-> [r \in 0..a.rows - 1, c \in 0..b.cols - 1 |->
                  Sum([k \in 0..a.cols - 1 |-> Times(a.at[r, k], b.at[k, c])])]]

FromMatrix(dims, a) ==
    Tensor(dims, [i \in Elements(dims) |-> a.at[i \div a.cols, i % a.cols]])

(***************************************************************************)
(* cublasGemm(StridedBatched)Ex and cublasSgemv with alpha = 1.  With      *)
(* beta = 0 what C held is not read.                                       *)
(***************************************************************************)
OpAt(x, trans, ld, row, col) == IF trans THEN x[col + row * ld] ELSE x[row + col * ld]
Unread == [i \in Nat |-> Zero]

(* p.C is what C held, Unread if beta = 0. *)
Gemm(p) ==
    {<<c * p.stride_c + i + j * p.ldc,
       Plus(p.C[c * p.stride_c + i + j * p.ldc],
            Sum([l \in 0..p.k - 1 |->
                Times(OpAt([e \in Nat |-> p.A[c * p.stride_a + e]], p.trans_a, p.lda, i, l),
                      OpAt([e \in Nat |-> p.B[c * p.stride_b + e]], p.trans_b, p.ldb, l, j))]))>> :
        c \in 0..p.batch_count - 1, i \in 0..p.m - 1, j \in 0..p.n - 1}

GemmParams(trans_a, trans_b, m, n, k, A, lda, B, ldb, C, ldc) ==
    [trans_a |-> trans_a, trans_b |-> trans_b, m |-> m, n |-> n, k |-> k, A |-> A, lda |-> lda,
     B |-> B, ldb |-> ldb, C |-> C, ldc |-> ldc, batch_count |-> 1,
     stride_a |-> 0, stride_b |-> 0, stride_c |-> 0]

Batched(p, bs, a, b, c) ==
    [p EXCEPT !.batch_count = bs,
              !.stride_a = IF bs > 1 THEN a ELSE 0,
              !.stride_b = IF bs > 1 THEN b ELSE 0,
              !.stride_c = IF bs > 1 THEN c ELSE 0]

(* A is m x n before it is transposed. *)
SgemvCuda(trans, m, n, A, lda, x, y) ==
    {<<i, Plus(y[i], Sum([l \in 0..(IF trans THEN m ELSE n) - 1 |->
                              Times(OpAt(A, trans, lda, i, l), x[l])]))>> :
        i \in 0..(IF trans THEN n ELSE m) - 1}

-----------------------------------------------------------------------------
BatchOf(dims) == Product(SubSeq(dims, 1, Len(dims) - 2))
MatRows(dims) == dims[Len(dims) - 1]

MatmulForward(x, y) ==
    LET m == MatRows(x.dims)
        k == Last(x.dims)
        n == Last(y.dims)
        out == Front(x.dims) \o <<n>>
    IN  Stored(out, {<<b * m * n + i * n + j,
                       Sum([p \in 0..k - 1 |->
                            Times(x.el[b * m * k + i * k + p], y.el[b * k * n + p * n + j])])>> :
                        b \in 0..BatchOf(x.dims) - 1, i \in 0..m - 1, j \in 0..n - 1})

MatmulBackwardInput(other, g, dims) ==
    LET m == MatRows(g.dims)
        k == MatRows(other.dims)
        n == Last(g.dims)
    IN  Stored(dims, {<<b * m * k + i * k + p,
                        Sum([j \in 0..n - 1 |->
                             Times(g.el[b * m * n + i * n + j], other.el[b * k * n + p * n + j])])>> :
                         b \in 0..BatchOf(g.dims) - 1, i \in 0..m - 1, p \in 0..k - 1})

MatmulBackwardOther(input, g, dims) ==
    LET m == MatRows(input.dims)
        k == Last(input.dims)
        n == Last(g.dims)
    IN  Stored(dims, {<<b * k * n + p * n + j,
                        Sum([i \in 0..m - 1 |->
                             Times(g.el[b * m * n + i * n + j], input.el[b * m * k + i * k + p])])>> :
                         b \in 0..BatchOf(input.dims) - 1, p \in 0..k - 1, j \in 0..n - 1})

CudaMatmulForward(x, y) ==
    LET m == MatRows(x.dims)
        k == Last(x.dims)
        n == Last(y.dims)
    IN  Stored(Front(x.dims) \o <<n>>,
            Gemm(Batched(GemmParams(FALSE, FALSE, n, m, k, y.el, n, x.el, k, Unread, n),
                         BatchOf(x.dims), n * k, k * m, m * n)))

CudaMatmulBackwardInput(other, g, dims) ==
    LET m == MatRows(g.dims)
        k == MatRows(other.dims)
        n == Last(other.dims)
    IN  Stored(dims,
            Gemm(Batched(GemmParams(TRUE, FALSE, k, m, n, other.el, n, g.el, n, Unread, k),
                         BatchOf(g.dims), k * n, n * m, m * k)))

CudaMatmulBackwardOther(input, g, dims) ==
    LET m == MatRows(input.dims)
        k == Last(input.dims)
        n == Last(g.dims)
    IN  Stored(dims,
            Gemm(Batched(GemmParams(FALSE, TRUE, n, k, m, g.el, n, input.el, k, Unread, n),
                         BatchOf(input.dims), n * m, k * m, n * k)))

-----------------------------------------------------------------------------
(* A linear layer; bias is a tensor or Null. *)
LinearForward(x, w, transpose, bias) ==
    LET product == MatrixProduct(EigenMatrix(x),
                       IF transpose THEN Transposed(EigenMatrix(w)) ELSE EigenMatrix(w))
        y == FromMatrix(Front(x.dims) \o <<w.dims[IF transpose THEN 1 ELSE 2]>>, product)
    IN  IF bias = Null THEN y
        ELSE Tensor(y.dims, [i \in DOMAIN y.el |-> Plus(y.el[i], bias.el[i % Cols(y)])])

LinearBackwardInput(w, g, transpose, dims) ==
    FromMatrix(dims, MatrixProduct(EigenMatrix(g),
        IF transpose THEN EigenMatrix(w) ELSE Transposed(EigenMatrix(w))))

LinearBackwardWeight(x, g, transpose, inFeatures, outFeatures) ==
    IF transpose
    THEN FromMatrix(<<outFeatures, inFeatures>>,
                    MatrixProduct(Transposed(EigenMatrix(g)), EigenMatrix(x)))
    ELSE FromMatrix(<<inFeatures, outFeatures>>,
                    MatrixProduct(Transposed(EigenMatrix(x)), EigenMatrix(g)))

LinearBackwardBias(g, outFeatures) ==
    Tensor(<<outFeatures>>, [j \in 0..outFeatures - 1 |->
        Sum([r \in 0..Rows(g) - 1 |-> EigenMatrix(g).at[r, j]])])

(* BiasCopyKernel fills the output, to which the product is then added. *)
BiasCopy(bias, bs, outFeatures) == [idx \in 0..bs * outFeatures - 1 |-> bias.el[idx % outFeatures]]

CudaLinearForward(dtype, x, w, transpose, bias) ==
    LET bs  == Rows(x)
        in  == Cols(x)
        out == w.dims[IF transpose THEN 1 ELSE 2]
        C   == IF bias = Null THEN Unread ELSE BiasCopy(bias, bs, out)
        lda == IF transpose THEN in ELSE out
    IN  Stored(Front(x.dims) \o <<out>>,
            IF bs = 1 /\ dtype = "fp32"
            THEN SgemvCuda(transpose, lda, IF transpose THEN out ELSE in, w.el, lda, x.el, C)
            ELSE Gemm(GemmParams(transpose, FALSE, out, bs, in, w.el, lda, x.el, in, C, out)))

CudaLinearBackwardInput(dtype, w, g, transpose, inFeatures, outFeatures, dims) ==
    LET lda == IF transpose THEN inFeatures ELSE outFeatures
    IN  Stored(dims,
            IF Rows(g) = 1 /\ dtype = "fp32"
            THEN SgemvCuda(~transpose, lda, IF transpose THEN outFeatures ELSE inFeatures,
                           w.el, lda, g.el, Unread)
            ELSE Gemm(GemmParams(~transpose, FALSE, inFeatures, Rows(g), outFeatures, w.el, lda,
                                 g.el, outFeatures, Unread, inFeatures)))

CudaLinearBackwardWeight(x, g, transpose, inFeatures, outFeatures) ==
    LET m == IF transpose THEN inFeatures ELSE outFeatures
        n == IF transpose THEN outFeatures ELSE inFeatures
    IN  Stored(<<n, m>>,
            Gemm(GemmParams(FALSE, TRUE, m, n, Rows(g),
                            IF transpose THEN x.el ELSE g.el, m,
                            IF transpose THEN g.el ELSE x.el, n, Unread, m)))

(* A block for each row, whose threads take every ReduceThreads-th column. *)
ReduceColumns(el, rows, cols) ==
    [row \in 0..rows - 1 |->
        Sum([thread \in 0..ReduceThreads - 1 |->
            Sum([col \in {c \in 0..cols - 1 : c % ReduceThreads = thread} |-> el[row * cols + col]])])]

CudaLinearBackwardBias(g, outFeatures) ==
    Tensor(<<outFeatures>>, ReduceColumns(g.el, outFeatures, Rows(g)))

-----------------------------------------------------------------------------
OuterForward(x, y) ==
    FromMatrix(<<x.dims[1], y.dims[1]>>,
               MatrixProduct(Transposed(EigenMatrix(x)), EigenMatrix(y)))

OuterBackward(x, y, g) ==
    <<FromMatrix(x.dims, Transposed(MatrixProduct(EigenMatrix(g), Transposed(EigenMatrix(y))))),
      FromMatrix(y.dims, Transposed(
          MatrixProduct(Transposed(EigenMatrix(g)), Transposed(EigenMatrix(x)))))>>

CudaOuterForward(x, y) ==
    LET M == x.dims[1]
        N == y.dims[1]
    IN  Stored(<<M, N>>, Gemm(GemmParams(FALSE, FALSE, N, M, 1, y.el, N, x.el, 1, Unread, N)))

CudaOuterBackward(dtype, x, y, g) ==
    LET M == x.dims[1]
        N == y.dims[1]
    IN  IF dtype = "fp32"
        THEN <<Stored(<<M>>, SgemvCuda(TRUE, N, M, g.el, N, y.el, Unread)),
               Stored(<<N>>, SgemvCuda(FALSE, N, M, g.el, N, x.el, Unread))>>
        ELSE <<Stored(<<M>>, Gemm(GemmParams(FALSE, FALSE, 1, M, N, y.el, 1, g.el, N, Unread, 1))),
               Stored(<<N>>, Gemm(GemmParams(FALSE, TRUE, 1, N, M, x.el, 1, g.el, N, Unread, 1)))>>
=============================================================================
