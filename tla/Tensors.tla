------------------------------ MODULE Tensors ------------------------------
(***************************************************************************)
(* Tensors as the kernels see them: dims, and the elements of a contiguous *)
(* buffer by flat index, from 0.  Dimensions are numbered from 1.          *)
(*                                                                         *)
(* A value is a dual number <<v, d>> over a prime field: v stands for the  *)
(* float, d for its change when the inputs change along a given direction. *)
(* Sums and products are exact, so what floats round away is equal here,   *)
(* and a gradient can be compared with the change it must predict.         *)
(***************************************************************************)
EXTENDS Integers, Sequences, FiniteSets, SequencesExt, FiniteSetsExt, Functions

CONSTANT
    ReduceThreads  \* threads of a CUDA block that share a sum, BLOCK_SIZE

Prime == 251
Field == 0 .. Prime - 1
Values == Field \X Field

Number(n) == <<n % Prime, 0>>
Zero == Number(0)
One == Number(1)

Plus(x, y)  == <<(x[1] + y[1]) % Prime, (x[2] + y[2]) % Prime>>
Minus(x, y) == <<(x[1] - y[1]) % Prime, (x[2] - y[2]) % Prime>>
Times(x, y) == <<(x[1] * y[1]) % Prime, (x[1] * y[2] + x[2] * y[1]) % Prime>>
Negated(x)  == Minus(Zero, x)

Inverses == [n \in 1 .. Prime - 1 |-> CHOOSE m \in 1 .. Prime - 1 : (n * m) % Prime = 1]
Reciprocal(x) == <<Inverses[x[1]], (-x[2] * Inverses[x[1]] * Inverses[x[1]]) % Prime>>
Divided(x, y) == Times(x, Reciprocal(y))

(* By squaring. *)
Powers(base) ==
    LET p[n \in 0 .. Prime] ==
            IF n = 0 THEN 1
            ELSE (p[n \div 2] * p[n \div 2] * (IF n % 2 = 1 THEN base ELSE 1)) % Prime
    IN  p

(***************************************************************************)
(* Any function of the field serves for one of the reals of which nothing  *)
(* but its derivative matters.                                             *)
(***************************************************************************)
ExpTable == [v \in Field |-> Powers(6)[v]]
SinTable == [v \in Field |-> (v * v * 7 + 3 * v + 1) % Prime]
CosTable == [v \in Field |-> (v * v * 5 + v + 2) % Prime]
TanhTable == [v \in Field |-> (v * v * 11 + 4 * v + 3) % Prime]
LogTable == [v \in Field |-> (v * v * 3 + 9 * v + 5) % Prime]

ExpOf(x)  == <<ExpTable[x[1]], (ExpTable[x[1]] * x[2]) % Prime>>
SinOf(x)  == <<SinTable[x[1]], (CosTable[x[1]] * x[2]) % Prime>>
CosOf(x)  == <<CosTable[x[1]], (-SinTable[x[1]] * x[2]) % Prime>>
TanhOf(x) == <<TanhTable[x[1]], ((1 - TanhTable[x[1]] * TanhTable[x[1]]) * x[2]) % Prime>>
LogOf(x)  == <<LogTable[x[1]], (Inverses[x[1]] * x[2]) % Prime>>

(* The root of a square; of no square, that of its negation. *)
RootTable == [v \in Field |-> Powers(v)[(Prime + 1) \div 4]]
RsqrtOf(x) ==
    LET r == IF RootTable[x[1]] = 0 THEN 0 ELSE Inverses[RootTable[x[1]]]
    IN  <<r, (-r * Inverses[2] * ((Inverses[x[1]] * x[2]) % Prime)) % Prime>>

Exceeds(x, y) == x[1] > y[1]

Sum(f) == FoldFunction(Plus, Zero, f)

-----------------------------------------------------------------------------
Product(s) == FoldLeft(LAMBDA a, b : a * b, 1, s)

NumElements(dims) == Product(dims)
Elements(dims) == 0 .. NumElements(dims) - 1

(* Sizes of what comes before and after dimension d: outer_size or N, and  *)
(* inner_size, D or W.                                                     *)
OuterSize(dims, d) == Product(SubSeq(dims, 1, d - 1))
InnerSize(dims, d) == Product(SubSeq(dims, d + 1, Len(dims)))

Strides(dims) == [d \in DOMAIN dims |-> InnerSize(dims, d)]

(* Multi-dimensional indices, and the two ways between them and flat ones. *)
Indices(dims) ==
    {x \in [DOMAIN dims -> 0 .. FoldLeft(LAMBDA a, b : IF a > b THEN a ELSE b, 1, dims) - 1] :
        \A d \in DOMAIN dims : x[d] < dims[d]}

Flat(x, strides) ==
    FoldLeft(LAMBDA sum, d : sum + x[d] * strides[d], 0, [d \in DOMAIN x |-> d])

Coord(i, dims) ==
    [d \in DOMAIN dims |-> (i \div InnerSize(dims, d)) % dims[d]]

Swapped(s, d, e) == [k \in DOMAIN s |-> s[IF k = d THEN e ELSE IF k = e THEN d ELSE k]]
Resized(dims, d, n) == [k \in DOMAIN dims |-> IF k = d THEN n ELSE dims[k]]

Tensor(dims, el) == [dims |-> dims, el |-> el]

(* A null pointer in place of a tensor. *)
Null == Tensor(<<0>>, <<>>)

Filled(dims) == Tensor(dims, [i \in Elements(dims) |-> Zero])

(* What a set of stores <<index, value>> makes of a fresh buffer.  Two     *)
(* stores to one element are a race; an element without a store stays      *)
(* uninitialised and is no element of the result.                          *)
Stored(dims, stores) ==
    Tensor(dims, [i \in {s[1] : s \in stores} |-> (CHOOSE s \in stores : s[1] = i)[2]])

(* The k-th input of a function, with a direction, and the gradient of its *)
(* k-th output: arbitrary values.                                          *)
Mixed(a, b) == (a * a * 31 + b * b * 17 + a * b * 7 + a + 3 * b + 1) % Prime
Input(k, dims) == Tensor(dims, [i \in Elements(dims) |-> <<Mixed(i, 5 * k), Mixed(3 * k, i + 1)>>])
GradOutput(k, dims) == Tensor(dims, [i \in Elements(dims) |-> Number(Mixed(2 * i + 1, 11 * k))])

IsInitialised(t) == DOMAIN t.el = Elements(t.dims)

(* The inner product of a gradient with a tensor's direction. *)
Along(g, t) == FoldFunction(LAMBDA x, sum : (sum + x) % Prime, 0,
                            [i \in Elements(t.dims) |-> g.el[i][1] * t.el[i][2]])
TotalAlong(gs, ts) == FoldLeft(LAMBDA sum, k : (sum + Along(gs[k], ts[k])) % Prime, 0,
                               [k \in DOMAIN ts |-> k])

(***************************************************************************)
(* Of a function's inputs, outputs and input gradients: every element was  *)
(* written, and the gradients predict how the outputs change when the      *)
(* inputs do, weighted with the outputs' gradients.                        *)
(***************************************************************************)
IsDifferentiated(f) ==
    /\ \A k \in DOMAIN f.outputs : IsInitialised(f.outputs[k])
    /\ \A j \in DOMAIN f.grads :
           f.grads[j].dims = f.inputs[j].dims /\ IsInitialised(f.grads[j])
    /\ TotalAlong(f.grads, f.inputs)
           = TotalAlong([k \in DOMAIN f.outputs |-> GradOutput(k, f.outputs[k].dims)], f.outputs)
=============================================================================
