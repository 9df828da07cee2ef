----------------------------- MODULE DataKernels -----------------------------
(***************************************************************************)
(* The kernels that move elements: kernels/{cpu,cuda}/ transform, slice,   *)
(* concat, split, stack, gather and scatter, forward and backward.  A CPU  *)
(* kernel is its loops, a CUDA kernel what each thread idx does.  The      *)
(* checks on shapes are preconditions; the instances keep them.            *)
(***************************************************************************)
EXTENDS Tensors

(* By row and column: i / cols and i % cols. *)
InTril(i, dims, diagonal) == (i \div dims[2]) - (i % dims[2]) + diagonal >= 0
InTriu(i, dims, diagonal) == (i \div dims[2]) - (i % dims[2]) + diagonal <= 0

TrilForward(x, diagonal) ==
    Tensor(x.dims, [i \in Elements(x.dims) |->
        IF InTril(i, x.dims, diagonal) THEN x.el[i] ELSE Zero])

TrilBackward(g, diagonal) ==
    Tensor(g.dims, [i \in Elements(g.dims) |->
        IF InTril(i, g.dims, diagonal) THEN g.el[i] ELSE Zero])

TriuForward(x, diagonal) ==
    Tensor(x.dims, [i \in Elements(x.dims) |->
        IF InTriu(i, x.dims, diagonal) THEN x.el[i] ELSE Zero])

TriuBackward(g, diagonal) ==
    Tensor(g.dims, [i \in Elements(g.dims) |->
        IF InTriu(i, g.dims, diagonal) THEN g.el[i] ELSE Zero])

(* The CUDA kernels have a thread for each element. *)
CudaTrilForward(x, diagonal) ==
    Stored(x.dims, {<<i, IF InTril(i, x.dims, diagonal) THEN x.el[i] ELSE Zero>> :
        i \in 0 .. x.dims[1] * x.dims[2] - 1})

CudaTrilBackward(g, diagonal) ==
    Stored(g.dims, {<<i, IF InTril(i, g.dims, diagonal) THEN g.el[i] ELSE Zero>> :
        i \in 0 .. g.dims[1] * g.dims[2] - 1})

CudaTriuForward(x, diagonal) ==
    Stored(x.dims, {<<i, IF InTriu(i, x.dims, diagonal) THEN x.el[i] ELSE Zero>> :
        i \in 0 .. x.dims[1] * x.dims[2] - 1})

CudaTriuBackward(g, diagonal) ==
    Stored(g.dims, {<<i, IF InTriu(i, g.dims, diagonal) THEN g.el[i] ELSE Zero>> :
        i \in 0 .. g.dims[1] * g.dims[2] - 1})

(* The CPU loop decodes the input's index, swaps and scatters. *)
TransposeForward(x, d, e) ==
    LET out == Swapped(x.dims, d, e)
    IN  Stored(out, {<<Flat(Swapped(Coord(i, x.dims), d, e), Strides(out)), x.el[i]>> :
                        i \in Elements(x.dims)})

TransposeBackward(g, d, e) == TransposeForward(g, e, d)

(* A CUDA thread decodes the output's index, swaps and gathers. *)
CudaTransposeForward(x, d, e) ==
    LET out == Swapped(x.dims, d, e)
    IN  Tensor(out, [i \in Elements(out) |->
            x.el[Flat(Swapped(Coord(i, out), d, e), Strides(x.dims))]])

CudaTransposeBackward(g, d, e) == CudaTransposeForward(g, e, d)

(***************************************************************************)
(* The mask is a set of flat indices of a tensor of dims maskDims: its     *)
(* ones.  The value filled in is a constant, so no element enters it.  On  *)
(* the CPU the mask repeats over the leading dimensions.                   *)
(***************************************************************************)
MaskForward(x, ones, maskDims) ==
    Tensor(x.dims, [i \in Elements(x.dims) |->
        IF i % NumElements(maskDims) \in ones THEN Zero ELSE x.el[i]])

MaskBackward(g, ones, maskDims) ==
    Tensor(g.dims, [i \in Elements(g.dims) |->
        IF i % NumElements(maskDims) \in ones THEN Zero ELSE g.el[i]])

AlignsWith(maskDims, dims) == \A d \in DOMAIN maskDims : maskDims[d] \in {dims[d], 1}

IsLeadMaskShape(dims, maskDims) ==
    maskDims # <<>> /\ Len(maskDims) <= Len(dims) /\ AlignsWith(maskDims, dims)

IsTailMaskShape(dims, maskDims) ==
    /\ Len(maskDims) <= Len(dims)
    /\ AlignsWith(maskDims, SubSeq(dims, Len(dims) - Len(maskDims) + 1, Len(dims)))

MaskIndex(i, dims, maskDims) ==
    IF IsTailMaskShape(dims, maskDims) THEN i % NumElements(maskDims)
    ELSE i \div (NumElements(dims) \div NumElements(maskDims))

CudaMaskForward(x, ones, maskDims) ==
    Tensor(x.dims, [i \in Elements(x.dims) |->
        IF MaskIndex(i, x.dims, maskDims) \in ones THEN Zero ELSE x.el[i]])

CudaMaskBackward(g, ones, maskDims) ==
    Tensor(g.dims, [i \in Elements(g.dims) |->
        IF MaskIndex(i, g.dims, maskDims) \in ones THEN Zero ELSE g.el[i]])

(* The CPU copies inner elements at a time. *)
RepeatInterleaveForward(x, repeat, d) ==
    LET inner == InnerSize(x.dims, d)
        size  == x.dims[d]
    IN  Stored(Resized(x.dims, d, size * repeat),
            {<<(o * size * repeat + i * repeat + r) * inner + j,
               x.el[(o * size + i) * inner + j]>> :
                o \in 0..OuterSize(x.dims, d) - 1, i \in 0..size - 1,
                r \in 0..repeat - 1, j \in 0..inner - 1})

RepeatInterleaveBackward(g, dims, d) ==
    LET inner  == InnerSize(dims, d)
        size   == dims[d]
        repeat == g.dims[d] \div size
    IN  Stored(dims,
            {<<(o * size + i) * inner + j,
               Sum([r \in 0..repeat - 1 |-> g.el[(o * size * repeat + i * repeat + r) * inner + j]])>> :
                o \in 0..OuterSize(dims, d) - 1, i \in 0..size - 1, j \in 0..inner - 1})

CudaRepeatInterleaveForward(x, repeat, d) ==
    LET inner == InnerSize(x.dims, d)
        size  == x.dims[d]
        out   == Resized(x.dims, d, size * repeat)
        source(idx) ==
            LET i == idx \div inner
            IN  ((i \div (size * repeat)) * size + ((i \div repeat) % size)) * inner
                    + (idx % inner)
    IN  Tensor(out, [idx \in Elements(out) |-> x.el[source(idx)]])

CudaRepeatInterleaveBackward(g, dims, d) ==
    LET inner  == InnerSize(dims, d)
        size   == dims[d]
        repeat == g.dims[d] \div size
        terms(i, j) ==
            [r \in 0..repeat - 1 |->
                g.el[((i \div size) * size * repeat + (i % size) * repeat + r) * inner + j]]
    IN  Tensor(dims, [idx \in Elements(dims) |-> Sum(terms(idx \div inner, idx % inner))])

-----------------------------------------------------------------------------
(* [starts, ends, steps]: new_dims, and the source of index x.             *)
SliceDims(s) == [d \in DOMAIN s.starts |->
                    (s.ends[d] - s.starts[d] + s.steps[d] - 1) \div s.steps[d]]

(* recurse(d) counts out_i while i goes from starts[d] by steps[d].        *)
SliceCounts(s) ==
    {x \in Indices([d \in DOMAIN s.ends |-> s.ends[d] + 1]) :
        \A d \in DOMAIN x : s.starts[d] + x[d] * s.steps[d] < s.ends[d]}

SliceForward(x, s) ==
    Stored(SliceDims(s),
        {<<Flat(c, Strides(SliceDims(s))),
           x.el[Flat([d \in DOMAIN c |-> s.starts[d] + c[d] * s.steps[d]], Strides(x.dims))]>> :
            c \in SliceCounts(s)})

(* What the fill with zeros leaves where nothing is stored. *)
OverZeros(t) ==
    Tensor(t.dims, [i \in Elements(t.dims) |-> IF i \in DOMAIN t.el THEN t.el[i] ELSE Zero])

SliceBackward(g, dims, s) ==
    OverZeros(Stored(dims,
        {<<Flat([d \in DOMAIN c |-> s.starts[d] + c[d] * s.steps[d]], Strides(dims)),
           g.el[Flat(c, Strides(SliceDims(s)))]>> : c \in SliceCounts(s)}))

(* in_index of thread out_idx. *)
SliceSource(i, dims, s) ==
    LET new == SliceDims(s)
    IN  Flat([d \in DOMAIN new |->
                 s.starts[d] + ((i \div Strides(new)[d]) % new[d]) * s.steps[d]],
             Strides(dims))

CudaSliceForward(x, s) ==
    Tensor(SliceDims(s), [i \in Elements(SliceDims(s)) |-> x.el[SliceSource(i, x.dims, s)]])

CudaSliceBackward(g, dims, s) ==
    OverZeros(Stored(dims,
        {<<SliceSource(i, dims, s), g.el[i]>> : i \in Elements(SliceDims(s))}))

-----------------------------------------------------------------------------
(* Ks and host_offsets: where each input starts along dimension d. *)
Ks(dimsList, d) == [k \in DOMAIN dimsList |-> dimsList[k][d]]
SumOf(s) == FoldLeft(LAMBDA a, b : a + b, 0, s)
Offset(ks, k) == SumOf(SubSeq(ks, 1, k - 1))
Joined(dimsList, d) == Resized(dimsList[1], d, SumOf(Ks(dimsList, d)))

ConcatForward(xs, d) ==
    LET dims  == [k \in DOMAIN xs |-> xs[k].dims]
        out   == Joined(dims, d)
        inner == InnerSize(out, d)
    IN  Stored(out, UNION {
            {<<(n * out[d] + Offset(Ks(dims, d), k)) * inner + j,
               xs[k].el[n * dims[k][d] * inner + j]>> :
                n \in 0..OuterSize(out, d) - 1, j \in 0..dims[k][d] * inner - 1} :
            k \in DOMAIN xs})

ConcatBackward(g, dimsList, d) ==
    LET inner == InnerSize(g.dims, d)
        total == SumOf(Ks(dimsList, d))
    IN  [k \in DOMAIN dimsList |->
            Stored(dimsList[k],
                {<<n * dimsList[k][d] * inner + j,
                   g.el[(n * total + Offset(Ks(dimsList, d), k)) * inner + j]>> :
                    n \in 0..OuterSize(dimsList[1], d) - 1, j \in 0..dimsList[k][d] * inner - 1})]

(* UpperBoundI64, the last k whose offset is not beyond x. *)
UpperBound(ks, x) == CHOOSE k \in DOMAIN ks : Offset(ks, k) <= x /\ x < Offset(ks, k + 1)

(* The input, and the element of it, that thread idx copies. *)
ConcatSource(idx, dimsList, d) ==
    LET ks == Ks(dimsList, d)
        D  == InnerSize(dimsList[1], d)
        x  == (idx \div D) % SumOf(ks)
        k  == UpperBound(ks, x)
    IN  <<k, (idx \div (D * SumOf(ks))) * ks[k] * D + (x - Offset(ks, k)) * D + (idx % D)>>

CudaConcatForward(xs, d) ==
    LET dims == [k \in DOMAIN xs |-> xs[k].dims]
        from(idx) == LET s == ConcatSource(idx, dims, d) IN xs[s[1]].el[s[2]]
    IN  Tensor(Joined(dims, d), [idx \in Elements(Joined(dims, d)) |-> from(idx)])

CudaConcatBackward(g, dimsList, d) ==
    [k \in DOMAIN dimsList |->
        Stored(dimsList[k],
            {<<ConcatSource(idx, dimsList, d)[2], g.el[idx]>> :
                idx \in {i \in Elements(g.dims) : ConcatSource(i, dimsList, d)[1] = k}})]

-----------------------------------------------------------------------------
(* The pieces of SplitForward: their number, start and height. *)
NumSplits(height, size) == (height + size - 1) \div size
SplitHeight(height, size, k) ==
    LET start == (k - 1) * size IN IF size <= height - start THEN size ELSE height - start

SplitForward(x, size, d) ==
    LET H == x.dims[d]
        W == InnerSize(x.dims, d)
        h(k) == SplitHeight(H, size, k)
    IN  [k \in 1..NumSplits(H, size) |->
            Stored(Resized(x.dims, d, h(k)),
                {<<n * h(k) * W + j, x.el[(n * H + (k - 1) * size) * W + j]>> :
                    n \in 0..OuterSize(x.dims, d) - 1, j \in 0..h(k) * W - 1})]

SplitBackward(dims, size, d, gs) ==
    LET H == dims[d]
        W == InnerSize(dims, d)
        h(k) == SplitHeight(H, size, k)
    IN  OverZeros(Stored(dims, UNION {
            {<<(n * H + (k - 1) * size) * W + j, gs[k].el[n * h(k) * W + j]>> :
                n \in 0..OuterSize(dims, d) - 1, j \in 0..h(k) * W - 1} :
            k \in 1..NumSplits(H, size)}))

CudaSplitForward(x, size, d) ==
    LET W == InnerSize(x.dims, d)
        out(k) == Resized(x.dims, d, SplitHeight(x.dims[d], size, k))
        source(k, idx) ==
            (idx \div (out(k)[d] * W)) * x.dims[d] * W
                + (((idx \div W) % out(k)[d]) + (k - 1) * size) * W + (idx % W)
    IN  [k \in 1..NumSplits(x.dims[d], size) |->
            Tensor(out(k), [idx \in Elements(out(k)) |-> x.el[source(k, idx)]])]

CudaSplitBackward(dims, size, d, gs) ==
    LET W == InnerSize(dims, d)
        value(idx) ==
            LET h     == (idx \div W) % dims[d]
                k     == h \div size + 1
                H_out == SplitHeight(dims[d], size, k)
            IN  gs[k].el[((idx \div (dims[d] * W)) * H_out + (h - (k - 1) * size)) * W + (idx % W)]
    IN  Tensor(dims, [idx \in Elements(dims) |-> value(idx)])

-----------------------------------------------------------------------------
(* Stacking puts a new dimension before dimension d of the inputs. *)
StackDims(dims, n, d) == SubSeq(dims, 1, d - 1) \o <<n>> \o SubSeq(dims, d, Len(dims))
TailSize(dims, d) == Product(SubSeq(dims, d, Len(dims)))

StackForward(xs, d) ==
    LET out == StackDims(xs[1].dims, Len(xs), d)
        D   == InnerSize(out, d)
    IN  Stored(out, {<<(n * Len(xs) + k - 1) * D + j, xs[k].el[n * D + j]>> :
            n \in 0..OuterSize(out, d) - 1, k \in DOMAIN xs, j \in 0..D - 1})

StackBackward(dims, d, g) ==
    LET D == TailSize(dims, d)
    IN  [k \in 1..g.dims[d] |->
            Stored(dims, {<<n * D + j, g.el[(n * g.dims[d] + k - 1) * D + j]>> :
                n \in 0..OuterSize(dims, d) - 1, j \in 0..D - 1})]

CudaStackForward(xs, d) ==
    LET out == StackDims(xs[1].dims, Len(xs), d)
        D   == TailSize(xs[1].dims, d)
        N   == Len(xs)
    IN  Tensor(out, [idx \in Elements(out) |->
            xs[((idx \div D) % N) + 1].el[(idx \div (D * N)) * D + (idx % D)]])

CudaStackBackward(dims, d, g) ==
    LET D == TailSize(dims, d)
        N == g.dims[d]
    IN  [k \in 1..N |->
            Stored(dims, {<<(idx \div (D * N)) * D + (idx % D), g.el[idx]>> :
                idx \in {i \in Elements(g.dims) : (i \div D) % N = k - 1}})]

-----------------------------------------------------------------------------
(* index is a function from the elements of indexDims to Int; a negative   *)
(* one counts from the end, and any is clamped to the dimension.           *)
NormIndex(v, size) ==
    LET w == IF v < 0 THEN v + size ELSE v
    IN  IF w < 0 THEN 0 ELSE IF w >= size THEN size - 1 ELSE w

(* src_offset, or in_linear: where element i of the index points to. *)
GatherSource(i, index, indexDims, dims, d) ==
    Flat([Coord(i, indexDims) EXCEPT ![d] = NormIndex(index[i], dims[d])], Strides(dims))

GatherForward(x, index, indexDims, d) ==
    Stored(indexDims,
        {<<Flat(c, Strides(indexDims)),
           x.el[GatherSource(Flat(c, Strides(indexDims)), index, indexDims, x.dims, d)]>> :
            c \in Indices(indexDims)})

(* gi_ptr[src_offset] += go_ptr[dst_offset], from zeros. *)
GatherBackward(g, index, indexDims, dims, d) ==
    Tensor(dims, [j \in Elements(dims) |->
        Sum([c \in {x \in Indices(indexDims) :
                    GatherSource(Flat(x, Strides(indexDims)), index, indexDims, dims, d) = j} |->
                 g.el[Flat(c, Strides(indexDims))]])])

CudaGatherForward(x, index, indexDims, d) ==
    Tensor(indexDims, [i \in Elements(indexDims) |->
        x.el[GatherSource(i, index, indexDims, x.dims, d)]])

(* The CUDA backward takes fewer shapes than its forward. *)
CudaGatherBackwardAccepts(indexDims, dims, d) ==
    \A e \in DOMAIN dims \ {d} : dims[e] = indexDims[e]

(* atomicAdd, from zeros; no tensor where a CHECK ends the program.        *)
CudaGatherBackward(g, index, indexDims, dims, d) ==
    IF ~CudaGatherBackwardAccepts(indexDims, dims, d) THEN Null
    ELSE Tensor(dims, [j \in Elements(dims) |->
             Sum([i \in {k \in Elements(indexDims) :
                         GatherSource(k, index, indexDims, dims, d) = j} |-> g.el[i]])])

(* Row by row the values of the chosen experts go to their places. *)
ScatterForward(values, index, dims) ==
    LET topk    == Last(values.dims)
        experts == Last(dims)
    IN  OverZeros(Stored(dims, {<<row * experts + index[row * topk + s], values.el[row * topk + s]>> :
            row \in 0..(NumElements(values.dims) \div topk) - 1, s \in 0..topk - 1}))

ScatterBackward(g, index, indexDims) ==
    LET topk == Last(indexDims)
    IN  Stored(indexDims,
            {<<row * topk + s, g.el[row * Last(g.dims) + index[row * topk + s]]>> :
                row \in 0..(NumElements(indexDims) \div topk) - 1, s \in 0..topk - 1})

CudaScatterForward(values, index, dims) ==
    OverZeros(Stored(dims,
        {<<(idx \div Last(values.dims)) * Last(dims) + index[idx], values.el[idx]>> :
            idx \in Elements(values.dims)}))

CudaScatterBackward(g, index, indexDims) ==
    Tensor(indexDims, [idx \in Elements(indexDims) |->
        g.el[(idx \div Last(indexDims)) * Last(g.dims) + index[idx]]])
=============================================================================
