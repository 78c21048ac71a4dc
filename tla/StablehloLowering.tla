--------------------------- MODULE StablehloLowering ---------------------------
(***************************************************************************)
(* How rxla-ir turns a recorded graph into StableHLO                       *)
(* (rxla-ir/src/pliron/stablehlo/*.rs).  Lowered(n, x) is the value of the *)
(* operations emitted for the node n when its operands have the values x.  *)
(* Most nodes are one StableHLO operation of the same meaning; the         *)
(* operators below are the ones that need a construction.  The StableHLO   *)
(* operations themselves (Hlo...) are external, from their specification.  *)
(***************************************************************************)
EXTENDS OpSemantics

NegInf == -100                       \* below every sampled element

(* External: padding with interior and negative (cropping) edges. *)
HloPad(x, fill, low, high, interior) ==
    LET r == Len(x.dims)
        size(i) == IF x.dims[i] = 0 THEN low[i] + high[i] ELSE low[i] + high[i] + (x.dims[i] - 1) * (interior[i] + 1) + 1
        source(p) == Tuple([i \in 1..r |-> (p[i] - low[i]) \div (interior[i] + 1)], r)
        onGrid(p) == \A i \in 1..r : (p[i] - low[i]) % (interior[i] + 1) = 0
    IN  Tabulate(Tuple([i \in 1..r |-> size(i)], r), LAMBDA p : IF onGrid(p) /\ Within(source(p), x.dims) THEN At(x, source(p)) ELSE fill)

(* External: convolution.  lhs and rhs give, for each canonical dimension
   (b 0 1 f and 0 1 i o), the dimension of the operand that plays it. *)
HloConvolution(x, k, lhs, rhs, out, stride, low, high, lhsDilate, rhsDilate, reverse, featureGroups, batchGroups) ==
    LET xd(i) == x.dims[lhs[i]]
        kd(i) == k.dims[rhs[i]]
        dilated(a) == IF xd(a + 1) = 0 THEN 0 ELSE (xd(a + 1) - 1) * lhsDilate[a] + 1
        window(a) == (kd(a) - 1) * rhsDilate[a] + 1
        padded(a) == dilated(a) + low[a] + high[a]
        extent(a) == IF padded(a) < window(a) THEN 0 ELSE ((padded(a) - window(a)) \div stride[a]) + 1
        canonical == <<xd(1) \div batchGroups, extent(1), extent(2), kd(4)>>
        place(p, layout) == Tuple([j \in 1..4 |-> p[CHOOSE i \in 1..4 : layout[i] = j]], 4)
        tap(a, q) == IF reverse THEN kd(a) - 1 - q ELSE q
        spot(p, a, q) == p[a + 1] * stride[a] + q * rhsDilate[a] - low[a]
        grid(p, a, q) == spot(p, a, q) % lhsDilate[a] = 0
                         /\ spot(p, a, q) >= 0 /\ spot(p, a, q) \div lhsDilate[a] < xd(a + 1)
        batch(p) == (p[4] \div (kd(4) \div batchGroups)) * canonical[1] + p[1]
        feature(p, i) == (p[4] \div (kd(4) \div featureGroups)) * kd(3) + i
        term(p, q) ==
            IF grid(p, 1, q[1]) /\ grid(p, 2, q[2])
            THEN At(x, place(<<batch(p), spot(p, 1, q[1]) \div lhsDilate[1], spot(p, 2, q[2]) \div lhsDilate[2], feature(p, q[3])>>, lhs))
                 * At(k, place(<<tap(1, q[1]), tap(2, q[2]), q[3], p[4]>>, rhs))
            ELSE 0
        value(p) == SumOver(<<kd(1), kd(2), kd(3)>>, LAMBDA q : term(p, q))
    IN  Tabulate(place(canonical, out), LAMBDA p : value(Tuple([i \in 1..4 |-> p[out[i]]], 4)))

(* External: windows of any rank, reduced by a sum or a maximum. *)
HloReduceWindow(x, init, window, strides, low, high, maximum) ==
    LET r == Len(x.dims)
        out == Tuple([i \in 1..r |-> IF x.dims[i] + low[i] + high[i] < window[i] THEN 0
                                     ELSE ((x.dims[i] + low[i] + high[i] - window[i]) \div strides[i]) + 1], r)
        spot(p, q) == Tuple([i \in 1..r |-> p[i] * strides[i] + q[i] - low[i]], r)
        member(p, q) == IF Within(spot(p, q), x.dims) THEN At(x, spot(p, q)) ELSE init
        members(p) == Tabulate(window, LAMBDA q : member(p, q))
    IN  Tabulate(out, LAMBDA p : IF maximum THEN Highest({members(p).val[c] : c \in 1..Cells(window)} \union {init})
                                 ELSE SumOver(window, LAMBDA q : member(p, q)))
(* External: each source element is added where its window's selected element
   is; the selection keeps the current element while it is >= the next. *)
RECURSIVE Selected(_, _, _, _)
Selected(x, taps, best, j) ==
    IF j > Len(taps) THEN best
    ELSE Selected(x, taps, IF Signed(At(x, best)) >= Signed(At(x, taps[j])) THEN best ELSE taps[j], j + 1)
HloSelectAndScatter(x, source, window, strides) ==
    LET s == Strides(window)
        taps(p) == Tuple([c \in 1..Cells(window) |-> LET q == PositionOf(window, s, c)
                                                    IN  Tuple([i \in 1..Len(window) |-> p[i] * strides[i] + q[i]], Len(window))],
                         Cells(window))
        target == Tabulate(source.dims, LAMBDA p : LET t == taps(p) IN Selected(x, t, t[1], 2))
    IN  Tabulate(x.dims, LAMBDA p : SumOver(source.dims, LAMBDA q : IF At(target, q) = p THEN At(source, q) ELSE 0))

(* External: gather and scatter of whole slices along one dimension, with the
   result (update) dimensions that are offsets into a slice listed; the batched
   forms index every other dimension with the position itself. *)
Complement(dims, n) == SelectSeq(Tuple([i \in 1..n |-> i], n), LAMBDA d : \A j \in 1..Len(dims) : dims[j] # d)
SlicePosition(p, offsets, axis, index) ==
    LET o == Tuple([j \in 1..Len(offsets) |-> p[offsets[j]]], Len(offsets)) IN Put(o, axis, <<index>>)
IndexPosition(p, offsets) == LET b == Complement(offsets, Len(p)) IN Tuple([j \in 1..Len(b) |-> p[b[j]]], Len(b))
HloGather(x, ix, axis, offsets, dims) ==
    Tabulate(dims, LAMBDA p : At(x, SlicePosition(p, offsets, axis, Clamp(At(ix, IndexPosition(p, offsets)), 0, x.dims[axis] - 1))))
HloGatherBatched(x, ix, axis) ==
    Tabulate(ix.dims, LAMBDA p : At(x, [p EXCEPT ![axis] = Clamp(At(ix, p), 0, x.dims[axis] - 1)]))
HloScatterAdd(base, ix, u, axis, offsets, batched) ==       \* out-of-range updates are dropped
    LET target(q) == IF batched THEN [q EXCEPT ![axis] = At(ix, q)] ELSE SlicePosition(q, offsets, axis, At(ix, IndexPosition(q, offsets)))
    IN  Tabulate(base.dims, LAMBDA p : Mod(At(base, p) + SumOver(u.dims, LAMBDA q : IF target(q) = p THEN At(u, q) ELSE 0)))

(* Emitted constructions. *)
EmitSliceGradient(n, x) ==
    LET s == n.attr  r == Len(n.dims)
        high == Tuple([i \in 1..r |-> n.dims[i] - s[1][i] - 1 - (x.dims[i] - 1) * s[3][i]], r)
    IN  IF \E i \in 1..r : x.dims[i] = 0 THEN Zeros(n.dims)
        ELSE HloPad(x, 0, s[1], high, Tuple([i \in 1..r |-> s[3][i] - 1], r))
EmitForwardConvolution(o, x, k, rhs) ==
    HloConvolution(x, k, <<1, 2, 3, 4>>, rhs, <<1, 2, 3, 4>>, o[1], o[3], o[4], <<1, 1>>, o[2], FALSE, o[5][1], 1)
(* Mutant: the padding of the output is lost. *)
EmitTransposeConvolutionShort(o, x, k) ==
    LET extent(a) == (k.dims[a] - 1) * o[2][a] IN
    HloConvolution(x, k, <<1, 2, 3, 4>>, <<1, 2, 4, 3>>, <<1, 2, 3, 4>>, <<1, 1>>,
                   <<extent(1) - o[3][1], extent(2) - o[3][2]>>, <<extent(1) - o[4][1], extent(2) - o[4][2]>>,
                   o[1], o[2], TRUE, o[5][1], 1)
EmitTransposeConvolution(o, x, k) ==
    LET extent(a) == (k.dims[a] - 1) * o[2][a] IN
    HloConvolution(x, k, <<1, 2, 3, 4>>, <<1, 2, 4, 3>>, <<1, 2, 3, 4>>, <<1, 1>>,
                   <<extent(1) - o[3][1], extent(2) - o[3][2]>>,
                   <<extent(1) - o[4][1] + o[6][1], extent(2) - o[4][2] + o[6][2]>>, o[1], o[2], TRUE, o[5][1], 1)
(* Batches take the place of features: the input's channels are the batch. *)
EmitKernelGradient(n, x, dy) ==
    LET o == n.attr
        high(a) == ((dy.dims[a + 1] - 1) * o[1][a] + 1) - x.dims[a + 1] + ((n.dims[a] - 1) * o[2][a] + 1) - o[3][a] - 1
    IN  HloConvolution(x, dy, <<4, 2, 3, 1>>, <<2, 3, 1, 4>>, <<3, 1, 2, 4>>, o[2], o[3], <<high(1), high(2)>>,
                       <<1, 1>>, o[1], FALSE, 1, o[5][1])
Spatial(pair, outer) == <<outer, pair[1], pair[2], outer>>
EmitReduceWindow(o, x, maximum) ==
    HloReduceWindow(x, IF maximum THEN NegInf ELSE 0, Spatial(o[1], 1), Spatial(o[2], 1), Spatial(o[3], 0), Spatial(o[4], 0), maximum)
EmitMaxPoolGradient(o, x, dy) ==
    LET none == <<0, 0, 0, 0>>
        negated(pair) == Spatial(<<-pair[1], -pair[2]>>, 0)
        padded == HloPad(x, NegInf, Spatial(o[3], 0), Spatial(o[4], 0), none)
    IN  HloPad(HloSelectAndScatter(padded, dy, Spatial(o[1], 1), Spatial(o[2], 1)), 0, negated(o[3]), negated(o[4]), none)
EmitCumsum(axis, x) ==
    LET r == Len(x.dims)
        along(v, other) == Tuple([i \in 1..r |-> IF i = axis THEN v ELSE other], r)
    IN  HloReduceWindow(x, 0, along(x.dims[axis], 1), along(1, 1), along(x.dims[axis] - 1, 0), along(0, 0), FALSE)
OffsetDims(rank, axis, indexRank) == SelectSeq(Tuple([i \in 1..rank |-> i], rank), LAMBDA d : d < axis \/ d >= axis + indexRank)
EmitGatherGradient(n, u, ix) ==
    LET axis == n.attr[1][1]  batched == n.attr[1][2] = 1
        bounded == Map(ix, LAMBDA i : LET low == IF i < 0 THEN 0 ELSE i
                                      IN  IF low > n.dims[axis] - 1 THEN n.dims[axis] - 1 ELSE low)
    IN  HloScatterAdd(Zeros(n.dims), bounded, u, axis,
                      IF batched THEN <<>> ELSE OffsetDims(Len(u.dims), axis, Len(ix.dims)), batched)
(* A reduction of <<value, index>> pairs from <<-inf, 0>>; without NaN. *)
ArgReducer(l, r) ==
    LET wins == Signed(l[1]) > Signed(r[1])
        tie == l[1] = r[1] /\ l[2] < r[2]
    IN  <<IF wins THEN l[1] ELSE r[1], IF wins \/ tie THEN l[2] ELSE r[2]>>
RECURSIVE ArgFold(_, _)
ArgFold(pairs, i) == IF i = 0 THEN <<NegInf, 0>> ELSE ArgReducer(ArgFold(pairs, i - 1), pairs[i])
EmitArgmax(n, x) ==
    LET axis == n.attr[1][1] IN
    Tabulate(n.dims, LAMBDA p : ArgFold(Tuple([i \in 1..x.dims[axis] |-> <<At(x, Put(p, axis, <<i - 1>>)), i - 1>>], x.dims[axis]),
                                        x.dims[axis])[2])
(* A stable sort: an element precedes the ones it is ordered before, and the
   later ones of its equals. *)
EmitSort(n, x) ==
    LET axis == n.attr[1][1]  size == x.dims[axis]
        value(p, i) == Signed(At(x, [p EXCEPT ![axis] = i]))
        ordered(a, b) == IF n.attr[1][2] = 1 THEN a > b ELSE a < b
        place(p, i) == Cardinality({j \in 0..(size - 1) : \/ ordered(value(p, j), value(p, i))
                                                          \/ j < i /\ ~ordered(value(p, i), value(p, j))})
    IN  Tabulate(x.dims, LAMBDA p : CHOOSE i \in 0..(size - 1) : place(p, i) = p[axis])
EmitRelu(x) == Map(x, LAMBDA v : Greatest(v, 0))
EmitSoftplus(x) ==
    LET absolute(v) == Mod(IF Signed(v) < 0 THEN -v ELSE v)
    IN  Map(x, LAMBDA v : Mod(Greatest(v, 0) + Log1p(Exp(Mod(-absolute(v))))))
EmitSelect(m, x, y) == T(x.dims, Tuple([k \in 1..Len(x.val) |-> IF m.val[k] # 0 THEN x.val[k] ELSE y.val[k]], Len(x.val)))
(* Attention becomes a transpose, two contractions and a softmax between. *)
EmitAttention(n, x) ==
    LET r == Len(n.dims)
        q == x[1]  k == x[2]
        swapped == Tuple([i \in 1..r |-> IF i = r THEN r - 1 ELSE IF i = r - 1 THEN r ELSE i], r)
        scoreDims == [q.dims EXCEPT ![r] = k.dims[r - 1]]
        keep == [scoreDims EXCEPT ![r] = 1]
        spread(t) == BroadcastMeaning(Tuple([i \in 1..r |-> i], r), scoreDims, T(keep, t.val))
        product == MatmulMeaning(scoreDims, q, TransposeMeaning(swapped, Tuple([i \in 1..r |-> k.dims[swapped[i]]], r), k))
        scaled == Map(product, LAMBDA v : Mod(v * n.attr[1][1]))
        scores == IF Len(x) = 4 THEN Map2(scaled, x[4], LAMBDA a, b : Mod(a + b)) ELSE scaled
        centered == Map2(scores, spread(ReduceMaxMeaning(<<r>>, scores)), LAMBDA a, b : Mod(a - b))
        exponentials == Map(centered, Exp)
        probabilities == Map2(exponentials, spread(ReduceSumMeaning(<<r>>, exponentials)), Div)
    IN  MatmulMeaning(n.dims, probabilities, x[3])

(* One operator per emitter of the lowering; an operation without a
   construction of its own becomes one StableHLO operation of the same meaning. *)
Direct(n, x) == Meaning(n.op, n.attr, n.dims, n.dtype, x)
EmitPrimitive(n, x) ==
    CASE n.op = "relu" -> EmitRelu(x[1])
      [] n.op = "softplus" -> EmitSoftplus(x[1])
      [] n.op \in {"constant", "constant_i32", "iota", "reshape", "index_to_float", "optimization_barrier"} -> Direct(n, x)
EmitPredicateOrShape(n, x) ==
    CASE n.op = "select" -> EmitSelect(x[1], x[2], x[3])
      [] n.op \in {"eq", "ne", "lt", "le", "gt", "index_le", "is_finite", "broadcast", "transpose", "reverse"} -> Direct(n, x)
EmitBasicIndexing(n, x) ==
    CASE n.op = "slice_gradient" -> EmitSliceGradient(n, x[1])
      [] n.op = "pad" -> HloPad(x[1], x[2].val[1], n.attr[1], n.attr[2], Tuple([i \in 1..Len(n.dims) |-> 0], Len(n.dims)))
      [] n.op \in {"slice", "concatenate", "dynamic_slice", "dynamic_update_slice"} -> Direct(n, x)
EmitGather(n, x) ==
    CASE n.op = "take" -> HloGather(x[1], x[2], n.attr[1][1], OffsetDims(Len(n.dims), n.attr[1][1], Len(x[2].dims)), n.dims)
      [] n.op = "take_along_axis" -> HloGatherBatched(x[1], x[2], n.attr[1][1])
      [] n.op = "gather_gradient" -> EmitGatherGradient(n, x[1], x[2])
EmitConvolution(n, x) ==
    CASE n.op = "conv2d" -> EmitForwardConvolution(n.attr, x[1], x[2], <<1, 2, 3, 4>>)
      [] n.op = "conv2d_oihw" -> EmitForwardConvolution(n.attr, x[1], x[2], <<3, 4, 2, 1>>)
      [] n.op = "conv_transpose2d" -> EmitTransposeConvolution(n.attr, x[1], x[2])
      [] n.op = "conv2d_kernel_gradient" -> EmitKernelGradient(n, x[1], x[2])
EmitAggregation(n, x) ==
    CASE n.op = "sum_pool2d" -> EmitReduceWindow(n.attr, x[1], FALSE)
      [] n.op = "max_pool2d" -> EmitReduceWindow(n.attr, x[1], TRUE)
      [] n.op = "max_pool2d_gradient" -> EmitMaxPoolGradient(n.attr, x[1], x[2])
      [] n.op \in {"reduce_sum", "reduce_maximum"} -> Direct(n, x)
EmitOrderedReduction(n, x) ==
    CASE n.op = "cumsum" -> EmitCumsum(n.attr[1][1], x[1])
      [] n.op = "argmax" -> EmitArgmax(n, x[1])
      [] n.op = "sorted_indices" -> EmitSort(n, x[1])
Lowered(n, x) ==
    CASE n.op = "attention" -> EmitAttention(n, x)
      [] n.op \in {"relu", "softplus", "constant", "constant_i32", "iota", "reshape", "index_to_float", "optimization_barrier"}
            -> EmitPrimitive(n, x)
      [] n.op \in {"select", "eq", "ne", "lt", "le", "gt", "index_le", "is_finite", "broadcast", "transpose", "reverse"}
            -> EmitPredicateOrShape(n, x)
      [] n.op \in {"slice", "slice_gradient", "pad", "concatenate", "dynamic_slice", "dynamic_update_slice"} -> EmitBasicIndexing(n, x)
      [] n.op \in {"take", "take_along_axis", "gather_gradient"} -> EmitGather(n, x)
      [] n.op \in {"conv2d", "conv2d_oihw", "conv_transpose2d", "conv2d_kernel_gradient"} -> EmitConvolution(n, x)
      [] n.op \in {"sum_pool2d", "max_pool2d", "max_pool2d_gradient", "reduce_sum", "reduce_maximum"} -> EmitAggregation(n, x)
      [] n.op \in {"cumsum", "argmax", "sorted_indices"} -> EmitOrderedReduction(n, x)
      [] OTHER -> Direct(n, x)       \* matmul and the elementwise operations
=============================================================================
