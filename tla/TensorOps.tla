------------------------------ MODULE TensorOps ------------------------------
(***************************************************************************)
(* The methods of Tensor that record operations.  A method takes and       *)
(* returns expressions: an operation with its attributes, its operands and *)
(* the type recorded with it, or Err where the method returns an error.    *)
(* Recording an expression appends its operations to the graph, operands   *)
(* first (Autodiff!Record).                                                *)
(*                                                                         *)
(* Dimensions are static and the element types are F32 and I32: bounded    *)
(* dynamic axes, the half-precision types and the checks that two tensors  *)
(* belong to one graph are left out.  Axes count from 1.                   *)
(***************************************************************************)
EXTENDS OpSemantics

Err == [op |-> "error", attr |-> <<>>, args |-> <<>>, dims |-> <<>>, dtype |-> "none"]
Failed(x) == x.op = "error"

(* The element types an operation accepts: `all` of its operands have, and
   those but the first. *)
Accepted(op, types, all, rest) ==
    CASE op \in {"constant_i32", "iota"} -> all = {}
      [] op \in {"index_to_float", "shift_right", "index_le"} -> all = {"i32"}
      [] op \in {"reshape", "stop_gradient", "optimization_barrier", "broadcast", "transpose", "reverse", "slice", "concatenate",
                 "add", "sub", "mul", "maximum", "minimum", "eq", "ne", "lt", "le", "gt", "ge"} -> Cardinality(all) = 1
      [] op \in {"take", "take_along_axis"} -> rest = {"i32"}
      [] op = "dynamic_slice" -> rest \subseteq {"i32"}
      [] op = "dynamic_update_slice" -> types[2] = types[1] /\ \A i \in 3..Len(types) : types[i] = "i32"
      [] op = "select" -> types[1] = "f32" /\ types[2] = types[3]
      [] op = "gather_gradient" -> types = <<"f32", "i32">>
      [] OTHER -> all \subseteq {"f32"}
(* The element type of a result. *)
ResultType(op, types) ==
    CASE op \in {"constant_i32", "iota", "shift_right", "argmax", "sorted_indices"} -> "i32"
      [] op \in {"reshape", "stop_gradient", "optimization_barrier", "broadcast", "transpose", "reverse", "slice", "concatenate", "take",
                 "take_along_axis", "dynamic_slice", "dynamic_update_slice", "add", "sub", "mul", "maximum", "minimum"} -> types[1]
      [] op = "select" -> types[2]
      [] OTHER -> "f32"
(* Graph::node: the operation is recorded when the method's own checks pass
   and its operands have element types it accepts. *)
Typed(op, attr, args, dims, types) ==
    IF Accepted(op, types, {types[i] : i \in 1..Len(types)}, {types[i] : i \in 2..Len(types)})
    THEN [op |-> op, attr |-> attr, args |-> args, dims |-> dims, dtype |-> ResultType(op, types)]
    ELSE Err
Node(op, attr, args, valid, dims) ==
    IF \E i \in 1..Len(args) : Failed(args[i]) THEN Err
    ELSE IF ~valid THEN Err
    ELSE Typed(op, attr, args, dims, Tuple([i \in 1..Len(args) |-> args[i].dtype], Len(args)))
Rank(x) == Len(x.dims)
Axes(n) == Tuple([i \in 1..n |-> i], n)
Repeat(v, n) == Tuple([i \in 1..n |-> v], n)
Listed(axes, i) == \E j \in 1..Len(axes) : axes[j] = i
OnAxis(x, axis) == axis \in 1..Rank(x)
Increasing(axes, rank) == /\ \A i \in 1..Len(axes) : axes[i] \in 1..rank
                          /\ \A i \in 1..(Len(axes) - 1) : axes[i] < axes[i + 1]

(* Constants, elementwise operations. *)
Const(dims, values) == Node("constant", <<values>>, <<>>, Len(values) = Cells(dims), dims)
ConstI32(dims, values) == Node("constant_i32", <<values>>, <<>>, Len(values) = Cells(dims), dims)
IotaI32(dims, axis) == Node("iota", <<<<axis>>>>, <<>>, axis \in 1..Len(dims), dims)
Scalar(v) == Const(<<>>, <<v>>)
Unary(op, x) == Node(op, <<>>, <<x>>, TRUE, x.dims)
Binary(op, x, y) == Node(op, <<>>, <<x, y>>, x.dims = y.dims, x.dims)
Add(x, y) == Binary("add", x, y)
Sub(x, y) == Binary("sub", x, y)
Mul(x, y) == Binary("mul", x, y)
Divide(x, y) == Binary("div", x, y)
Neg(x) == Unary("neg", x)
Detach(x) == Unary("stop_gradient", x)
LeMask(x, y) == Binary(IF x.dtype = "i32" /\ y.dtype = "i32" THEN "index_le" ELSE "le", x, y)
Select(m, x, y) ==
    Node("select", <<>>, <<m, x, y>>, m.dtype = "f32" /\ x.dtype = y.dtype /\ x.dims = m.dims /\ y.dims = m.dims, x.dims)
WithGradientOf(x, surrogate) == Node("with_gradient", <<>>, <<x, surrogate>>, x.dims = surrogate.dims, x.dims)
WithElementwiseDerivatives(x, partials) ==      \* partials: input, derivative, input, derivative, ...
    Node("with_elementwise_derivative", <<>>, <<x>> \o partials,
         partials # <<>> /\ \A i \in 1..Len(partials) : partials[i].dims = x.dims, x.dims)

(* Shape. *)
Reshape(x, dims) == Node("reshape", <<>>, <<x>>, Cells(dims) = Cells(x.dims), dims)
BroadcastWhere(fits, x, dims, axes) ==
    IF ~Failed(x) /\ fits /\ dims = x.dims THEN x ELSE Node("broadcast", <<axes>>, <<x>>, fits, dims)
BroadcastInDim(x, dims, axes) ==
    BroadcastWhere(/\ Len(axes) = Rank(x) /\ Increasing(axes, Len(dims))
                   /\ \A i \in 1..Rank(x) : x.dims[i] \in {1, dims[axes[i]]}, x, dims, axes)
BroadcastTo(x, dims) ==
    IF Failed(x) \/ Len(dims) < Rank(x) THEN Err
    ELSE BroadcastInDim(x, dims, Tuple([i \in 1..Rank(x) |-> Len(dims) - Rank(x) + i], Rank(x)))
Fill(v, dims) == BroadcastTo(Scalar(v), dims)
AddScalar(x, v) == Add(x, Fill(v, x.dims))
MulScalar(x, v) == Mul(x, Fill(v, x.dims))
Transpose(x, perm) ==
    LET n == Rank(x) IN
    Node("transpose", <<perm>>, <<x>>, Len(perm) = n /\ {perm[i] : i \in 1..Len(perm)} = 1..n,
         Tuple([i \in 1..n |-> x.dims[perm[i]]], n))
SwapAxes(x, i, j) == Transpose(x, [Axes(Rank(x)) EXCEPT ![i] = j, ![j] = i])
Flip(x, axes) == IF axes = <<>> THEN x ELSE Node("reverse", <<axes>>, <<x>>, Increasing(axes, Rank(x)), x.dims)
Unsqueeze(x, axis) == Node("reshape", <<>>, <<x>>, axis \in 1..(Rank(x) + 1), Put(x.dims, axis, <<1>>))
Squeeze(x, axis) == Node("reshape", <<>>, <<x>>, OnAxis(x, axis) /\ x.dims[axis] = 1, Drop(x.dims, axis))
(* Mutant: a last, partial stride is not counted. *)
SliceDimsFloored(starts, limits, strides) ==
    Tuple([i \in 1..Len(starts) |-> (limits[i] - starts[i]) \div strides[i]], Len(starts))
SliceDims(starts, limits, strides) ==
    Tuple([i \in 1..Len(starts) |-> LET span == limits[i] - starts[i]
                                    IN  (span \div strides[i]) + (IF span % strides[i] # 0 THEN 1 ELSE 0)], Len(starts))
Slice(x, starts, limits, strides) ==
    Node("slice", <<starts, limits, strides>>, <<x>>,
         /\ Len(starts) = Rank(x) /\ Len(limits) = Rank(x) /\ Len(strides) = Rank(x)
         /\ \A i \in 1..Rank(x) : starts[i] >= 0 /\ limits[i] >= starts[i] /\ limits[i] <= x.dims[i] /\ strides[i] > 0,
         SliceDims(starts, limits, strides))
Narrow(x, axis, start, length) ==
    IF Failed(x) \/ ~OnAxis(x, axis) \/ length < 0 THEN Err
    ELSE Slice(x, [Repeat(0, Rank(x)) EXCEPT ![axis] = start], [x.dims EXCEPT ![axis] = start + length], Repeat(1, Rank(x)))
PadWith(x, low, high, fill) ==
    LET fits == Len(low) = Rank(x) /\ \A i \in 1..Rank(x) : low[i] >= 0 /\ high[i] >= 0
        dims == Tuple([i \in 1..Rank(x) |-> x.dims[i] + low[i] + high[i]], Rank(x))
    IN  IF ~Failed(x) /\ fits /\ dims = x.dims THEN x
        ELSE Node("pad", <<low, high>>, <<x, fill>>, fits /\ fill.dims = <<>>, dims)
Pad(x, low, high, v) == PadWith(x, low, high, Scalar(v))
Concatenate(xs, axis) ==
    LET first == xs[1]
        fits == /\ OnAxis(first, axis)
                /\ \A i \in 1..Len(xs) : Rank(xs[i]) = Rank(first) /\ Drop(xs[i].dims, axis) = Drop(first.dims, axis)
    IN  IF Len(xs) = 1 THEN first
        ELSE Node("concatenate", <<<<axis>>>>, xs, fits,
                  [first.dims EXCEPT ![axis] = SumTo([i \in 1..Len(xs) |-> xs[i].dims[axis]], Len(xs))])
Stack(xs, axis) ==
    IF \E i \in 1..Len(xs) : Failed(xs[i]) \/ xs[i].dims # xs[1].dims THEN Err
    ELSE Concatenate(Tuple([i \in 1..Len(xs) |-> Unsqueeze(xs[i], axis)], Len(xs)), axis)

(* Reductions and contractions. *)
Reduce(op, x, axes, keep) ==
    LET r == Node(op, <<axes>>, <<x>>, Increasing(axes, Rank(x)), Reduced(x.dims, axes))
    IN  IF axes = <<>> \/ Failed(x) THEN x
        ELSE IF keep THEN Reshape(r, Tuple([i \in 1..Rank(x) |-> IF Listed(axes, i) THEN 1 ELSE x.dims[i]], Rank(x)))
        ELSE r
Sum(x, axes, keep) == Reduce("reduce_sum", x, axes, keep)
MaxOver(x, axes, keep) == Reduce("reduce_maximum", x, axes, keep)
Cumsum(x, axis) ==
    IF Failed(x) \/ ~OnAxis(x, axis) THEN Err
    ELSE IF x.dims[axis] <= 1 \/ Cells(x.dims) = 0 THEN x
    ELSE Node("cumsum", <<<<axis>>>>, <<x>>, TRUE, x.dims)
(* The common leading dimensions of two operands; a 1 gives way. *)
Padded(dims, rank) == IF rank <= Len(dims) THEN dims ELSE Repeat(1, rank - Len(dims)) \o dims
CommonDims(a, b) == Tuple([i \in 1..Len(a) |-> IF a[i] = 1 THEN b[i] ELSE a[i]], Len(a))
BatchDims(a, b) == CommonDims(Padded(a, Len(b)), Padded(b, Len(a)))
Broadcastable(a, dims) ==
    \A i \in 1..Len(a) : a[i] \in {1, dims[Len(dims) - Len(a) + i]}
Lead(x) == SubSeq(x.dims, 1, Rank(x) - 2)
BatchedProduct(a, b, batch) ==
    LET l == Rank(a)  r == Rank(b)
    IN  Node("matmul", <<>>,
             <<BroadcastTo(a, batch \o SubSeq(a.dims, l - 1, l)), BroadcastTo(b, batch \o SubSeq(b.dims, r - 1, r))>>,
             a.dims[l] = b.dims[r - 1] /\ Broadcastable(Lead(a), batch) /\ Broadcastable(Lead(b), batch),
             batch \o <<a.dims[l - 1], b.dims[r]>>)
(* A vector operand is a row or a column, whose axis the result loses. *)
Unpadded(product, row, column) ==
    LET n == Rank(product)
    IN  IF row \/ column
        THEN Reshape(product, SubSeq(product.dims, 1, n - 2) \o (IF row THEN <<>> ELSE <<product.dims[n - 1]>>)
                                                            \o (IF column THEN <<>> ELSE <<product.dims[n]>>))
        ELSE product
Contracted(a, b) == BatchedProduct(a, b, BatchDims(Lead(a), Lead(b)))
Matmul(x, y) ==
    IF Failed(x) \/ Failed(y) THEN Err ELSE IF Rank(x) = 0 \/ Rank(y) = 0 THEN Err
    ELSE Unpadded(Contracted(IF Rank(x) = 1 THEN Reshape(x, <<1>> \o x.dims) ELSE x,
                             IF Rank(y) = 1 THEN Reshape(y, y.dims \o <<1>>) ELSE y), Rank(x) = 1, Rank(y) = 1)

(* Indexing. *)
Take(x, ix, axis) ==
    Node("take", <<<<axis>>>>, <<x, ix>>, OnAxis(x, axis) /\ x.dims[axis] # 0,
         SubSeq(x.dims, 1, axis - 1) \o ix.dims \o SubSeq(x.dims, axis + 1, Rank(x)))
TakeAlongAxis(x, ix, axis) ==
    Node("take_along_axis", <<<<axis>>>>, <<x, ix>>,
         /\ ix.dtype = "i32" /\ OnAxis(x, axis) /\ x.dims[axis] # 0 /\ Rank(x) = Rank(ix)
         /\ \A i \in 1..Rank(x) : i # axis => x.dims[i] = ix.dims[i], ix.dims)
ScatterAdd(u, ix, axis, batched, dims) == Node("gather_gradient", <<<<axis, batched>>>>, <<u, ix>>, TRUE, dims)
IndexAdd(x, axis, ix, u) ==
    IF ~OnAxis(x, axis) THEN Err
    ELSE IF x.dims[axis] = 0 \/ u.dims # SubSeq(x.dims, 1, axis - 1) \o ix.dims \o SubSeq(x.dims, axis + 1, Rank(x)) THEN Err
    ELSE Add(x, ScatterAdd(u, ix, axis, 0, x.dims))
IndexAddAlongAxis(x, axis, ix, u) ==
    IF Failed(TakeAlongAxis(x, ix, axis)) \/ u.dims # ix.dims THEN Err ELSE Add(x, ScatterAdd(u, ix, axis, 1, x.dims))
ScalarStarts(starts, dims, sizes) ==
    /\ Len(starts) = Len(dims) /\ Len(sizes) = Len(dims)
    /\ \A i \in 1..Len(starts) : starts[i].dtype = "i32" /\ starts[i].dims = <<>>
    /\ \A i \in 1..Len(dims) : sizes[i] >= 0 /\ sizes[i] <= dims[i]
DynamicSlice(x, starts, sizes) == Node("dynamic_slice", <<>>, <<x>> \o starts, ScalarStarts(starts, x.dims, sizes), sizes)
DynamicUpdateSlice(x, u, starts) ==
    Node("dynamic_update_slice", <<>>, <<x, u>> \o starts, ScalarStarts(starts, x.dims, u.dims), x.dims)
Argmax(x, axis, keep) ==
    LET ix == Node("argmax", <<<<axis>>>>, <<x>>, OnAxis(x, axis) /\ x.dims[axis] > 0, Drop(x.dims, axis))
    IN  IF keep THEN Unsqueeze(ix, axis) ELSE ix
SortedIndices(x, axis, descending) ==
    Node("sorted_indices", <<<<axis, descending>>>>, <<x>>, OnAxis(x, axis), x.dims)
Argsort(x, axis, descending) ==
    IF OnAxis(x, axis) /\ x.dims[axis] = 0 THEN IotaI32(x.dims, axis) ELSE SortedIndices(x, axis, descending)
TopkIndices(x, k, axis) ==
    IF ~OnAxis(x, axis) \/ k > x.dims[axis] THEN Err
    ELSE IF k = 0 THEN IotaI32([x.dims EXCEPT ![axis] = 0], axis)
    ELSE Narrow(SortedIndices(x, axis, 1), axis, 0, k)
TopkValues(x, k, axis) == IF k = 0 THEN Narrow(x, axis, 0, 0) ELSE TakeAlongAxis(x, TopkIndices(x, k, axis), axis)

(* Windows.  options: strides, dilation, low, high, <<groups>>. *)
WindowOut(size, window, stride, low, high) ==
    IF size + low + high < window THEN 0 ELSE ((size + low + high - window) \div stride) + 1
PositiveWindow(o) == \A i \in 1..2 : o[1][i] > 0 /\ o[2][i] > 0 /\ o[3][i] >= 0 /\ o[4][i] >= 0
Extent(k, axis, o) == (k[axis] - 1) * o[2][axis] + 1
Conv2d(x, kernel, o, oihw) ==
    LET k == IF oihw THEN <<kernel.dims[3], kernel.dims[4], kernel.dims[2], kernel.dims[1]>> ELSE kernel.dims
        g == o[5][1]
    IN  Node(IF oihw THEN "conv2d_oihw" ELSE "conv2d", o, <<x, kernel>>,
             /\ Rank(x) = 4 /\ Rank(kernel) = 4 /\ g > 0 /\ x.dims[4] > 0 /\ (\A i \in 1..4 : k[i] > 0)
             /\ x.dims[4] % g = 0 /\ x.dims[4] \div g = k[3] /\ k[4] % g = 0 /\ PositiveWindow(o),
             <<x.dims[1]>> \o Tuple([a \in 1..2 |-> WindowOut(x.dims[a + 1], Extent(k, a, o), o[1][a], o[3][a], o[4][a])], 2)
                           \o <<k[4]>>)
TransposedOut(size, k, axis, o) == (size - 1) * o[1][axis] + Extent(k, axis, o) - o[3][axis] - o[4][axis] + o[6][axis]
ConvTranspose2d(x, kernel, o) ==                \* o[6]: output padding
    LET k == kernel.dims  g == o[5][1] IN
    Node("conv_transpose2d", o, <<x, kernel>>,
         /\ Rank(x) = 4 /\ Rank(kernel) = 4 /\ g > 0 /\ (\A i \in 2..4 : x.dims[i] > 0) /\ (\A j \in 1..4 : k[j] > 0)
         /\ x.dims[4] % g = 0 /\ x.dims[4] \div g = k[4] /\ k[3] % g = 0 /\ PositiveWindow(o)
         /\ \A a \in 1..2 : o[6][a] \in 0..(o[1][a] - 1) /\ TransposedOut(x.dims[a + 1], k, a, o) > 0,
         <<x.dims[1]>> \o Tuple([a \in 1..2 |-> TransposedOut(x.dims[a + 1], k, a, o)], 2) \o <<k[3]>>)
KernelGradient(x, dy, o, dims) == Node("conv2d_kernel_gradient", o, <<x, dy>>, TRUE, dims)
(* Pooling options: window, strides, low, high. *)
PoolDims(x, o) ==
    <<x.dims[1]>> \o Tuple([a \in 1..2 |-> WindowOut(x.dims[a + 1], o[1][a], o[2][a], o[3][a], o[4][a])], 2) \o <<x.dims[4]>>
SumPool(x, o) == Node("sum_pool2d", o, <<x>>, Rank(x) = 4 /\ PositiveWindow(o), PoolDims(x, o))
MaxPool(x, o) == Node("max_pool2d", o, <<x>>, Rank(x) = 4 /\ PositiveWindow(o), PoolDims(x, o))
MaxPoolGradient(x, dy, o) == Node("max_pool2d_gradient", o, <<x, dy>>, TRUE, x.dims)
AvgPool(x, o, countPadding) ==
    IF countPadding THEN MulScalar(SumPool(x, o), Inv(Mod(o[1][1] * o[1][2])))
    ELSE LET counts == SumPool(Fill(1, <<1, x.dims[2], x.dims[3], 1>>), o)
             sums == SumPool(x, o)
         IN  Divide(sums, BroadcastTo(counts, sums.dims))
ChannelsAsBatch(x, d) == Reshape(Transpose(x, <<1, 4, 2, 3>>), <<d[1] * d[4], d[2], d[3], 1>>)
ChannelsLast(x, n) ==
    LET d == x.dims
    IN  Reshape(Transpose(Reshape(x, <<n, d[1] \div n, d[2], d[3]>>), <<1, 3, 4, 2>>), <<n, d[2], d[3], d[1] \div n>>)
SumPoolGradient(dy, xdims, o) ==
    IF Cells(xdims) = 0 \/ Cells(dy.dims) = 0 THEN Fill(0, xdims)
    ELSE ChannelsLast(ConvTranspose2d(ChannelsAsBatch(Reshape(dy, dy.dims), dy.dims), Fill(1, <<o[1][1], o[1][2], 1, 1>>),
            <<o[2], <<1, 1>>, o[3], o[4], <<1>>,
              Tuple([a \in 1..2 |-> (xdims[a + 1] + o[3][a] + o[4][a] - o[1][a]) % o[2][a]], 2)>>), xdims[1])

(* Attention. *)
ScaledDotProductAttention(q, k, v, mask, scale) ==    \* mask: <<>> or one expression
    LET last(x, i) == x.dims[Rank(x) - i]
        batch == BatchDims(BatchDims(Lead(q), Lead(k)), Lead(v))
        spread(x) == BroadcastTo(x, batch \o <<last(x, 1), last(x, 0)>>)
    IN  IF \/ \E x \in {q, k, v} : Failed(x) \/ Rank(x) < 2
           \/ \E x \in {q, k, v} : ~Broadcastable(Lead(x), batch)
           \/ last(q, 0) <= 0 \/ last(k, 0) # last(q, 0) \/ last(k, 1) = 0 \/ last(k, 1) # last(v, 1)
        THEN Err
        ELSE Node("attention", <<<<scale>>>>,
                  <<spread(q), spread(k), spread(v)>>
                  \o (IF mask = <<>> THEN <<>> ELSE <<BroadcastTo(mask[1], batch \o <<last(q, 1), last(k, 1)>>)>>),
                  TRUE, batch \o <<last(q, 1), last(v, 0)>>)
GroupedQueryAttention(q, k, v, mask, scale) ==
    LET h == Rank(q) - 2                       \* the axis of the heads
        rows == q.dims[h + 1] * (q.dims[h] \div k.dims[h])
        scores == [q.dims EXCEPT ![h + 2] = k.dims[h + 1]]
        grouped == [q.dims EXCEPT ![h] = k.dims[h], ![h + 1] = rows]
        groupedMask == IF mask = <<>> THEN <<>>
                       ELSE <<Reshape(BroadcastTo(mask[1], scores), [grouped EXCEPT ![h + 2] = k.dims[h + 1]])>>
    IN  IF q.dims[h] <= 0 \/ k.dims[h] <= 0 \/ v.dims[h] # k.dims[h] \/ q.dims[h] % k.dims[h] # 0 THEN Err
        ELSE Reshape(ScaledDotProductAttention(Reshape(q, grouped), k, v, groupedMask, scale),
                     [q.dims EXCEPT ![h + 2] = v.dims[h + 2]])
=============================================================================
