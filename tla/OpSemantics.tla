----------------------------- MODULE OpSemantics -----------------------------
(***************************************************************************)
(* Meaning(op, attr, dims, dtype, args): the tensor an operation denotes,  *)
(* by its documented definition.  It is the reference against which the    *)
(* lowering (StablehloLowering) and the reverse rules (Autodiff) are       *)
(* checked, so each clause is the textbook definition, never the emitted   *)
(* program.  attr holds the attributes as a sequence of integer sequences. *)
(***************************************************************************)
EXTENDS TensorValues

Elementwise1(op, x) ==
    CASE op \in {"stop_gradient", "optimization_barrier", "index_to_float"} -> x
      [] op = "neg" -> Mod(-x)
      [] op = "exp" -> Exp(x)
      [] op = "expm1" -> Mod(Exp(x) - 1)
      [] op = "log" -> Log(x)
      [] op = "log1p" -> Log1p(x)
      [] op = "sqrt" -> Sqrt(x)
      [] op = "rsqrt" -> Rsqrt(x)
      [] op = "sin" -> Sin(x)
      [] op = "cos" -> Cos(x)
      [] op = "tanh" -> Tanh(x)
      [] op = "erf" -> Erf(x)
      [] op = "abs" -> Mod(IF Signed(x) < 0 THEN -x ELSE x)
      [] op = "relu" -> IF Signed(x) > 0 THEN x ELSE 0
      [] op = "sigmoid" -> Logistic(x)
      [] op = "softplus" -> Mod(Greatest(x, 0) + Log1p(Exp(Mod(-(IF Signed(x) < 0 THEN -x ELSE x)))))
      [] op = "floor" -> Mod(2 * (Signed(x) \div 2))       \* any step function
      [] op = "is_finite" -> 1

Elementwise2(op, x, y) ==
    CASE op = "mul" -> Mod(x * y)
      [] op = "div" -> Div(x, y)
      [] op = "maximum" -> Greatest(x, y)
      [] op = "minimum" -> Least(x, y)
      [] op = "eq" -> Mask(x = y)
      [] op = "ne" -> Mask(x # y)
      [] op = "lt" -> Mask(Signed(x) < Signed(y))
      [] op = "gt" -> Mask(Signed(x) > Signed(y))
      [] op \in {"le", "index_le"} -> Mask(Signed(x) <= Signed(y))
Unaries == {"stop_gradient", "optimization_barrier", "index_to_float", "neg", "exp", "expm1", "log", "log1p", "sqrt", "rsqrt",
            "sin", "cos", "tanh", "erf", "abs", "relu", "sigmoid", "softplus", "floor", "is_finite"}
Binaries == {"mul", "div", "maximum", "minimum", "eq", "ne", "lt", "gt", "le", "index_le"}

(* Addition, subtraction and shifts are modular on F32 and plain on I32. *)
AddSub(op, dtype, x, y) ==
    LET r == IF op = "add" THEN x + y ELSE x - y IN IF dtype = "f32" THEN Mod(r) ELSE r

(* Structure.  Every result element is one operand element or a sum. *)
TransposeMeaning(perm, dims, x) ==
    Tabulate(dims, LAMBDA p : At(x, Tuple([i \in 1..Len(dims) |-> p[CHOOSE j \in 1..Len(dims) : perm[j] = i]], Len(dims))))
BroadcastMeaning(axes, dims, x) ==
    Tabulate(dims, LAMBDA p : At(x, Tuple([i \in 1..Len(axes) |-> IF x.dims[i] = 1 THEN 0 ELSE p[axes[i]]], Len(axes))))
ReverseMeaning(axes, dims, x) ==
    Tabulate(dims, LAMBDA p : At(x, Tuple([i \in 1..Len(dims) |->
        IF \E j \in 1..Len(axes) : axes[j] = i THEN dims[i] - 1 - p[i] ELSE p[i]], Len(dims))))
SliceMeaning(starts, strides, dims, x) ==
    Tabulate(dims, LAMBDA p : At(x, Tuple([i \in 1..Len(dims) |-> starts[i] + p[i] * strides[i]], Len(dims))))
(* The adjoint of slicing: elements go back to where they were taken from. *)
SliceGradientMeaning(starts, strides, dims, x) ==
    Tabulate(dims, LAMBDA p :
        IF \A i \in 1..Len(dims) : p[i] >= starts[i] /\ (p[i] - starts[i]) % strides[i] = 0
                                   /\ (p[i] - starts[i]) \div strides[i] < x.dims[i]
        THEN At(x, Tuple([i \in 1..Len(dims) |-> (p[i] - starts[i]) \div strides[i]], Len(dims)))
        ELSE 0)
PadMeaning(low, dims, x, fill) ==
    Tabulate(dims, LAMBDA p : LET q == Tuple([i \in 1..Len(dims) |-> p[i] - low[i]], Len(dims))
                              IN  IF Within(q, x.dims) THEN At(x, q) ELSE fill.val[1])
ConcatenateMeaning(axis, dims, args) ==
    Tabulate(dims, LAMBDA p :
        LET before(j) == SumTo([k \in 1..Len(args) |-> args[k].dims[axis]], j)
            piece == CHOOSE j \in 1..Len(args) : before(j - 1) <= p[axis] /\ p[axis] < before(j)
        IN  At(args[piece], [p EXCEPT ![axis] = @ - before(piece - 1)]))

(* The operand positions that a reduction over the axes maps to p. *)
Box(xdims, axes) == Tuple([i \in 1..Len(axes) |-> xdims[axes[i]]], Len(axes))
Expand(p, xdims, axes, q) ==
    Tuple([i \in 1..Len(xdims) |->
        IF \E j \in 1..Len(axes) : axes[j] = i THEN q[CHOOSE j \in 1..Len(axes) : axes[j] = i]
        ELSE p[Cardinality({k \in 1..i : \A j \in 1..Len(axes) : axes[j] # k})]], Len(xdims))
Reduced(xdims, axes) == SelectSeq(Tuple([i \in 1..Len(xdims) |-> IF \E j \in 1..Len(axes) : axes[j] = i THEN -1 ELSE xdims[i]],
                                        Len(xdims)), LAMBDA d : d >= 0)
ReduceSumMeaning(axes, x) ==
    Tabulate(Reduced(x.dims, axes), LAMBDA p : SumOver(Box(x.dims, axes), LAMBDA q : At(x, Expand(p, x.dims, axes, q))))
Highest(S) == CHOOSE v \in S : \A w \in S : Signed(v) >= Signed(w)
ReduceMaxMeaning(axes, x) ==
    Tabulate(Reduced(x.dims, axes), LAMBDA p :
        LET box == Tabulate(Box(x.dims, axes), LAMBDA q : At(x, Expand(p, x.dims, axes, q)))
        IN  Highest({box.val[k] : k \in 1..Len(box.val)}))
CumsumMeaning(axis, x) ==
    Tabulate(x.dims, LAMBDA p : SumOver(<<p[axis] + 1>>, LAMBDA q : At(x, [p EXCEPT ![axis] = q[1]])))
MatmulMeaning(dims, a, b) ==
    LET r == Len(dims) IN
    Tabulate(dims, LAMBDA p : SumOver(<<a.dims[r]>>, LAMBDA q : At(a, [p EXCEPT ![r] = q[1]]) * At(b, [p EXCEPT ![r - 1] = q[1]])))

(* Indexing clamps every index into the axis. *)
ClampedIndex(i, size) == Clamp(i, 0, size - 1)
TakePosition(axis, p, x, ix) ==
    LET n == Len(ix.dims) IN
    SubSeq(p, 1, axis - 1) \o <<ClampedIndex(At(ix, SubSeq(p, axis, axis + n - 1)), x[axis])>> \o SubSeq(p, axis + n, Len(p))
TakeAlongPosition(axis, p, x, ix) == [p EXCEPT ![axis] = ClampedIndex(At(ix, p), x[axis])]
TakeMeaning(axis, dims, x, ix) == Tabulate(dims, LAMBDA p : At(x, TakePosition(axis, p, x.dims, ix)))
TakeAlongMeaning(axis, dims, x, ix) == Tabulate(dims, LAMBDA p : At(x, TakeAlongPosition(axis, p, x.dims, ix)))
(* Scatter-add: every update is added where its clamped index points. *)
GatherGradientMeaning(axis, batched, dims, u, ix) ==
    Tabulate(dims, LAMBDA p : SumOver(u.dims, LAMBDA q :
        IF (IF batched = 1 THEN TakeAlongPosition(axis, q, dims, ix) ELSE TakePosition(axis, q, dims, ix)) = p
        THEN At(u, q) ELSE 0))
Starts(args, first, dims, sizes) ==
    Tuple([i \in 1..Len(dims) |-> Clamp(args[first + i].val[1], 0, dims[i] - sizes[i])], Len(dims))
DynamicSliceMeaning(dims, args) ==
    LET s == Starts(args, 1, args[1].dims, dims) IN
    Tabulate(dims, LAMBDA p : At(args[1], Tuple([i \in 1..Len(p) |-> p[i] + s[i]], Len(p))))
DynamicUpdateMeaning(args) ==
    LET s == Starts(args, 2, args[1].dims, args[2].dims) IN
    Tabulate(args[1].dims, LAMBDA p : LET q == Tuple([i \in 1..Len(p) |-> p[i] - s[i]], Len(p))
                                      IN  IF Within(q, args[2].dims) THEN At(args[2], q) ELSE At(args[1], p))
(* The first position of the greatest element; the stable sorting order. *)
ArgmaxMeaning(axis, dims, x) ==
    Tabulate(dims, LAMBDA p :
        LET at(i) == Signed(At(x, Put(p, axis, <<i>>)))
            best == {i \in 0..(x.dims[axis] - 1) : \A j \in 0..(x.dims[axis] - 1) : at(j) <= at(i)}
        IN  CHOOSE i \in best : \A j \in best : i <= j)
SortedMeaning(axis, descending, x) ==
    Tabulate(x.dims, LAMBDA p :
        LET at(i) == Signed(At(x, [p EXCEPT ![axis] = i]))
            before(j, i) == \/ IF descending = 1 THEN at(j) > at(i) ELSE at(j) < at(i)
                            \/ at(j) = at(i) /\ j < i
            n == x.dims[axis]
        IN  CHOOSE i \in 0..(n - 1) : Cardinality({j \in 0..(n - 1) : before(j, i)}) = p[axis])

(* NHWC convolution with an HWIO kernel whose input channels are per group. *)
ConvMeaning(attr, dims, x, k) ==
    LET s == attr[1]  d == attr[2]  low == attr[3]  perGroup == k.dims[3]
        group(o) == o \div (k.dims[4] \div attr[5][1])
    IN  Tabulate(dims, LAMBDA p : SumOver(<<k.dims[1], k.dims[2], perGroup>>, LAMBDA q :
            AtOr0(x, <<p[1], p[2] * s[1] + q[1] * d[1] - low[1], p[3] * s[2] + q[2] * d[2] - low[2],
                       group(p[4]) * perGroup + q[3]>>) * At(k, <<q[1], q[2], q[3], p[4]>>)))
(* The transposed convolution scatters every input element through an HWOI kernel. *)
ConvTransposeMeaning(attr, dims, x, k) ==
    LET s == attr[1]  d == attr[2]  low == attr[3]  perGroup == k.dims[4]
        group(o) == o \div (k.dims[3] \div attr[5][1])
        hit(out, axis, tap, in) == in * s[axis] + tap * d[axis] - low[axis] = out
    IN  Tabulate(dims, LAMBDA p : SumOver(<<k.dims[1], k.dims[2], perGroup, x.dims[2], x.dims[3]>>, LAMBDA q :
            IF hit(p[2], 1, q[1], q[4]) /\ hit(p[3], 2, q[2], q[5])
            THEN At(x, <<p[1], q[4], q[5], group(p[4]) * perGroup + q[3]>>) * At(k, <<q[1], q[2], p[4], q[3]>>) ELSE 0))
(* The derivative of ConvMeaning by its kernel, contracted with dy. *)
KernelGradientMeaning(attr, dims, x, dy) ==
    LET s == attr[1]  d == attr[2]  low == attr[3]
        group(o) == o \div (dims[4] \div attr[5][1])
    IN  Tabulate(dims, LAMBDA p : SumOver(SubSeq(dy.dims, 1, 3), LAMBDA q :
            AtOr0(x, <<q[1], q[2] * s[1] + p[1] * d[1] - low[1], q[3] * s[2] + p[2] * d[2] - low[2],
                       group(p[4]) * dims[3] + p[3]>>) * At(dy, Append(q, p[4]))))

(* Pooling windows in row-major order; padding never wins a maximum. *)
Window(attr, x, p) ==
    LET w == attr[1]
        taps == Tuple([k \in 1..(w[1] * w[2]) |->
                    <<p[1], p[2] * attr[2][1] + ((k - 1) \div w[2]) - attr[3][1],
                            p[3] * attr[2][2] + ((k - 1) % w[2]) - attr[3][2], p[4]>>], w[1] * w[2])
    IN  SelectSeq(taps, LAMBDA q : Within(q, x.dims))
Winner(attr, x, p) ==
    LET taps == Window(attr, x, p)
        best == {i \in 1..Len(taps) : \A j \in 1..Len(taps) : Signed(At(x, taps[j])) <= Signed(At(x, taps[i]))}
    IN  taps[CHOOSE i \in best : \A j \in best : i <= j]
SumPoolMeaning(attr, dims, x) ==
    Tabulate(dims, LAMBDA p : LET taps == Window(attr, x, p)
                              IN  Mod(SumTo([i \in 1..Len(taps) |-> At(x, taps[i])], Len(taps))))
MaxPoolMeaning(attr, dims, x) == Tabulate(dims, LAMBDA p : At(x, Winner(attr, x, p)))
MaxPoolGradientMeaning(attr, x, dy) ==
    Tabulate(x.dims, LAMBDA p : SumOver(dy.dims, LAMBDA q : IF Winner(attr, x, q) = p THEN At(dy, q) ELSE 0))

(* softmax(scale * Q K^T + mask) V, the softmax taken from the row maximum. *)
AttentionScores(scale, args) ==
    LET q == args[1]  k == args[2]  r == Len(q.dims)
        dims == [q.dims EXCEPT ![r] = k.dims[r - 1]]
    IN  Tabulate(dims, LAMBDA p : Mod(
            scale * SumOver(<<q.dims[r]>>, LAMBDA j : At(q, [p EXCEPT ![r] = j[1]]) * At(k, [p EXCEPT ![r - 1] = p[r], ![r] = j[1]]))
            + (IF Len(args) = 4 THEN At(args[4], p) ELSE 0)))
SoftmaxMeaning(axis, x) ==
    LET top(p) == Highest({At(x, [p EXCEPT ![axis] = j]) : j \in 0..(x.dims[axis] - 1)})
        e(p, j) == Exp(Mod(At(x, [p EXCEPT ![axis] = j]) - top(p)))
    IN  Tabulate(x.dims, LAMBDA p : Div(e(p, p[axis]), SumOver(<<x.dims[axis]>>, LAMBDA j : e(p, j[1]))))
AttentionMeaning(scale, dims, args) ==
    MatmulMeaning(dims, SoftmaxMeaning(Len(dims), AttentionScores(scale, args)), args[3])

Meaning(op, attr, dims, dtype, args) ==
    CASE op \in Unaries -> Map(args[1], LAMBDA x : Elementwise1(op, x))
      [] op \in Binaries -> Map2(args[1], args[2], LAMBDA x, y : Elementwise2(op, x, y))
      [] op \in {"add", "sub"} -> Map2(args[1], args[2], LAMBDA x, y : AddSub(op, dtype, x, y))
      [] op = "shift_right" -> Map2(args[1], args[2], LAMBDA x, y : x \div 2^y)
      [] op = "select" -> T(dims, Tuple([k \in 1..Len(args[1].val) |->
                              IF args[1].val[k] # 0 THEN args[2].val[k] ELSE args[3].val[k]], Len(args[1].val)))
      [] op \in {"constant", "constant_i32"} -> T(dims, attr[1])
      [] op = "iota" -> Tabulate(dims, LAMBDA p : p[attr[1][1]])
      [] op \in {"with_gradient", "with_elementwise_derivative"} -> args[1]
      [] op = "reshape" -> T(dims, args[1].val)
      [] op = "transpose" -> TransposeMeaning(attr[1], dims, args[1])
      [] op = "broadcast" -> BroadcastMeaning(attr[1], dims, args[1])
      [] op = "reverse" -> ReverseMeaning(attr[1], dims, args[1])
      [] op = "slice" -> SliceMeaning(attr[1], attr[3], dims, args[1])
      [] op = "slice_gradient" -> SliceGradientMeaning(attr[1], attr[3], dims, args[1])
      [] op = "pad" -> PadMeaning(attr[1], dims, args[1], args[2])
      [] op = "concatenate" -> ConcatenateMeaning(attr[1][1], dims, args)
      [] op = "reduce_sum" -> ReduceSumMeaning(attr[1], args[1])
      [] op = "reduce_maximum" -> ReduceMaxMeaning(attr[1], args[1])
      [] op = "cumsum" -> CumsumMeaning(attr[1][1], args[1])
      [] op = "matmul" -> MatmulMeaning(dims, args[1], args[2])
      [] op = "take" -> TakeMeaning(attr[1][1], dims, args[1], args[2])
      [] op = "take_along_axis" -> TakeAlongMeaning(attr[1][1], dims, args[1], args[2])
      [] op = "gather_gradient" -> GatherGradientMeaning(attr[1][1], attr[1][2], dims, args[1], args[2])
      [] op = "dynamic_slice" -> DynamicSliceMeaning(dims, args)
      [] op = "dynamic_update_slice" -> DynamicUpdateMeaning(args)
      [] op = "argmax" -> ArgmaxMeaning(attr[1][1], dims, args[1])
      [] op = "sorted_indices" -> SortedMeaning(attr[1][1], attr[1][2], args[1])
      [] op = "conv2d" -> ConvMeaning(attr, dims, args[1], args[2])
      [] op = "conv2d_oihw" -> ConvMeaning(attr, dims, args[1],
                                  TransposeMeaning(<<3, 4, 2, 1>>, Tuple([i \in 1..4 |-> args[2].dims[<<3, 4, 2, 1>>[i]]], 4), args[2]))
      [] op = "conv_transpose2d" -> ConvTransposeMeaning(attr, dims, args[1], args[2])
      [] op = "conv2d_kernel_gradient" -> KernelGradientMeaning(attr, dims, args[1], args[2])
      [] op = "sum_pool2d" -> SumPoolMeaning(attr, dims, args[1])
      [] op = "max_pool2d" -> MaxPoolMeaning(attr, dims, args[1])
      [] op = "max_pool2d_gradient" -> MaxPoolGradientMeaning(attr, args[1], args[2])
      [] op = "attention" -> AttentionMeaning(attr[1][1], dims, args)
=============================================================================
