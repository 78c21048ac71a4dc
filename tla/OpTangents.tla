------------------------------ MODULE OpTangents ------------------------------
(***************************************************************************)
(* OpTangent(op, attr, dims, x, t, y): the change of an operation's result *)
(* y when its operands x change by t, i.e. its forward derivative, with    *)
(* the conventions that the documentation of Tensor::grad states: zero at  *)
(* the kinks of relu and abs, half to each side of a tie of maximum and    *)
(* minimum, an equal share to each winner of a reduction, zero across      *)
(* detach and floor, and the surrogate's or the stated derivative across   *)
(* the two operations that carry one.  It is the reference that the        *)
(* reverse rules of Autodiff are checked against.                          *)
(***************************************************************************)
EXTENDS OpSemantics

LinearInFirst == {"neg", "optimization_barrier", "reshape", "transpose", "broadcast", "reverse", "slice", "slice_gradient",
                  "reduce_sum", "cumsum", "take", "take_along_axis", "gather_gradient", "dynamic_slice", "sum_pool2d"}
Bilinear == {"mul", "matmul", "conv2d", "conv2d_oihw", "conv_transpose2d", "conv2d_kernel_gradient"}

Slope(op, x, y) ==          \* of the smooth elementwise operations
    CASE op = "exp" -> y
      [] op = "expm1" -> Exp(x)
      [] op = "log" -> Inv(x)
      [] op = "log1p" -> Inv(Mod(1 + x))
      [] op = "sqrt" -> Mod(Half * Inv(y))
      [] op = "rsqrt" -> Mod(-Half * Mod(y * y * y))
      [] op = "sin" -> Cos(x)
      [] op = "cos" -> Mod(-Sin(x))
      [] op = "tanh" -> Mod(1 - y * y)
      [] op = "erf" -> Mod(ErfSlope * Exp(Mod(-x * x)))
      [] op = "sigmoid" -> Mod(y * (1 - y))
      [] op = "softplus" -> Logistic(x)
      [] op = "relu" -> IF Signed(x) > 0 THEN 1 ELSE 0
      [] op = "abs" -> IF Signed(x) > 0 THEN 1 ELSE IF x = 0 THEN 0 ELSE P - 1
Smooth == {"exp", "expm1", "log", "log1p", "sqrt", "rsqrt", "sin", "cos", "tanh", "erf", "sigmoid", "softplus", "relu", "abs"}

Plus(a, b) == Map2(a, b, LAMBDA u, v : Mod(u + v))
Times(a, b) == Map2(a, b, LAMBDA u, v : Mod(u * v))
(* The share of the two operands of maximum and minimum. *)
ShareOfFirst(op, x, y) ==
    IF x = y THEN Half ELSE IF (Signed(x) > Signed(y)) <=> (op = "maximum") THEN 1 ELSE 0
ReduceMaxTangent(axes, dims, x, t, y) ==
    LET box == Box(x.dims, axes) IN
    Tabulate(dims, LAMBDA p :
        LET winner(q) == At(x, Expand(p, x.dims, axes, q)) = At(y, p)
        IN  Div(SumOver(box, LAMBDA q : IF winner(q) THEN At(t, Expand(p, x.dims, axes, q)) ELSE 0),
                SumOver(box, LAMBDA q : Mask(winner(q)))))
AttentionTangent(scale, dims, x, t) ==
    LET r == Len(dims)
        masked == Len(x) = 4
        probabilities == SoftmaxMeaning(r, AttentionScores(scale, x))
        unmasked == Plus(AttentionScores(scale, <<t[1], x[2], x[3]>>), AttentionScores(scale, <<x[1], t[2], x[3]>>))
        dScores == IF masked THEN Plus(unmasked, t[4]) ELSE unmasked
        weighted == Times(probabilities, dScores)
        total(p) == SumOver(<<weighted.dims[r]>>, LAMBDA j : At(weighted, [p EXCEPT ![r] = j[1]]))
        dProbabilities == Tabulate(weighted.dims, LAMBDA p : Mod(At(weighted, p) - At(probabilities, p) * total(p)))
    IN  Plus(MatmulMeaning(dims, dProbabilities, x[3]), MatmulMeaning(dims, probabilities, t[3]))

OpTangent(op, attr, dims, x, t, y) ==
    LET apply(args) == Meaning(op, attr, dims, "f32", args) IN
    CASE op \in LinearInFirst -> apply(<<t[1]>> \o SubSeq(x, 2, Len(x)))
      [] op \in Bilinear -> Plus(apply(<<t[1], x[2]>>), apply(<<x[1], t[2]>>))
      [] op \in {"add", "sub", "pad", "concatenate"} -> apply(t)
      [] op = "dynamic_update_slice" -> apply(SubSeq(t, 1, 2) \o SubSeq(x, 3, Len(x)))
      [] op = "div" -> T(dims, Tuple([k \in 1..Len(y.val) |-> Div(Mod(t[1].val[k] - y.val[k] * t[2].val[k]), x[2].val[k])],
                                     Len(y.val)))
      [] op \in Smooth -> T(dims, Tuple([k \in 1..Len(y.val) |-> Mod(t[1].val[k] * Slope(op, x[1].val[k], y.val[k]))], Len(y.val)))
      [] op \in {"maximum", "minimum"} ->
            T(dims, Tuple([k \in 1..Len(y.val) |-> LET s == ShareOfFirst(op, x[1].val[k], x[2].val[k])
                                                   IN  Mod(s * t[1].val[k] + (1 - s) * t[2].val[k])], Len(y.val)))
      [] op = "select" -> apply(<<x[1], t[2], t[3]>>)
      [] op = "with_gradient" -> t[2]
      [] op = "with_elementwise_derivative" ->
            T(dims, Tuple([k \in 1..Len(y.val) |-> Mod(SumTo([j \in 1..(Len(x) \div 2) |-> t[2 * j].val[k] * x[2 * j + 1].val[k]],
                                                             Len(x) \div 2))], Len(y.val)))
      [] op = "reduce_maximum" -> ReduceMaxTangent(attr[1], dims, x[1], t[1], y)
      [] op = "max_pool2d" -> Tabulate(dims, LAMBDA p : At(t[1], Winner(attr, x[1], p)))
      [] op = "attention" -> AttentionTangent(attr[1][1], dims, x, t)
      [] OTHER -> Zeros(dims)          \* constants, masks, indices, detach, floor
=============================================================================
