------------------------------- MODULE Autodiff -------------------------------
(***************************************************************************)
(* Reverse-mode differentiation of rxla-core (autodiff.rs) as a            *)
(* transformation of a recorded graph.  A graph is a sequence of nodes     *)
(* [op, attr, args, dims, dtype, val]: args are earlier positions, and val *)
(* is what the node denotes on the sampled parameters.                     *)
(*                                                                         *)
(* ReverseGradients walks the graph twice: a live pass that refuses the    *)
(* operations without a rule before anything is appended, and a reverse    *)
(* sweep that appends the gradient of every live node.                     *)
(***************************************************************************)
EXTENDS ComposedOps

(* Recording.  A method's intermediate results are handles that its later
   steps share, so equal nodes of one call are one node. *)
Ref(i, n) == [op |-> "ref", attr |-> <<<<i>>>>, args |-> <<>>, dims |-> n.dims, dtype |-> n.dtype]
Recorded(g, id) == [g |-> g, id |-> id]
Operation(e, ids, operands) ==
    [op |-> e.op, attr |-> e.attr, args |-> ids, dims |-> e.dims, dtype |-> e.dtype,
     val |-> Meaning(e.op, e.attr, e.dims, e.dtype, operands)]
Equal(n, e, ids) == n.op = e.op /\ n.attr = e.attr /\ n.args = ids /\ n.dims = e.dims /\ n.dtype = e.dtype
Same(r, e, from) == {i \in (from + 1)..Len(r.g) : Equal(r.g[i], e, r.ids)}
Insert(r, e, from) ==
    IF Same(r, e, from) # {} THEN Recorded(r.g, CHOOSE i \in Same(r, e, from) : TRUE)
    ELSE Recorded(Append(r.g, Operation(e, r.ids, Tuple([j \in 1..Len(r.ids) |-> r.g[r.ids[j]].val], Len(r.ids)))), Len(r.g) + 1)
(* r: the graph and the operands recorded so far. *)
WithOperand(r, operand) == [g |-> operand.g, ids |-> Append(r.ids, operand.id)]
RECURSIVE Record(_, _, _), Operands(_, _, _)
Operands(r, e, from) ==
    IF Len(r.ids) < Len(e.args) THEN Operands(WithOperand(r, Record(r.g, e.args[Len(r.ids) + 1], from)), e, from)
    ELSE IF e.op = "all" THEN r ELSE Insert(r, e, from)
Record(g, e, from) ==
    IF e.op = "ref" THEN Recorded(g, e.attr[1][1]) ELSE Operands([g |-> g, ids |-> <<>>], e, from)
RecordAll(g, es, from) == Record(g, [op |-> "all", args |-> es], from)

(* The live pass. *)
Boundaries == {"stop_gradient", "index_to_float", "floor"}        \* the sweep stops here
Leaves == {"parameter", "constant"}
Ruled == Leaves \union Boundaries \union
    {"with_gradient", "with_elementwise_derivative", "select", "take", "take_along_axis", "gather_gradient", "dynamic_slice",
     "dynamic_update_slice", "attention", "relu", "softplus", "sigmoid", "sum_pool2d", "cumsum", "max_pool2d", "conv2d",
     "conv2d_oihw", "conv_transpose2d", "conv2d_kernel_gradient", "reshape", "optimization_barrier", "slice", "slice_gradient",
     "pad", "concatenate", "transpose", "reverse", "broadcast", "matmul", "reduce_sum", "reduce_maximum", "add", "sub", "mul",
     "div", "maximum", "minimum", "erf", "sin", "cos", "abs", "exp", "log", "log1p", "expm1", "neg", "sqrt", "rsqrt", "tanh"}
(* Mutant: the value, not its surrogate, is taken to be differentiated. *)
LivePositionsOfValue(n) ==
    IF n.op = "with_gradient" THEN {1}
    ELSE IF n.op \in Boundaries THEN {}
    ELSE IF n.op \in {"take", "take_along_axis", "gather_gradient", "dynamic_slice"} THEN {1} ELSE 1..Len(n.args)
LivePositions(n) ==
    LET all == 1..Len(n.args) IN
    CASE n.op \in Boundaries -> {}
      [] n.op = "with_gradient" -> {2}
      [] n.op = "with_elementwise_derivative" -> {j \in all : j % 2 = 0}
      [] n.op = "select" -> {2, 3}
      [] n.op \in {"take", "take_along_axis", "gather_gradient", "dynamic_slice"} -> {1}
      [] n.op = "dynamic_update_slice" -> {1, 2}
      [] OTHER -> all
(* Everything that can be reached from S along edges. *)
RECURSIVE Reach(_, _)
Reach(edges, S) == LET more == S \union UNION {edges[i] : i \in S} IN IF more = S THEN S ELSE Reach(edges, more)
LiveNodes(g, out) == Reach(Tuple([i \in 1..Len(g) |-> {g[i].args[j] : j \in LivePositions(g[i])}], Len(g)), {out})

(* Rules with a construction of their own.  options of a convolution:
   strides, dilation, low, high, <<groups>>. *)
NaN == 17                                        \* poison; selected only where an operand is a NaN
Zero(dims) == Fill(0, dims)
Regroup(kernel, split, joined) == Reshape(Transpose(Reshape(kernel, split), <<1, 2, 4, 3, 5>>), joined)
TransposeKernelAsForward(kernel, g) ==
    LET k == kernel.dims  perGroup == k[3] \div g IN
    IF g = 1 THEN kernel ELSE Regroup(kernel, <<k[1], k[2], g, perGroup, k[4]>>, <<k[1], k[2], perGroup, g * k[4]>>)
ForwardKernelAsTranspose(kernel, g) ==
    LET k == kernel.dims  perGroup == k[4] \div g IN
    IF g = 1 THEN kernel ELSE Regroup(kernel, <<k[1], k[2], k[3], g, perGroup>>, <<k[1], k[2], g * k[3], perGroup>>)
Conv2dInputGradient(dy, kernel, xdims, o) ==
    LET k == kernel.dims  g == o[5][1]
        base(a) == (dy.dims[a + 1] - 1) * o[1][a] + Extent(k, a, o) - o[3][a] - o[4][a]
        outputPadding == Tuple([a \in 1..2 |-> xdims[a + 1] - base(a)], 2)
        hwoi == IF g = 1 THEN kernel
                ELSE Regroup(kernel, <<k[1], k[2], k[3], g, k[4] \div g>>, <<k[1], k[2], xdims[4], k[4] \div g>>)
    IN  ConvTranspose2d(dy, hwoi, Append(o, outputPadding))
MaxShare(op, a, b, dy, second) ==        \* the part of dy that reaches one operand
    LET zero == Zero(a.dims)
        tie == Select(Binary("eq", a, b), MulScalar(dy, Half), Fill(NaN, a.dims))
        wins == IF op = "maximum" THEN "gt" ELSE "lt"
        loses == IF op = "maximum" THEN "lt" ELSE "gt"
        left == Binary(wins, a, b)
        right == Binary(loses, a, b)
    IN  IF second THEN Select(right, dy, Select(left, zero, tie)) ELSE Select(left, dy, Select(right, zero, tie))
ReduceMaxRule(x, y, axes, dims, dy) ==
    LET mask == Binary("eq", x, BroadcastTo(Reshape(y, dims), x.dims))
        count == BroadcastTo(Detach(Sum(mask, axes, TRUE)), x.dims)
        zero == Zero(x.dims)
        nan == Fill(NaN, x.dims)
        selected == Select(mask, Divide(dy, count), zero)
        nans == BroadcastTo(Sum(Binary("ne", x, x), axes, TRUE), x.dims)
    IN  Select(Binary("gt", nans, zero), nan, Select(Binary("gt", count, zero), selected, nan))
(* Attention: one gradient per operand, by way of the probabilities. *)
LastSwapped(e) == SwapAxes(e, Rank(e) - 1, Rank(e))
Masked(x, scaled) == IF Len(x) = 4 THEN Add(scaled, x[4]) ELSE scaled
Probabilities(scale, x) == Softmax(Masked(x, MulScalar(Matmul(x[1], LastSwapped(x[2])), scale)), Rank(x[1]))
ScoresGradient(probabilities, dProbabilities) ==
    LET rows == Sum(Mul(dProbabilities, probabilities), <<Rank(probabilities)>>, TRUE)
    IN  Mul(probabilities, Sub(dProbabilities, BroadcastTo(rows, probabilities.dims)))
AttentionShares(scale, x, dy, probabilities, dScores) ==
    <<<<1, MulScalar(Matmul(dScores, x[2]), scale)>>, <<2, MulScalar(Matmul(LastSwapped(dScores), x[1]), scale)>>,
      <<3, Matmul(LastSwapped(probabilities), dy)>>>> \o (IF Len(x) = 4 THEN <<<<4, dScores>>>> ELSE <<>>)
AttentionFrom(scale, x, dy, probabilities) ==
    AttentionShares(scale, x, dy, probabilities, ScoresGradient(probabilities, Matmul(dy, LastSwapped(x[3]))))
AttentionRule(scale, x, dy) == AttentionFrom(scale, x, dy, Probabilities(scale, x))
UnaryRule(op, x, y, dy) ==
    CASE op = "neg" -> Neg(dy)
      [] op = "sin" -> Mul(dy, Unary("cos", x))
      [] op = "cos" -> Neg(Mul(dy, Unary("sin", x)))
      [] op = "exp" -> Mul(dy, y)
      [] op = "expm1" -> Mul(dy, Unary("exp", x))
      [] op = "log" -> Divide(dy, x)
      [] op = "log1p" -> Divide(dy, AddScalar(x, 1))
      [] op = "sqrt" -> MulScalar(Divide(dy, y), Half)
      [] op = "rsqrt" -> MulScalar(Mul(dy, Mul(Mul(y, y), y)), Mod(-Half))
      [] op = "tanh" -> Mul(dy, AddScalar(Neg(Mul(y, y)), 1))
      [] op = "erf" -> MulScalar(Mul(dy, Unary("exp", Neg(Mul(x, x)))), ErfSlope)
      [] op = "softplus" -> Mul(dy, Unary("sigmoid", x))
      [] op = "sigmoid" -> Mul(Mul(dy, y), Unary("sigmoid", Neg(x)))
      [] op = "relu" -> Select(Binary("gt", x, Zero(x.dims)), dy, Zero(x.dims))
      [] op = "abs" -> LET zero == Zero(x.dims)
                           atZero == Select(Binary("eq", x, zero), zero, Fill(NaN, x.dims))
                       IN  Select(Binary("gt", x, zero), dy, Select(Binary("lt", x, zero), Neg(dy), atZero))
UnaryRules == {"neg", "sin", "cos", "exp", "expm1", "log", "log1p", "sqrt", "rsqrt", "tanh", "erf", "softplus", "sigmoid", "relu", "abs"}

(* What a node whose gradient is dy adds to its operands: <<operand position,
   gradient>> in the order of the code.  x are the operands, y the node. *)
BinaryRule(op, x, dy) ==
    CASE op = "add" -> <<<<1, dy>>, <<2, dy>>>>
      [] op = "sub" -> <<<<1, dy>>, <<2, Neg(dy)>>>>
      [] op = "mul" -> <<<<1, Mul(dy, x[2])>>, <<2, Mul(dy, x[1])>>>>
      [] op = "div" -> <<<<1, Divide(dy, x[2])>>, <<2, Neg(Divide(Mul(dy, Divide(x[1], x[2])), x[2]))>>>>
      [] op \in {"maximum", "minimum"} -> <<<<1, MaxShare(op, x[1], x[2], dy, FALSE)>>, <<2, MaxShare(op, x[1], x[2], dy, TRUE)>>>>
BinaryRules == {"add", "sub", "mul", "div", "maximum", "minimum"}
PassingRule(n, x, dy) ==
    CASE n.op = "with_gradient" -> <<<<2, dy>>>>
      [] n.op = "with_elementwise_derivative" ->
            Tuple([j \in 1..(Len(x) \div 2) |-> <<2 * j, Mul(dy, x[2 * j + 1])>>], Len(x) \div 2)
      [] n.op = "select" -> <<<<2, Select(x[1], dy, Zero(dy.dims))>>, <<3, Select(x[1], Zero(dy.dims), dy)>>>>
PassingRules == {"with_gradient", "with_elementwise_derivative", "select"}
PadRule(n, x, dy, live) ==
    LET o == n.attr
        interior == Slice(dy, o[1], Tuple([i \in 1..Rank(x[1]) |-> o[1][i] + x[1].dims[i]], Rank(x[1])), Repeat(1, Rank(x[1])))
        border == Select(Pad(Fill(1, x[1].dims), o[1], o[2], 0), Zero(dy.dims), dy)
    IN  <<<<1, interior>>>> \o (IF n.args[2] \in live THEN <<<<2, Sum(border, Axes(Rank(dy)), FALSE)>>>> ELSE <<>>)
BroadcastRule(n, x, dy) ==
    LET axes == n.attr[1]
        unmapped(a) == ~Listed(axes, a)
        expanded(a) == x.dims[IndexIn(axes, a)] = 1 /\ n.dims[a] # 1
    IN  Reshape(Sum(dy, SelectSeq(Axes(Len(n.dims)), LAMBDA a : IF unmapped(a) THEN TRUE ELSE expanded(a)), TRUE), x.dims)
ShapeRule(n, x, dy, live) ==
    LET o == n.attr IN
    CASE n.op = "reshape" -> <<<<1, Reshape(dy, x[1].dims)>>>>
      [] n.op = "optimization_barrier" -> <<<<1, Unary("optimization_barrier", dy)>>>>
      [] n.op = "slice" -> <<<<1, Node("slice_gradient", o, <<dy>>, TRUE, x[1].dims)>>>>
      [] n.op = "slice_gradient" -> <<<<1, Slice(dy, o[1], o[2], o[3])>>>>
      [] n.op = "pad" -> PadRule(n, x, dy, live)
      [] n.op = "concatenate" ->
            LET axis == o[1][1]
                before(j) == SumTo([k \in 1..Len(x) |-> x[k].dims[axis]], j - 1)
            IN  Tuple([j \in 1..Len(x) |-> <<j, Narrow(dy, axis, before(j), x[j].dims[axis])>>], Len(x))
      [] n.op = "reverse" -> <<<<1, Flip(dy, o[1])>>>>
      [] n.op = "transpose" ->
            <<<<1, Transpose(dy, Tuple([i \in 1..Rank(dy) |-> IndexIn(o[1], i)], Rank(dy)))>>>>
      [] n.op = "broadcast" -> <<<<1, BroadcastRule(n, x[1], dy)>>>>
      [] n.op = "cumsum" -> <<<<1, Flip(Cumsum(Flip(dy, o[1]), o[1][1]), o[1])>>>>
ShapeRules == {"reshape", "optimization_barrier", "slice", "slice_gradient", "pad", "concatenate", "reverse", "transpose", "broadcast",
               "cumsum"}
ReductionRule(n, x, y, dy) ==
    LET axes == n.attr[1]
        reshaped == Tuple([i \in 1..Rank(x) |-> IF Listed(axes, i) THEN 1 ELSE x.dims[i]], Rank(x))
        spread == BroadcastTo(Reshape(dy, reshaped), x.dims)
    IN  <<<<1, IF n.op = "reduce_sum" THEN spread ELSE ReduceMaxRule(x, y, axes, reshaped, spread)>>>>
Empty(dims) == \E i \in 1..Len(dims) : dims[i] = 0
TransposedRule(o, x, dy) ==
    LET g == o[5][1]
        forward == TransposeKernelAsForward(x[2], g)
        paired == SubSeq(o, 1, 5)
    IN  <<<<1, Conv2d(dy, forward, paired, FALSE)>>,
          <<2, ForwardKernelAsTranspose(KernelGradient(dy, x[1], paired, forward.dims), g)>>>>
OihwRule(o, x, dy) ==
    LET hwio == Transpose(x[2], <<3, 4, 2, 1>>) IN
    <<<<1, Conv2dInputGradient(dy, hwio, x[1].dims, o)>>,
      <<2, Transpose(KernelGradient(x[1], dy, o, hwio.dims), <<4, 3, 1, 2>>)>>>>
ConvolutionRule(n, x, dy) ==
    LET o == n.attr
        zeros == <<<<1, Zero(x[1].dims)>>, <<2, Zero(x[2].dims)>>>>
        forward == n.op \in {"conv2d", "conv2d_oihw"}
    IN
    CASE n.op = "sum_pool2d" -> <<<<1, SumPoolGradient(dy, x[1].dims, o)>>>>
      [] n.op = "max_pool2d" -> <<<<1, MaxPoolGradient(x[1], dy, o)>>>>
      [] n.op = "conv2d_kernel_gradient" ->
            <<<<1, Conv2dInputGradient(x[2], dy, x[1].dims, o)>>, <<2, Conv2d(x[1], dy, o, FALSE)>>>>
      [] n.op = "conv_transpose2d" /\ ~Empty(x[1].dims) -> TransposedRule(o, x, dy)
      [] n.op = "conv2d" /\ ~Empty(x[1].dims) /\ ~Empty(dy.dims) ->
            <<<<1, Conv2dInputGradient(dy, x[2], x[1].dims, o)>>, <<2, KernelGradient(x[1], dy, o, x[2].dims)>>>>
      [] n.op = "conv2d_oihw" /\ ~Empty(x[1].dims) /\ ~Empty(dy.dims) -> OihwRule(o, x, dy)
      [] \/ n.op = "conv_transpose2d" /\ Empty(x[1].dims)
         \/ forward /\ (Empty(x[1].dims) \/ Empty(dy.dims)) -> zeros
ConvolutionRules == {"sum_pool2d", "max_pool2d", "conv2d_kernel_gradient", "conv_transpose2d", "conv2d", "conv2d_oihw"}
IndexRule(n, x, dy) ==
    LET o == n.attr
        starts == SubSeq(x, 3, Len(x))
    IN
    CASE n.op = "dynamic_slice" -> <<<<1, DynamicUpdateSlice(Zero(x[1].dims), dy, Tail(x))>>>>
      [] n.op = "dynamic_update_slice" ->
            <<<<1, DynamicUpdateSlice(dy, Zero(x[2].dims), starts)>>, <<2, DynamicSlice(dy, starts, x[2].dims)>>>>
      [] n.op = "gather_gradient" ->
            <<<<1, IF o[1][2] = 1 THEN TakeAlongAxis(dy, x[2], o[1][1]) ELSE Take(dy, x[2], o[1][1])>>>>
      [] n.op \in {"take", "take_along_axis"} ->
            <<<<1, ScatterAdd(dy, x[2], o[1][1], IF n.op = "take_along_axis" THEN 1 ELSE 0, x[1].dims)>>>>
IndexRules == {"dynamic_slice", "dynamic_update_slice", "gather_gradient", "take", "take_along_axis"}
NodeRule(n, x, y, dy, live) ==
    CASE n.op \in Leaves \union Boundaries -> <<>>
      [] n.op \in PassingRules -> PassingRule(n, x, dy)
      [] n.op = "attention" -> AttentionRule(n.attr[1][1], x, dy)
      [] n.op \in BinaryRules -> BinaryRule(n.op, x, dy)
      [] n.op \in UnaryRules -> <<<<1, UnaryRule(n.op, x[1], y, dy)>>>>
      [] n.op \in ShapeRules -> ShapeRule(n, x, dy, live)
      [] n.op \in {"reduce_sum", "reduce_maximum"} -> ReductionRule(n, x[1], y, dy)
      [] n.op = "matmul" -> <<<<1, Matmul(dy, LastSwapped(x[2]))>>, <<2, Matmul(LastSwapped(x[1]), dy)>>>>
      [] n.op \in ConvolutionRules -> ConvolutionRule(n, x, dy)
      [] n.op \in IndexRules -> IndexRule(n, x, dy)
      [] OTHER -> <<<<0, Err>>>>                     \* unreachable!("validated operation")

(* Mutant: the last contribution replaces the ones before it. *)
AccumulateLast(g, grads, targets, ids, from) ==
    [g |-> g, grads |-> Tuple([i \in 1..Len(grads) |->
        IF \E j \in 1..Len(targets) : targets[j] = i THEN ids[CHOOSE j \in 1..Len(targets) : targets[j] = i] ELSE grads[i]],
        Len(grads))]
(* Contributions are recorded first, then added to what is already there. *)
Joined(g, old, id, from) ==
    IF old = 0 THEN Recorded(g, id) ELSE Record(g, Add(Ref(old, g[old]), Ref(id, g[id])), from)
RECURSIVE Accumulate(_, _, _, _, _), AccumulateRest(_, _, _, _, _)
AccumulateRest(r, grads, targets, ids, from) ==
    Accumulate(r.g, [grads EXCEPT ![Head(targets)] = r.id], Tail(targets), ids, from)
Accumulate(g, grads, targets, ids, from) ==
    IF targets = <<>> THEN [g |-> g, grads |-> grads]
    ELSE AccumulateRest(Joined(g, grads[Head(targets)], Head(ids), from), grads, targets, Tail(ids), from)
Done(a) == [g |-> a.g, grads |-> a.grads, outcome |-> "done"]
Contributed(s, args, cs, r, from) ==
    Done(Accumulate(r.g, s.grads, Tuple([j \in 1..Len(cs) |-> args[cs[j][1]]], Len(cs)), r.ids, from))
Contribute(s, args, cs, from) ==
    IF \E j \in 1..Len(cs) : Failed(cs[j][2]) THEN [s EXCEPT !.outcome = IF cs[1][1] = 0 THEN "panicked" ELSE "failed"]
    ELSE Contributed(s, args, cs, RecordAll(s.g, Tuple([j \in 1..Len(cs) |-> cs[j][2]], Len(cs)), from), from)
SweepNode(s, i, live, from) ==
    LET g == s.g
        n == g[i]
    IN  IF s.grads[i] = 0 THEN s
        ELSE Contribute(s, n.args,
                        NodeRule(n, Tuple([j \in 1..Len(n.args) |-> Ref(n.args[j], g[n.args[j]])], Len(n.args)),
                                 Ref(i, n), Ref(s.grads[i], g[s.grads[i]]), live), from)
(* The nodes from `last` down to `first`. *)
RECURSIVE Sweep(_, _, _, _, _)
Sweep(s, last, first, live, from) ==
    IF s.outcome # "done" THEN s
    ELSE IF last = first THEN SweepNode(s, last, live, from)
    ELSE LET m == (first + last) \div 2 IN Sweep(Sweep(s, last, m + 1, live, from), m, first, live, from)
(* Inputs the output does not depend on receive zeros. *)
GradientOrZeros(g, id, dims, from) == IF id = 0 THEN Record(g, Fill(0, dims), from) ELSE Recorded(g, id)
RECURSIVE Collect(_, _, _, _), CollectRest(_, _, _, _)
Before(id, rest) == [ids |-> <<id>> \o rest.ids, g |-> rest.g]
CollectRest(r, grads, inputs, from) == Before(r.id, Collect(r.g, grads, inputs, from))
Collect(g, grads, inputs, from) ==
    IF inputs = <<>> THEN [g |-> g, ids |-> <<>>]
    ELSE CollectRest(GradientOrZeros(g, grads[Head(inputs)], g[Head(inputs)].dims, from), grads, Tail(inputs), from)
(* seed: 0 for Tensor::grad, the cotangent of Tensor::vjp otherwise. *)
Outcome(g, ids, outcome) == [g |-> g, ids |-> ids, outcome |-> outcome]
Gathered(c) == Outcome(c.g, c.ids, "done")
Finished(s, inputs, from) ==
    IF s.outcome # "done" THEN Outcome(s.g, <<>>, s.outcome) ELSE Gathered(Collect(s.g, s.grads, inputs, from))
Seeded(one, out, from) ==
    [g |-> one.g, grads |-> Tuple([i \in 1..from |-> IF i = out THEN one.id ELSE 0], from), outcome |-> "done"]
Refused(g, out, inputs, seed) ==
    \/ g[out].dtype # "f32"
    \/ IF seed = 0 THEN g[out].dims # <<>> ELSE g[seed].dtype # "f32" \/ g[seed].dims # g[out].dims
    \/ \E j \in 1..Len(inputs) : g[inputs[j]].dtype # "f32" \/ g[inputs[j]].op # "parameter"
ReverseGradients(g, out, inputs, seed) ==
    LET from == Len(g)
        live == LiveNodes(g, out)
        one == IF seed = 0 THEN Record(g, Scalar(1), from) ELSE Recorded(g, seed)
    IN  IF Refused(g, out, inputs, seed) \/ ~(\A i \in live : g[i].op \in Ruled) THEN Outcome(g, <<>>, "refused")
        ELSE Finished(Sweep(Seeded(one, out, from), from, 1, live, from), inputs, from)
=============================================================================
