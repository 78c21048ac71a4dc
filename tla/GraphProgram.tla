----------------------------- MODULE GraphProgram -----------------------------
(***************************************************************************)
(* A graph from its first operation to the emitted program: methods of     *)
(* Tensor record operations, reverse-mode differentiation appends the      *)
(* gradients, possibly of a gradient again, and the finished graph is      *)
(* verified and lowered to StableHLO with the arguments it needs.          *)
(*                                                                         *)
(* A family is one set of parameters with sampled values.  `out` is the    *)
(* tensor the program goes on with: the result of the last call, or one of *)
(* the gradients it asked for.                                             *)
(***************************************************************************)
EXTENDS Autodiff, LayerOps, LayerMeaning, OpTangents, OpVerifier, StablehloLowering

CONSTANTS Families,      \* names of sets of parameters
          Parameters(_), \* of a family: a sequence of [dims, dtype, val]
          Calls(_, _)    \* of a family, the n-th call: a set of [method, opts, with]

VARIABLES family, graph, out,
          call,          \* the last call, its operands and its result (0: it returned an error)
          calls,         \* number of calls made
          sweep,         \* the last differentiation
          orders,        \* number of differentiations made
          program        \* the lowered program

programVars == <<family, graph, out, call, calls, sweep, orders, program>>

NoCall == [method |-> "none", opts |-> <<>>, with |-> <<>>, on |-> 0, result |-> 0]
NoSweep == [out |-> 0, seed |-> 0, ids |-> <<>>, outcome |-> "none"]
NoProgram == [cuts |-> <<>>, prepared |-> <<>>, arguments |-> <<>>, values |-> <<>>]

(* The methods by name.  `with` names further operands among the parameters. *)
ByName(m, o, x) ==
    CASE m \in {"relu", "softplus", "sigmoid", "neg", "sin", "cos", "exp", "expm1", "log", "log1p", "sqrt", "rsqrt", "tanh", "erf", "abs",
                "floor", "is_finite", "optimization_barrier", "index_to_float"} -> Unary(m, x[1])
      [] m = "detach" -> Detach(x[1])
      [] m \in {"add", "sub", "mul", "div", "maximum", "minimum", "lt"} -> Binary(m, x[1], x[2])
      [] m = "le_mask" -> LeMask(x[1], x[2])
      [] m = "larger" -> Select(Binary("gt", x[1], x[2]), x[1], x[2])
      [] m = "with_gradient_of" -> WithGradientOf(x[1], x[2])
      [] m = "with_gradient_of_mask" -> WithGradientOf(x[1], Binary("lt", x[1], x[2]))
      [] m = "with_elementwise_derivatives" -> WithElementwiseDerivatives(x[1], Tail(x))
      [] m = "reshape" -> Reshape(x[1], o[1])
      [] m = "broadcast_in_dim" -> BroadcastInDim(x[1], o[1], o[2])
      [] m = "transpose" -> Transpose(x[1], o[1])
      [] m = "flip" -> Flip(x[1], o[1])
      [] m = "slice" -> Slice(x[1], o[1], o[2], o[3])
      [] m = "narrow" -> Narrow(x[1], o[1][1], o[1][2], o[1][3])
      [] m = "pad" -> Pad(x[1], o[1], o[2], 3)
      [] m = "pad_with_scalar" -> PadWith(x[1], o[1], o[2], Sum(x[2], Axes(Rank(x[2])), FALSE))
      [] m = "concatenate" -> Concatenate(x, o[1][1])
      [] m = "stack" -> Stack(x, o[1][1])
      [] m = "sum" -> Sum(x[1], o[1], o[2][1] = 1)
      [] m = "max" -> MaxOver(x[1], o[1], o[2][1] = 1)
      [] m = "min" -> Minimum(x[1], o[1], o[2][1] = 1)
      [] m = "mean" -> Mean(x[1], o[1], o[2][1] = 1)
      [] m = "variance" -> Variance(x[1], o[1], o[2][1] = 1, o[2][2])
      [] m = "clamp" -> Clamped(x[1], o[1][1], o[1][2])
      [] m = "softmax" -> Softmax(x[1], o[1][1])
      [] m = "log_softmax" -> LogSoftmax(x[1], o[1][1])
      [] m = "logsumexp" -> LogSumExp(x[1], o[1], o[2][1] = 1)
      [] m = "logaddexp" -> LogAddExp(x[1], x[2])
      [] m = "logcumsumexp" -> LogCumsumExp(x[1], o[1][1])
      [] m = "logcumsumexp_tree" -> LogCumsumExpTree(x[1], o[1][1])
      [] m = "doubling_mul" -> DoublingScan(x[1], o[1][1], "mul")
      [] m = "cumsum" -> Cumsum(x[1], o[1][1])
      [] m = "cumprod" -> Cumprod(x[1], o[1][1])
      [] m = "affine_scan" -> AffineScan(x[1], x[2], o[1][1])
      [] m = "affine_scan_from" -> AffineScanFrom(x[1], x[2], x[3], o[1][1])
      [] m = "matmul" -> Matmul(x[1], x[2])
      [] m = "dot_general" -> DotGeneral(x[1], x[2], o[1], o[2], o[3], o[4])
      [] m = "einsum" -> Einsum(x[1], x[2], o[1], o[2], o[3])
      [] m = "diag_embed" -> DiagEmbed(x[1], o[1][1])
      [] m = "diagonal" -> Diagonal(x[1], o[1][1], o[1][2], o[1][3])
      [] m = "trace" -> Trace(x[1], o[1][1], o[1][2], o[1][3])
      [] m = "roll" -> Roll(x[1], o[1][1], o[1][2])
      [] m = "repeat_interleave" -> RepeatInterleave(x[1], o[1][1], o[1][2])
      [] m = "pad_reflect" -> PadReflect(x[1], o[1], o[2])
      [] m = "pad_replicate" -> PadReplicate(x[1], o[1], o[2])
      [] m = "take" -> Take(x[1], x[2], o[1][1])
      [] m = "take_along_axis" -> TakeAlongAxis(x[1], x[2], o[1][1])
      [] m = "index_add" -> IndexAdd(x[1], o[1][1], x[2], x[3])
      [] m = "index_add_along_axis" -> IndexAddAlongAxis(x[1], o[1][1], x[2], x[3])
      [] m = "dynamic_slice" -> DynamicSlice(x[1], Tail(x), o[1])
      [] m = "dynamic_update_slice" -> DynamicUpdateSlice(x[1], x[2], SubSeq(x, 3, Len(x)))
      [] m = "argmax" -> Argmax(x[1], o[1][1], o[1][2] = 1)
      [] m = "argsort" -> Argsort(x[1], o[1][1], o[1][2])
      [] m = "topk_values" -> TopkValues(x[1], o[1][1], o[1][2])
      [] m = "topk_indices" -> TopkIndices(x[1], o[1][1], o[1][2])
      [] m = "searchsorted" -> SearchSorted(x[1], x[2], o[1][1] = 1)
      [] m = "conv2d" -> Conv2d(x[1], x[2], o, FALSE)
      [] m = "conv2d_oihw" -> Conv2d(x[1], x[2], o, TRUE)
      [] m = "conv_transpose2d" -> ConvTranspose2d(x[1], x[2], o)
      [] m = "sum_pool" -> SumPool(x[1], o)
      [] m = "max_pool" -> MaxPool(x[1], o)
      [] m = "avg_pool" -> AvgPool(x[1], SubSeq(o, 1, 4), o[5][1] = 1)
      [] m = "sdpa" -> ScaledDotProductAttention(x[1], x[2], x[3], SubSeq(x, 4, Len(x)), o[1][1])
      [] m = "gqa" -> GroupedQueryAttention(x[1], x[2], x[3], SubSeq(x, 4, Len(x)), o[1][1])
      [] m \in LayerMethods -> LayerByName(m, o, x)

ProgramInit ==
    /\ family \in Families
    /\ graph = Tuple([i \in 1..Len(Parameters(family)) |->
                        LET p == Parameters(family)[i]
                        IN  [op |-> "parameter", attr |-> <<<<i>>>>, args |-> <<>>, dims |-> p.dims, dtype |-> p.dtype,
                             val |-> T(p.dims, p.val)]], Len(Parameters(family)))
    /\ out = 1
    /\ call = NoCall /\ calls = 0
    /\ sweep = NoSweep /\ orders = 0
    /\ program = NoProgram

(* A method call on the current tensor. *)
Called(c, result) == [method |-> c.method, opts |-> c.opts, with |-> c.with, on |-> out, result |-> result]
Return(c, r) ==
    /\ graph' = r.g /\ out' = r.id
    /\ call' = Called(c, r.id)
Evaluate(c, e) ==
    IF Failed(e)
    THEN /\ call' = Called(c, 0)
         /\ UNCHANGED <<graph, out>>
    ELSE Return(c, Record(graph, e, Len(graph)))
Apply ==
    /\ orders = 0 /\ program = NoProgram
    /\ \E c \in Calls(family, calls + 1) :
          LET operands == <<out>> \o c.with
          IN  Evaluate(c, ByName(c.method, c.opts,
                                 Tuple([j \in 1..Len(operands) |-> Ref(operands[j], graph[operands[j]])], Len(operands))))
    /\ calls' = calls + 1
    /\ UNCHANGED <<family, sweep, orders, program>>

(* grad of a scalar, vjp with a recorded cotangent otherwise, with respect to
   every F32 parameter of the family. *)
Inputs(g) == SelectSeq(Axes(Len(Parameters(family))), LAMBDA i : g[i].dtype = "f32")
Cotangent(dims) == Const(dims, Tuple([k \in 1..Cells(dims) |-> Mod(2 * k + 1)], Cells(dims)))
Swept(r, seed) ==
    /\ graph' = r.g
    /\ sweep' = [out |-> out, seed |-> seed, ids |-> r.ids, outcome |-> r.outcome]
DifferentiateFrom(seeded) == Swept(ReverseGradients(seeded.g, out, Inputs(graph), seeded.id), seeded.id)
Differentiate(order) ==
    /\ orders + 1 = order /\ program = NoProgram
    /\ order = 1 => calls > 0
    /\ DifferentiateFrom(IF graph[out].dims = <<>> THEN Recorded(graph, 0)
                         ELSE Record(graph, Cotangent(graph[out].dims), Len(graph)))
    /\ orders' = order
    /\ UNCHANGED <<family, out, call, calls, program>>

(* The program goes on with one of the gradients. *)
Continue ==
    /\ orders = 1 /\ out = sweep.out /\ program = NoProgram
    /\ out' \in {sweep.ids[k] : k \in 1..Len(sweep.ids)} \ {out}
    /\ UNCHANGED <<family, graph, call, calls, sweep, orders, program>>

(* Lowering.  Derivative operands are not forward dependencies: the source
   graph is walked without them, and the conversion replaces the node by the
   value it stands for. *)
Aliases == {"stop_gradient", "with_gradient", "with_elementwise_derivative"}
SourceOperands(n) == IF n.op \in {"with_gradient", "with_elementwise_derivative"} THEN {n.args[1]} ELSE {n.args[j] : j \in 1..Len(n.args)}
ReachableValues(g, outputs) == Reach(Tuple([i \in 1..Len(g) |-> SourceOperands(g[i])], Len(g)), outputs)
(* The node that stands for a node after the conversion. *)
RECURSIVE Stands(_, _)
Stands(g, i) == IF g[i].op \in Aliases THEN Stands(g, g[i].args[1]) ELSE i
(* The values of the emitted operations from `first` to `last`, in their order. *)
EmitNode(g, stands, emitted, i, values) ==
    LET n == g[i] IN
    IF i \notin emitted \/ n.op \in Aliases THEN <<>>
    ELSE IF n.op = "parameter" THEN n.val
    ELSE Lowered(n, Tuple([j \in 1..Len(n.args) |-> values[stands[n.args[j]]]], Len(n.args)))
RECURSIVE Emit(_, _, _, _, _, _), EmitAfter(_, _, _, _, _, _, _)
EmitAfter(g, stands, emitted, first, last, values, before) ==
    before \o Emit(g, stands, emitted, first, last, values \o before)
Emit(g, stands, emitted, first, last, values) ==
    IF first = last THEN <<EmitNode(g, stands, emitted, first, values)>>
    ELSE LET m == (first + last) \div 2
         IN  EmitAfter(g, stands, emitted, m + 1, last, values, Emit(g, stands, emitted, first, m, values))
ParametersAmong(g, reached) == SelectSeq(Axes(Len(g)), LAMBDA i : i \in reached /\ g[i].op = "parameter")
Signature(g, outputs) == ParametersAmong(g, ReachableValues(g, outputs))
EmitModule(g, outputs) ==             \* outputs: a sequence of nodes
    LET n == Len(g)
        stands == Tuple([i \in 1..n |-> Stands(g, i)], n)
        emitted == Reach(Tuple([i \in 1..n |-> {stands[g[i].args[j]] : j \in 1..Len(g[i].args)}], n),
                         {stands[outputs[k]] : k \in 1..Len(outputs)})
        values == Emit(g, stands, emitted, 1, n, <<>>)
    IN  [arguments |-> ParametersAmong(g, emitted),
         values |-> Tuple([k \in 1..Len(outputs) |-> values[stands[outputs[k]]]], Len(outputs))]
(* A program in one stage or two, with the arguments of each stage. *)
Program(cuts, prepared, module) ==
    [cuts |-> cuts, prepared |-> prepared, arguments |-> module.arguments, values |-> module.values]
Lower ==
    /\ calls > 0 /\ program = NoProgram
    /\ program' = Program(<<>>, <<>>, EmitModule(graph, <<out>>))
    /\ UNCHANGED <<family, graph, out, call, calls, sweep, orders>>

(* stage_many: the preparation computes the cuts, and in the execution each cut
   is a parameter for its prepared value. *)
SplitAt(g, cuts, prepared) ==
    Tuple([i \in 1..Len(g) |->
              IF \E k \in 1..Len(cuts) : cuts[k] = i
              THEN [g[i] EXCEPT !.op = "parameter", !.args = <<>>, !.val = prepared[CHOOSE k \in 1..Len(cuts) : cuts[k] = i]]
              ELSE g[i]], Len(g))
Staged(cuts, preparation) ==
    Program(cuts, preparation.arguments, EmitModule(SplitAt(graph, cuts, preparation.values), <<out>>))
(* Bound: the caller cuts at what it differentiated, at the operand of its last
   call, or at both, the later value first. *)
Cuts ==
    {cuts \in {<<sweep.out>>, <<call.on>>, <<sweep.out, call.on>>} :
        \A k \in 1..Len(cuts) : cuts[k] \notin {0, out} /\ graph[cuts[k]].op # "parameter"}
LowerStages ==
    /\ calls > 0 /\ program = NoProgram
    /\ \E cuts \in Cuts : program' = Staged(cuts, EmitModule(graph, cuts))
    /\ UNCHANGED <<family, graph, out, call, calls, sweep, orders>>

ProgramNext == Apply \/ Differentiate(1) \/ Differentiate(2) \/ Continue \/ Lower \/ LowerStages

-------------------------------------------------------------------------------
(* Graphs are well formed: operands are earlier nodes, every node has as many
   elements as its dimensions say, and a gradient has the type of its input. *)
ProgramTypeOK ==
    /\ out \in 1..Len(graph) /\ orders \in 0..2
    /\ \A i \in 1..Len(graph) :
          /\ \A j \in 1..Len(graph[i].args) : graph[i].args[j] \in 1..(i - 1)
          /\ graph[i].val.dims = graph[i].dims /\ Len(graph[i].val.val) = Cells(graph[i].dims)
          /\ graph[i].dtype = "f32" => \A k \in 1..Len(graph[i].val.val) : graph[i].val.val[k] \in 0..(P - 1)
    /\ \A k \in 1..Len(sweep.ids) : SameType(graph[sweep.ids[k]], graph[Inputs(graph)[k]])

(* The gradient is the adjoint of the derivative: for a fixed direction of the
   parameters, the inner product with the gradients is the inner product of the
   cotangent with the change of the output.  The same identity for a gradient
   of a gradient is the correctness of second-order differentiation. *)
Direction(j, dims) == T(dims, Tuple([k \in 1..Cells(dims) |-> Mod(3 * k + 7 * j + k * k)], Cells(dims)))
TangentOf(g, i, before) ==
    LET n == g[i] IN
    IF n.op = "parameter" THEN (IF n.dtype = "f32" THEN Direction(i, n.dims) ELSE Zeros(n.dims))
    ELSE OpTangent(n.op, n.attr, n.dims, Tuple([j \in 1..Len(n.args) |-> g[n.args[j]].val], Len(n.args)),
                   Tuple([j \in 1..Len(n.args) |-> before[n.args[j]]], Len(n.args)), n.val)
RECURSIVE Tangents(_, _, _, _), TangentsAfter(_, _, _, _, _)
TangentsAfter(g, first, last, before, some) == some \o Tangents(g, first, last, before \o some)
Tangents(g, first, last, before) ==
    IF first = last THEN <<TangentOf(g, first, before)>>
    ELSE LET m == (first + last) \div 2
         IN  TangentsAfter(g, m + 1, last, before, Tangents(g, first, m, before))
Inner(a, b) == Mod(SumTo([k \in 1..Len(a.val) |-> a.val[k] * b.val[k]], Len(a.val)))
GradientIsAdjoint ==
    sweep.outcome = "done" /\ call.method # "none" /\ program = NoProgram =>
        LET seed == IF sweep.seed = 0 THEN T(<<>>, <<1>>) ELSE graph[sweep.seed].val
            inputs == Inputs(graph)
        IN  Mod(SumTo([k \in 1..Len(inputs) |-> Inner(graph[sweep.ids[k]].val, Direction(inputs[k], graph[inputs[k]].dims))],
                      Len(inputs)))
            = Inner(seed, Tangents(graph, 1, sweep.out, <<>>)[sweep.out])

(* "Unsupported operations fail before gradient recording": once the live pass
   accepts a graph, every rule of the sweep succeeds. *)
SweepIsWhole == sweep.outcome \notin {"failed", "panicked"}

(* Whatever the methods and the sweep record is a well-formed graph that the
   verifier accepts operation by operation. *)
RecordedIsVerified ==
    /\ ProgramTypeOK
    /\ \A i \in 1..Len(graph) : \/ graph[i].op = "parameter"
                                 \/ Verified(graph[i], Tuple([j \in 1..Len(graph[i].args) |-> graph[graph[i].args[j]]], Len(graph[i].args)))

(* The emitted program takes the arguments that the signature announces, and
   computes what the tensor denotes; so do a preparation and an execution
   together, and no stage asks for an input that it could do without. *)
LoweredProgramMeansGraph ==
    program # NoProgram =>
        LET cuts == {program.cuts[k] : k \in 1..Len(program.cuts)}
            needed == Signature(SplitAt(graph, program.cuts, program.cuts), {out})
        IN  /\ program.values = <<graph[out].val>>
            /\ program.arguments = needed
            /\ program.prepared = Signature(graph, cuts)
            /\ \A k \in 1..Len(needed) : needed[k] \in cuts \/ \E j \in 1..Len(Signature(graph, {out})) : Signature(graph, {out})[j] = needed[k]

(* Composed methods return what they promise, with two exceptions.  PastEnd:
   searchsorted for a needle that lies beyond every value of a table whose
   length is not 2^k - 1, as SearchSortedAgrees shows.  OffCenter: a crop of an
   even extent to an odd one, whose top or left side loses the extra pixel
   (image.rs:65-66) although its documentation names the other (55-57). *)
Kept2k(n) == \E k \in 0..5 : n + 1 = 2^k
LastOperands == LET ids == <<call.on>> \o call.with IN Tuple([j \in 1..Len(ids) |-> graph[ids[j]].val], Len(ids))
LastAgrees ==
    graph[call.result].val = IF call.method \in LayerPromised
                             THEN LayerPromise(call.method, call.opts, LastOperands, graph[call.result].dims)
                             ELSE Promise(call.method, call.opts, LastOperands, graph[call.result].dims)
PastEnd == LET x == LastOperands IN
    /\ call.method = "searchsorted" /\ ~Kept2k(Len(x[1].val))
    /\ \E j \in 1..Len(x[2].val) : InsertionPoint(x[1], x[2].val[j], call.opts[1][1]) = Len(x[1].val)
OffCenter ==
    /\ call.method \in {"center_crop", "resize_with_crop_or_pad"}
    /\ \E axis \in {1, 2} : LET extent == graph[call.on].dims[axis + 1]
                                size == call.opts[1][axis]
                            IN  size < extent /\ extent % 2 = 0 /\ size % 2 = 1
ComposedAgree ==
    orders = 0 /\ program = NoProgram /\ call.result # 0 /\ call.method \in Promised \union LayerPromised =>
        PastEnd \/ OffCenter \/ LastAgrees
SearchSortedAgrees ==
    call.result # 0 /\ call.method = "searchsorted" => LastAgrees
=============================================================================
