---------------------------- MODULE ComposedMeaning ----------------------------
(***************************************************************************)
(* What the composed methods of Tensor promise about the values they       *)
(* return, stated element by element on the values of their operands; the  *)
(* compositions of ComposedOps are checked against it.  o holds the        *)
(* method's options as a sequence of integer sequences, x the operands.    *)
(***************************************************************************)
EXTENDS OpSemantics

Along(p, axis, i) == [p EXCEPT ![axis] = i]
Kept(x, axes) == Tuple([i \in 1..Len(x.dims) |-> IF \E j \in 1..Len(axes) : axes[j] = i THEN 1 ELSE x.dims[i]], Len(x.dims))
(* A reduction whose result keeps the reduced axes when asked to. *)
Reducing(x, axes, keep, F(_)) ==
    LET box(p) == Tabulate(Box(x.dims, axes), LAMBDA q : At(x, Expand(p, x.dims, axes, q)))
        r == Tabulate(Reduced(x.dims, axes), LAMBDA p : F(box(p)))
    IN  IF keep = 1 THEN T(Kept(x, axes), r.val) ELSE r
Total(t) == Mod(SumTo(t.val, Len(t.val)))
Average(t) == Div(Total(t), Mod(Len(t.val)))
Spread(t, correction) ==
    Div(Mod(SumTo([k \in 1..Len(t.val) |-> (t.val[k] - Average(t)) * (t.val[k] - Average(t))], Len(t.val))), Mod(Len(t.val) - correction))
Lowest(t) == CHOOSE v \in {t.val[k] : k \in 1..Len(t.val)} : \A k \in 1..Len(t.val) : Signed(v) <= Signed(t.val[k])

(* Prefixes.  The recurrence y[i] = a[i] * y[i - 1] + x[i] is affine_scan. *)
PrefixProduct(x, axis) ==
    LET upTo[k \in 0..x.dims[axis]] ==
            [p \in {PositionOf(x.dims, Strides(x.dims), c) : c \in 1..Cells(x.dims)} |->
                IF k = 0 THEN 1 ELSE Mod(upTo[k - 1][p] * At(x, Along(p, axis, k - 1)))]
    IN  Tabulate(x.dims, LAMBDA p : upTo[p[axis] + 1][p])
RECURSIVE Affine(_, _, _, _, _)
Affine(x, a, start, axis, p) ==       \* start(p) is the state before the first element
    IF p[axis] = 0 THEN Mod(At(a, p) * start[Offset(Drop(x.dims, axis), Drop(p, axis))] + At(x, p))
    ELSE Mod(At(a, p) * Affine(x, a, start, axis, Along(p, axis, p[axis] - 1)) + At(x, p))
AffineMeaning(x, a, start, axis) == Tabulate(x.dims, LAMBDA p : Affine(x, a, start, axis, p))

(* Rearrangements: each result element is the operand element at a position. *)
RollMeaning(x, shift, axis) == Tabulate(x.dims, LAMBDA p : At(x, Along(p, axis, (p[axis] - shift) % x.dims[axis])))
RepeatMeaning(x, n, axis) == Tabulate([x.dims EXCEPT ![axis] = @ * n], LAMBDA p : At(x, Along(p, axis, p[axis] \div n)))
Mirrored(i, n) == IF i < 0 THEN -i ELSE IF i >= n THEN 2 * (n - 1) - i ELSE i
PadEdgesMeaning(x, low, high, reflect) ==
    LET n == Len(x.dims)
        source(i, v) == IF reflect THEN Mirrored(v, x.dims[i]) ELSE Clamp(v, 0, x.dims[i] - 1)
    IN  Tabulate(Tuple([i \in 1..n |-> x.dims[i] + low[i] + high[i]], n),
                 LAMBDA p : At(x, Tuple([i \in 1..n |-> source(i, p[i] - low[i])], n)))
StackMeaning(args, axis) ==
    Tabulate(Put(args[1].dims, axis, <<Len(args)>>), LAMBDA p : At(args[p[axis] + 1], Drop(p, axis)))
InsertionPoint(x, needle, right) ==
    Cardinality({i \in 1..Len(x.val) : IF right = 1 THEN x.val[i] <= needle ELSE x.val[i] < needle})

(* Diagonals: element i lies at row i + max(-offset, 0), column i + max(offset, 0). *)
Row(offset, i) == i + (IF offset < 0 THEN -offset ELSE 0)
Col(offset, i) == i + (IF offset > 0 THEN offset ELSE 0)
DiagEmbedMeaning(x, offset) ==
    LET r == Len(x.dims)
        n == x.dims[r] + (IF offset < 0 THEN -offset ELSE offset)
        on(p, i) == p[r] = Row(offset, i) /\ p[r + 1] = Col(offset, i)
    IN  Tabulate(SubSeq(x.dims, 1, r - 1) \o <<n, n>>, LAMBDA p :
            IF \E i \in 0..(x.dims[r] - 1) : on(p, i)
            THEN At(x, SubSeq(p, 1, r - 1) \o <<CHOOSE i \in 0..(x.dims[r] - 1) : on(p, i)>>) ELSE 0)
DiagonalMeaning(x, offset, a, b) ==
    LET r == Len(x.dims)
        length == Cardinality({i \in 0..x.dims[a] : Row(offset, i) < x.dims[a] /\ Col(offset, i) < x.dims[b]})
        rest == SelectSeq(Tuple([i \in 1..r |-> i], r), LAMBDA i : i # a /\ i # b)
        source(p, i) == IF i = a THEN Row(offset, p[r - 1]) ELSE IF i = b THEN Col(offset, p[r - 1])
                        ELSE p[CHOOSE j \in 1..Len(rest) : rest[j] = i]
    IN  Tabulate(Append(Box(x.dims, rest), length), LAMBDA p : At(x, Tuple([i \in 1..r |-> source(p, i)], r)))
(* einsum: the sum over every assignment of the labels that are not kept. *)
EinsumMeaning(x, y, left, right, output) ==
    LET labels == left \o right
        in(s, l) == \E i \in 1..Len(s) : s[i] = l
        first(l) == CHOOSE i \in 1..Len(labels) : labels[i] = l /\ \A j \in 1..(i - 1) : labels[j] # l
        size(l) == (x.dims \o y.dims)[first(l)]
        summed == SelectSeq(Tuple([i \in 1..Len(labels) |-> IF first(labels[i]) = i /\ ~in(output, labels[i]) THEN labels[i] ELSE -1],
                                  Len(labels)), LAMBDA l : l >= 0)
        sizes(ls) == Tuple([i \in 1..Len(ls) |-> size(ls[i])], Len(ls))
        value(p, q, l) == IF in(output, l) THEN p[CHOOSE i \in 1..Len(output) : output[i] = l]
                          ELSE q[CHOOSE i \in 1..Len(summed) : summed[i] = l]
        place(p, q, ls) == Tuple([i \in 1..Len(ls) |-> value(p, q, ls[i])], Len(ls))
    IN  Tabulate(sizes(output), LAMBDA p : SumOver(sizes(summed), LAMBDA q : At(x, place(p, q, left)) * At(y, place(p, q, right))))
DotGeneralMeaning(x, y, o) ==          \* o: contracted axes of x, of y, batch axes of x, of y
    LET n == Len(x.dims)
        index(s, v) == CHOOSE i \in 1..Len(s) : s[i] = v
        in(s, v) == \E i \in 1..Len(s) : s[i] = v
        right == Tuple([j \in 1..Len(y.dims) |-> IF in(o[2], j) THEN o[1][index(o[2], j)]
                                                 ELSE IF in(o[4], j) THEN o[3][index(o[4], j)] ELSE n + j], Len(y.dims))
        left == Tuple([i \in 1..n |-> i], n)
    IN  EinsumMeaning(x, y, left, right, o[3] \o SelectSeq(left, LAMBDA i : ~in(o[1] \o o[3], i)) \o SelectSeq(right, LAMBDA l : l > n))

(* matmul and attention read a broadcast operand at index 0. *)
Aligned(t, p) == Tuple([i \in 1..Len(t.dims) |-> IF t.dims[i] = 1 THEN 0 ELSE p[Len(p) - Len(t.dims) + i]], Len(t.dims))
MatrixProduct(x, y) ==
    LET a == IF Len(x.dims) = 1 THEN T(<<1>> \o x.dims, x.val) ELSE x
        b == IF Len(y.dims) = 1 THEN T(y.dims \o <<1>>, y.val) ELSE y
        l == Len(a.dims)  r == Len(b.dims)  n == IF l > r THEN l ELSE r
        side(d, i) == IF i > n - Len(d) THEN d[i - (n - Len(d))] ELSE 1
        batch == Tuple([i \in 1..(n - 2) |-> IF side(a.dims, i) = 1 THEN side(b.dims, i) ELSE side(a.dims, i)], n - 2)
        cell(p) == SumOver(<<a.dims[l]>>, LAMBDA k : At(a, Append(Aligned(T(SubSeq(a.dims, 1, l - 1), <<>>), SubSeq(p, 1, n - 1)), k[1]))
                       * At(b, Append(Aligned(T(SubSeq(b.dims, 1, r - 1), <<>>), SubSeq(p, 1, n - 2) \o <<k[1]>>), p[n])))
        full == Tabulate(batch \o <<a.dims[l - 1], b.dims[r]>>, cell)
        noColumn == IF Len(y.dims) = 1 THEN SubSeq(full.dims, 1, n - 1) ELSE full.dims
    IN  T(IF Len(x.dims) = 1 THEN Drop(noColumn, n - 1) ELSE noColumn, full.val)
(* Query head h reads key and value head h div (query heads / key heads). *)
GroupedAttentionMeaning(scale, args) ==
    LET q == args[1]  r == Len(q.dims)  h == r - 2
        share == q.dims[h] \div args[2].dims[h]
        perHead(t) == Tabulate([t.dims EXCEPT ![h] = q.dims[h]], LAMBDA p : At(t, [p EXCEPT ![h] = @ \div share]))
        scores == [q.dims EXCEPT ![r] = args[2].dims[r - 1]]
        mask == IF Len(args) = 4 THEN <<Tabulate(scores, LAMBDA p : At(args[4], Aligned(args[4], p)))>> ELSE <<>>
    IN  AttentionMeaning(scale, [q.dims EXCEPT ![r] = args[3].dims[r]], <<q, perHead(args[2]), perHead(args[3])>> \o mask)
AveragePoolMeaning(attr, countPadding, dims, x) ==
    Tabulate(dims, LAMBDA p : LET taps == Window(attr, x, p)
                                  n == IF countPadding = 1 THEN attr[1][1] * attr[1][2] ELSE Len(taps)
                              IN  Div(Mod(SumTo([i \in 1..Len(taps) |-> At(x, taps[i])], Len(taps))), Mod(n)))
ScatterAddMeaning(x, u, ix, axis, batched) ==
    LET added == GatherGradientMeaning(axis, batched, x.dims, u, ix) IN Map2(x, added, LAMBDA a, b : Mod(a + b))
LogSoftmaxMeaning(axis, x) ==
    LET top(p) == Highest({At(x, Along(p, axis, j)) : j \in 0..(x.dims[axis] - 1)}) IN
    Tabulate(x.dims, LAMBDA p : Mod(At(x, p) - top(p)
        - Log(SumOver(<<x.dims[axis]>>, LAMBDA j : Exp(Mod(At(x, Along(p, axis, j[1])) - top(p)))))))

(* The methods with a promise of this kind, and the promise; the dimensions
   are those of the recorded result where the promise does not fix them. *)
Promised == {"clamp", "min", "mean", "variance", "softmax", "log_softmax", "cumprod", "doubling_mul", "affine_scan", "affine_scan_from",
             "roll", "repeat_interleave", "pad_reflect", "pad_replicate", "stack", "searchsorted", "diag_embed", "diagonal", "trace",
             "einsum", "dot_general", "matmul", "gqa", "avg_pool", "index_add", "index_add_along_axis", "topk_values", "topk_indices"}
Promise(method, o, x, dims) ==
    CASE method = "clamp" -> Map(x[1], LAMBDA v : Greatest(Mod(o[1][1]), Least(v, Mod(o[1][2]))))
      [] method = "min" -> Reducing(x[1], o[1], o[2][1], Lowest)
      [] method = "mean" -> Reducing(x[1], o[1], o[2][1], Average)
      [] method = "variance" -> Reducing(x[1], o[1], o[2][1], LAMBDA t : Spread(t, o[2][2]))
      [] method = "softmax" -> SoftmaxMeaning(o[1][1], x[1])
      [] method = "log_softmax" -> LogSoftmaxMeaning(o[1][1], x[1])
      [] method \in {"cumprod", "doubling_mul"} -> PrefixProduct(x[1], o[1][1])
      [] method = "affine_scan" -> AffineMeaning(x[1], x[2], Zeros(Drop(x[1].dims, o[1][1])).val, o[1][1])
      [] method = "affine_scan_from" -> AffineMeaning(x[1], x[2], x[3].val, o[1][1])
      [] method = "roll" -> RollMeaning(x[1], o[1][1], o[1][2])
      [] method = "repeat_interleave" -> RepeatMeaning(x[1], o[1][1], o[1][2])
      [] method \in {"pad_reflect", "pad_replicate"} -> PadEdgesMeaning(x[1], o[1], o[2], method = "pad_reflect")
      [] method = "stack" -> StackMeaning(x, o[1][1])
      [] method = "searchsorted" -> Map(x[2], LAMBDA v : InsertionPoint(x[1], v, o[1][1]))
      [] method = "diag_embed" -> DiagEmbedMeaning(x[1], o[1][1])
      [] method = "diagonal" -> DiagonalMeaning(x[1], o[1][1], o[1][2], o[1][3])
      [] method = "trace" -> LET d == DiagonalMeaning(x[1], o[1][1], o[1][2], o[1][3]) IN ReduceSumMeaning(<<Len(d.dims)>>, d)
      [] method = "einsum" -> EinsumMeaning(x[1], x[2], o[1], o[2], o[3])
      [] method = "dot_general" -> DotGeneralMeaning(x[1], x[2], o)
      [] method = "matmul" -> MatrixProduct(x[1], x[2])
      [] method = "gqa" -> GroupedAttentionMeaning(o[1][1], x)
      [] method = "avg_pool" -> AveragePoolMeaning(o, o[5][1], dims, x[1])
      [] method = "index_add" -> ScatterAddMeaning(x[1], x[3], x[2], o[1][1], 0)
      [] method = "index_add_along_axis" -> ScatterAddMeaning(x[1], x[3], x[2], o[1][1], 1)
      [] method = "topk_indices" -> Tabulate(dims, LAMBDA p : At(SortedMeaning(o[1][2], 1, x[1]), p))
      [] method = "topk_values" -> Tabulate(dims, LAMBDA p : At(x[1], Along(p, o[1][2], At(SortedMeaning(o[1][2], 1, x[1]), p))))
=============================================================================
