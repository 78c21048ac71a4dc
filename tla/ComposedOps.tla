----------------------------- MODULE ComposedOps -----------------------------
(***************************************************************************)
(* The methods of Tensor that are compositions of recorded operations.     *)
(* ComposedMeaning states what each of them promises.                      *)
(***************************************************************************)
EXTENDS TensorOps

Clamped(x, low, high) ==
    IF low > high THEN Err
    ELSE LET result == Binary("minimum", Binary("maximum", x, Fill(Mod(low), x.dims)), Fill(Mod(high), x.dims))
         IN  IF low = high THEN Detach(result) ELSE result
Minimum(x, axes, keep) == IF axes = <<>> THEN x ELSE Neg(MaxOver(Neg(x), axes, keep))
Count(x, axes) == Cells(Box(x.dims, axes))
Mean(x, axes, keep) ==
    IF Count(x, axes) = 0 THEN Err ELSE MulScalar(Sum(x, axes, keep), Inv(Mod(Count(x, axes))))
Centered(x, axes) == Sub(x, BroadcastTo(Mean(x, axes, TRUE), x.dims))
Squared(x) == Mul(x, x)
Variance(x, axes, keep, correction) ==
    IF correction >= Count(x, axes) THEN Err
    ELSE MulScalar(Sum(Squared(Centered(x, axes)), axes, keep), Inv(Mod(Count(x, axes) - correction)))
Shifted(x, axis) == Sub(x, BroadcastTo(Detach(MaxOver(x, <<axis>>, TRUE)), x.dims))
Shares(e, axis) == Divide(e, BroadcastTo(Sum(e, <<axis>>, TRUE), e.dims))
Softmax(x, axis) ==
    IF ~OnAxis(x, axis) \/ x.dims[axis] = 0 THEN Err
    ELSE Shares(Unary("exp", Shifted(x, axis)), axis)
LogShares(c, axis) == Sub(c, BroadcastTo(Unary("log", Sum(Unary("exp", c), <<axis>>, TRUE)), c.dims))
LogSoftmax(x, axis) ==
    IF ~OnAxis(x, axis) \/ x.dims[axis] = 0 THEN Err ELSE LogShares(Shifted(x, axis), axis)
FiniteOr0(x) == Detach(Select(Unary("is_finite", x), x, Fill(0, x.dims)))
LogSumAbove(x, axes, shift) ==
    Add(Unary("log", Sum(Unary("exp", Sub(x, BroadcastTo(shift, x.dims))), axes, TRUE)), shift)
LogSumExp(x, axes, keep) ==
    LET result == LogSumAbove(x, axes, FiniteOr0(MaxOver(x, axes, TRUE)))
    IN  IF axes = <<>> THEN x ELSE IF keep THEN result ELSE Reshape(result, Reduced(x.dims, axes))
LogAddExp(x, y) ==
    LET maximum == Binary("maximum", x, y)
        delta == Sub(x, y)
        finite == Add(maximum, Unary("log1p", Unary("exp", Neg(Unary("abs", delta)))))
        nonfinite == Unary("log", Add(Unary("exp", x), Unary("exp", y)))
    IN  WithElementwiseDerivatives(Select(Unary("is_finite", maximum), finite, nonfinite),
            <<x, Unary("sigmoid", delta), y, Unary("sigmoid", Neg(delta))>>)

(* Scans.  step names the associative combination of two stretches. *)
ComposeAffinePairs(left, right) ==
    LET axis == Rank(left)
        a == Narrow(right, axis, 0, 1)
        b == Add(Mul(a, Narrow(left, axis, 1, 1)), Narrow(right, axis, 1, 1))
    IN  Concatenate(<<Mul(a, Narrow(left, axis, 0, 1)), b>>, axis)
Combine(step, left, right) ==
    CASE step = "mul" -> Mul(left, right)
      [] step = "affine" -> ComposeAffinePairs(left, right)
      [] step = "logaddexp" -> LogAddExp(left, right)
(* The tree scan: the prefixes of pairs are those at the odd positions, and one
   more step gives those at the even positions. *)
EverySecond(x, axis, start) ==
    Slice(x, [Repeat(0, Rank(x)) EXCEPT ![axis] = start], x.dims, [Repeat(1, Rank(x)) EXCEPT ![axis] = 2])
InterleavePairs(x, axis, pairs, even, odd) ==
    Reshape(Stack(<<Narrow(even, axis, 0, pairs), odd>>, axis + 1), [x.dims EXCEPT ![axis] = 2 * pairs])
Interleaved(x, axis, pairs, even, odd) ==
    IF x.dims[axis] % 2 = 0 THEN InterleavePairs(x, axis, pairs, even, odd)
    ELSE Concatenate(<<InterleavePairs(x, axis, pairs, even, odd), Narrow(even, axis, pairs, 1)>>, axis)
EvenPrefixes(x, axis, step, even, odd, remaining) ==
    LET first == Narrow(x, axis, 0, 1)
    IN  IF remaining = 0 THEN first
        ELSE Concatenate(<<first, Combine(step, Narrow(odd, axis, 0, remaining), Narrow(even, axis, 1, remaining))>>, axis)
ScanPrefixes(x, axis, step, pairs, even, odd) ==
    Interleaved(x, axis, pairs, EvenPrefixes(x, axis, step, even, odd, x.dims[axis] - pairs - 1), odd)
RECURSIVE PrefixTree(_, _, _), PairPrefixes(_, _, _, _, _)
PairPrefixes(x, axis, step, pairs, even) ==
    ScanPrefixes(x, axis, step, pairs, even,
             PrefixTree(Combine(step, Narrow(even, axis, 0, pairs), EverySecond(x, axis, 1)), axis, step))
PrefixTree(x, axis, step) ==
    IF ~OnAxis(x, axis) THEN Err
    ELSE IF x.dims[axis] <= 1 \/ Cells(x.dims) = 0 THEN x
    ELSE PairPrefixes(x, axis, step, x.dims[axis] \div 2, EverySecond(x, axis, 0))
Cumprod(x, axis) == PrefixTree(x, axis, "mul")
LogCumsumExpTree(x, axis) == PrefixTree(x, axis, "logaddexp")
AffinePrefixPairs(x, multiplier, axis) ==
    IF ~OnAxis(x, axis) \/ x.dims # multiplier.dims THEN Err
    ELSE PrefixTree(Stack(<<multiplier, x>>, Rank(x) + 1), axis, "affine")
PairPart(pairs, i, dims) == Reshape(Narrow(pairs, Len(dims) + 1, i, 1), dims)
AffineScan(x, multiplier, axis) == PairPart(AffinePrefixPairs(x, multiplier, axis), 1, x.dims)
AffineFrom(pairs, start, dims) == Add(Mul(PairPart(pairs, 0, dims), start), PairPart(pairs, 1, dims))
AffineScanFrom(x, multiplier, initial, axis) ==
    IF ~OnAxis(x, axis) \/ initial.dims # Drop(x.dims, axis) THEN Err
    ELSE AffineFrom(AffinePrefixPairs(x, multiplier, axis),
                    BroadcastTo(Reshape(initial, [x.dims EXCEPT ![axis] = 1]), x.dims), x.dims)
(* The doubling scan: offsets 1, 2, 4, ... until they reach the length. *)
RECURSIVE Doubling(_, _, _, _)
Doubling(result, axis, offset, step) ==
    LET length == result.dims[axis]
    IN  IF offset >= length THEN result
        ELSE Doubling(Concatenate(<<Narrow(result, axis, 0, offset),
                                    Combine(step, Narrow(result, axis, offset, length - offset),
                                            Narrow(result, axis, 0, length - offset))>>, axis), axis, 2 * offset, step)
DoublingScan(x, axis, step) ==
    IF ~OnAxis(x, axis) THEN Err
    ELSE IF x.dims[axis] <= 1 \/ Cells(x.dims) = 0 THEN x ELSE Doubling(x, axis, 1, step)
LogCumsumExp(x, axis) == DoublingScan(x, axis, "logaddexp")

(* Rearrangements. *)
Roll(x, shift, axis) ==
    IF ~OnAxis(x, axis) THEN Err
    ELSE LET size == x.dims[axis]  s == shift % size
         IN  IF size = 0 THEN x ELSE IF s = 0 THEN x
             ELSE Concatenate(<<Narrow(x, axis, size - s, s), Narrow(x, axis, 0, size - s)>>, axis)
RepeatInterleave(x, repeats, axis) ==
    IF ~OnAxis(x, axis) \/ repeats < 0 THEN Err
    ELSE IF repeats = 1 THEN x
    ELSE Reshape(BroadcastTo(Unsqueeze(x, axis + 1), Put(x.dims, axis + 1, <<repeats>>)),
                 [x.dims EXCEPT ![axis] = @ * repeats])
(* Both paddings work axis by axis, each on the result of the one before. *)
(* Mutant: the edge itself is repeated. *)
ReflectPieceWithEdge(x, axis, width, side) ==
    Flip(Narrow(x, axis, IF side = "low" THEN 0 ELSE x.dims[axis] - width, width), <<axis>>)
ReflectPiece(x, axis, width, side) ==
    Flip(Narrow(x, axis, IF side = "low" THEN 1 ELSE x.dims[axis] - width - 1, width), <<axis>>)
EdgePiece(x, axis, width, side) ==
    BroadcastTo(Narrow(x, axis, IF side = "low" THEN 0 ELSE x.dims[axis] - 1, 1), [x.dims EXCEPT ![axis] = width])
RECURSIVE PadAxes(_, _, _, _, _)
PadAxes(x, low, high, axis, reflect) ==
    LET piece(width, side) == IF width = 0 THEN <<>>
                              ELSE IF reflect THEN <<ReflectPiece(x, axis, width, side)>>
                              ELSE <<EdgePiece(x, axis, width, side)>>
    IN  IF axis > Rank(x) THEN x
        ELSE IF low[axis] = 0 /\ high[axis] = 0 THEN PadAxes(x, low, high, axis + 1, reflect)
        ELSE PadAxes(Concatenate(piece(low[axis], "low") \o <<x>> \o piece(high[axis], "high"), axis),
                     low, high, axis + 1, reflect)
PadReflect(x, low, high) ==
    IF \E i \in 1..Rank(x) : (low[i] > 0 /\ low[i] >= x.dims[i]) \/ (high[i] > 0 /\ high[i] >= x.dims[i]) THEN Err
    ELSE PadAxes(x, low, high, 1, TRUE)
PadReplicate(x, low, high) ==
    IF \E i \in 1..Rank(x) : x.dims[i] = 0 /\ (low[i] # 0 \/ high[i] # 0) THEN Err
    ELSE PadAxes(x, low, high, 1, FALSE)

(* Binary search in a fixed number of rounds, one per bit of the length. *)
RECURSIVE BitLength(_), SearchRounds(_, _, _, _, _, _)
BitLength(n) == IF n = 0 THEN 0 ELSE 1 + BitLength(n \div 2)
SearchRounds(x, needles, right, low, high, rounds) ==
    IF rounds = 0 THEN low
    ELSE LET middle == Binary("shift_right", Add(low, high), BroadcastTo(ConstI32(<<>>, <<1>>), low.dims))
             values == Take(x, middle, 1)
             advance == IF right THEN LeMask(values, needles) ELSE Binary("lt", values, needles)
             up == Add(middle, BroadcastTo(ConstI32(<<>>, <<1>>), middle.dims))
         IN  SearchRounds(x, needles, right, Select(advance, up, low), Select(advance, high, middle), rounds - 1)
SearchSorted(x, needles, right) ==
    LET start(v) == BroadcastTo(ConstI32(<<>>, <<v>>), needles.dims) IN
    IF x.dtype # "i32" \/ needles.dtype # "i32" \/ Rank(x) # 1 THEN Err
    ELSE IF x.dims[1] = 0 THEN start(0)
    ELSE SearchRounds(x, needles, right, start(0), start(x.dims[1]), BitLength(x.dims[1]))

(* Diagonals and contractions. *)
DiagEmbed(x, offset) ==
    LET r == Rank(x)
        n == x.dims[r]
        shift == IF offset < 0 THEN -offset ELSE offset
        flat == [x.dims EXCEPT ![r] = n * (n + 1)]
        lead == SubSeq(x.dims, 1, r - 1)
        none == Repeat(0, r + 1)
        square == Reshape(Slice(Reshape(Pad(Unsqueeze(x, r + 1), none, [none EXCEPT ![r + 1] = n], 0), flat),
                                Repeat(0, r), [flat EXCEPT ![r] = n * n], Repeat(1, r)), lead \o <<n, n>>)
    IN  IF offset >= 0 THEN Pad(square, [none EXCEPT ![r + 1] = shift], [none EXCEPT ![r] = shift], 0)
        ELSE Pad(square, [none EXCEPT ![r] = shift], [none EXCEPT ![r + 1] = shift], 0)
Smaller(a, b) == IF a < b THEN a ELSE b
Diagonal(x, offset, axis1, axis2) ==
    LET r == Rank(x)
        rows == x.dims[axis1]  cols == x.dims[axis2]
        row == IF offset < 0 THEN Smaller(-offset, rows) ELSE 0
        col == IF offset > 0 THEN Smaller(offset, cols) ELSE 0
        length == Smaller(rows - row, cols - col)
        rest == SelectSeq(Axes(r), LAMBDA a : a \notin {axis1, axis2})
        shape == Append(Box(x.dims, rest), rows * cols)
        start == IF length = 0 THEN 0 ELSE row * cols + col
        stride == IF length <= 1 THEN 1 ELSE cols + 1
        at(v, base) == [base EXCEPT ![r - 1] = v]
    IN  IF ~OnAxis(x, axis1) \/ ~OnAxis(x, axis2) \/ axis1 = axis2 THEN Err
        ELSE Slice(Reshape(Transpose(x, rest \o <<axis1, axis2>>), shape),
                   at(start, Repeat(0, r - 1)), at(IF length = 0 THEN 0 ELSE start + (length - 1) * stride + 1, shape),
                   at(stride, Repeat(1, r - 1)))
Trace(x, offset, axis1, axis2) == LET d == Diagonal(x, offset, axis1, axis2) IN Sum(d, <<Rank(d)>>, FALSE)
DotGeneral(x, y, contractX, contractY, batchX, batchY) ==
    LET free(t, used) == SelectSeq(Axes(Rank(t)), LAMBDA a : ~Listed(used, a))
        freeX == free(x, contractX \o batchX)
        freeY == free(y, contractY \o batchY)
        batch == Box(x.dims, batchX)
        m == Count(x, freeX)  k == Count(x, contractX)  n == Count(y, freeY)
    IN  IF Box(x.dims, batchX \o contractX) # Box(y.dims, batchY \o contractY) THEN Err
        ELSE Reshape(Matmul(Reshape(Transpose(x, batchX \o freeX \o contractX), batch \o <<m, k>>),
                            Reshape(Transpose(y, batchY \o contractY \o freeY), batch \o <<k, n>>)),
                     batch \o Box(x.dims, freeX) \o Box(y.dims, freeY))
(* einsum with an explicit output; labels are small numbers. *)
RECURSIVE Diagonals(_, _)
Diagonals(x, labels) ==
    LET pairs == {<<i, j>> \in (1..Len(labels)) \X (1..Len(labels)) : i < j /\ labels[i] = labels[j]}
        pair == CHOOSE p \in pairs : \A q \in pairs : p[1] < q[1] \/ (p[1] = q[1] /\ p[2] <= q[2])
    IN  IF pairs = {} THEN [x |-> x, labels |-> labels]
        ELSE Diagonals(Diagonal(x, 0, pair[1], pair[2]),
                       Append(Drop(Drop(labels, pair[2]), pair[1]), labels[pair[1]]))
KeptLabels(d, needed) ==
    [x |-> Sum(d.x, SelectSeq(Axes(Len(d.labels)), LAMBDA i : d.labels[i] \notin needed), FALSE),
     labels |-> SelectSeq(d.labels, LAMBDA l : l \in needed)]
EinsumOperand(x, labels, other, output) ==
    KeptLabels(Diagonals(x, labels), {other[i] : i \in 1..Len(other)} \union {output[i] : i \in 1..Len(output)})
IndexIn(s, v) == CHOOSE i \in 1..Len(s) : s[i] = v
Places(labels, ls) == Tuple([i \in 1..Len(ls) |-> IndexIn(labels, ls[i])], Len(ls))
Only(labels, other) == SelectSeq(labels, LAMBDA l : ~Listed(other, l))
Shared(labels, other) == SelectSeq(labels, LAMBDA l : Listed(other, l))
EinsumContract(a, b, batch, contract, output) ==
    Transpose(DotGeneral(a.x, b.x, Places(a.labels, contract), Places(b.labels, contract), Places(a.labels, batch), Places(b.labels, batch)),
              Places(batch \o Only(a.labels, b.labels) \o Only(b.labels, a.labels), output))
EinsumPair(a, b, output) ==
    LET shared == Shared(a.labels, b.labels) IN EinsumContract(a, b, Shared(shared, output), Only(shared, output), output)
EinsumAfter(a, y, right, output) == EinsumPair(a, EinsumOperand(y, right, a.labels, output), output)
Einsum(x, y, left, right, output) ==
    LET sizeOf(l) == IF Listed(left, l) THEN x.dims[IndexIn(left, l)] ELSE y.dims[IndexIn(right, l)]
    IN  IF \E l \in {left[i] : i \in 1..Len(left)} \union {right[i] : i \in 1..Len(right)} : sizeOf(l) = 0 /\ ~Listed(output, l)
        THEN Fill(0, Tuple([i \in 1..Len(output) |-> sizeOf(output[i])], Len(output)))
        ELSE EinsumAfter(EinsumOperand(x, left, right, output), y, right, output)
=============================================================================
