------------------------------ MODULE OpVerifier ------------------------------
(***************************************************************************)
(* The rules that rxla-ir checks on every operation of a graph before it   *)
(* lowers it (rxla-ir/src/pliron/verification.rs), restricted to static    *)
(* dimensions and the element types F32 and I32.  They are independent of  *)
(* the checks that the methods of Tensor made when they recorded the       *)
(* operations: a graph that fails here fails when it is compiled.          *)
(***************************************************************************)
EXTENDS TensorOps

Float(xs) == \A i \in 1..Len(xs) : xs[i].dtype = "f32"
SameType(x, y) == x.dims = y.dims /\ x.dtype = y.dtype

MatmulVerified(n, x, y) ==
    LET r == Rank(n) IN
    /\ r >= 2 /\ Rank(x) = r /\ Rank(y) = r /\ x.dtype = y.dtype /\ x.dtype = n.dtype
    /\ \A i \in 1..(r - 2) : x.dims[i] = y.dims[i] /\ x.dims[i] = n.dims[i]
    /\ x.dims[r] = y.dims[r - 1]
    /\ n.dims[r - 1] = x.dims[r - 1] /\ n.dims[r] = y.dims[r]
AttentionVerified(n, xs) ==
    LET q == xs[1]  k == xs[2]  v == xs[3]  r == Rank(q)
        lead(t) == SubSeq(t.dims, 1, r - 2)
    IN  /\ Len(xs) \in {3, 4} /\ Float(xs) /\ r >= 2 /\ Rank(k) = r /\ Rank(v) = r
        /\ lead(q) = lead(k) /\ lead(q) = lead(v)
        /\ q.dims[r] > 0 /\ q.dims[r] = k.dims[r] /\ k.dims[r - 1] # 0 /\ k.dims[r - 1] = v.dims[r - 1]
        /\ n.dims = [q.dims EXCEPT ![r] = v.dims[r]]
        /\ Len(xs) = 4 => xs[4].dims = [q.dims EXCEPT ![r] = k.dims[r - 1]]
BroadcastVerified(n, x) ==
    LET axes == n.attr[1] IN
    /\ x.dtype = n.dtype /\ Len(axes) = Rank(x) /\ Increasing(axes, Rank(n))
    /\ \A i \in 1..Rank(x) : x.dims[i] = 1 \/ x.dims[i] = n.dims[axes[i]]
ConcatenateVerified(n, xs) ==
    LET axis == n.attr[1][1]
        dims == [xs[1].dims EXCEPT ![axis] = SumTo([i \in 1..Len(xs) |-> xs[i].dims[axis]], Len(xs))]
    IN  /\ xs # <<>> /\ OnAxis(xs[1], axis) /\ n.dims = dims
        /\ \A i \in 1..Len(xs) : xs[i].dtype = n.dtype /\ Drop(xs[i].dims, axis) = Drop(n.dims, axis)
TransposeVerified(n, x) ==
    LET perm == n.attr[1] IN
    /\ Len(perm) = Rank(x) /\ {perm[i] : i \in 1..Len(perm)} = 1..Rank(x)
    /\ n.dtype = x.dtype /\ n.dims = Tuple([i \in 1..Rank(x) |-> x.dims[perm[i]]], Rank(x))
ReductionVerified(n, x) ==
    /\ \A i, j \in 1..Len(n.attr[1]) : n.attr[1][i] \in 1..Rank(x) /\ (i # j => n.attr[1][i] # n.attr[1][j])
    /\ n.dtype = x.dtype /\ n.dims = Reduced(x.dims, n.attr[1])
ScalarIndices(xs, first, rank) ==
    Len(xs) = first + rank /\ \A i \in (first + 1)..Len(xs) : xs[i].dtype = "i32" /\ xs[i].dims = <<>>
DynamicSliceVerified(n, xs) ==
    /\ ScalarIndices(xs, 1, Rank(xs[1])) /\ n.dtype = xs[1].dtype /\ Rank(n) = Rank(xs[1])
    /\ \A i \in 1..Rank(n) : n.dims[i] <= xs[1].dims[i]
DynamicUpdateVerified(n, xs) ==
    /\ ScalarIndices(xs, 2, Rank(xs[1])) /\ SameType(n, xs[1]) /\ xs[2].dtype = n.dtype /\ Rank(xs[2]) = Rank(n)
    /\ \A i \in 1..Rank(n) : xs[2].dims[i] <= n.dims[i]
TakeDims(dims, ix, axis) == SubSeq(dims, 1, axis - 1) \o ix \o SubSeq(dims, axis + 1, Len(dims))
TakeVerified(n, x, ix) ==
    LET axis == n.attr[1][1] IN
    /\ OnAxis(x, axis) /\ x.dims[axis] # 0 /\ ix.dtype = "i32" /\ n.dtype = x.dtype
    /\ n.dims = TakeDims(x.dims, ix.dims, axis)
TakeAlongVerified(n, x, ix) ==
    LET axis == n.attr[1][1] IN
    /\ OnAxis(x, axis) /\ x.dims[axis] # 0 /\ ix.dtype = "i32" /\ n.dtype = x.dtype
    /\ Rank(ix) = Rank(x) /\ n.dims = ix.dims /\ Drop(x.dims, axis) = Drop(ix.dims, axis)
GatherGradientVerified(n, u, ix) ==
    LET axis == n.attr[1][1] IN
    /\ OnAxis(n, axis) /\ n.dims[axis] # 0 /\ u.dtype = "f32" /\ n.dtype = "f32" /\ ix.dtype = "i32"
    /\ IF n.attr[1][2] = 1 THEN Rank(ix) = Rank(n) /\ Drop(ix.dims, axis) = Drop(n.dims, axis) /\ u.dims = ix.dims
       ELSE u.dims = TakeDims(n.dims, ix.dims, axis)
SliceGradientVerified(n, x) ==
    LET s == n.attr IN
    /\ x.dtype = "f32" /\ n.dtype = "f32" /\ Len(s[1]) = Rank(x) /\ Rank(n) = Rank(x)
    /\ \A i \in 1..Rank(x) : /\ s[1][i] >= 0 /\ s[2][i] >= s[1][i] /\ s[3][i] > 0 /\ s[2][i] <= n.dims[i]
                             /\ x.dims[i] = IF s[2][i] = s[1][i] THEN 0 ELSE ((s[2][i] - s[1][i] - 1) \div s[3][i]) + 1
ArgmaxVerified(n, x) ==
    x.dtype = "f32" /\ n.dtype = "i32" /\ OnAxis(x, n.attr[1][1]) /\ n.dims = Drop(x.dims, n.attr[1][1])
SortedVerified(n, x) == x.dtype = "f32" /\ n.dtype = "i32" /\ OnAxis(x, n.attr[1][1]) /\ n.dims = x.dims
Conv2dVerified(n, x, kernel, oihw) ==
    LET o == n.attr  g == o[5][1]
        k == IF oihw THEN <<kernel.dims[3], kernel.dims[4], kernel.dims[2], kernel.dims[1]>> ELSE kernel.dims
    IN  /\ Float(<<n, x, kernel>>) /\ Rank(x) = 4 /\ Rank(kernel) = 4 /\ (\A i \in 1..4 : kernel.dims[i] > 0)
        /\ g > 0 /\ x.dims[4] > 0 /\ x.dims[4] % g = 0 /\ x.dims[4] \div g = k[3] /\ k[4] % g = 0 /\ PositiveWindow(o)
        /\ n.dims = <<x.dims[1]>> \o Tuple([a \in 1..2 |-> WindowOut(x.dims[a + 1], Extent(k, a, o), o[1][a], o[3][a], o[4][a])], 2)
                                  \o <<k[4]>>
PoolVerified(x, result) ==         \* result: the type the window produces
    LET o == result.attr IN Float(<<x, result>>) /\ Rank(x) = 4 /\ PositiveWindow(o) /\ result.dims = PoolDims(x, o)
MaxPoolGradientVerified(n, x, dy) ==
    /\ SameType(n, x) /\ Float(<<x, dy>>) /\ Rank(x) = 4 /\ PositiveWindow(n.attr) /\ dy.dims = PoolDims(x, n.attr)
ConvTransposeVerified(n, x, kernel) ==
    LET o == n.attr  g == o[5][1]  k == kernel.dims IN
    /\ Float(<<n, x, kernel>>) /\ Rank(x) = 4 /\ Rank(kernel) = 4 /\ Rank(n) = 4 /\ (\A i \in 1..4 : k[i] > 0)
    /\ x.dims[1] = n.dims[1] /\ g > 0 /\ x.dims[4] % g = 0 /\ x.dims[4] \div g = k[4] /\ k[3] % g = 0 /\ k[3] = n.dims[4]
    /\ PositiveWindow(o)
    /\ \A a \in 1..2 : o[6][a] \in 0..(o[1][a] - 1) /\ n.dims[a + 1] = TransposedOut(x.dims[a + 1], k, a, o) /\ n.dims[a + 1] >= 0
GradientWrapperVerified(n, xs, elementwise) ==
    /\ xs # <<>> /\ (elementwise => Len(xs) >= 3 /\ Len(xs) % 2 = 1)
    /\ \A i \in 1..Len(xs) : SameType(xs[i], n)

Verified(n, xs) ==
    CASE n.op = "matmul" -> MatmulVerified(n, xs[1], xs[2])
      [] n.op = "attention" -> AttentionVerified(n, xs)
      [] n.op = "reshape" -> n.dtype = xs[1].dtype /\ Cells(n.dims) = Cells(xs[1].dims)
      [] n.op = "broadcast" -> BroadcastVerified(n, xs[1])
      [] n.op = "concatenate" -> ConcatenateVerified(n, xs)
      [] n.op = "transpose" -> TransposeVerified(n, xs[1])
      [] n.op \in {"reduce_sum", "reduce_maximum"} -> ReductionVerified(n, xs[1])
      [] n.op = "dynamic_slice" -> DynamicSliceVerified(n, xs)
      [] n.op = "dynamic_update_slice" -> DynamicUpdateVerified(n, xs)
      [] n.op = "take" -> TakeVerified(n, xs[1], xs[2])
      [] n.op = "take_along_axis" -> TakeAlongVerified(n, xs[1], xs[2])
      [] n.op = "gather_gradient" -> GatherGradientVerified(n, xs[1], xs[2])
      [] n.op = "cumsum" -> SameType(n, xs[1]) /\ n.dtype = "f32" /\ OnAxis(n, n.attr[1][1]) /\ n.dims[n.attr[1][1]] > 1
      [] n.op = "slice_gradient" -> SliceGradientVerified(n, xs[1])
      [] n.op = "argmax" -> ArgmaxVerified(n, xs[1])
      [] n.op = "sorted_indices" -> SortedVerified(n, xs[1])
      [] n.op = "conv2d" -> Conv2dVerified(n, xs[1], xs[2], FALSE)
      [] n.op = "conv2d_oihw" -> Conv2dVerified(n, xs[1], xs[2], TRUE)
      [] n.op \in {"max_pool2d", "sum_pool2d"} -> PoolVerified(xs[1], n)
      [] n.op = "max_pool2d_gradient" -> MaxPoolGradientVerified(n, xs[1], xs[2])
      [] n.op = "conv_transpose2d" -> ConvTransposeVerified(n, xs[1], xs[2])
      [] n.op = "with_gradient" -> GradientWrapperVerified(n, xs, FALSE)
      [] n.op = "with_elementwise_derivative" -> GradientWrapperVerified(n, xs, TRUE)
      [] n.op \in {"constant", "constant_i32"} -> Len(n.attr[1]) = Cells(n.dims)
      [] n.op = "iota" -> n.dtype = "i32" /\ n.attr[1][1] \in 1..Rank(n)
      [] OTHER -> TRUE           \* no rule beyond the operand and result counts
=============================================================================
