---------------------------- MODULE LayerMeaning ----------------------------
(***************************************************************************)
(* What the losses, normalizations, layers, box and image methods of       *)
(* LayerOps promise, element by element, from their documentation in       *)
(* nn.rs, boxes.rs, resize.rs, image.rs and rearrange.rs: the normalized   *)
(* methods by the set of elements that share statistics, the overlap of    *)
(* boxes by counting unit cells, the resizes by the interpolation kernel.  *)
(***************************************************************************)
EXTENDS ComposedMeaning

(* Losses.  17 and 9 stand for the invalid marker and 0.5 ln(2 pi). *)
Points(dims) == LET s == Strides(dims) IN Tuple([k \in 1..Cells(dims) |-> PositionOf(dims, s, k)], Cells(dims))
NormalDensity(x, mean, logStd) ==
    LET z == Div(Mod(x - mean), Exp(logStd)) IN Mod(-(Half * z * z) - logStd - 9)
Huber(r, delta) ==
    LET m == Mod(IF Signed(r) < 0 THEN -r ELSE r)
    IN  IF Signed(m) <= Signed(delta) THEN Mod(Half * r * r) ELSE Mod(delta * (m - Half * delta))
Softplus(x) == Elementwise1("softplus", x)
ClassLoss(x, ids, axis) ==
    LET log == LogSoftmaxMeaning(axis, x) IN
    Tabulate(ids.dims, LAMBDA p : IF At(ids, p) \in 0..(x.dims[axis] - 1) THEN Mod(-At(log, Put(p, axis, <<At(ids, p)>>))) ELSE 17)
ProbabilityLoss(x, targets, axis) ==
    LET log == LogSoftmaxMeaning(axis, x) IN
    Tabulate(Drop(x.dims, axis), LAMBDA p :
        Mod(-SumOver(<<x.dims[axis]>>, LAMBDA j : At(targets, Put(p, axis, j)) * At(log, Put(p, axis, j)))))
(* The mean over all actions of F(log probability, old log probability, advantage). *)
Objective(x, ids, old, advantages, axis, F(_, _, _)) ==
    LET loss == ClassLoss(x, ids, axis)
        each == Tuple([k \in 1..Len(ids.val) |-> F(Mod(-loss.val[k]), old.val[k], advantages.val[k])], Len(ids.val))
    IN  T(<<>>, <<Mod(-Average(T(<<Len(each)>>, each)))>>)
Surrogate(new, old, advantage, clip) ==
    LET ratio == Exp(Mod(new - old))
        clipped == Greatest(Mod(1 - clip), Least(ratio, Mod(1 + clip)))
    IN  Least(Mod(ratio * advantage), Mod(clipped * advantage))

(* Normalizations: every element is centered and scaled by the statistics of
   its peers, then by the affine parameters found at `place`. *)
Peers(x, alike(_, _), p) ==
    LET all == SelectSeq(Points(x.dims), LAMBDA q : alike(p, q))
    IN  T(<<Len(all)>>, Tuple([k \in 1..Len(all) |-> At(x, all[k])], Len(all)))
Normalized(x, alike(_, _), epsilon, affine, place(_)) ==
    Tabulate(x.dims, LAMBDA p :
        LET peers == Peers(x, alike, p)
            z == (At(x, p) - Average(peers)) * Rsqrt(Mod(Spread(peers, 0) + epsilon))
        IN  Mod((IF Len(affine) >= 1 THEN z * At(affine[1], place(p)) ELSE z) + (IF Len(affine) >= 2 THEN At(affine[2], place(p)) ELSE 0)))
LayerNormMeaning(x, rank, epsilon, affine) ==
    LET lead == Len(x.dims) - rank IN
    Normalized(x, LAMBDA p, q : SubSeq(p, 1, lead) = SubSeq(q, 1, lead), epsilon, affine, LAMBDA p : SubSeq(p, lead + 1, Len(p)))
GroupNormMeaning(x, groups, epsilon, affine, c) ==
    LET size == x.dims[c] \div groups IN
    Normalized(x, LAMBDA p, q : p[1] = q[1] /\ p[c] \div size = q[c] \div size, epsilon, affine, LAMBDA p : <<p[c]>>)
BatchNormMeaning(x, epsilon, affine, c) ==
    Normalized(x, LAMBDA p, q : p[c] = q[c], epsilon, affine, LAMBDA p : <<p[c]>>)
FixedNormMeaning(x, weight, bias, mean, variance, epsilon, c) ==
    Tabulate(x.dims, LAMBDA p : LET i == <<p[c]>> IN
        Mod((At(x, p) - At(mean, i)) * Rsqrt(Mod(At(variance, i) + epsilon)) * At(weight, i) + At(bias, i)))
(* The exponential average of the batch mean and of the sample variance. *)
RunningMeaning(x, mean, variance, momentum, c) ==
    Tabulate(<<2, x.dims[c]>>, LAMBDA p :
        LET peers == Peers(x, LAMBDA a, q : q[c] = a, p[2])
            observed == IF p[1] = 0 THEN Average(peers) ELSE Spread(peers, IF Len(peers.val) > 1 THEN 1 ELSE 0)
        IN  Mod((1 - momentum) * (IF p[1] = 0 THEN mean ELSE variance).val[p[2] + 1] + momentum * observed))
RmsNormMeaning(x, weight, epsilon) ==
    LET n == Len(x.dims)
        square(p) == SumOver(<<x.dims[n]>>, LAMBDA j : At(x, Along(p, n, j[1])) * At(x, Along(p, n, j[1])))
    IN  Tabulate(x.dims, LAMBDA p : Mod(At(x, p) * Rsqrt(Mod(Div(square(p), Mod(x.dims[n])) + epsilon)) * weight.val[p[n] + 1]))
(* A projection of the last axis; M(row, column) is the effective weight. *)
Projection(x, rows, M(_, _), bias) ==
    LET n == Len(x.dims) IN
    Tabulate([x.dims EXCEPT ![n] = rows], LAMBDA p :
        Mod(SumOver(<<x.dims[n]>>, LAMBDA j : At(x, Along(p, n, j[1])) * M(p[n], j[1])) + (IF bias = <<>> THEN 0 ELSE bias[1].val[p[n] + 1])))
LoraWeight(weight, down, up, alpha, r, c) ==
    Mod(At(weight, <<r, c>>) + Div(alpha, Mod(down.dims[1])) * SumOver(<<down.dims[1]>>, LAMBDA k : At(up, <<r, k[1]>>) * At(down, <<k[1], c>>)))
(* A convolution in the layout of its input, read by image coordinates. *)
ConvLayerMeaning(x, weight, bias, o, nchw, dims) ==
    LET flip(p) == IF nchw THEN <<p[1], p[3], p[4], p[2]>> ELSE p
        unflip(p) == IF nchw THEN <<p[1], p[4], p[2], p[3]>> ELSE p
        image == Tabulate(flip(x.dims), LAMBDA p : At(x, unflip(p)))
        kernel == Tabulate(<<weight.dims[3], weight.dims[4], weight.dims[2], weight.dims[1]>>, LAMBDA q : At(weight, <<q[4], q[3], q[1], q[2]>>))
        output == ConvMeaning(o, flip(dims), image, kernel)
    IN  Tabulate(dims, LAMBDA p : Mod(At(output, flip(p)) + (IF bias = <<>> THEN 0 ELSE bias[1].val[flip(p)[4] + 1])))

(* Boxes with small integer corners: areas count unit cells. *)
Corner(x, p, i) == Signed(At(x, Append(Aligned(T(SubSeq(x.dims, 1, Len(x.dims) - 1), <<>>), p), i)))
CellsOf(x, p) == {c \in (0..3) \X (0..3) : /\ Corner(x, p, 0) <= c[1] /\ c[1] < Corner(x, p, 2)
                                           /\ Corner(x, p, 1) <= c[2] /\ c[2] < Corner(x, p, 3)}
Quotient(n, d) == IF d = 0 THEN 0 ELSE Div(Mod(n), Mod(d))
Jaccard(A, B) == Quotient(Cardinality(A \intersect B), Cardinality(A \union B))
Hull(x, y, p) ==
    LET low(i) == LET a == Corner(x, p, i) b == Corner(y, p, i) IN IF a < b THEN a ELSE b
        high(i) == LET a == Corner(x, p, i) b == Corner(y, p, i) IN IF a > b THEN a ELSE b
    IN  {c \in (0..3) \X (0..3) : low(0) <= c[1] /\ c[1] < high(2) /\ low(1) <= c[2] /\ c[2] < high(3)}
Generalized(x, y, p) ==
    LET A == CellsOf(x, p) B == CellsOf(y, p) hull == Hull(x, y, p)
    IN  Mod(Jaccard(A, B) - Quotient(Cardinality(hull \ (A \union B)), Cardinality(hull)))
(* Center form and corner form describe the same intervals. *)
CornersOf(x) == Tabulate(x.dims, LAMBDA p : LET n == Len(p)  i == p[n] % 2  size == At(x, Along(p, n, i + 2))
                                            IN  Mod(At(x, Along(p, n, i)) + (IF p[n] >= 2 THEN Half ELSE -Half) * size))
CentersOf(x) == Tabulate(x.dims, LAMBDA p : LET n == Len(p)  i == p[n] % 2  a == At(x, Along(p, n, i))  b == At(x, Along(p, n, i + 2))
                                            IN  IF p[n] >= 2 THEN Mod(b - a) ELSE Div(Mod(a + b), 2))

(* Resizing: an output pixel is the sum of the input pixels weighted by a
   kernel of their distance to the output pixel's center, edges repeated. *)
Distance(c, k, input, output) == (2 * c + 1) * input - output - 2 * output * k     \* over 2 * output
Triangle(c, k, input, output) ==
    LET limit == 2 * output * (input - 1)
        s == Clamp(Distance(c, 0, input, output), 0, limit)
        d == s - 2 * output * k
        away == IF d < 0 THEN -d ELSE d
    IN  IF away >= 2 * output THEN 0 ELSE Div(Mod(2 * output - away), Mod(2 * output))
CubicKernel(c, k, input, output) ==
    LET n == Distance(c, k, input, output)
        s == Div(Mod(IF n < 0 THEN -n ELSE n), Mod(2 * output))
        a == Mod(-3 * Inv(4))
    IN  IF n \in -(2 * output)..(2 * output) THEN Mod((a + 2) * s * s * s - (a + 3) * s * s + 1)
        ELSE IF n \in (-4 * output)..(4 * output) THEN Mod(a * (s - 2) * (s - 2) * (s - 1)) ELSE 0
(* reach: how far beyond the edge the kernel may look. *)
ResizeMeaning(x, size, K(_, _, _, _), reach) ==
    LET taps(axis) == x.dims[axis] + 2 * reach
        edge(k, axis) == Clamp(k - reach, 0, x.dims[axis] - 1)
        weight(p, q, axis) == K(p[axis], q[axis - 1] - reach, x.dims[axis], size[axis - 1])
    IN  IF size = SubSeq(x.dims, 2, 3) THEN x
        ELSE Tabulate(<<x.dims[1], size[1], size[2], x.dims[4]>>, LAMBDA p : SumOver(<<taps(2), taps(3)>>, LAMBDA q :
                weight(p, q, 2) * weight(p, q, 3) * At(x, <<p[1], edge(q[1], 2), edge(q[2], 3), p[4]>>)))
NearestMeaning(x, size) ==
    Tabulate(<<x.dims[1], size[1], size[2], x.dims[4]>>,
             LAMBDA p : At(x, <<p[1], (p[2] * x.dims[2]) \div size[1], (p[3] * x.dims[3]) \div size[2], p[4]>>))
PerChannel(x, F(_, _)) == Tabulate(x.dims, LAMBDA p : F(At(x, p), p[4] + 1))
ContrastMeaning(x, factor) ==
    Tabulate(x.dims, LAMBDA p : LET mean == Average(Peers(x, LAMBDA a, b : a[1] = b[1] /\ a[4] = b[4], p))
                                IN  Mod(mean + factor * (At(x, p) - mean)))
(* Cropping keeps a centered window, padding surrounds the image with zeros:
   FirstKept(n, m) is the first kept of n pixels, or minus the zeros before
   them.  The bottom or right side loses the extra pixel of an odd discarded
   extent (image.rs:55-57) and gets the extra zero of an odd padding (74-75). *)
FirstKept(n, m) == IF m <= n THEN (n - m) \div 2 ELSE -((m - n) \div 2)
CropPadMeaning(x, size) ==
    Tabulate(<<x.dims[1], size[1], size[2], x.dims[4]>>, LAMBDA p :
        AtOr0(x, <<p[1], p[2] + FirstKept(x.dims[2], size[1]), p[3] + FirstKept(x.dims[3], size[2]), p[4]>>))

(* Rearrange: the elements are those with the same value of every label.  A
   position of a group is the mixed-radix number of its labels. *)
RECURSIVE Radix(_, _, _)
Radix(group, sizes, values) ==        \* values: label -> value; the last label counts fastest
    IF group = <<>> THEN 0
    ELSE LET n == Len(group)  l == group[n]
         IN  IF l = 0 THEN Radix(SubSeq(group, 1, n - 1), sizes, values)
             ELSE values[l] + sizes[l] * Radix(SubSeq(group, 1, n - 1), sizes, values)
RearrangeMeaning(x, dims, source, destination, sizes) ==
    LET n == Len(sizes)
        assigned == Points(Tuple([l \in 1..n |-> sizes[l]], n))
        place(side, v) == Tuple([i \in 1..Len(side) |-> Radix(side[i], sizes, Tuple([l \in 1..n |-> v[l]], n))], Len(side))
    IN  Tabulate(dims, LAMBDA p :
            At(x, place(source, assigned[CHOOSE k \in 1..Len(assigned) : place(destination, assigned[k]) = p])))

(* Both caches take the update at its place, or neither changes: nothing is
   moved to where it would fit.  Both statistics move by the rate, or neither. *)
CacheMeaning(old, update, starts) ==
    LET within == \A i \in 1..Len(starts) : starts[i].val[1] \in 0..(old[1].dims[i] - update[1].dims[i])
        from(p) == Tuple([i \in 1..Len(starts) |-> p[i + 1] - starts[i].val[1]], Len(starts))
    IN  Tabulate(<<2>> \o old[1].dims, LAMBDA p :
            IF within /\ Within(from(p), update[1].dims) THEN At(update[p[1] + 1], from(p)) ELSE At(old[p[1] + 1], Tail(p)))
StatisticsMeaning(x, old, rate, taken) ==
    Tabulate(<<2, x.dims[4]>>, LAMBDA p :
        LET peers == Peers(x, LAMBDA a, q : q[4] = a, p[2])
            batch == IF p[1] = 0 THEN Average(peers) ELSE Spread(peers, 0)
            before == At(old[p[1] + 1], <<p[2]>>)
        IN  IF taken.val[1] = 0 THEN before ELSE Mod(before + rate * (batch - before)))

LayerPromised == {"normal_log_prob", "dropout_with_mask", "huber_loss", "binary_cross_entropy", "cross_entropy_with_indices",
                  "cross_entropy_with_probs", "policy_gradient_loss", "clipped_policy_gradient_loss", "layer_norm", "rms_norm", "linear",
                  "lora_linear", "conv2d_layer", "group_norm_layer", "batch_norm_layer", "batch_norm_eval", "batch_norm_running",
                  "box_cxcywh_to_xyxy", "box_xyxy_to_cxcywh", "box_area", "box_iou", "box_giou", "pairwise_box_iou",
                  "upsample_nearest2d", "resize_nearest2d", "resize_bilinear2d", "resize_bicubic2d", "normalize_nhwc",
                  "adjust_contrast", "center_crop", "resize_with_crop_or_pad", "rgb_to_grayscale", "solarize", "rearrange",
                  "kv_update_checked", "batch_norm_state"}
LayerPromise(m, o, x, dims) ==
    LET nchw == Len(o) > 0 /\ o[Len(o)] = <<1>>
        channel == IF nchw THEN 2 ELSE 4
        affine == Tail(x)
    IN
    CASE m = "normal_log_prob" -> T(dims, Tuple([k \in 1..Len(x[1].val) |-> NormalDensity(x[1].val[k], x[2].val[k], x[3].val[k])], Len(x[1].val)))
      [] m = "dropout_with_mask" -> Map2(x[1], x[2], LAMBDA v, keep : IF keep = 0 THEN 0 ELSE Div(v, o[1][1]))
      [] m = "huber_loss" -> Map2(x[1], x[2], LAMBDA v, t : Huber(Mod(v - t), o[1][1]))
      [] m = "binary_cross_entropy" -> Map2(x[1], x[2], LAMBDA v, t : Mod(t * Softplus(Mod(-v)) + (1 - t) * Softplus(v)))
      [] m = "cross_entropy_with_indices" -> ClassLoss(x[1], x[2], o[1][1])
      [] m = "cross_entropy_with_probs" -> ProbabilityLoss(x[1], x[2], o[1][1])
      [] m = "policy_gradient_loss" -> Objective(x[1], x[2], x[3], x[3], o[1][1], LAMBDA new, old, a : Mod(new * a))
      [] m = "clipped_policy_gradient_loss" ->
            Objective(x[1], x[2], x[3], x[4], o[1][1], LAMBDA new, old, a : Surrogate(new, old, a, o[1][2]))
      [] m = "layer_norm" -> LayerNormMeaning(x[1], o[1][1], o[1][2], affine)
      [] m = "rms_norm" -> RmsNormMeaning(x[1], x[2], o[1][1])
      [] m = "linear" -> Projection(x[1], x[2].dims[1], LAMBDA r, c : At(x[2], <<r, c>>), SubSeq(x, 3, Len(x)))
      [] m = "lora_linear" -> Projection(x[1], x[2].dims[1], LAMBDA r, c : LoraWeight(x[2], x[4], x[5], o[1][1], r, c), <<x[3]>>)
      [] m = "conv2d_layer" -> ConvLayerMeaning(x[1], x[2], SubSeq(x, 3, Len(x)), SubSeq(o, 1, 5), nchw, dims)
      [] m = "group_norm_layer" -> GroupNormMeaning(x[1], o[1][1], o[1][2], affine, channel)
      [] m = "batch_norm_layer" -> BatchNormMeaning(x[1], o[1][1], affine, channel)
      [] m = "batch_norm_eval" -> FixedNormMeaning(x[1], x[2], x[3], x[4], x[5], o[1][1], channel)
      [] m = "batch_norm_running" -> RunningMeaning(x[1], x[2], x[3], o[1][1], channel)
      [] m = "box_cxcywh_to_xyxy" -> CornersOf(x[1])
      [] m = "box_xyxy_to_cxcywh" -> CentersOf(x[1])
      [] m = "box_area" -> Tabulate(dims, LAMBDA p : Cardinality(CellsOf(x[1], p)))
      [] m = "box_iou" -> Tabulate(dims, LAMBDA p : Jaccard(CellsOf(x[1], p), CellsOf(x[2], p)))
      [] m = "box_giou" -> Tabulate(dims, LAMBDA p : Generalized(x[1], x[2], p))
      [] m = "pairwise_box_iou" -> Tabulate(dims, LAMBDA p : Jaccard(CellsOf(x[1], <<p[1]>>), CellsOf(x[2], <<p[2]>>)))
      [] m = "upsample_nearest2d" -> Tabulate(dims, LAMBDA p : At(x[1], <<p[1], p[2] \div o[1][1], p[3] \div o[1][2], p[4]>>))
      [] m = "resize_nearest2d" -> NearestMeaning(x[1], o[1])
      [] m = "resize_bilinear2d" -> ResizeMeaning(x[1], o[1], Triangle, 0)
      [] m = "resize_bicubic2d" -> ResizeMeaning(x[1], o[1], CubicKernel, 2)
      [] m = "normalize_nhwc" -> PerChannel(x[1], LAMBDA v, c : Div(Mod(v - o[1][c]), o[2][c]))
      [] m = "adjust_contrast" -> ContrastMeaning(x[1], o[1][1])
      [] m \in {"center_crop", "resize_with_crop_or_pad"} -> CropPadMeaning(x[1], SubSeq(dims, 2, 3))
      [] m = "rgb_to_grayscale" -> Tabulate(dims, LAMBDA p : SumOver(<<3>>, LAMBDA c : At(x[1], Along(p, 4, c[1])) * o[1][c[1] + 1]))
      [] m = "solarize" -> Map(x[1], LAMBDA v : IF Signed(v) < Signed(o[1][1]) THEN v ELSE Mod(1 - v))
      [] m = "rearrange" -> RearrangeMeaning(x[1], dims, SubSeq(o, 2, 1 + o[1][1]), SubSeq(o, 2 + o[1][1], 1 + o[1][1] + o[1][2]), o[Len(o) - 1])
      [] m = "kv_update_checked" -> CacheMeaning(SubSeq(x, 1, 2), SubSeq(x, 3, 4), SubSeq(x, 5, Len(x)))
      [] m = "batch_norm_state" -> StatisticsMeaning(x[1], SubSeq(x, 2, 3), o[1][1], x[4])
=============================================================================
