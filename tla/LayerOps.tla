------------------------------ MODULE LayerOps ------------------------------
(***************************************************************************)
(* Losses, normalizations, neural-network layers, box geometry, image      *)
(* resizing and axis rearrangement: compositions of the methods of         *)
(* ComposedOps.  LayerMeaning states what each of them promises.           *)
(*                                                                         *)
(* The parameters a layer declares in its scope are operands here, and the *)
(* options are field elements or small integers: the checks that a float   *)
(* option is finite are left out, and computation in a half type is.       *)
(***************************************************************************)
EXTENDS ComposedOps

(* Losses.  NotANumber stands for the marker of an invalid class. *)
NotANumber == 17
HalfLogTau == 9                     \* stands for the constant 0.5 ln(2 pi)
NormalLogProb(x, mean, logStd) ==
    LET normalized == Mul(Sub(x, mean), Unary("exp", Neg(logStd)))
    IN  AddScalar(Sub(MulScalar(Mul(normalized, normalized), Mod(-Half)), logStd), Mod(-HalfLogTau))
DropoutWithMask(x, keep, probability) == Divide(Select(keep, x, Fill(0, x.dims)), Fill(probability, x.dims))
HuberParts(quadratic, safe, magnitude, limit, delta) ==
    Select(quadratic, Mul(MulScalar(safe, Half), safe), MulScalar(Sub(magnitude, MulScalar(limit, Half)), delta))
HuberOf(residual, limit, delta) ==
    LET magnitude == Unary("abs", residual)
        quadratic == LeMask(magnitude, limit)
    IN  HuberParts(quadratic, Select(quadratic, residual, Fill(0, residual.dims)), magnitude, limit, delta)
HuberLoss(x, targets, delta) == HuberOf(Sub(x, targets), Fill(delta, x.dims), delta)
BinaryCrossEntropyWithLogits(x, targets) ==
    Add(Mul(targets, Unary("softplus", Neg(x))), Mul(AddScalar(Neg(targets), 1), Unary("softplus", x)))
CrossEntropyWithIndices(x, targets, axis) ==
    IF ~OnAxis(x, axis) THEN Err
    ELSE IF x.dims[axis] = 0 \/ targets.dims # Drop(x.dims, axis) THEN Err
    ELSE LET rows == targets.dims
             loss == Neg(Reshape(TakeAlongAxis(LogSoftmax(x, axis), Reshape(targets, Put(rows, axis, <<1>>)), axis), rows))
             bound(v) == BroadcastTo(ConstI32(<<>>, <<v>>), rows)
             valid == Mul(LeMask(bound(0), targets), LeMask(targets, bound(x.dims[axis] - 1)))
         IN  Select(valid, loss, Fill(NotANumber, rows))
CrossEntropyWithProbs(x, targets, axis) == Neg(Sum(Mul(LogSoftmax(x, axis), targets), <<axis>>, FALSE))
PolicyGradientLoss(x, actions, advantages, axis) ==
    Neg(Mean(Mul(Neg(CrossEntropyWithIndices(x, actions, axis)), Detach(advantages)), Axes(Rank(advantages)), FALSE))
ClippedObjective(ratio, advantages, clip) ==
    Binary("minimum", Mul(ratio, advantages), Mul(Clamped(ratio, 1 - clip, 1 + clip), advantages))
ClippedPolicyGradientLoss(x, actions, old, advantages, axis, clip) ==
    LET ratio == Unary("exp", Sub(Neg(CrossEntropyWithIndices(x, actions, axis)), Detach(old)))
    IN  Neg(Mean(ClippedObjective(ratio, Detach(advantages), clip), Axes(Rank(advantages)), FALSE))

(* Normalizations.  Affine operands are sequences: empty where there is none. *)
Scaled(x, weight, axes) == IF weight = <<>> THEN x ELSE Mul(x, BroadcastInDim(weight[1], x.dims, axes))
Biased(x, bias, axes) == IF bias = <<>> THEN x ELSE Add(x, BroadcastInDim(bias[1], x.dims, axes))
Affine2(x, weight, bias, axes) == Biased(Scaled(x, weight, axes), bias, axes)
BatchNormInference(x, axis, mean, variance, weight, bias, epsilon) ==
    IF \E i \in 1..4 : <<mean, variance, weight, bias>>[i].dims # <<x.dims[axis]>> THEN Err
    ELSE LET scale == Mul(Unary("rsqrt", AddScalar(variance, epsilon)), weight)
             spread(t) == BroadcastInDim(t, x.dims, <<axis>>)
         IN  Add(Mul(Sub(x, spread(mean)), spread(scale)), spread(bias))
OtherAxes(x, axis) == SelectSeq(Axes(Rank(x)), LAMBDA a : a # axis)
BatchMean(x, axis) == Mean(x, OtherAxes(x, axis), FALSE)
BatchVariance(x, axis) == Variance(x, OtherAxes(x, axis), FALSE, 0)
BatchNormTraining(x, axis, weight, bias, epsilon) ==
    BatchNormInference(x, axis, BatchMean(x, axis), BatchVariance(x, axis), weight, bias, epsilon)
InverseRoot(x, axes, epsilon) == Unary("rsqrt", AddScalar(Mean(Mul(x, x), axes, TRUE), epsilon))
Normed(x, axes, epsilon) == Mul(x, BroadcastTo(InverseRoot(x, axes, epsilon), x.dims))
LayerNorm(x, rank, weight, bias, epsilon) ==
    IF rank \notin 1..Rank(x) THEN Err
    ELSE LET axes == Tuple([i \in 1..rank |-> Rank(x) - rank + i], rank)
             normalized == Box(x.dims, axes)
         IN  IF (\E i \in 1..rank : normalized[i] <= 0) \/ (weight # <<>> /\ weight[1].dims # normalized) THEN Err
             ELSE Affine2(Normed(Centered(x, axes), axes, epsilon), weight, bias, axes)
(* [N, C, ...]: every sample and group of channels on its own. *)
GroupNorm(x, groups, weight, bias, epsilon) ==
    IF groups <= 0 \/ x.dims[2] % groups # 0 \/ (weight # <<>> /\ weight[1].dims # <<x.dims[2]>>) THEN Err
    ELSE LET grouped == <<x.dims[1], groups, x.dims[2] \div groups>> \o SubSeq(x.dims, 3, Rank(x))
         IN  Affine2(Reshape(LayerNorm(Reshape(x, grouped), Rank(x) - 1, <<>>, <<>>, epsilon), x.dims), weight, bias, <<2>>)
RmsNorm(x, weight, epsilon) ==
    IF Rank(x) = 0 \/ weight.dims # <<x.dims[Rank(x)]>> THEN Err
    ELSE Mul(Normed(x, <<Rank(x)>>, epsilon), BroadcastTo(weight, x.dims))
WithBias(x, bias) == IF bias = <<>> THEN x ELSE Add(x, BroadcastTo(bias[1], x.dims))
Linear(x, weight, bias) ==
    IF Rank(x) = 0 \/ Rank(weight) # 2 THEN Err
    ELSE IF x.dims[Rank(x)] # weight.dims[2] \/ (bias # <<>> /\ bias[1].dims # <<weight.dims[1]>>) THEN Err
    ELSE WithBias(Matmul(x, Transpose(weight, <<2, 1>>)), bias)

(* Layers.  Images are NHWC or NCHW; the parameters of a convolution are OIHW. *)
ChannelAxis(nchw) == IF nchw THEN 2 ELSE 4
ToNhwc(x, nchw) == IF nchw THEN Transpose(x, <<1, 3, 4, 2>>) ELSE x
FromNhwc(x, nchw) == IF nchw THEN Transpose(x, <<1, 4, 2, 3>>) ELSE x
LoraLinear(x, weight, bias, down, up, alpha) ==     \* the rank is the height of `down`
    LET adapter == Linear(Linear(x, down, <<>>), up, <<>>)
    IN  Add(Linear(x, weight, bias), MulScalar(adapter, Div(alpha, Mod(down.dims[1]))))
ApplyConv2d(x, weight, bias, o, nchw) ==
    IF Rank(x) # 4 THEN Err
    ELSE IF x.dims[ChannelAxis(nchw)] % o[5][1] # 0 THEN Err
    ELSE FromNhwc(WithBias(Conv2d(ToNhwc(x, nchw), weight, o, TRUE), bias), nchw)
ApplyGroupNorm(x, groups, weight, bias, epsilon, nchw) ==
    IF Rank(x) # 4 \/ x.dims[ChannelAxis(nchw)] % groups # 0 THEN Err
    ELSE ToNhwc(GroupNorm(FromNhwc(x, ~nchw), groups, weight, bias, epsilon), ~nchw)
ApplyBatchNorm(x, weight, bias, runningMean, runningVariance, epsilon, training, nchw) ==
    LET input == ToNhwc(x, nchw)
    IN  FromNhwc(IF training THEN BatchNormTraining(input, 4, weight, bias, epsilon)
                 ELSE BatchNormInference(input, 4, runningMean, runningVariance, weight, bias, epsilon), nchw)
(* What a training step writes to the running statistics, stacked. *)
Unbiased(variance, observations) ==
    IF observations > 1 THEN MulScalar(variance, Div(Mod(observations), Mod(observations - 1))) ELSE variance
Blend(running, batch, momentum) == Add(MulScalar(running, Mod(1 - momentum)), MulScalar(batch, momentum))
StatisticsOf(x, runningMean, runningVariance, momentum) ==
    Stack(<<Blend(runningMean, BatchMean(x, 4), momentum),
            Blend(runningVariance, Unbiased(BatchVariance(x, 4), Count(x, <<1, 2, 3>>)), momentum)>>, 1)
NextStatistics(x, runningMean, runningVariance, momentum, nchw) == StatisticsOf(ToNhwc(x, nchw), runningMean, runningVariance, momentum)

(* Paired inference state.  The results of the two slots are stacked. *)
PairWhere(condition, proposed, old) ==
    LET mask == BroadcastTo(condition, old[1].dims)
    IN  Stack(<<Select(mask, proposed[1], old[1]), Select(mask, proposed[2], old[2])>>, 1)
RECURSIVE FitsUpTo(_, _, _)
FitsUpTo(starts, room, axis) ==         \* every start up to the axis is in range
    IF axis = 0 THEN Scalar(1)
    ELSE LET index(v) == ConstI32(<<>>, <<v>>)
             below == Mul(FitsUpTo(starts, room, axis - 1), LeMask(index(0), starts[axis]))
         IN  Mul(below, LeMask(starts[axis], index(room[axis])))
UpdateAtChecked(old, update, starts) ==
    LET proposed == <<DynamicUpdateSlice(old[1], update[1], starts), DynamicUpdateSlice(old[2], update[2], starts)>>
        room == Tuple([i \in 1..Rank(old[1]) |-> old[1].dims[i] - update[1].dims[i]], Rank(old[1]))
    IN  IF update[1].dims # update[2].dims \/ Failed(proposed[1]) \/ Failed(proposed[2]) THEN Err
        ELSE PairWhere(Detach(FitsUpTo(starts, room, Len(starts))), proposed, old)
(* The running statistics a session keeps, blended at the given rate. *)
Proposal(old, new, rate) ==
    IF rate = 0 THEN old ELSE IF rate = 1 THEN Detach(new)
    ELSE Add(MulScalar(old, Mod(1 - rate)), MulScalar(Detach(new), rate))
UpdateStatisticsIf(x, old, rate, condition) ==      \* x: NHWC, condition: scalar
    IF old[1].dims # <<x.dims[4]>> \/ condition.dims # <<>> THEN Err
    ELSE PairWhere(condition, <<Proposal(old[1], BatchMean(x, 4), rate), Proposal(old[2], BatchVariance(x, 4), rate)>>, old)

(* Boxes: the last axis holds four coordinates. *)
Coordinate(x, i) == LET axis == Rank(x) IN Reshape(Narrow(x, axis, i, 1), Drop(x.dims, axis))
Boxes(x) == Rank(x) > 0 /\ x.dims[Rank(x)] = 4
Relu(x) == Unary("relu", x)
CxcywhToXyxy(x) ==
    IF ~Boxes(x) THEN Err
    ELSE LET c(i) == Coordinate(x, i)
             half(i) == MulScalar(c(i), Half)
         IN  Stack(<<Sub(c(0), half(2)), Sub(c(1), half(3)), Add(c(0), half(2)), Add(c(1), half(3))>>, Rank(x))
XyxyToCxcywh(x) ==
    IF ~Boxes(x) THEN Err
    ELSE LET c(i) == Coordinate(x, i)
             half(i) == MulScalar(c(i), Half)
         IN  Stack(<<Add(half(0), half(2)), Add(half(1), half(3)), Sub(c(2), c(0)), Sub(c(3), c(1))>>, Rank(x))
BoxArea(x) ==
    IF ~Boxes(x) THEN Err
    ELSE Mul(Relu(Sub(Coordinate(x, 2), Coordinate(x, 0))), Relu(Sub(Coordinate(x, 3), Coordinate(x, 1))))
(* The box between the corners that high and low choose, clipped at 0. *)
BetweenCorners(a, b, high, low) ==
    LET extent(i) == Relu(Sub(Binary(high, Coordinate(a, i + 2), Coordinate(b, i + 2)), Binary(low, Coordinate(a, i), Coordinate(b, i))))
    IN  Mul(extent(0), extent(1))
Fraction(x, whole) == Divide(x, Select(Binary("gt", whole, Fill(0, whole.dims)), whole, Fill(1, whole.dims)))
LessEmpty(iou, union, enclosure) == Sub(iou, Fraction(Sub(enclosure, union), enclosure))
IouOf(a, b, intersection, union, generalized) ==
    LET iou == Fraction(intersection, union)
    IN  IF generalized THEN LessEmpty(iou, union, BetweenCorners(a, b, "maximum", "minimum")) ELSE iou
Overlap(a, b, intersection, generalized) ==
    IouOf(a, b, intersection, Sub(Add(BoxArea(a), BoxArea(b)), intersection), generalized)
SameShape(a, b, generalized) == Overlap(a, b, BetweenCorners(a, b, "minimum", "maximum"), generalized)
BoxOverlap(x, y, generalized) ==
    LET shape == BatchDims(x.dims, y.dims)
    IN  IF ~Boxes(x) \/ ~Boxes(y) \/ ~Broadcastable(x.dims, shape) \/ ~Broadcastable(y.dims, shape) THEN Err
        ELSE SameShape(BroadcastTo(x, shape), BroadcastTo(y, shape), generalized)
PairwiseBoxIou(x, y) ==
    IF Rank(x) < 2 \/ Rank(y) < 2 THEN Err
    ELSE BoxOverlap(Unsqueeze(x, Rank(x)), Unsqueeze(y, Rank(y) - 1), FALSE)

(* Resizing NHWC images.  Source coordinates are fractions over 2 * output. *)
Image(x) == Rank(x) = 4
Resizable(x, size) == Image(x) /\ x.dims[2] > 0 /\ x.dims[3] > 0 /\ size[1] > 0 /\ size[2] > 0
SameSize(x, size) == size = SubSeq(x.dims, 2, 3)
UpsampleNearest2d(x, scales) ==
    IF ~Image(x) \/ scales[1] <= 0 \/ scales[2] <= 0 THEN Err
    ELSE IF scales = <<1, 1>> THEN x
    ELSE LET d == x.dims IN
         Reshape(BroadcastTo(Reshape(x, <<d[1], d[2], 1, d[3], 1, d[4]>>), <<d[1], d[2], scales[1], d[3], scales[2], d[4]>>),
                 <<d[1], d[2] * scales[1], d[3] * scales[2], d[4]>>)
NearestIndices(input, output) == Tuple([c \in 1..output |-> ((c - 1) * input) \div output], output)
ResizeNearest2d(x, size) ==
    IF ~Resizable(x, size) THEN Err ELSE IF SameSize(x, size) THEN x
    ELSE LET along(axis) == ConstI32(<<size[axis - 1]>>, NearestIndices(x.dims[axis], size[axis - 1]))
         IN  Take(Take(x, along(2), 2), along(3), 3)
HalfPixel(c, input, output) == (2 * (c - 1) + 1) * input - output
LinearSource(c, input, output) == Clamp(HalfPixel(c, input, output), 0, (input - 1) * 2 * output)
(* A weight per output position, spread over the given shape. *)
AxisWeights(weights, axis, dims) ==
    BroadcastTo(Reshape(Const(<<Len(weights)>>, weights), [Repeat(1, 4) EXCEPT ![axis] = Len(weights)]), dims)
Between(low, high, weights, axis) == Add(low, Mul(Sub(high, low), AxisWeights(weights, axis, low.dims)))
LinearAxis(x, axis, output) ==
    LET input == x.dims[axis]
        source(c) == LinearSource(c, input, output)
        lower == Tuple([c \in 1..output |-> source(c) \div (2 * output)], output)
        upper == Tuple([c \in 1..output |-> Smaller(lower[c] + 1, input - 1)], output)
        weights == Tuple([c \in 1..output |-> Div(Mod(source(c) % (2 * output)), Mod(2 * output))], output)
    IN  Between(Take(x, ConstI32(<<output>>, lower), axis), Take(x, ConstI32(<<output>>, upper), axis), weights, axis)
ResizeBilinear2d(x, size) ==
    IF ~Resizable(x, size) THEN Err ELSE IF SameSize(x, size) THEN x
    ELSE LinearAxis(LinearAxis(x, 2, size[1]), 3, size[2])
(* The cubic kernel with a = -3/4 at the distance n / d, in the field. *)
CubicWeight(n, d) ==
    LET s == Div(Mod(IF n < 0 THEN -n ELSE n), Mod(d))
        a == Mod(-3 * Inv(4))
    IN  IF n <= d /\ -n <= d THEN Mod((a + 2) * s * s * s - (a + 3) * s * s + 1)
        ELSE IF n < 2 * d /\ -n < 2 * d THEN Mod(a * s * s * s - 5 * a * s * s + 8 * a * s - 4 * a) ELSE 0
WeightedBy(x, weights, axis) == Mul(x, AxisWeights(weights, axis, x.dims))
CubicAxis(x, axis, output) ==
    LET input == x.dims[axis]
        source(c) == HalfPixel(c, input, output)
        place(c, tap) == source(c) \div (2 * output) + tap - 2
        indices(tap) == Tuple([c \in 1..output |-> Clamp(place(c, tap), 0, input - 1)], output)
        weights(tap) == Tuple([c \in 1..output |-> CubicWeight(source(c) - place(c, tap) * 2 * output, 2 * output)], output)
        term(tap) == WeightedBy(Take(x, ConstI32(<<output>>, indices(tap)), axis), weights(tap), axis)
    IN  Add(Add(Add(term(1), term(2)), term(3)), term(4))
ResizeBicubic2d(x, size) ==
    IF ~Resizable(x, size) THEN Err ELSE IF SameSize(x, size) THEN x
    ELSE CubicAxis(CubicAxis(x, 2, size[1]), 3, size[2])
NormalizeNhwc(x, mean, deviation) ==
    IF ~Image(x) \/ Len(mean) # x.dims[4] \/ Len(deviation) # x.dims[4] THEN Err
    ELSE LET n == x.dims[4]
             perChannel(v) == BroadcastTo(Const(<<n>>, v), x.dims)
         IN  Mul(Sub(x, perChannel(mean)), perChannel(Tuple([i \in 1..n |-> Inv(deviation[i])], n)))

(* Image adjustments. *)
Around(mean, x, factor) == Add(MulScalar(Sub(x, mean), factor), mean)
AdjustContrast(x, factor) ==
    IF ~Image(x) THEN Err
    ELSE Around(BroadcastTo(Mean(x, <<2, 3>>, TRUE), x.dims), x, factor)
CenterCrop(x, size) ==
    IF ~Image(x) \/ size[1] <= 0 \/ size[2] <= 0 THEN Err
    ELSE LET out(i) == Smaller(size[i], x.dims[i + 1])
             first(i) == x.dims[i + 1] \div 2 - out(i) \div 2
         IN  Slice(x, <<0, first(1), first(2), 0>>, <<x.dims[1], first(1) + out(1), first(2) + out(2), x.dims[4]>>, Repeat(1, 4))
PadAround(cropped, size) ==
    LET missing(i) == size[i] - cropped.dims[i + 1]
        before(i) == missing(i) \div 2
    IN  IF Failed(cropped) THEN Err
        ELSE Pad(cropped, <<0, before(1), before(2), 0>>, <<0, missing(1) - before(1), missing(2) - before(2), 0>>, 0)
ResizeWithCropOrPad(x, size) == PadAround(CenterCrop(x, size), size)
RgbToGrayscale(x, luma) ==
    IF ~Image(x) THEN Err ELSE IF x.dims[4] # 3 THEN Err
    ELSE Sum(Mul(x, BroadcastTo(Const(<<1, 1, 1, 3>>, luma), x.dims)), <<4>>, TRUE)
Solarize(x, threshold) ==
    IF ~Image(x) THEN Err ELSE Select(Binary("lt", x, Fill(threshold, x.dims)), x, AddScalar(Neg(x), 1))

(* Rearrange.  A side is a sequence of groups of labels; 0 is the unit axis.
   sizes[label] is 0 while the size of the label is not known. *)
Named(group) == SelectSeq(group, LAMBDA l : l # 0)
RECURSIVE ProductOf(_, _), Bound(_, _, _), Flattened(_)
ProductOf(group, sizes) == IF group = <<>> THEN 1 ELSE sizes[Head(group)] * ProductOf(Tail(group), sizes)
Flattened(side) == IF side = <<>> THEN <<>> ELSE Named(Head(side)) \o Flattened(Tail(side))
BindGroup(group, dimension, sizes) ==    \* <<>> where the group cannot be bound
    LET unknown == SelectSeq(Named(group), LAMBDA l : sizes[l] = 0)
        product == ProductOf(SelectSeq(Named(group), LAMBDA l : sizes[l] # 0), sizes)
    IN  IF Len(unknown) > 1 THEN <<>>
        ELSE IF unknown = <<>> THEN (IF product = dimension THEN sizes ELSE <<>>)
        ELSE IF dimension <= 0 \/ dimension % product # 0 THEN <<>>
        ELSE [sizes EXCEPT ![unknown[1]] = dimension \div product]
Bound(side, dims, sizes) ==
    IF sizes = <<>> \/ side = <<>> THEN sizes ELSE Bound(Tail(side), Tail(dims), BindGroup(Head(side), Head(dims), sizes))
Rearrange(x, source, destination, given) ==
    LET sizes == Bound(source, x.dims, given)
        from == Flattened(source)  to == Flattened(destination)
        once(s) == Cardinality({s[i] : i \in 1..Len(s)}) = Len(s)
        permutation == Tuple([i \in 1..Len(to) |-> IndexIn(from, to[i])], Len(to))
        atomic == Reshape(x, Tuple([i \in 1..Len(from) |-> sizes[from[i]]], Len(from)))
        moved == IF permutation = Axes(Len(to)) THEN atomic ELSE Transpose(atomic, permutation)
        merged == Tuple([i \in 1..Len(destination) |-> ProductOf(Named(destination[i]), sizes)], Len(destination))
    IN  IF Len(source) # Rank(x) THEN Err ELSE IF sizes = <<>> THEN Err
        ELSE IF ~once(from) \/ ~once(to) \/ {from[i] : i \in 1..Len(from)} # {to[i] : i \in 1..Len(to)} THEN Err
        ELSE Reshape(moved, merged)
(* The pattern "(l m) ... -> ..." as options: group counts, groups, sizes. *)
RearrangeBy(x, o) == Rearrange(x, SubSeq(o, 2, 1 + o[1][1]), SubSeq(o, 2 + o[1][1], 1 + o[1][1] + o[1][2]), o[Len(o)])

LayerMethods == {"normal_log_prob", "dropout_with_mask", "huber_loss", "binary_cross_entropy", "cross_entropy_with_indices",
                 "cross_entropy_with_probs", "policy_gradient_loss", "clipped_policy_gradient_loss", "layer_norm", "rms_norm", "linear",
                 "lora_linear", "conv2d_layer", "group_norm_layer", "batch_norm_layer", "batch_norm_eval", "batch_norm_running",
                 "box_cxcywh_to_xyxy", "box_xyxy_to_cxcywh", "box_area", "box_iou", "box_giou", "pairwise_box_iou",
                 "upsample_nearest2d", "resize_nearest2d", "resize_bilinear2d", "resize_bicubic2d", "normalize_nhwc",
                 "adjust_contrast", "center_crop", "resize_with_crop_or_pad", "rgb_to_grayscale", "solarize", "rearrange",
                 "kv_update_checked", "batch_norm_state"}
LayerByName(m, o, x) ==
    LET optional(i) == IF i > Len(x) THEN <<>> ELSE <<x[i]>>  nchw == Len(o) > 0 /\ o[Len(o)] = <<1>> IN
    CASE m = "normal_log_prob" -> NormalLogProb(x[1], x[2], x[3])
      [] m = "dropout_with_mask" -> DropoutWithMask(x[1], x[2], o[1][1])
      [] m = "huber_loss" -> HuberLoss(x[1], x[2], o[1][1])
      [] m = "binary_cross_entropy" -> BinaryCrossEntropyWithLogits(x[1], x[2])
      [] m = "cross_entropy_with_indices" -> CrossEntropyWithIndices(x[1], x[2], o[1][1])
      [] m = "cross_entropy_with_probs" -> CrossEntropyWithProbs(x[1], x[2], o[1][1])
      [] m = "policy_gradient_loss" -> PolicyGradientLoss(x[1], x[2], x[3], o[1][1])
      [] m = "clipped_policy_gradient_loss" -> ClippedPolicyGradientLoss(x[1], x[2], x[3], x[4], o[1][1], o[1][2])
      [] m = "layer_norm" -> LayerNorm(x[1], o[1][1], optional(2), optional(3), o[1][2])
      [] m = "rms_norm" -> RmsNorm(x[1], x[2], o[1][1])
      [] m = "linear" -> Linear(x[1], x[2], optional(3))
      [] m = "lora_linear" -> LoraLinear(x[1], x[2], <<x[3]>>, x[4], x[5], o[1][1])
      [] m = "conv2d_layer" -> ApplyConv2d(x[1], x[2], optional(3), SubSeq(o, 1, 5), nchw)
      [] m = "group_norm_layer" -> ApplyGroupNorm(x[1], o[1][1], optional(2), optional(3), o[1][2], nchw)
      [] m \in {"batch_norm_layer", "batch_norm_eval"} ->
            ApplyBatchNorm(x[1], x[2], x[3], x[4], x[5], o[1][1], m = "batch_norm_layer", nchw)
      [] m = "batch_norm_running" -> NextStatistics(x[1], x[2], x[3], o[1][1], nchw)
      [] m = "box_cxcywh_to_xyxy" -> CxcywhToXyxy(x[1])
      [] m = "box_xyxy_to_cxcywh" -> XyxyToCxcywh(x[1])
      [] m = "box_area" -> BoxArea(x[1])
      [] m \in {"box_iou", "box_giou"} -> BoxOverlap(x[1], x[2], m = "box_giou")
      [] m = "pairwise_box_iou" -> PairwiseBoxIou(x[1], x[2])
      [] m = "upsample_nearest2d" -> UpsampleNearest2d(x[1], o[1])
      [] m = "resize_nearest2d" -> ResizeNearest2d(x[1], o[1])
      [] m = "resize_bilinear2d" -> ResizeBilinear2d(x[1], o[1])
      [] m = "resize_bicubic2d" -> ResizeBicubic2d(x[1], o[1])
      [] m = "normalize_nhwc" -> NormalizeNhwc(x[1], o[1], o[2])
      [] m = "adjust_contrast" -> AdjustContrast(x[1], o[1][1])
      [] m = "center_crop" -> CenterCrop(x[1], o[1])
      [] m = "resize_with_crop_or_pad" -> ResizeWithCropOrPad(x[1], o[1])
      [] m = "rgb_to_grayscale" -> RgbToGrayscale(x[1], o[1])
      [] m = "solarize" -> Solarize(x[1], o[1][1])
      [] m = "rearrange" -> RearrangeBy(x[1], o)
      [] m = "kv_update_checked" -> UpdateAtChecked(SubSeq(x, 1, 2), SubSeq(x, 3, 4), SubSeq(x, 5, Len(x)))
      [] m = "batch_norm_state" -> UpdateStatisticsIf(x[1], SubSeq(x, 2, 3), o[1][1], x[4])
=============================================================================
