------------------------------ MODULE MCAlgorithms ------------------------------
(***************************************************************************)
(* Sampled parameters and calls for GraphProgram.  The values contain ties,*)
(* zeros and both signs, the indices repetitions and positions outside the *)
(* axis, the windows strides, dilation, padding and groups.                *)
(***************************************************************************)
EXTENDS GraphProgram

F(dims, val) == [dims |-> dims, dtype |-> "f32", val |-> val]
I(dims, val) == [dims |-> dims, dtype |-> "i32", val |-> val]
Ramp(dims, a, b) == F(dims, Tuple([k \in 1..Cells(dims) |-> Mod(a * k * k + b * k + k)], Cells(dims)))
C(method, opts, with) == [method |-> method, opts |-> opts, with |-> with]

MCParameters(f) ==
    CASE f = "vector" -> <<F(<<4>>, <<3, 29, 0, 5>>), F(<<4>>, <<3, 2, 0, 28>>), F(<<3>>, <<4, 9, 30>>),
                           I(<<3>>, <<1, 7, -1>>), I(<<>>, <<3>>), F(<<2>>, <<6, 27>>)>>
      [] f = "matrix" -> <<Ramp(<<2, 3>>, 2, 1), Ramp(<<3, 2>>, 3, 4), Ramp(<<2, 3>>, 5, 1), F(<<3>>, <<7, 1, 30>>),
                           I(<<2, 2>>, <<2, 0, -1, 0>>), Ramp(<<2, 2>>, 4, 3), I(<<>>, <<1>>), I(<<>>, <<-4>>), Ramp(<<1, 2>>, 1, 1)>>
      [] f = "cube" -> <<Ramp(<<2, 3, 2>>, 2, 3), Ramp(<<2, 2>>, 1, 4), Ramp(<<2, 2, 3>>, 3, 1)>>
      [] f = "image" -> <<Ramp(<<1, 4, 3, 2>>, 3, 2), Ramp(<<2, 2, 2, 2>>, 1, 5), Ramp(<<2, 1, 1, 4>>, 2, 1),
                          Ramp(<<2, 1, 2, 1>>, 4, 1), Ramp(<<2, 2, 4, 1>>, 5, 3)>>
      [] f = "heads" -> <<Ramp(<<2, 2, 2>>, 1, 2), Ramp(<<1, 3, 2>>, 2, 2), Ramp(<<1, 3, 1>>, 3, 1), Ramp(<<2, 3>>, 1, 4)>>
      [] f = "rows" -> <<Ramp(<<2, 3>>, 2, 1), Ramp(<<2, 3>>, 3, 5), I(<<2>>, <<2, 0>>), I(<<2>>, <<1, 3>>), F(<<2>>, <<4, 30>>),
                         F(<<2>>, <<3, 28>>), F(<<3>>, <<7, 1, 30>>), F(<<3>>, <<2, 0, 5>>), Ramp(<<4, 3>>, 1, 2), Ramp(<<4>>, 2, 3),
                         F(<<2, 3>>, <<1, 0, 1, 1, 0, 0>>), Ramp(<<2, 3>>, 1, 6), Ramp(<<4, 2>>, 3, 2)>>
      [] f = "boxes" -> <<F(<<2, 4>>, <<0, 0, 2, 2, 1, 1, 3, 2>>), F(<<3, 4>>, <<1, 0, 3, 3, 2, 1, 2, 3, 0, 2, 1, 3>>),
                          F(<<4>>, <<2, 1, 3, 3>>), F(<<2, 4>>, <<0, 2, 1, 1, 1, 1, 3, 2>>)>>
      [] f = "layers" -> <<Ramp(<<1, 2, 2, 4>>, 3, 1), F(<<4>>, <<2, 1, 30, 5>>), F(<<4>>, <<0, 3, 1, 29>>), F(<<4>>, <<1, 4, 2, 0>>),
                           F(<<4>>, <<3, 1, 6, 2>>), F(<<2>>, <<3, 1>>), F(<<2>>, <<1, 28>>), Ramp(<<2, 2, 1, 2>>, 2, 3),
                           Ramp(<<2, 2, 2, 1>>, 1, 1)>>
      [] f = "pixels" -> <<Ramp(<<1, 3, 4, 1>>, 2, 5)>>
      [] f = "colors" -> <<Ramp(<<1, 1, 2, 3>>, 1, 5)>>
      [] f = "axes" -> <<Ramp(<<6, 2, 1>>, 1, 3)>>
      [] f = "state" -> <<Ramp(<<2, 3>>, 2, 1), Ramp(<<2, 3>>, 5, 2), Ramp(<<1, 2>>, 3, 1), Ramp(<<1, 2>>, 1, 4), I(<<>>, <<1>>),
                          I(<<>>, <<-1>>), I(<<>>, <<2>>)>>
      [] f = "statistics" -> <<Ramp(<<1, 2, 2, 2>>, 3, 1), F(<<2>>, <<3, 9>>), F(<<2>>, <<1, 28>>), F(<<>>, <<0>>), F(<<>>, <<5>>)>>
      [] f = "table" -> <<I(<<5>>, <<1, 3, 3, 6, 9>>), I(<<4>>, <<0, 3, 7, 12>>), I(<<3>>, <<0, 3, 5>>)>>
      [] f = "table3" -> <<I(<<3>>, <<2, 4, 4>>), I(<<4>>, <<0, 4, 3, 12>>), I(<<3>>, <<0, 3, 5>>)>>

Elementwise == {C(m, <<>>, <<>>) : m \in {"relu", "softplus", "sigmoid", "neg", "sin", "cos", "exp", "expm1", "log", "log1p", "sqrt",
                                          "rsqrt", "tanh", "erf", "abs", "floor", "is_finite", "optimization_barrier", "detach"}}
Pairs == {C(m, <<>>, <<2>>) : m \in {"add", "sub", "mul", "div", "maximum", "minimum", "lt", "larger", "logaddexp", "with_gradient_of",
                                    "with_gradient_of_mask"}}
VectorCalls == Elementwise \union Pairs \union
    {C("take", <<<<1>>>>, <<4>>), C("index_add", <<<<1>>>>, <<4, 3>>), C("take_along_axis", <<<<1>>>>, <<4>>),
     C("index_add_along_axis", <<<<1>>>>, <<4, 3>>), C("argsort", <<<<1, 0>>>>, <<>>), C("argmax", <<<<1, 1>>>>, <<>>),
     C("topk_values", <<<<2, 1>>>>, <<>>), C("topk_indices", <<<<2, 1>>>>, <<>>), C("cumsum", <<<<1>>>>, <<>>),
     C("cumprod", <<<<1>>>>, <<>>), C("doubling_mul", <<<<1>>>>, <<>>), C("roll", <<<<-1, 1>>>>, <<>>), C("flip", <<<<1>>>>, <<>>),
     C("pad", <<<<1>>, <<2>>>>, <<>>), C("pad_with_scalar", <<<<0>>, <<2>>>>, <<3>>),
     C("pad_reflect", <<<<2>>, <<1>>>>, <<>>), C("pad_replicate", <<<<1>>, <<2>>>>, <<>>),
     C("slice", <<<<1>>, <<4>>, <<2>>>>, <<>>), C("slice", <<<<0>>, <<3>>, <<2>>>>, <<>>), C("concatenate", <<<<1>>>>, <<3>>),
     C("stack", <<<<2>>>>, <<2>>), C("broadcast_in_dim", <<<<2, 4>>, <<2>>>>, <<>>), C("sum", <<<<1>>, <<0>>>>, <<>>),
     C("max", <<<<1>>, <<1>>>>, <<>>), C("min", <<<<1>>, <<0>>>>, <<>>), C("mean", <<<<1>>, <<1>>>>, <<>>),
     C("variance", <<<<1>>, <<0, 1>>>>, <<>>), C("clamp", <<<<-1, 3>>>>, <<>>), C("softmax", <<<<1>>>>, <<>>),
     C("log_softmax", <<<<1>>>>, <<>>), C("logsumexp", <<<<1>>, <<0>>>>, <<>>), C("logcumsumexp", <<<<1>>>>, <<>>),
     C("logcumsumexp_tree", <<<<1>>>>, <<>>), C("affine_scan", <<<<1>>>>, <<2>>), C("diag_embed", <<<<-1>>>>, <<>>),
     C("diag_embed", <<<<1>>>>, <<>>), C("repeat_interleave", <<<<2, 1>>>>, <<>>), C("dynamic_slice", <<<<2>>>>, <<5>>),
     C("dynamic_update_slice", <<>>, <<6, 5>>), C("with_elementwise_derivatives", <<>>, <<2, 2>>), C("reshape", <<<<2, 2>>>>, <<>>),
     C("reshape", <<<<3>>>>, <<>>)}
MatrixCalls ==
    {C("matmul", <<>>, <<2>>), C("matmul", <<>>, <<4>>), C("transpose", <<<<2, 1>>>>, <<>>), C("sum", <<<<1>>, <<1>>>>, <<>>),
     C("sum", <<<<2>>, <<0>>>>, <<>>), C("max", <<<<1, 2>>, <<0>>>>, <<>>), C("max", <<<<2>>, <<1>>>>, <<>>),
     C("min", <<<<1>>, <<1>>>>, <<>>), C("mean", <<<<1, 2>>, <<0>>>>, <<>>), C("variance", <<<<2>>, <<1, 0>>>>, <<>>),
     C("cumsum", <<<<2>>>>, <<>>), C("cumprod", <<<<2>>>>, <<>>), C("affine_scan", <<<<2>>>>, <<3>>),
     C("affine_scan_from", <<<<1>>>>, <<3, 4>>), C("take", <<<<2>>>>, <<5>>), C("take", <<<<1>>>>, <<7>>),
     C("take_along_axis", <<<<2>>>>, <<5>>), C("index_add_along_axis", <<<<2>>>>, <<5, 6>>),
     C("argmax", <<<<2, 0>>>>, <<>>), C("topk_values", <<<<2, 2>>>>, <<>>), C("argsort", <<<<1, 1>>>>, <<>>),
     C("slice", <<<<0, 0>>, <<2, 3>>, <<1, 2>>>>, <<>>), C("pad", <<<<1, 0>>, <<0, 2>>>>, <<>>),
     C("pad_reflect", <<<<1, 2>>, <<0, 1>>>>, <<>>), C("pad_replicate", <<<<0, 1>>, <<2, 0>>>>, <<>>),
     C("concatenate", <<<<1>>>>, <<3>>), C("stack", <<<<1>>>>, <<3>>), C("broadcast_in_dim", <<<<2, 3, 2>>, <<1, 2>>>>, <<>>),
     C("flip", <<<<1, 2>>>>, <<>>), C("roll", <<<<4, 2>>>>, <<>>), C("dot_general", <<<<2>>, <<1>>, <<>>, <<>>>>, <<2>>),
     C("dot_general", <<<<2>>, <<2>>, <<1>>, <<1>>>>, <<3>>), C("diagonal", <<<<1, 1, 2>>>>, <<>>),
     C("diagonal", <<<<-1, 1, 2>>>>, <<>>), C("diagonal", <<<<3, 1, 2>>>>, <<>>), C("trace", <<<<0, 2, 1>>>>, <<>>),
     C("einsum", <<<<1, 2>>, <<1, 2>>, <<2>>>>, <<3>>), C("softmax", <<<<1>>>>, <<>>), C("mul", <<>>, <<3>>),
     C("dynamic_slice", <<<<1, 2>>>>, <<8, 7>>), C("dynamic_update_slice", <<>>, <<9, 7, 8>>), C("repeat_interleave", <<<<3, 2>>>>, <<>>),
     C("logsumexp", <<<<2>>, <<1>>>>, <<>>), C("diag_embed", <<<<0>>>>, <<>>)}
CubeCalls ==
    {C("matmul", <<>>, <<2>>), C("matmul", <<>>, <<3>>), C("transpose", <<<<3, 1, 2>>>>, <<>>), C("sum", <<<<1, 3>>, <<0>>>>, <<>>),
     C("max", <<<<2>>, <<0>>>>, <<>>), C("einsum", <<<<1, 2, 1>>, <<1, 3>>, <<3, 2>>>>, <<2>>),
     C("einsum", <<<<1, 2, 3>>, <<1, 3, 4>>, <<4, 1>>>>, <<3>>), C("einsum", <<<<1, 2, 3>>, <<3, 4>>, <<2, 4, 1>>>>, <<2>>),
     C("dot_general", <<<<2>>, <<3>>, <<1>>, <<2>>>>, <<3>>), C("diagonal", <<<<0, 3, 1>>>>, <<>>), C("trace", <<<<-1, 1, 2>>>>, <<>>),
     C("reshape", <<<<3, 4>>>>, <<>>), C("stack", <<<<2>>>>, <<1>>), C("cumsum", <<<<2>>>>, <<>>)}
Plain == <<<<1, 1>>, <<1, 1>>, <<0, 0>>, <<0, 0>>, <<1>>>>
Uneven(g) == <<<<2, 1>>, <<1, 2>>, <<1, 1>>, <<0, 2>>, <<g>>>>
ImageCalls ==
    {C("conv2d", Plain, <<2>>), C("conv2d", Uneven(1), <<2>>), C("conv2d", Uneven(2), <<3>>), C("conv2d_oihw", Plain, <<2>>),
     C("conv2d_oihw", Uneven(2), <<4>>), C("conv_transpose2d", Append(Plain, <<0, 0>>), <<2>>),
     C("conv_transpose2d", Append(Uneven(1), <<1, 0>>), <<2>>), C("conv_transpose2d", Append(Uneven(2), <<1, 0>>), <<5>>),
     C("conv2d", Plain, <<3>>), C("sum_pool", <<<<2, 2>>, <<2, 1>>, <<0, 1>>, <<1, 0>>>>, <<>>),
     C("max_pool", <<<<2, 2>>, <<1, 1>>, <<1, 0>>, <<0, 1>>>>, <<>>), C("max_pool", <<<<3, 2>>, <<2, 2>>, <<0, 1>>, <<0, 0>>>>, <<>>),
     C("avg_pool", <<<<2, 3>>, <<1, 2>>, <<1, 1>>, <<0, 1>>, <<0>>>>, <<>>),
     C("avg_pool", <<<<2, 3>>, <<2, 2>>, <<1, 1>>, <<0, 1>>, <<1>>>>, <<>>)}
HeadCalls ==
    {C("sdpa", <<<<3>>>>, <<2, 3>>), C("sdpa", <<<<2>>>>, <<2, 3, 4>>), C("gqa", <<<<3>>>>, <<2, 3>>), C("gqa", <<<<1>>>>, <<2, 3, 4>>),
     C("sdpa", <<<<1>>>>, <<3, 2>>)}
TableCalls ==
    {C("searchsorted", <<<<0>>>>, <<2>>), C("searchsorted", <<<<1>>>>, <<2>>), C("searchsorted", <<<<0>>>>, <<3>>),
     C("searchsorted", <<<<1>>>>, <<3>>), C("take", <<<<1>>>>, <<2>>), C("index_to_float", <<>>, <<>>), C("add", <<>>, <<1>>),
     C("le_mask", <<>>, <<1>>), C("argmax", <<<<1, 0>>>>, <<>>)}
RowCalls ==
    {C("normal_log_prob", <<>>, <<2, 12>>), C("dropout_with_mask", <<<<16>>>>, <<11>>), C("huber_loss", <<<<3>>>>, <<2>>),
     C("binary_cross_entropy", <<>>, <<2>>), C("cross_entropy_with_indices", <<<<2>>>>, <<3>>),
     C("cross_entropy_with_indices", <<<<2>>>>, <<4>>), C("cross_entropy_with_indices", <<<<1>>>>, <<3>>),
     C("cross_entropy_with_probs", <<<<1>>>>, <<2>>), C("policy_gradient_loss", <<<<2>>>>, <<3, 5>>),
     C("clipped_policy_gradient_loss", <<<<2, 1>>>>, <<3, 6, 5>>), C("layer_norm", <<<<1, 2>>>>, <<7, 8>>),
     C("layer_norm", <<<<2, 2>>>>, <<>>), C("layer_norm", <<<<2, 2>>>>, <<2>>), C("rms_norm", <<<<3>>>>, <<7>>),
     C("linear", <<>>, <<9, 10>>), C("linear", <<>>, <<9>>), C("linear", <<>>, <<13>>), C("lora_linear", <<<<3>>>>, <<9, 10, 12, 13>>)}
BoxCalls ==
    {C("box_cxcywh_to_xyxy", <<>>, <<>>), C("box_xyxy_to_cxcywh", <<>>, <<>>), C("box_area", <<>>, <<>>), C("box_iou", <<>>, <<3>>),
     C("box_iou", <<>>, <<4>>), C("box_iou", <<>>, <<2>>), C("box_giou", <<>>, <<3>>), C("pairwise_box_iou", <<>>, <<2>>),
     C("pairwise_box_iou", <<>>, <<3>>)}
LayerCalls ==
    {C("batch_norm_layer", <<<<2>>, <<0>>>>, <<2, 3, 4, 5>>), C("batch_norm_layer", <<<<2>>, <<1>>>>, <<6, 7, 6, 7>>),
     C("batch_norm_eval", <<<<2>>, <<0>>>>, <<2, 3, 4, 5>>), C("batch_norm_eval", <<<<2>>, <<1>>>>, <<6, 7, 7, 6>>),
     C("batch_norm_running", <<<<3>>, <<0>>>>, <<4, 5>>), C("batch_norm_running", <<<<3>>, <<1>>>>, <<6, 7>>),
     C("group_norm_layer", <<<<2, 3>>, <<0>>>>, <<2, 3>>), C("group_norm_layer", <<<<2, 3>>, <<1>>>>, <<6, 7>>),
     C("group_norm_layer", <<<<3, 3>>, <<0>>>>, <<>>), C("group_norm_layer", <<<<1, 3>>, <<0>>>>, <<>>),
     C("conv2d_layer", Uneven(2) \o <<<<0>>>>, <<8, 6>>), C("conv2d_layer", Plain \o <<<<1>>>>, <<9, 7>>),
     C("conv2d_layer", Plain \o <<<<1>>>>, <<9>>), C("rms_norm", <<<<3>>>>, <<2>>)}
PixelCalls ==
    {C("upsample_nearest2d", <<<<2, 1>>>>, <<>>), C("resize_nearest2d", <<<<2, 5>>>>, <<>>), C("resize_bilinear2d", <<<<2, 5>>>>, <<>>),
     C("resize_bilinear2d", <<<<5, 3>>>>, <<>>), C("resize_bicubic2d", <<<<4, 3>>>>, <<>>), C("resize_bicubic2d", <<<<3, 4>>>>, <<>>),
     C("normalize_nhwc", <<<<3>>, <<4>>>>, <<>>), C("normalize_nhwc", <<<<3, 1>>, <<4, 1>>>>, <<>>), C("adjust_contrast", <<<<3>>>>, <<>>),
     C("center_crop", <<<<2, 2>>>>, <<>>), C("center_crop", <<<<3, 3>>>>, <<>>), C("center_crop", <<<<1, 9>>>>, <<>>), C("center_crop", <<<<2, 0>>>>, <<>>),
     C("resize_with_crop_or_pad", <<<<6, 2>>>>, <<>>), C("resize_with_crop_or_pad", <<<<2, 7>>>>, <<>>), C("solarize", <<<<2>>>>, <<>>)}
ColorCalls ==
    {C("rgb_to_grayscale", <<<<9, 18, 4>>>>, <<>>), C("normalize_nhwc", <<<<1, 2, 3>>, <<4, 5, 6>>>>, <<>>),
     C("upsample_nearest2d", <<<<1, 2>>>>, <<>>)}
(* "(n c) h 1 -> h (c n)" and the like: labels n = 1, c = 2, h = 3. *)
AxisCalls ==
    {C("rearrange", <<<<3, 2>>, <<1, 2>>, <<3>>, <<0>>, <<3>>, <<2, 1>>, <<2, 3, 2>>, <<2, 0, 0>>>>, <<>>),
     C("rearrange", <<<<3, 4>>, <<1, 2>>, <<3>>, <<0>>, <<1>>, <<3>>, <<0>>, <<2>>, <<3, 2, 2>>, <<0, 2, 0>>>>, <<>>),
     C("rearrange", <<<<3, 1>>, <<1>>, <<2>>, <<0>>, <<1, 0, 2>>, <<6, 2>>, <<0, 0>>>>, <<>>),
     C("rearrange", <<<<3, 2>>, <<1, 2>>, <<3>>, <<0>>, <<3>>, <<2, 1>>, <<2, 3, 2>>, <<0, 0, 0>>>>, <<>>),
     C("rearrange", <<<<3, 2>>, <<1, 2>>, <<3>>, <<0>>, <<3>>, <<2, 1>>, <<2, 3, 2>>, <<4, 0, 0>>>>, <<>>)}
StateCalls ==
    {C("kv_update_checked", <<>>, <<2, 3, 4, 5, 5>>), C("kv_update_checked", <<>>, <<2, 3, 4, 5, 6>>), C("kv_update_checked", <<>>, <<2, 3, 4, 7, 5>>),
     C("kv_update_checked", <<>>, <<2, 2, 1, 5, 5>>), C("kv_update_checked", <<>>, <<2, 3, 1, 5, 5>>), C("kv_update_checked", <<>>, <<2, 3, 4, 5>>)}
StatisticsCalls == {C("batch_norm_state", <<<<rate>>>>, <<2, 3, condition>>) : rate \in {0, 1, 4}, condition \in {4, 5}}
(* What may follow a first call: a nonlinear step or a reduction, so that the
   gradients of the first call receive a cotangent that depends on its result. *)
Following == {C("mul", <<>>, <<1>>), C("exp", <<>>, <<>>), C("sum", <<<<1>>, <<0>>>>, <<>>)}
MCCalls(f, n) ==
    IF n = 1 THEN CASE f = "vector" -> VectorCalls [] f = "matrix" -> MatrixCalls [] f = "cube" -> CubeCalls
                    [] f = "image" -> ImageCalls [] f = "heads" -> HeadCalls [] f = "rows" -> RowCalls
                    [] f = "boxes" -> BoxCalls [] f = "layers" -> LayerCalls [] f = "pixels" -> PixelCalls
                    [] f = "colors" -> ColorCalls [] f = "axes" -> AxisCalls [] f = "state" -> StateCalls
                    [] f = "statistics" -> StatisticsCalls [] f \in {"table", "table3"} -> TableCalls
    ELSE IF n = 2 THEN Following ELSE {}

Init == ProgramInit
Next == ProgramNext
Spec == Init /\ [][Next]_programVars
==============================================================================
