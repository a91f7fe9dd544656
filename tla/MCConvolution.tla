---------------------------- MODULE MCConvolution ----------------------------
(***************************************************************************)
(* Calls of the four convolution kernels.  One axis takes every small      *)
(* combination of sizes, stride, dilation and padding, the other one of a  *)
(* few, and then the other way around.                                     *)
(***************************************************************************)
EXTENDS Convolution

Axis(in, kernel, stride, dilation, pre, post) ==
  [in |-> in, kernel |-> kernel, stride |-> stride, dilation |-> dilation, pre |-> pre, post |-> post]

PlainAxes ==
  {Axis(in, k, s, d, pre, post) :
     in \in 1 .. 4, k \in 1 .. 3, s \in 1 .. 3, d \in 1 .. 2, pre \in 0 .. 2, post \in 0 .. 2}

OtherPlainAxes == {Axis(2, 2, 1, 1, 1, 0), Axis(3, 2, 2, 2, 0, 1)}

TransposedAxes ==
  {a \in {Axis(in, k, s, 1, pre, post) :
            in \in 1 .. 3, k \in 1 .. 4, s \in 1 .. 3, pre \in 0 .. 3, post \in 0 .. 3} :
     a.pre <= a.kernel /\ a.post < a.kernel}

OtherTransposedAxes == {Axis(2, 2, 2, 1, 0, 1), Axis(2, 3, 2, 1, 1, 0), Axis(1, 1, 2, 1, 0, 0)}

Crossed(axes, others) == (axes \X others) \cup (others \X axes)

(* An output buffer of the right size for h, w and c, its rows with a gap  *)
(* of pad elements, whose descriptor still has another shape.              *)
Out(h, w, c, gap, shape) ==
  [rank |-> 3, shape |-> shape, elem |-> 1,
   mem_stride |-> <<Most(1, w) * c + gap, c, 1, 0>>,
   capacity |-> 1 + Most(0, h - 1) * (Most(1, w) * c + gap) + Most(0, w - 1) * c + c - 1]

Call(kind, axes, in_ch, w_ch, filters, gap, shape) ==
  [kind |-> kind, h |-> axes[1], w |-> axes[2], in_ch |-> in_ch, w_ch |-> w_ch,
   filters |-> filters,
   out |-> Out(SizeReference(kind, axes[1]), SizeReference(kind, axes[2]), filters, gap, shape)]

Sized(kind, axes, filters, less) ==
  <<SizeReference(kind, axes[1]) - less, SizeReference(kind, axes[2]), filters, 0>>

(* The output shape set by the application: all of it, a tile of it, or    *)
(* one row more than there is.                                             *)
PlainCalls ==
  {Call("conv2d", x, 2, 2, 1, 1, Sized("conv2d", x, 1, less)) :
     x \in {y \in Crossed(PlainAxes, OtherPlainAxes) : SizeReference("conv2d", y[1]) > 1}, less \in -1 .. 1}

Channels == {<<2, 1, 2>>, <<2, 2, 2>>, <<4, 2, 4>>, <<2, 1, 4>>, <<3, 2, 2>>, <<4, 2, 3>>}

GroupAxes == {Axis(3, k, s, d, 1, 0) : k \in 1 .. 2, s \in 1 .. 2, d \in 1 .. 2}

(* A group convolution fills in the shape, whatever was there.             *)
GroupCalls ==
  {Call(kind, x, ch[1], ch[2], ch[3], 0, Sized(kind, x, ch[3], less)) :
     kind \in {"depthwise", "group"}, ch \in Channels,
     x \in Crossed(GroupAxes, OtherPlainAxes), less \in 0 .. 1}

TransposedCalls ==
  {Call("transpose", x, 1, 1, 2, 1, <<0, 0, 0, 0>>) : x \in Crossed(TransposedAxes, OtherTransposedAxes)}

MCCalls == PlainCalls \cup GroupCalls \cup TransposedCalls
=============================================================================
