----------------------------- MODULE Convolution -----------------------------
(***************************************************************************)
(* The convolution kernels: mli_krn_conv2d, depthwise_conv2d, group_conv2d *)
(* and transpose_conv2d in HWC layout.  A call checks its arguments, works *)
(* out one or more passes of the loops in convolution2D, and each pass     *)
(* computes the channels of one point of the output after the other.       *)
(*                                                                         *)
(* A value is not a number here but the products it sums up: the pairs of  *)
(* input and kernel rows, of columns and of channels that meet.  What the  *)
(* sum is turned into by bias, scale, rounding and ReLU is left out.       *)
(***************************************************************************)
EXTENDS Tensor, Window, Sequences, FiniteSets

CONSTANT Calls     \* the calls an application makes

(* A call is a record of kind; the axes h and w with the sizes in and      *)
(* kernel, stride, dilation and the padding pre and post; the channels     *)
(* in_ch of the input, w_ch of a filter, and the number of filters; and    *)
(* the descriptor out.  Sizes are at least 1, by the checks of the tensors *)
(* in and weights; the other numbers of an axis are bytes, and may be 0.   *)
(* A group has at most the input's channels: the code divides by their     *)
(* quotient before it refuses a call.  Strides of 1 for the inner-most     *)
(* dimension, which the checks ask for too, are taken for granted.         *)
ASSUME CallsAssumption ==
  \A c \in Calls :
    /\ c.kind \in {"conv2d", "depthwise", "group", "transpose"}
    /\ \A a \in {c.h, c.w} :
         /\ a.in \in Nat \ {0} /\ a.kernel \in Nat \ {0}
         /\ a.stride \in Nat /\ a.dilation \in Nat /\ a.pre \in Nat /\ a.post \in Nat
    /\ c.in_ch \in Nat \ {0} /\ c.w_ch \in Nat \ {0} /\ c.filters \in Nat \ {0}
    /\ c.kind = "group" => c.w_ch <= c.in_ch
    /\ c.out \in [rank : {3}, shape : [1 .. MaxRank -> Nat], mem_stride : [1 .. MaxRank -> Int],
                  elem : Nat, capacity : Nat]

VARIABLES
  call,     \* the call in progress
  out,      \* its output descriptor
  todo,     \* passes of the loops still to make, the current one first
  at,       \* H_idx and W_idx in the current pass
  mem,      \* what was written to the output buffer, by cell
  writes,   \* history: the number of writes
  status    \* "called", "running", or what the kernel returned

vars == <<call, out, todo, at, mem, writes, status>>

-----------------------------------------------------------------------------
(* Checks of the arguments.                                                *)

WindowOf(a) ==
  [in |-> a.in, kernel |-> a.kernel, stride |-> a.stride, dilation |-> a.dilation, pad |-> a.pre]

Groups(c) == c.in_ch \div c.w_ch

ChannelsMatch(c) ==
  CASE c.kind \in {"conv2d", "transpose"} -> c.in_ch = c.w_ch
    [] c.kind = "depthwise" -> c.w_ch = 1 /\ c.filters = c.in_ch
    [] c.kind = "group" -> c.in_ch % c.w_ch = 0 /\ c.filters % Groups(c) = 0

AxisFits(a, n) ==
  LET p == WindowOf(a)
  IN  /\ a.dilation > 0 /\ a.stride > 0
      /\ a.pre < EffectiveKernel(p) /\ a.post < EffectiveKernel(p)
      /\ Required(p, n) <= a.in + a.pre + a.post

TransposedAxisFits(a) ==
  a.dilation = 1 /\ a.stride > 0 /\ a.pre < a.kernel /\ a.post < a.kernel

(* The size of a transposed convolution.  In a shape it is unsigned. *)
TransposedSize(a) ==
  LET effective_in   == (a.in - 1) * a.stride + 1
      effective_pre  == a.kernel - a.pre - 1
      effective_post == a.kernel - a.post - 1
  IN  effective_in + effective_pre + effective_post - a.kernel + 1

WithShape(t, h, w, channels) == [t EXCEPT !.shape = <<h, w, channels, 0>>]

TransposedOut(c) ==
  WithShape(c.out, TransposedSize(c.h) % Modulus, TransposedSize(c.w) % Modulus, c.filters)

Check(c) ==
  LET fits == IF c.kind = "transpose" THEN TransposedAxisFits(c.h) /\ TransposedAxisFits(c.w)
              ELSE AxisFits(c.h, c.out.shape[1]) /\ AxisFits(c.w, c.out.shape[2])
  IN  IF ~ChannelsMatch(c) THEN "SHAPE_MISMATCH"
      ELSE IF ~fits THEN "BAD_FUNC_CFG"
      ELSE CheckLayout(IF c.kind = "transpose" THEN TransposedOut(c) ELSE c.out)

-----------------------------------------------------------------------------
(* Passes.  On each axis a pass is a window with the number of outputs,    *)
(* and says where in the tensors it begins and in which steps it goes.     *)

PlainAxis(a, n) ==
  [in |-> UsedSize(WindowOf(a), n), kernel |-> a.kernel, stride |-> a.stride,
   dilation |-> a.dilation, pad |-> a.pre, pad_end |-> 0, out |-> n, in_first |-> 0,
   krn_first |-> 0, krn_step |-> 1, out_first |-> 0, out_step |-> 1]

(* The parameters of an ordinary convolution with the same result on the   *)
(* input spread out by stride; the inner zeroes are never stored.          *)
EffectivePad(a) == a.kernel - a.pre - 1

(* Mutant: the output is written without gaps. *)
OutStepOne(a) == 1

(* Mutant: the offset of the output takes nothing from the padding. *)
PassPadWhole(a, offset, out_offset) == CeilDiv(Most(0, EffectivePad(a) - offset), a.stride)

OutStep(a) == a.stride

PassPad(a, offset, out_offset) ==
  CeilDiv(Most(0, EffectivePad(a) - out_offset - offset), a.stride)

(* The kernel is mirrored, and every stride-th element of it from offset   *)
(* on makes a kernel of its own for every stride-th output.                *)
TransposedAxis(a, size, offset) ==
  LET out_offset == (a.stride - offset + EffectivePad(a)) % a.stride
      kernel     == CeilDiv(a.kernel - offset, a.stride)
      outputs    == CeilDiv(size - out_offset, a.stride)
      area       == outputs + kernel - 1
      pad        == PassPad(a, offset, out_offset)
      in_offset  == CeilDiv(Most(0, out_offset - EffectivePad(a)), a.stride)
      in         == Least(area - pad, a.in - in_offset)
  IN  [in |-> in, kernel |-> kernel, stride |-> 1, dilation |-> 1, pad |-> pad,
       pad_end |-> Most(0, area - pad - in), out |-> outputs, in_first |-> in_offset,
       krn_first |-> a.kernel - 1 - offset, krn_step |-> 0 - a.stride,
       out_first |-> out_offset, out_step |-> OutStep(a)]

GroupSize(a) ==
  CeilDiv(a.in + a.pre + a.post - EffectiveKernel(WindowOf(a)) + 1, a.stride)

(* Only these two kernels fill in the shape of their output. *)
Filled(c) ==
  CASE c.kind = "group" -> WithShape(c.out, GroupSize(c.h), GroupSize(c.w), c.filters)
    [] c.kind = "transpose" -> TransposedOut(c)
    [] OTHER -> c.out

Passes(c) ==
  IF c.kind = "transpose"
  THEN [n \in 1 .. c.h.stride * c.w.stride |->
          [h |-> TransposedAxis(c.h, TransposedSize(c.h), (n - 1) \div c.w.stride),
           w |-> TransposedAxis(c.w, TransposedSize(c.w), (n - 1) % c.w.stride)]]
  ELSE <<[h |-> PlainAxis(c.h, Filled(c).shape[1]), w |-> PlainAxis(c.w, Filled(c).shape[2])]>>

-----------------------------------------------------------------------------
(* One point of the output.                                                *)

(* Group convolution uses the loops of the two others where it can. *)
Loops(c) ==
  CASE c.kind \in {"conv2d", "transpose"} -> "general"
    [] c.kind = "depthwise" -> "depthwise"
    [] c.kind = "group" -> IF c.in_ch = c.w_ch THEN "general"
                           ELSE IF c.w_ch = 1 /\ c.in_ch = c.filters THEN "depthwise"
                           ELSE "group"

OutChannels(c) == 0 .. (IF Loops(c) = "depthwise" THEN c.in_ch ELSE out.shape[3]) - 1

(* Mutant: neighbouring filters belong to different groups. *)
ChannelPairsInterleaved(c, ch) ==
  {<<c.w_ch * (ch % Groups(c)) + n, n>> : n \in 0 .. c.w_ch - 1}

ChannelPairs(c, ch) ==
  CASE Loops(c) = "general" -> {<<n, n>> : n \in 0 .. c.in_ch - 1}
    [] Loops(c) = "depthwise" -> {<<ch, 0>>}
    [] Loops(c) = "group" ->
         {<<c.w_ch * (ch \div (c.filters \div Groups(c))) + n, n>> : n \in 0 .. c.w_ch - 1}

AxisPairs(p, o) ==
  {<<p.in_first + v[1], p.krn_first + p.krn_step * v[2]>> : v \in Visited(p, o)}

Sum(rows, clmns, channels, filter) ==
  [rows |-> rows, clmns |-> clmns, channels |-> channels, filter |-> filter]

Value(pass, ch) ==
  Sum(AxisPairs(pass.h, at[1]), AxisPairs(pass.w, at[2]), ChannelPairs(call, ch), ch)

Place(pass, ch) ==
  Offset(out, <<pass.h.out_first + pass.h.out_step * at[1],
                pass.w.out_first + pass.w.out_step * at[2], ch, 0>>)

InLoops(pass) == at[1] < pass.h.out /\ at[2] < pass.w.out

-----------------------------------------------------------------------------
Init ==
  /\ call \in Calls
  /\ out = call.out
  /\ todo = <<>>
  /\ at = <<0, 0>>
  /\ mem = <<>>
  /\ writes = 0
  /\ status = "called"

Refuse ==
  /\ status = "called"
  /\ Check(call) # "OK"
  /\ status' = Check(call)
  /\ UNCHANGED <<call, out, todo, at, mem, writes>>

PrepareAndRun ==
  /\ status = "called"
  /\ Check(call) = "OK"
  /\ status' = "running"
  /\ out' = Filled(call)
  /\ todo' = Passes(call)
  /\ UNCHANGED <<call, at, mem, writes>>

NextPoint(pass) ==
  IF at[2] + 1 < pass.w.out THEN <<at[1], at[2] + 1>> ELSE <<at[1] + 1, 0>>

Point ==
  /\ status = "running" /\ todo # <<>> /\ InLoops(Head(todo))
  /\ LET pass  == Head(todo)
         cells == {Place(pass, ch) : ch \in OutChannels(call)}
         channel(i) == CHOOSE ch \in OutChannels(call) : Place(pass, ch) = i
     IN  /\ mem' = [i \in DOMAIN mem \cup cells |->
                      IF i \in cells THEN Value(pass, channel(i)) ELSE mem[i]]
         /\ writes' = writes + Cardinality(OutChannels(call))
         /\ at' = NextPoint(pass)
  /\ UNCHANGED <<call, out, todo, status>>

(* The loops of a pass end, at once where it has no outputs. *)
EndPass ==
  /\ status = "running" /\ todo # <<>> /\ ~InLoops(Head(todo))
  /\ todo' = Tail(todo)
  /\ at' = <<0, 0>>
  /\ UNCHANGED <<call, out, mem, writes, status>>

Return ==
  /\ status = "running" /\ todo = <<>>
  /\ status' = "OK"
  /\ UNCHANGED <<call, out, todo, at, mem, writes>>

Next == Refuse \/ PrepareAndRun \/ Point \/ EndPass \/ Return

Spec == Init /\ [][Next]_vars

-----------------------------------------------------------------------------
(* What a convolution is.                                                  *)

(* Transposed: each input element spreads the kernel over the output, from *)
(* its place on the grid of stride; the padding cuts the border off.       *)
Spread(a, o) ==
  {v \in (0 .. a.in - 1) \X (0 .. a.kernel - 1) : v[1] * a.stride + v[2] - a.pre = o}

AxisReference(kind, a, o) ==
  IF kind = "transpose" THEN Spread(a, o) ELSE Met(WindowOf(a), o)

(* The filters are divided evenly among the groups of input channels, in   *)
(* their order.                                                            *)
ChannelReference(c, ch) ==
  LET group == CHOOSE g \in 0 .. Groups(c) - 1 :
                 ch * Groups(c) \in g * c.filters .. (g + 1) * c.filters - 1
  IN  {<<group * c.w_ch + n, n>> : n \in 0 .. c.w_ch - 1}

Reference(c, h, w, ch) ==
  Sum(AxisReference(c.kind, c.h, h), AxisReference(c.kind, c.w, w), ChannelReference(c, ch), ch)

(* Places of the window on the padded input. *)
PlainSize(a) ==
  LET padded == a.in + a.pre + a.post
      eff    == EffectiveKernel(WindowOf(a))
  IN  Cardinality({o \in 0 .. padded : o * a.stride + eff <= padded})

SizeReference(kind, a) ==
  IF kind = "transpose" THEN (a.in - 1) * a.stride + a.kernel - a.pre - a.post
  ELSE PlainSize(a)

-----------------------------------------------------------------------------
(* Properties.                                                             *)

OutPositions ==
  {<<h, w, ch, 0>> : h \in 0 .. out.shape[1] - 1, w \in 0 .. out.shape[2] - 1,
                     ch \in 0 .. out.shape[3] - 1}

(* When a kernel returns OK, each element of the output sums up exactly    *)
(* the products of the reference: at borders with padding, stride and      *)
(* dilation, where the input was cut down, for all three loops over        *)
(* channels, and for the transposed convolution put together from passes.  *)
ResultExact ==
  status = "OK" =>
    /\ DOMAIN mem = {Offset(out, q) : q \in OutPositions}
    /\ \A q \in OutPositions : mem[Offset(out, q)] = Reference(call, q[1], q[2], q[3])

(* Into a buffer of the documented capacity nothing is written outside of  *)
(* it, also where the shape that was checked is not the one filled in, and *)
(* nothing is read that the input and the kernel do not have.              *)
InsideBuffers ==
  /\ \A i \in DOMAIN mem : i >= 0 /\ (i + 1) * out.elem <= out.capacity
  /\ \A i \in DOMAIN mem :
       /\ mem[i].rows \subseteq (0 .. call.h.in - 1) \X (0 .. call.h.kernel - 1)
       /\ mem[i].clmns \subseteq (0 .. call.w.in - 1) \X (0 .. call.w.kernel - 1)
       /\ mem[i].channels \subseteq (0 .. call.in_ch - 1) \X (0 .. call.w_ch - 1)
       /\ mem[i].filter < call.filters

(* No element of the output is computed twice: the passes of a transposed  *)
(* convolution divide the output among them.                               *)
ComputedOnce == writes = Cardinality(DOMAIN mem)

(* The documentation asks that a dilated kernel fits into the input; the   *)
(* checks do not.                                                          *)
KernelInInput(a) == EffectiveKernel(WindowOf(a)) <= a.in

(* Under this condition every window has elements of the input, as the dot *)
(* products assume (__builtin_assume) of their number of rows; so has every*)
(* pass of a transposed convolution whose stride is not beyond its kernel. *)
AreaNotEmpty ==
  status = "running" /\ todo # <<>> /\ InLoops(Head(todo)) =>
    LET pass == Head(todo)
        meets(a, p, o) ==
          (IF call.kind = "transpose" THEN a.stride <= a.kernel ELSE KernelInInput(a))
            => p.in > 0 /\ p.kernel > 0 /\ p.pad >= 0 /\ AreaSize(p, o) > 0
    IN  meets(call.h, pass.h, at[1]) /\ meets(call.w, pass.w, at[2])
=============================================================================
