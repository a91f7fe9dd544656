------------------------------- MODULE Dense --------------------------------
(***************************************************************************)
(* mli_krn_fully_connected and mli_krn_rnn_dense: each output, or neuron,  *)
(* is a dot product of the whole input with a column of the weights, plus  *)
(* a bias, brought from the format of the accumulator to that of the       *)
(* output.  rnn_dense does this for several inputs, each with scales of    *)
(* its own, and adds up the results.                                       *)
(*                                                                         *)
(* Values are the numbers the code computes with.  Byte is the number of   *)
(* bits of int8_t, and the other integers have 2, 4 and 8 times as many,   *)
(* so that all of the arithmetic can be checked with less than 64 bits;    *)
(* the constants that follow from the widths are written as they follow.   *)
(***************************************************************************)
EXTENDS Tensor, FixedPoint, Numbers, Sequences, FiniteSetsExt

CONSTANTS
  Byte,     \* 8
  Calls     \* the calls an application makes

ASSUME WidthAssumption == Byte \in Nat \ {0}

Short == 2 * Byte      \* int16_t
Word == 4 * Byte       \* int32_t, mli_acc32_t
Long == 8 * Byte       \* int64_t, mli_acc40_t

MaxInputs == 4         \* MLI_RNN_MAX_INPUT

(* The types of input and output, of weights and of biases, and the width  *)
(* of the accumulator. *)
Format ==
  [fx8          |-> [io |-> "FX_8",  w |-> "FX_8",  b |-> "FX_8",  acc |-> Word],
   fx16         |-> [io |-> "FX_16", w |-> "FX_16", b |-> "FX_16", acc |-> Long],
   fx16_fx8_fx8 |-> [io |-> "FX_16", w |-> "FX_8",  b |-> "FX_8",  acc |-> Word],
   sa8_sa8_sa32 |-> [io |-> "SA_8",  w |-> "SA_8",  b |-> "SA_32", acc |-> Word]]

Bits == [FX_8 |-> Byte, FX_16 |-> Short, SA_8 |-> Byte, SA_32 |-> Word]

Quantized(type) == type \in {"SA_8", "SA_32"}

(* A call has a kernel and a format, a sequence of inputs and one of       *)
(* weights, of which fully_connected has one each, a bias, the kind of     *)
(* ReLU, and whether the bias includes what the zero point of the input    *)
(* adds (ext).  Besides the fields of Tensor a descriptor has a type,      *)
(* values and, for each index of the dimension dim or for 1, scale, frac   *)
(* and zero; an fx tensor has scale 1 and zero point 0.                    *)
ASSUME CallsAssumption ==
  \A c \in Calls :
    /\ c.kernel \in {"fully_connected", "rnn_dense"} /\ c.format \in DOMAIN Format
    /\ c.kernel = "fully_connected" => Len(c.in) = 1
    /\ Len(c.weights) = Len(c.in)
    /\ c.ext => c.kernel = "fully_connected" /\ c.format = "sa8_sa8_sa32"
    /\ c.relu # "NONE" => c.kernel = "fully_connected"
    /\ c.out.rank \in 1 .. MaxRank

VARIABLES
  call,     \* the call in progress
  out,      \* its output descriptor
  params,   \* quant_params, for each input
  neuron,   \* o_idx, the outputs that are done
  mem,      \* the memory behind the data pointer of the output
  status    \* "called", "running", or what the kernel returned

vars == <<call, out, params, neuron, mem, status>>

-----------------------------------------------------------------------------
(* Checks: the status of the first condition that does not hold.           *)

Need(condition, otherwise) == IF condition THEN "OK" ELSE otherwise

FirstOf(checks) ==
  LET failed == {i \in DOMAIN checks : checks[i] # "OK"}
  IN  IF failed = {} THEN "OK" ELSE checks[Min(failed)]

Innermost(t) == t.mem_stride[t.rank] = 1

Contiguous(t) ==
  \A d \in Dims(t) :
    t.mem_stride[d] = IF d = t.rank THEN 1 ELSE t.shape[d + 1] * t.mem_stride[d + 1]

Neurons(c) == c.weights[1].shape[2]

(* Mutant: the capacity is compared with a number of elements. *)
BytesAsElements(n, elem) == n

Bytes(n, elem) == (n * elem) % Modulus

CheckFullyConnected(c) ==
  LET in == c.in[1]
      w == c.weights[1]
  IN  FirstOf(<<
        CheckTensor(in), CheckTensor(w), CheckTensor(c.bias),
        Need(w.rank = 2 /\ c.bias.rank = 1 /\ ElemNum(in) = w.shape[1]
               /\ c.bias.shape[1] = w.shape[2], "SHAPE_MISMATCH"),
        Need(Contiguous(in) /\ Innermost(w) /\ Contiguous(c.bias) /\ c.out.mem_stride[1] = 1,
             "INCOMPATEBLE_TENSORS"),
        Need(Bytes(Neurons(c), in.elem) <= c.out.capacity, "NOT_ENGH_MEM")>>)

CheckInput(c, k) ==
  LET in == c.in[k]
      w == c.weights[k]
  IN  FirstOf(<<
        CheckTensor(in), CheckTensor(w),
        Need(w.rank = 2 /\ ElemNum(in) = w.shape[1] /\ w.shape[2] = Neurons(c), "SHAPE_MISMATCH"),
        Need(Innermost(in) /\ Innermost(w), "INCOMPATEBLE_TENSORS")>>)

(* The last dimension of the output is the one of the rank it had before.  *)
CheckRnnDense(c) ==
  FirstOf(<<
    FirstOf([k \in DOMAIN c.in |-> CheckInput(c, k)]),
    CheckTensor(c.bias),
    Need(c.bias.rank = 1 /\ c.bias.shape[1] = Neurons(c), "SHAPE_MISMATCH"),
    Need(Bytes(ElemNum(c.bias), c.in[1].elem) <= c.out.capacity, "BAD_TENSOR"),
    Need(Innermost(c.bias) /\ Innermost(c.out), "INCOMPATEBLE_TENSORS")>>)

CheckTypes(c) ==
  LET f == Format[c.format]
  IN  Need((\A k \in DOMAIN c.in : c.in[k].type = f.io /\ c.weights[k].type = f.w)
             /\ c.bias.type = f.b, "TYPE_MISMATCH")

(* mli_chk_bias_frac_fx, mli_chk_bias_scale_asym: the bias is one of the   *)
(* first accumulator, which it may not be finer than, or has its scale.    *)
CheckFrac(c) ==
  Need(c.bias.frac[1] <= c.in[1].frac[1] + c.weights[1].frac[1], "INCOMPATEBLE_TENSORS")

CheckScale(c) ==
  LET in == c.in[1]
      w == c.weights[1]
      shift(i) == in.frac[1] + w.frac[i] - c.bias.frac[i]
      expected(i) ==
        IF shift(i) > 0 THEN AsrRnd(Word, in.scale[1] * w.scale[i], shift(i))
        ELSE in.scale[1] * w.scale[i] * 2^(0 - shift(i))
  IN  Need(\A i \in DOMAIN w.scale : expected(i) - c.bias.scale[i] \in -1 .. 1,
           "INCOMPATEBLE_TENSORS")

(* mli_chk_tensor_quant_params, for the type the descriptor has so far.    *)
CheckParams(t, zeros) ==
  IF ~Quantized(t.type) THEN "OK"
  ELSE FirstOf(<<Need(Quantified(t), "BAD_TENSOR"),
                 Need(\A i \in DOMAIN t.zero : t.zero[i] \in zeros, "INCOMPATEBLE_TENSORS")>>)

ByteRange == Lo(Byte) .. Hi(Byte)

CheckQuantized(c) ==
  LET perAxis ==
        IF c.weights[1].dim = 0 THEN c.bias.dim = 0
        ELSE c.kernel = "fully_connected" /\ c.weights[1].dim = 2 /\ c.bias.dim = 1
      ofInput(k) == FirstOf(<<CheckParams(c.in[k], ByteRange), CheckParams(c.weights[k], {0})>>)
  IN  FirstOf(<<
        IF c.kernel = "fully_connected" THEN CheckParams(c.in[1], ByteRange)
        ELSE FirstOf([k \in DOMAIN c.in |-> ofInput(k)]),
        CheckParams(c.out, ByteRange), CheckParams(c.weights[1], {0}), CheckParams(c.bias, {0}),
        Need(perAxis /\ c.out.dim = 0 /\ \A k \in DOMAIN c.in :
               c.in[k].dim = 0 /\ (k > 1 => c.weights[k].dim = 0), "INCOMPATEBLE_TENSORS")>>)

Check(c) ==
  IF Len(c.in) \notin 1 .. MaxInputs THEN "BAD_FUNC_CFG"
  ELSE
    LET quantized == Quantized(Format[c.format].io)
        base == IF c.kernel = "rnn_dense" THEN CheckRnnDense(c) ELSE CheckFullyConnected(c)
        own == IF quantized THEN CheckQuantized(c) ELSE CheckFrac(c)
        checked == IF c.kernel = "fully_connected" /\ ~quantized
                   THEN FirstOf(<<CheckTypes(c), own, base>>)
                   ELSE FirstOf(<<base, CheckTypes(c), own>>)
    IN  IF checked # "OK" \/ ~quantized THEN checked ELSE CheckScale(c)

-----------------------------------------------------------------------------
(* Quantization parameters.                                                *)

(* define_quant_params: the ratio of the scales of input and output, with  *)
(* a shift, for sa8; differences of fractional bits for fx. *)
DefineQuant(in, w, bias, o) ==
  IF Quantized(in.type)
  THEN LET norm == NormCast(Word, Word, in.scale[1])
           ratio == norm.val \div o.scale[1]
           shift == Word - Short - Norm(Word, ratio)
       IN  [in_offset |-> in.zero[1], weights_offset |-> w.zero[1], out_offset |-> o.zero[1],
            ratio |-> Cast(Word, Short, ratio, shift),
            shift |-> in.frac[1] - norm.shift - o.frac[1] - shift]
  ELSE [in_offset |-> 0, weights_offset |-> 0, out_offset |-> 0,
        bias_shift |-> in.frac[1] + w.frac[1] - bias.frac[1],
        shift |-> in.frac[1] + w.frac[1] - o.frac[1]]

(* Mutant: the bias includes what the zero point adds, and it is added. *)
InOffsetKept(c, p) == p

(* is_bias_ext. *)
InOffset(c, p) == IF c.ext THEN [p EXCEPT !.in_offset = 0] ELSE p

(* Mutant: the scale of the first neuron is used for all of them. *)
ScaleOfFirst(w, o) == 1

ScaleIndex(w, o) == IF w.dim = 0 THEN 1 ELSE o

(* adjust_quant_params: the multiplier of a neuron, with no bit unused.    *)
Adjusted(p, w, o) ==
  LET mul == p.ratio * w.scale[ScaleIndex(w, o)]
      norm == Norm(Word, mul)
  IN  [mul |-> mul * 2^norm, shift |-> p.shift + w.frac[ScaleIndex(w, o)] + norm]

(* mli_prv_get_relu_limits: a number of the activation function as a value *)
(* of the output, and what the results are limited to. *)
Level(o, number, bits) ==
  LET shift == o.frac[1]
  IN  IF shift < 0 THEN (number \div 2^(0 - shift)) \div o.scale[1]
      ELSE IF shift < bits THEN (number * 2^shift) \div o.scale[1]
      ELSE Hi(Bits[o.type])

Limits(relu, o) ==
  LET lo == Lo(Bits[o.type])
      hi == Hi(Bits[o.type])
      zero == o.zero[1]
      one == Level(o, 1, Word - 2)
  IN  CASE relu = "GEN" -> [min |-> Most(zero, lo), max |-> hi]
        [] relu = "6"   -> [min |-> Most(zero, lo), max |-> Least(Level(o, 6, Word - 4) + zero, hi)]
        [] relu = "1"   -> [min |-> Most(zero - one, lo), max |-> Least(one + zero, hi)]
        [] OTHER        -> [min |-> lo, max |-> hi]

Limited(relu, o, x) == Most(Limits(relu, o).min, Least(Limits(relu, o).max, x))

-----------------------------------------------------------------------------
(* Accumulators.                                                           *)

AccBits(c) == Format[c.format].acc

Elements(c, k) == 0 .. ElemNum(c.in[k]) - 1

(* Inputs are read one after the other, weights a column from the top: the *)
(* cells of an input and of weights that the i-th product multiplies.      *)
InputCell(c, k, i) == i
WeightCell(c, k, o, i) == o - 1 + i * c.weights[k].mem_stride[1]

Input(c, k, i) == c.in[k].values[InputCell(c, k, i)]
Weight(c, k, o, i) == c.weights[k].values[WeightCell(c, k, o, i)]

(* f[0] + .. + f[n - 1] *)
SumTo(n, f) ==
  LET sum[i \in 0 .. n] == IF i = 0 THEN 0 ELSE sum[i - 1] + f[i - 1]
  IN  sum[n]

(* dotprod1D and weights_additive; in_additive and zp_additive.            *)
DotProduct(c, p, k, o) ==
  SumTo(ElemNum(c.in[k]),
        [i \in Elements(c, k) |-> (Input(c, k, i) - p.in_offset) * Weight(c, k, o, i)])

Additives(c, p, k) ==
  SumTo(ElemNum(c.in[k]),
        [i \in Elements(c, k) |-> p.weights_offset * (p.in_offset - Input(c, k, i))])

(* bias_additive.  In the accumulator of fx16, what the shift makes of the *)
(* bias goes through 32 bits. *)
Bias(c, p, o) ==
  LET b == c.bias.values[o - 1]
  IN  CASE Quantized(c.bias.type) -> b
        [] c.format = "fx16" -> Narrow(Word, AsrRnd(Long, b, 0 - p.bias_shift))
        [] OTHER -> AsrRnd(Word, b, 0 - p.bias_shift)

-----------------------------------------------------------------------------
(* From the accumulator to the output.                                     *)

(* result_cast of sa8, with an accumulator that is reduced to 16 bits.     *)
Preshift(q) == Clamp(0, Byte, q.shift - Short - (Word - Byte - 3))

Scaled(q, offset, acc) ==
  LET reduced == Sat(Word, AsrRnd(Word, acc, Preshift(q)), Short)
      shift == q.shift - Short - Preshift(q)
      product == reduced * AsrRnd(Word, q.mul, Short)
      value == Cast(Long, Short, product, Least(shift, Long - 1))
  IN  Cast(Short, Byte, AddSat(Short, value, offset), 0)

(* inner_product: one neuron of fully_connected.                           *)
InnerProduct(c, p, d, o) ==
  LET w == AccBits(c)
      products == AddSat(w, Narrow(w, DotProduct(c, p, 1, o)), Narrow(w, Additives(c, p, 1)))
      acc == AddSat(w, products, Bias(c, p, o))
      result == IF Quantized(d.type) THEN Scaled(Adjusted(p, c.weights[1], o), p.out_offset, acc)
                ELSE Cast(w, Bits[d.type], acc, p.shift)
  IN  Limited(c.relu, d, result)

(* ir_rnn_result_requantize.                                               *)
Requantized(c, p, k, acc) ==
  LET q == Adjusted(p, c.weights[k], 1)
  IN  CASE c.format = "sa8_sa8_sa32" -> Cast(Long, Word, acc * q.mul, Least(q.shift, Long - 1))
        [] c.format = "fx16" -> AsrRnd(Long, acc, Least(p.shift, 5 * Byte - 1))
        [] OTHER -> AsrRnd(Word, acc, p.shift)

(* rnn_dense_op: one neuron.  The bias is the start of the first product.  *)
Partial(c, ps, k, o) ==
  LET w == AccBits(c)
      start == IF k = 1 THEN Bias(c, ps[1], o) ELSE 0
      acc == AddSat(w, Narrow(w, start + DotProduct(c, ps[k], k, o)),
                       Narrow(w, Additives(c, ps[k], k)))
  IN  Requantized(c, ps[k], k, acc)

RnnDenseOp(c, ps, d, o) ==
  LET w == AccBits(c)
      sum[k \in 0 .. Len(c.in)] ==
        IF k = 0 THEN 0 ELSE AddSat(w, sum[k - 1], Partial(c, ps, k, o))
      cast == Sat(w, sum[Len(c.in)], w - Short)
      io == Format[c.format].io
  IN  IF Quantized(io) THEN Cast(Short, Byte, AddSat(Short, cast, ps[Len(c.in)].out_offset), 0)
      ELSE cast

Value(c, ps, d, o) ==
  IF c.kernel = "rnn_dense" THEN RnnDenseOp(c, ps, d, o) ELSE InnerProduct(c, ps[1], d, o)

-----------------------------------------------------------------------------
(* The output descriptor: fully_connected fills it in before, rnn_dense    *)
(* after its neurons, and leaves the type, of which elem is the size. *)
Filled(c) ==
  IF c.kernel = "fully_connected"
  THEN [c.out EXCEPT !.type = c.in[1].type, !.elem = c.in[1].elem,
                     !.shape[1] = Neurons(c), !.rank = 1]
  ELSE c.out

(* Mutant: the shape of an earlier use stays. *)
RankOnlyAfter(c, d) == IF c.kernel = "rnn_dense" THEN [d EXCEPT !.rank = c.bias.rank] ELSE d

FilledAfter(c, d) ==
  IF c.kernel = "rnn_dense"
  THEN [d EXCEPT !.rank = c.bias.rank, !.shape[1] = c.bias.shape[1]]
  ELSE d

-----------------------------------------------------------------------------
Init ==
  /\ call \in Calls
  /\ out = call.out
  /\ params = <<>>
  /\ neuron = 0
  /\ mem = [i \in {} |-> 0]
  /\ status = "called"

Refuse ==
  /\ status = "called" /\ Check(call) # "OK"
  /\ status' = Check(call)
  /\ UNCHANGED <<call, out, params, neuron, mem>>

Prepare ==
  /\ status = "called" /\ Check(call) = "OK"
  /\ status' = "running"
  /\ out' = Filled(call)
  /\ params' = [k \in DOMAIN call.in |->
       InOffset(call, DefineQuant(call.in[k], call.weights[k], call.bias, out'))]
  /\ UNCHANGED <<call, neuron, mem>>

Neuron ==
  /\ status = "running" /\ neuron < Neurons(call)
  /\ neuron' = neuron + 1
  /\ mem' = [i \in 0 .. neuron |->
       IF i = neuron THEN Value(call, params, out, neuron + 1) ELSE mem[i]]
  /\ UNCHANGED <<call, out, params, status>>

Return ==
  /\ status = "running" /\ neuron = Neurons(call)
  /\ status' = "OK"
  /\ out' = FilledAfter(call, out)
  /\ UNCHANGED <<call, params, neuron, mem>>

Next == Refuse \/ Prepare \/ Neuron \/ Return

Spec == Init /\ [][Next]_vars
-----------------------------------------------------------------------------
(* The formula of the documentation, in rational numbers: the sum of the   *)
(* products of what inputs and weights stand for, and the bias.            *)

(* In the scale of the accumulator: the elements where strides say that    *)
(* they are, and the bias with the fractional bits of a product. *)
Products(c, k, o) ==
  LET in == c.in[k]
      w == c.weights[k]
      x(i) == in.values[Offset(in, SlicePosition(in, 0, 0, i))] - (IF c.ext THEN 0 ELSE in.zero[1])
  IN  MapThenSumSet(LAMBDA i : x(i) * w.values[Offset(w, <<i, o - 1, 0, 0>>)], Elements(c, k))

ExactBias(c, o) ==
  LET b == c.bias.values[o - 1]
  IN  IF Quantized(c.bias.type) THEN b
      ELSE b * 2^(c.in[1].frac[1] + c.weights[1].frac[1] - c.bias.frac[1])

Total(c, k, o) == Products(c, k, o) + (IF k = 1 THEN ExactBias(c, o) ELSE 0)

WeightIndex(c, o) == IF c.weights[1].dim > 0 THEN o ELSE 1

Shift(c, k, o) ==
  c.out.frac[1] - c.in[k].frac[1] - c.weights[k].frac[WeightIndex(c, o)]

(* The sum over all inputs as a fraction; the numerator of a bigger shift  *)
(* is multiplied, the denominator takes the smallest. *)
Lowest(c, o) == Min({0} \cup {Shift(c, k, o) : k \in DOMAIN c.in})

Numerator(c, k, o) ==
  Total(c, k, o) * c.in[k].scale[1] * c.weights[k].scale[WeightIndex(c, o)]
    * 2^(Shift(c, k, o) - Lowest(c, o))

Denominator(c, o) == c.out.scale[1] * 2^(0 - Lowest(c, o))

Rounded(num, den) == (2 * num + den) \div (2 * den)

(* A number n of the activation function in the scale of the output.       *)
LevelOf(c, n) ==
  LET frac == c.out.frac[1]
  IN  Rounded(n * 2^Most(frac, 0), c.out.scale[1] * 2^Most(0 - frac, 0))

Activated(c, y) ==
  CASE c.relu = "GEN" -> Most(0, y)
    [] c.relu = "6"   -> Clamp(0, LevelOf(c, 6), y)
    [] c.relu = "1"   -> Clamp(0 - LevelOf(c, 1), LevelOf(c, 1), y)
    [] OTHER          -> y

Documented(c, o) ==
  LET sum == MapThenSumSet(LAMBDA k : Numerator(c, k, o), DOMAIN c.in)
      bits == Bits[Format[c.format].io]
  IN  Clamp(Lo(bits), Hi(bits),
            Activated(c, Rounded(sum, Denominator(c, o))) + c.out.zero[1])

(* The client sees to it that accumulators do not overflow. *)
Fit(bits, x) == x \in Lo(bits) .. Hi(bits)

SumFits(c, o) ==
  \A k \in DOMAIN c.in :
    Fit(AccBits(c), Products(c, k, o)) /\ Fit(AccBits(c), Total(c, k, o))

(* What a shift makes of the bias fits into 32 bits, also where the        *)
(* accumulator has more. *)
BiasFits(c, o) == Fit(Word, ExactBias(c, o))

(* The accumulator of sa8 fits into 16 bits after the first shift.         *)
ReducedFits(c, o) ==
  c.format = "sa8_sa8_sa32" /\ c.kernel = "fully_connected" =>
    LET q == Adjusted(params[1], c.weights[1], o)
    IN  Fit(Short, AsrRnd(Word, Total(c, 1, o), Preshift(q)))

(* rnn_dense reads its inputs as if they were contiguous.                  *)
InputsContiguous(c) == \A k \in DOMAIN c.in : Contiguous(c.in[k])

Near(x, y, distance) == x - y <= distance /\ y - x <= distance

(* How far roundings may lead: of a number that is rounded once, nowhere,  *)
(* and else one for each of two numbers. *)
Distance(c) ==
  IF Quantized(Format[c.format].io) \/ c.kernel = "rnn_dense" THEN 1 + Len(c.in) \div 2 ELSE 0

NeuronNear(c, o) ==
  Near(mem[o - 1], Documented(c, o), IF c.relu = "NONE" THEN Distance(c) ELSE 1)

(* What the zero point of the input takes from the products of a neuron.   *)
ZeroProducts(c, o) ==
  SumTo(ElemNum(c.in[1]), [i \in Elements(c, 1) |-> c.in[1].zero[1] * Weight(c, 1, o, i)])

(* The same call with the bias as it was, for the kernel that adds it.     *)
Plain(c) ==
  [c EXCEPT !.ext = FALSE,
            !.bias.values = [i \in 0 .. Neurons(c) - 1 |-> @[i] + ZeroProducts(c, i + 1)]]

-----------------------------------------------------------------------------
(* Properties.                                                             *)

(* Every neuron holds what the formula gives, saturated: equal to it where *)
(* scales are powers of two and there is one input, next to it otherwise,  *)
(* although multipliers, shifts and the accumulator are rounded one after  *)
(* the other - with the scale of its own neuron and its own input.         *)
ResultNear ==
  status = "OK" /\ InputsContiguous(call) =>
    \A o \in 1 .. Neurons(call) :
      SumFits(call, o) /\ BiasFits(call, o) /\ ReducedFits(call, o) => NeuronNear(call, o)

(* A bias that includes the zero point of the input gives, to the last     *)
(* bit, the outputs of the bias that does not, as long as neither kernel's *)
(* products overflow. *)
BiasExtended ==
  status = "OK" /\ call.ext =>
    \A o \in 1 .. Neurons(call) :
      LET c == Plain(call)
          p == DefineQuant(c.in[1], c.weights[1], c.bias, out)
          w == AccBits(c)
      IN  Fit(w, DotProduct(call, params[1], 1, o)) /\ Fit(w, DotProduct(c, p, 1, o))
            /\ Fit(Word, c.bias.values[o - 1])
          => mem[o - 1] = Value(c, <<p>>, out, o)

(* Products are of elements in the buffers of input and weights; what is   *)
(* written lies in that of the output. *)
InsideBuffers ==
  status = "running" /\ neuron < Neurons(call) =>
    /\ \A k \in DOMAIN call.in : \A i \in Elements(call, k) :
         /\ (InputCell(call, k, i) + 1) * call.in[k].elem <= call.in[k].capacity
         /\ (WeightCell(call, k, neuron + 1, i) + 1) * call.weights[k].elem
              <= call.weights[k].capacity
    /\ (neuron + 1) * call.bias.elem <= call.bias.capacity
    /\ (neuron + 1) * call.in[1].elem <= out.capacity

(* rnn_dense checks the stride of the last dimension of the rank it finds  *)
(* and makes the first one the vector's; it checks the capacity for        *)
(* elements of its input and keeps the type it finds, although             *)
(* rec_rnn_dense.rst says that all fields but mem_stride and el_params are *)
(* filled in.  So the client provides both.                                *)
VectorProvided(c) ==
  c.kernel = "rnn_dense" => c.out.mem_stride[1] = 1 /\ c.out.elem <= c.in[1].elem

(* Whatever an earlier use left in it, the output of a call that returns   *)
(* OK has rank 1 and the number of neurons as shape, and the type of the   *)
(* input after a fully connected layer.  It is a tensor that the check of  *)
(* the next kernel accepts, with the neurons where they were written.      *)
OutputDescribed ==
  status = "OK" =>
    /\ out.rank = 1 /\ out.shape[1] = Neurons(call)
    /\ call.kernel = "fully_connected" =>
         out.type = call.in[1].type /\ out.elem = call.in[1].elem
    /\ VectorProvided(call) =>
         /\ CheckLayout(out) = "OK"
         /\ \A o \in 1 .. Neurons(call) : Offset(out, <<o - 1, 0, 0, 0>>) = o - 1

(* Contradicted by the fx16 kernels, whose accumulators the documentation  *)
(* gives 40 bits: the formula holds for every bias the check accepts.      *)
EveryBias ==
  status = "OK" /\ call.format = "fx16" /\ call.kernel = "fully_connected" =>
    \A o \in 1 .. Neurons(call) : SumFits(call, o) => NeuronNear(call, o)
=============================================================================
