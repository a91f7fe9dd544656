------------------------------- MODULE MCDense --------------------------------
(***************************************************************************)
(* Layers of up to four inputs and three neurons in each format, with one  *)
(* scale or one for each neuron, one to three inputs of different scales,  *)
(* gaps between the rows of the weights, biases that do and do not fit,    *)
(* each kind of ReLU, and calls that are refused.                          *)
(***************************************************************************)
EXTENDS Dense, TLC

ElemSize == [FX_8 |-> 1, FX_16 |-> 2, SA_8 |-> 1, SA_32 |-> 4]

(* A tensor with values that run through the range of their type.          *)
Of(type, rank, shape, stride, dim, scale, frac, zero, first, step) ==
  LET t == [type |-> type, elem |-> ElemSize[type], rank |-> rank, shape |-> shape,
            mem_stride |-> stride, dim |-> dim, scale |-> scale, frac |-> frac, zero |-> zero,
            params_cap |-> IF dim > 0 THEN shape[dim] ELSE 0]
  IN  t @@ [capacity |-> Span(t) * t.elem,
            values |-> [i \in 0 .. Span(t) - 1 |-> Narrow(Bits[type], first + step * i)]]

Vector(type, n, scale, frac, zero, first, step) ==
  Of(type, 1, <<n, 0, 0, 0>>, <<1, 0, 0, 0>>, 0, <<scale>>, <<frac>>, <<zero>>, first, step)

(* n rows of m weights, and a gap between them.                            *)
Matrix(type, n, m, gap, scale, frac, first, step) ==
  Of(type, 2, <<n, m, 0, 0>>, <<m + gap, 1, 0, 0>>, 0, <<scale>>, <<frac>>, <<0>>, first, step)

(* A scale for each of m neurons.                                          *)
PerNeuron(t, dim, scale, frac) ==
  [t EXCEPT !.dim = dim, !.scale = scale, !.frac = frac, !.zero = [i \in DOMAIN scale |-> 0],
            !.params_cap = Len(scale)]

Output(type, m, scale, frac, zero) ==
  [type |-> type, elem |-> ElemSize[type], rank |-> 1, shape |-> <<0, 0, 0, 0>>,
   mem_stride |-> <<1, 0, 0, 0>>, dim |-> 0, scale |-> <<scale>>, frac |-> <<frac>>, zero |-> <<zero>>, params_cap |-> 0,
   capacity |-> m * ElemSize[type]]

Call(kernel, format, in, weights, bias, relu, ext, o) ==
  [kernel |-> kernel, format |-> format, in |-> in, weights |-> weights, bias |-> bias,
   relu |-> relu, ext |-> ext, out |-> o]

Fully(format, in, w, bias, relu, o) ==
  Call("fully_connected", format, <<in>>, <<w>>, bias, relu, FALSE, o)

-----------------------------------------------------------------------------
Relus == {"NONE", "GEN", "1", "6"}

FxCalls ==
  {LET t == Format[f]
   IN  Fully(f, Vector(t.io, 3, 1, fi, 0, first, 37), Matrix(t.w, 3, 2, gap, 1, 3, 1, step),
             Vector(t.b, 2, 1, fb, 0, bias, 5), relu, Output(t.io, 2, 1, fo, 0)) :
     f \in {"fx8", "fx16", "fx16_fx8_fx8"}, fi \in {0, 4}, first \in {-9, 5}, gap \in {0, 1},
     step \in {3, 6}, fb \in {-1, 3}, bias \in {-7, 2}, relu \in Relus, fo \in {-1, 2, 5}}

(* A bias of fx16 that takes more than 32 bits in its accumulator.         *)
WideCalls ==
  {Fully("fx16", Vector("FX_16", 3, 1, 7, 0, -5, 3), Matrix("FX_16", 3, 2, 0, 1, 7, 2, 5),
         Vector("FX_16", 2, 1, fb, 0, bias, 64), "NONE", Output("FX_16", 2, 1, fo, 0)) :
     fb \in {3, 4, 6}, bias \in {-100, 1, 20}, fo \in {4, 5}}

(* The scale of the bias follows from that of input and weights.           *)
SaCalls ==
  {LET in == Vector("SA_8", 4, si, fi, zi, first, 3)
       w == Matrix("SA_8", 4, 2, 1, sw, 2, -6, step)
   IN  Fully("sa8_sa8_sa32", in, w, Vector("SA_32", 2, si * sw, fi + 2, 0, bias, 45), relu,
             Output("SA_8", 2, so, 1, zo)) :
     si \in {1, 11}, fi \in {2, 4}, zi \in {-8, 3}, first \in {-8, 1}, sw \in {3, 9},
     step \in {1, 5}, bias \in {-300, 0, 120}, relu \in {"NONE", "GEN"}, so \in {2, 13}, zo \in {-8, 1}}

(* The same with a scale for each neuron; and with a bias extended.        *)
NeuronCalls ==
  {LET in == Vector("SA_8", 3, 5, 2, zi, first, 2)
       w == PerNeuron(Matrix("SA_8", 3, 3, 0, 0, 0, -7, 2), 2, <<4, 9, 20>>, <<1, 4, 3>>)
       b == PerNeuron(Vector("SA_32", 3, 0, 0, 0, bias, 9), 1, <<20, 45, 100>>, <<3, 6, 5>>)
   IN  [Fully("sa8_sa8_sa32", in, w, b, relu, Output("SA_8", 3, 3, fo, zo)) EXCEPT !.ext = ext] :
     zi \in {-8, 0, 3}, first \in {-8, 2}, bias \in {-60, 0, 33}, relu \in Relus, fo \in {0, 2},
     zo \in {-3, 5}, ext \in BOOLEAN}

(* One to three inputs, the second with a scale and a zero point of its own *)
RnnCalls ==
  {LET scales == <<3, 10, 1>>
       t == Format[f]
       scale(k) == IF Quantized(t.io) THEN scales[k] ELSE 1
       zero(k) == IF Quantized(t.io) THEN k - zi ELSE 0
       in(k) == Vector(t.io, k + 1, scale(k), k + 1, zero(k), first, 3 * k)
       w(k) == Matrix(t.w, k + 1, 2, k - 1, scale(k), 1, step, 2)
   IN  Call("rnn_dense", f, [k \in 1 .. n |-> in(k)], [k \in 1 .. n |-> w(k)],
            Vector(t.b, 2, scale(1) * scale(1), 3, 0, bias, 7), "NONE", FALSE,
            Output(t.io, 2, IF Quantized(t.io) THEN 5 ELSE 1, fo, IF Quantized(t.io) THEN -2 ELSE 0)) :
     f \in {"fx16", "fx16_fx8_fx8", "sa8_sa8_sa32"}, n \in 1 .. 3, zi \in {0, 4}, first \in {-6, 2},
     step \in {-5, 1}, bias \in {-8, 3}, fo \in {0, 2, 3}}

-----------------------------------------------------------------------------
(* Calls that break one condition each, and some that are odd but accepted. *)
SaBase ==
  Fully("sa8_sa8_sa32", Vector("SA_8", 4, 3, 2, 1, -2, 3), Matrix("SA_8", 4, 2, 0, 5, 1, -6, 2),
        Vector("SA_32", 2, 15, 3, 0, 10, 9), "NONE", Output("SA_8", 2, 2, 1, 0))

FxBase ==
  Fully("fx16_fx8_fx8", Vector("FX_16", 4, 1, 2, 0, -2, 3), Matrix("FX_8", 4, 2, 0, 1, 1, -6, 2),
        Vector("FX_8", 2, 1, 3, 0, 1, 1), "NONE", Output("FX_16", 2, 1, 1, 0))

Table(t) == [t EXCEPT !.rank = 2, !.shape = <<2, 2, 0, 0>>, !.mem_stride = <<2, 1, 0, 0>>]

(* Two rows of two with a gap between them: room for the cells between.    *)
Gapped(t) ==
  [Of(t.type, 2, <<2, 2, 0, 0>>, <<4, 1, 0, 0>>, 0, t.scale, t.frac, t.zero, 1, 2) EXCEPT !.dim = 0]

Apart(t) ==
  [t EXCEPT !.mem_stride[t.rank] = 2, !.mem_stride[1] = 2 * @, !.capacity = 2 * @,
            !.values = [i \in 0 .. 2 * t.capacity |-> 1]]

Changed(c) ==
  {c, [c EXCEPT !.in[1] = Table(@)], [c EXCEPT !.in[1] = Gapped(@)], [c EXCEPT !.in[1] = Apart(@)],
   [c EXCEPT !.in[1].capacity = @ - 1], [c EXCEPT !.weights[1] = Apart(@)],
   [c EXCEPT !.weights[1].capacity = @ - 1], [c EXCEPT !.weights[1].rank = 1],
   [c EXCEPT !.bias = Apart(@)], [c EXCEPT !.bias.shape[1] = 1], [c EXCEPT !.bias.capacity = @ - 1],
   [c EXCEPT !.bias.frac[1] = 5], [c EXCEPT !.bias.type = "FX_16"],
   [c EXCEPT !.out.capacity = @ - 1], [c EXCEPT !.out.mem_stride[1] = 2],
   [c EXCEPT !.out.dim = 1, !.out.params_cap = 2],
   [c EXCEPT !.out.rank = 2, !.out.mem_stride = <<2, 1, 0, 0>>],
   [c EXCEPT !.out.rank = 2, !.out.mem_stride = <<1, 2, 0, 0>>],
   [c EXCEPT !.out.rank = 2, !.out.mem_stride = <<1, 1, 0, 0>>],
   [c EXCEPT !.out.type = "FX_8", !.out.elem = 1],
   [c EXCEPT !.out.type = "SA_32", !.out.elem = 4]}

OddCalls ==
  UNION {Changed([c EXCEPT !.kernel = kernel]) :
           c \in {SaBase, FxBase}, kernel \in {"fully_connected", "rnn_dense"}}
  \cup {[SaBase EXCEPT !.out.zero[1] = 9], [SaBase EXCEPT !.in[1].zero[1] = -9],
        [SaBase EXCEPT !.weights[1].zero[1] = 1],
        [SaBase EXCEPT !.kernel = "rnn_dense", !.in = <<>>, !.weights = <<>>]}

MCCalls == FxCalls \cup WideCalls \cup SaCalls \cup NeuronCalls \cup RnnCalls \cup OddCalls
=============================================================================
