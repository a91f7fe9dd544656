----------------------------- MODULE MCConversion -----------------------------
(***************************************************************************)
(* Conversions between tensors of each pair of types, with one scale, with *)
(* a scale for each index of one side or of both, with gaps between rows,  *)
(* in place, and some that are refused.                                    *)
(***************************************************************************)
EXTENDS Conversion, TLC

(* A tensor of the given type; strides are those of its rows, plus a gap.  *)
Of(type, shape, gap, dim, scale, frac, zero) ==
  LET rank == IF shape[3] = 0 THEN 2 ELSE 3
      stride == IF rank = 2 THEN <<shape[2] + gap, 1, 0, 0>>
                ELSE <<shape[2] * (shape[3] + gap), shape[3] + gap, 1, 0>>
      t == [type |-> type, elem |-> Bits(type) \div 8, rank |-> rank, shape |-> shape,
            mem_stride |-> stride, dim |-> dim, scale |-> scale, frac |-> frac, zero |-> zero,
            params_cap |-> IF dim > 0 THEN shape[dim] ELSE 0]
  IN  t @@ [capacity |-> Span(t) * t.elem]

Fx(type, shape, gap, frac) == Of(type, shape, gap, 0, <<1>>, <<frac>>, <<0>>)
Sa(shape, gap, scale, frac, zero) == Of("SA_8", shape, gap, 0, <<scale>>, <<frac>>, <<zero>>)

(* The elements of src: an arithmetic progression through the whole range. *)
Values(s, first, step) ==
  LET w == Bits(s.type)
  IN  [i \in 0 .. Span(s) - 1 |-> Narrow(w, first + step * i)]

Call(s, d, shared, first, step) ==
  [src |-> s, dst |-> d, shared |-> shared, values |-> Values(s, first, step)]

Row == <<1, 8, 0, 0>>
Table == <<2, 3, 0, 0>>
Block == <<2, 2, 2, 0>>

Scalars == {<<1, 0, 0>>, <<1, 4, 0>>, <<3, 2, 5>>, <<77, 7, -128>>, <<100, 6, 127>>, <<5, 1, -9>>}

FxTensors(shape) ==
  {Fx("FX_8", shape, 0, f) : f \in {-1, 0, 3, 7}} \cup {Fx("FX_16", shape, 0, f) : f \in {-2, 0, 4, 7}}
SaTensors(shape) == {Sa(shape, 0, p[1], p[2], p[3]) : p \in Scalars}

First(s) == IF s.type = "FX_16" THEN {-32768, -150, 1} ELSE {-128, -20, 64}
Step(s) == IF s.type = "FX_16" THEN {43, 8191} ELSE {7, 31}

PlainCalls ==
  UNION {{Call(s, d, FALSE, first, step) : first \in First(s), step \in Step(s)} :
            s \in FxTensors(Row) \cup SaTensors(Row), d \in FxTensors(Row) \cup SaTensors(Row)}

(* A scale for each index of a dimension. *)
PerAxis(shape, gap) ==
  {Of("SA_8", shape, gap, 2, [i \in 1 .. shape[2] |-> 20 + 7 * i], [i \in 1 .. shape[2] |-> i],
      [i \in 1 .. shape[2] |-> 3 - i]),
   Of("SA_8", shape, gap, 1, [i \in 1 .. 2 |-> 100 \div i], [i \in 1 .. 2 |-> 6],
      [i \in 1 .. 2 |-> 64 * (i - 2)])}

AxisCalls ==
  UNION {{Call(s, d, FALSE, first, 9) : first \in First(s)} :
            s \in PerAxis(Table, 0) \cup PerAxis(Block, 1), d \in PerAxis(Block, 0)
              \cup {Sa(Block, 0, 50, 4, 1), Fx("FX_16", Block, 2, 3), Fx("FX_8", Block, 0, 0)}}
  \cup UNION {{Call(s, d, FALSE, first, 9) : first \in First(s)} :
            s \in {Sa(Block, 1, 50, 4, 1), Fx("FX_16", Block, 2, 3), Fx("FX_8", Table, 0, 0)},
            d \in PerAxis(Block, 1)}

(* The dimension of the scales of dst is one of src. *)
Known(c) == c.dst.dim > 0 => DOMAIN c.dst.scale = 1 .. c.src.shape[c.dst.dim]

InPlaceCalls ==
  {Call(s, d, TRUE, -100, 11) :
     s \in PerAxis(Table, 0) \cup {Sa(Table, 1, 9, 3, 2), Fx("FX_8", Table, 1, 2)},
     d \in {Sa(Table, 1, 5, 2, 1), Fx("FX_8", Table, 1, 1), Fx("FX_8", Table, 0, 1)}}

(* In place with another distance between adjacent elements: the check     *)
(* looks at the last dimension that dst had before.                        *)
Spread(t) == [t EXCEPT !.rank = 3, !.mem_stride = <<6, 2, 1, 0>>, !.capacity = 11]

SpreadCalls ==
  {Call(Sa(Table, 3, 9, 3, 2), Spread(Fx("FX_8", Table, 3, 1)), TRUE, -100, 11)}

(* Room for an element less; elements of dst that are not adjacent; rows   *)
(* of dst that are not the size of those of src.                           *)
Short(t) == [t EXCEPT !.capacity = @ - 1]
Apart(t) == [t EXCEPT !.mem_stride[t.rank] = 2, !.mem_stride[1] = 2 * @, !.capacity = 2 * @]

RefusedCalls ==
  {Call(s, d, FALSE, -3, 1) :
     s \in {Sa(Table, 0, 9, 3, 2), Short(Sa(Table, 0, 9, 3, 2)), Apart(Sa(Table, 0, 9, 3, 2))},
     d \in {Short(Fx("FX_16", Table, 0, 2)), Apart(Fx("FX_8", Table, 0, 2)),
              Short(Fx("FX_8", Table, 1, 2)), Fx("FX_8", Table, 0, 2), Fx("FX_8", Row, 0, 2), Fx("FX_8", <<2, 2, 0, 0>>, 0, 2)}}

MCCalls ==
  PlainCalls \cup {c \in AxisCalls : Known(c)} \cup InPlaceCalls \cup SpreadCalls \cup RefusedCalls
=============================================================================
