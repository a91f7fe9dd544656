------------------------------- MODULE MCArgmax ------------------------------
(***************************************************************************)
(* All contents of tensors of up to seven elements with few values, so     *)
(* that many are equal, with gaps between rows, the whole tensor or slices *)
(* along each dimension, for each number of places; and calls that are     *)
(* refused.                                                                *)
(***************************************************************************)
EXTENDS Argmax, TLC

Of(shape, stride) ==
  LET rank == IF shape[3] > 0 THEN 3 ELSE IF shape[2] > 0 THEN 2 ELSE 1
      t == [rank |-> rank, shape |-> shape, mem_stride |-> stride, elem |-> 1,
            dim |-> 0, params_cap |-> 0]
  IN  t @@ [capacity |-> Span(t)]

Of1(length) == Of(<<length, 0, 0, 0>>, <<1, 0, 0, 0>>)

Contents(t, vals) == [0 .. Span(t) - 1 -> vals]

Mk(t, values, axis, topk) ==
  [in |-> t, values |-> values, axis |-> axis, topk |-> topk,
   capacity |-> topk * 4 * (IF axis > 0 THEN t.shape[axis] ELSE 1)]

WholeCalls ==
  UNION {{Mk(Of1(5), v, 0, topk) : v \in Contents(Of1(5), 0 .. 3)} : topk \in 1 .. 5}
  \cup UNION {{Mk(Of1(7), v, 0, topk) : v \in Contents(Of1(7), {-1, 1})} : topk \in {6, 7}}

Table == Of(<<2, 3, 0, 0>>, <<3, 1, 0, 0>>)
Gapped == Of(<<2, 2, 0, 0>>, <<3, 1, 0, 0>>)
Block == Of(<<2, 1, 2, 0>>, <<4, 3, 1, 0>>)

SliceCalls ==
  UNION {{Mk(Table, v, a, topk) : v \in Contents(Table, {0, 2, 5})} :
           a \in 1 .. 2, topk \in 1 .. 2}
  \cup UNION {{Mk(Gapped, v, a, topk) : v \in Contents(Gapped, 0 .. 2)} : a \in 0 .. 2, topk \in 1 .. 2}
  \cup UNION {{Mk(Block, v, a, topk) : v \in Contents(Block, 0 .. 1)} : a \in 0 .. 3, topk \in 1 .. 2}
  \cup {Mk(Table, v, 1, 3) : v \in Contents(Table, 0 .. 1)}

One == [a \in 0 .. 5 |-> a % 4]

RefusedCalls ==
  {Mk([Table EXCEPT !.capacity = 4], One, 0, 2), Mk([Table EXCEPT !.mem_stride = <<2, 1, 0, 0>>], One, 0, 2),
   Mk([Table EXCEPT !.mem_stride = <<6, 2, 0, 0>>, !.capacity = 12], [a \in 0 .. 11 |-> a], 0, 2),
   [Mk(Table, One, 0, 2) EXCEPT !.axis = 4],
   [Mk(Table, One, 1, 2) EXCEPT !.capacity = 17], [Mk(Table, One, 2, 1) EXCEPT !.capacity = 8]}

MCCalls ==
  {c \in WholeCalls \cup SliceCalls : c.topk <= Elements(c)} \cup RefusedCalls
=============================================================================
