---------------------------- MODULE MCElementwise ----------------------------
(***************************************************************************)
(* Tensors of one to four dimensions, with and without gaps between rows,  *)
(* scalars in descriptors and in memory, results in place of an operand,   *)
(* and calls that are refused.                                             *)
(***************************************************************************)
EXTENDS Elementwise, FiniteSets, TLC

Rank(shape) == Cardinality({d \in 1 .. MaxRank : shape[d] > 0})

(* A tensor whose rows have gap[d] elements behind each index of d.        *)
Of(shape, gap) ==
  LET rank == Rank(shape)
      stride[d \in 1 .. MaxRank] ==
        IF d > rank THEN 0 ELSE IF d = rank THEN 1 ELSE stride[d + 1] * shape[d + 1] + gap[d]
      t == [rank |-> rank, shape |-> shape, mem_stride |-> [d \in 1 .. MaxRank |-> stride[d]],
            elem |-> 1, dim |-> 0, params |-> "none", params_cap |-> 0]
  IN  t @@ [capacity |-> Span(t)]

(* An output: its shape is not known yet. *)
Blank(t) == [t EXCEPT !.shape = <<0, 0, 0, 0>>]

Short(t) == [t EXCEPT !.capacity = @ - 1]

InDescriptor == [rank |-> 0, shape |-> <<0, 0, 0, 0>>, mem_stride |-> <<0, 0, 0, 0>>, elem |-> 1,
                 dim |-> 0, params |-> "none", params_cap |-> 0, capacity |-> 0]

Shapes == {<<3, 0, 0, 0>>, <<2, 3, 0, 0>>, <<2, 2, 3, 0>>, <<3, 1, 2, 0>>, <<2, 1, 2, 2>>}
NoGap == <<0, 0, 0, 0>>
Gaps == {NoGap, <<1, 0, 0, 0>>, <<0, 2, 0, 0>>, <<1, 1, 1, 0>>}

Apart == [in1 |-> "a", in2 |-> "b", out |-> "c"]
InPlace(k) == [Apart EXCEPT !.out = Apart[k]]

Call(kind, in1, in2, to, buffer, axis, perm) ==
  [kind |-> kind, in1 |-> in1, in2 |-> in2, out |-> Blank(to), buffer |-> buffer,
   axis |-> axis, perm |-> perm]

Straight == <<1, 2, 3, 4>>
Single1 == {InDescriptor, Of(<<1, 0, 0, 0>>, NoGap), Of(<<1, 1, 1, 0>>, NoGap)}

EltwiseCalls ==
  LET mk(a, b, to, buffer) == Call("eltwise", a, b, to, buffer, 0, Straight)
  IN  UNION {{mk(Of(s, g), Of(s, h), Of(s, o), Apart) : g \in Gaps, h \in Gaps, o \in Gaps} : s \in Shapes}
      \cup UNION {{mk(Of(s, g), Of(s, h), Of(s, IF k = "in1" THEN g ELSE h), InPlace(k)) :
                     g \in Gaps, h \in Gaps, k \in {"in1", "in2"}} : s \in Shapes}
      \cup UNION {UNION {{mk(t, Of(s, g), Of(s, o), b), mk(Of(s, g), t, Of(s, o), b)} :
                     t \in Single1, g \in Gaps, o \in Gaps,
                     b \in {Apart, InPlace("in1"), InPlace("in2")}} : s \in Shapes}
      \cup {mk(t, u, Of(<<1, 1, 0, 0>>, NoGap), Apart) : t \in Single1, u \in Single1}
      \cup {mk(Of(<<2, 3, 0, 0>>, NoGap), Of(<<3, 2, 0, 0>>, NoGap), Of(<<2, 3, 0, 0>>, NoGap), Apart),
            mk(Of(<<2, 3, 0, 0>>, NoGap), Of(<<2, 3, 0, 0>>, NoGap), Short(Of(<<2, 3, 0, 0>>, NoGap)), Apart),
            mk(Of(<<2, 3, 0, 0>>, NoGap), Short(Of(<<2, 3, 0, 0>>, NoGap)), Of(<<2, 3, 0, 0>>, NoGap), Apart),
            mk(Short(Of(<<2, 3, 0, 0>>, NoGap)), Of(<<2, 3, 0, 0>>, NoGap), Of(<<2, 3, 0, 0>>, NoGap), Apart)}

UnaryCalls ==
  LET mk(kind, a, t, to, buffer, axis) == Call(kind, a, t, to, buffer, axis, Straight)
      axes(kind, s) == IF kind \in Normalizing THEN 0 .. Rank(s) + 1 ELSE {0}
  IN  UNION {{mk(kind, Of(s, g), t, Of(s, o), Apart, a) :
                t \in Single1, g \in Gaps, o \in Gaps, a \in axes(kind, s)} :
             kind \in {"relu", "lut", "leaky", "prelu", "softmax", "l2"}, s \in Shapes}
      \cup UNION {{mk(kind, Of(s, g), InDescriptor, Of(s, g), InPlace("in1"), a) :
                     g \in Gaps, a \in axes(kind, s)} :
             kind \in {"relu", "lut", "leaky", "softmax", "l2"}, s \in Shapes}
      \cup {mk(kind, Of(<<2, 3, 0, 0>>, g), Of(<<2, 0, 0, 0>>, NoGap), t, Apart, 1) :
              kind \in {"relu", "leaky", "softmax"}, g \in {NoGap, <<1, 0, 0, 0>>},
              t \in {Of(<<2, 3, 0, 0>>, NoGap), Short(Of(<<2, 3, 0, 0>>, NoGap))}}

SlopeOf(s, axis) == [d \in 1 .. MaxRank |-> IF d = axis THEN s[d] ELSE IF s[d] > 0 THEN 1 ELSE 0]

PreluCalls ==
  LET mk(a, t, to, buffer, axis) == Call("prelu", a, t, to, buffer, axis, Straight)
  IN  UNION {UNION {{mk(Of(s, g), Of(SlopeOf(s, a), NoGap), Of(s, o), Apart, a),
                     mk(Of(s, g), Of(SlopeOf(s, a), NoGap), Of(s, g), InPlace("in1"), a)} :
                a \in 1 .. Rank(s), g \in Gaps, o \in Gaps} : s \in Shapes}
      \cup {mk(Of(<<2, 3, 0, 0>>, NoGap), Of(t, NoGap), Of(<<2, 3, 0, 0>>, NoGap), Apart, 1) :
              t \in {<<2, 3, 0, 0>>, <<1, 3, 0, 0>>, <<2, 1, 0, 0>>}}

Orders(rank) ==
  {p \in [1 .. MaxRank -> 1 .. MaxRank] :
     /\ \A d \in 1 .. MaxRank : (d > rank) => p[d] = 1
     /\ \A d \in 1 .. rank : p[d] <= rank + 1}

(* in1 with a parameter for each index of a dimension. *)
WithParams(t, d) == [t EXCEPT !.dim = d, !.params = "p", !.params_cap = t.shape[d]]

Reordered(s, p) == [d \in 1 .. MaxRank |-> IF s[d] = 0 \/ p[d] > Rank(s) THEN 0 ELSE s[p[d]]]

PermuteCalls ==
  LET mk(a, to, p) == Call("permute", a, InDescriptor, to, Apart, 0, p)
      valid(s, p) == \A d \in 1 .. Rank(s) : p[d] <= Rank(s)
                        /\ \A e \in 1 .. Rank(s) : p[d] = p[e] => d = e
      target(s, p, o) == IF valid(s, p) THEN Of(Reordered(s, p), o) ELSE Of(s, o)
      unset(t) == [t EXCEPT !.mem_stride = <<0, 0, 0, 0>>]
      into(t, where, cap) == [t EXCEPT !.params = where, !.params_cap = cap]
  IN  UNION {{mk(Of(s, g), target(s, p, o), p) : p \in Orders(Rank(s)), g \in Gaps, o \in {NoGap, <<1, 2, 0, 0>>}} :
               s \in Shapes \ {<<2, 1, 2, 2>>, <<3, 1, 2, 0>>}}
      \cup {mk(Of(<<2, 1, 2, 2>>, g), target(<<2, 1, 2, 2>>, p, NoGap), p) :
              p \in {<<4, 3, 2, 1>>, <<2, 1, 4, 3>>, <<3, 4, 1, 2>>, <<2, 3, 4, 1>>}, g \in Gaps}
      \cup {mk(Of(<<2, 2, 3, 0>>, g), unset(target(<<2, 2, 3, 0>>, p, NoGap)), p) :
              p \in {q \in Orders(3) : valid(<<2, 2, 3, 0>>, q)}, g \in Gaps}
      \cup UNION {{mk(WithParams(Of(<<2, 1, 3, 0>>, NoGap), d), into(target(<<2, 1, 3, 0>>, p, NoGap), w, cap), p) :
              p \in {q \in Orders(3) : valid(<<2, 1, 3, 0>>, q)}, d \in 1 .. 3} :
              w \in {"p", "q"}, cap \in {1, 3}}
      \cup {mk(WithParams(Of(<<2, 1, 3, 0>>, NoGap), d), into(target(<<2, 1, 3, 0>>, p, NoGap), "null", 0), p) :
              p \in {q \in Orders(3) : valid(<<2, 1, 3, 0>>, q)}, d \in 1 .. 3}

MCCalls == EltwiseCalls \cup UnaryCalls \cup PreluCalls \cup PermuteCalls
=============================================================================
