------------------------------ MODULE MCPooling ------------------------------
(***************************************************************************)
(* Calls of the pooling kernels.  One axis takes every small combination   *)
(* of sizes, stride and padding, the other one of a few, and then the      *)
(* other way around.                                                       *)
(***************************************************************************)
EXTENDS Pooling

Axis(in, kernel, stride, pre, post) ==
  [in |-> in, kernel |-> kernel, stride |-> stride, pre |-> pre, post |-> post]

AllAxes ==
  {Axis(in, k, s, pre, post) :
     in \in 1 .. 5, k \in 1 .. 4, s \in 1 .. 3, pre \in 0 .. 3, post \in 0 .. 3}

Accepted(a) == a.pre < a.kernel /\ a.post < a.kernel

OtherAxes == {Axis(4, 2, 1, 1, 1), Axis(3, 3, 2, 1, 2), Axis(2, 2, 2, 0, 0)}

(* Rows of the input are the width of the input and more apart, and rows   *)
(* of the output have a gap between them.                                  *)
OutTensor(h, w, channels, gap, less) ==
  LET row == Most(OutSize(w), 1) * channels + gap
  IN  [rank |-> 0, shape |-> <<0, 0, 0, 0>>, mem_stride |-> <<row, channels, 1, 0>>, elem |-> 1,
       params |-> "out",
       capacity |-> Most(0, Most(0, OutSize(h) - 1) * row + Most(OutSize(w), 1) * channels - less)]

Call(type, fixed, h, w, channels, gap, less) ==
  [type |-> type, fixed |-> fixed, h |-> h, w |-> w, channels |-> channels,
   row |-> w.in * channels + gap, col |-> channels, params |-> "in",
   out |-> OutTensor(h, w, channels, gap, less)]

Crossed(axes, others) == (axes \X others) \cup (others \X axes)

AcceptedCalls ==
  {Call(type, 0, x[1], x[2], 1, 1, 0) :
     type \in {"AVEPOOL", "MAXPOOL"}, x \in Crossed({a \in AllAxes : Accepted(a)}, OtherAxes)}

(* Functions for one size of kernel; rows long enough for the area of one  *)
(* column to be used for others.                                           *)
FixedCalls ==
  {Call("AVEPOOL", k, Axis(h, k, s, k - 1, 1), Axis(w, k, s, pre, post), 2, 0, 0) :
     k \in 2 .. 3, h \in 1 .. 3, w \in 5 .. 7, s \in 1 .. 2, pre \in 0 .. 1, post \in 0 .. 1}

(* Too much padding, a stride of 0, and an output buffer one byte short.   *)
RefusedCalls ==
  {Call("MAXPOOL", 0, Axis(3, 2, s, pre, 0), Axis(3, 2, 1, 0, post), 1, 0, less) :
     s \in 1 .. 2, pre \in 0 .. 2, post \in 1 .. 2, less \in 0 .. 1}

MCCalls == AcceptedCalls \cup FixedCalls \cup RefusedCalls
=============================================================================
