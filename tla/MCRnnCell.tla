------------------------------ MODULE MCRnnCell ------------------------------
(***************************************************************************)
(* Sequences for the recurrent cells: every combination of the options     *)
(* that changes how places and descriptors are reused, over up to three    *)
(* time steps in one, two or three calls, and calls that are refused.      *)
(***************************************************************************)
EXTENDS RnnCell

Lengths == {<<1, 1>>, <<3, 1>>, <<1, 3>>, <<2, 2>>}     \* frames and pieces

Sequence(kind, type, w, length, backward, all, act, shared, resets) ==
  [kind |-> kind, type |-> type, w |-> w, len |-> length[1], pieces |-> length[2],
   size |-> 2, stride |-> 2, backward |-> backward, all |-> all, act |-> act,
   shared |-> shared, resets |-> resets,
   out_rows |-> IF all THEN length[1] ELSE 1, scratch_gates |-> IF kind = "LSTM" THEN 4 ELSE 3]

LSTMs ==
  {Sequence("LSTM", type, <<0, 0>>, length, backward, all, act, shared, resets) :
     type \in {"FX", "SA8"}, length \in Lengths, backward \in BOOLEAN, all \in BOOLEAN,
     act \in {"none", "tanh", "sigm"}, shared \in BOOLEAN, resets \in BOOLEAN}

GRUs ==
  {Sequence("GRU", type, w, length, backward, all, "none", shared, FALSE) :
     type \in {"FX", "SA8"}, w \in {-1, 0} \X {-1, 0}, length \in Lengths,
     backward \in BOOLEAN, all \in BOOLEAN, shared \in BOOLEAN}

(* A gap between frames; buffers one row or one gate too small. *)
Gapped == {[c EXCEPT !.stride = 3] : c \in LSTMs \cup GRUs}
Short ==
  {[c EXCEPT !.out_rows = @ - 1] : c \in {d \in LSTMs \cup GRUs : ~d.shared}}
    \cup {[c EXCEPT !.scratch_gates = @ - 1] : c \in LSTMs \cup GRUs}

MCSeries == LSTMs \cup GRUs \cup Short \cup {c \in Gapped : c.len = 3}
=============================================================================
