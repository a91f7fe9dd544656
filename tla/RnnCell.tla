------------------------------- MODULE RnnCell -------------------------------
(***************************************************************************)
(* The recurrent kernels mli_krn_lstm_cell and mli_krn_gru_cell.  A call   *)
(* processes a sequence of frames.  Each time step works in a few shared   *)
(* places - the gates in the scratch memory, the output, the cell and the  *)
(* hidden state, which is a place of the output from the second step on -  *)
(* and reuses descriptors whose quantization parameters it changes as it   *)
(* goes.  The application may feed a long sequence in pieces, the last     *)
(* output and the cell of one call being the start of the next.            *)
(*                                                                         *)
(* A value is the formula it was computed by, together with the parameters *)
(* it was written with: who reads it with other parameters reads something *)
(* else.                                                                   *)
(***************************************************************************)
EXTENDS Integers

CONSTANT Series    \* the sequences an application processes

(* A sequence is a record: the kind of cell and of data; w, the dimension  *)
(* weights_in and weights_out are quantized along (-1: per tensor); len    *)
(* frames of size elements which are stride apart, in each of pieces       *)
(* calls; backward; all, whether every output is kept; act; shared,        *)
(* whether prev_out is in the memory of out; resets, whether the           *)
(* application restores the descriptor of the cell between two calls; and  *)
(* the rows that out has room for, the gates that the scratch memory has.  *)
ASSUME SeriesAssumption ==
  \A c \in Series :
    /\ c.kind \in {"LSTM", "GRU"} /\ c.type \in {"FX", "SA8"}
    /\ c.w \in {-1, 0} \X {-1, 0}
    /\ {c.len, c.pieces, c.size, c.stride} \subseteq Nat \ {0} /\ c.stride >= c.size
    /\ {c.backward, c.all, c.shared, c.resets} \subseteq BOOLEAN
    /\ c.act \in {"none", "tanh", "sigm"}
    /\ {c.out_rows, c.scratch_gates} \subseteq Nat
    /\ c.shared => c.out_rows > 0

VARIABLES
  series,     \* the sequence in progress
  piece,      \* which call of the kernel it is at
  pc, step,   \* where in the loop, and the time step
  at,         \* inputs_ptr and inputs_new_ptr: an offset into in, a place
  tsr,        \* descriptors of data: the place and the parameters
  quant,      \* in_to_out_params of the two inputs
  cell_rank,  \* rank in the descriptor of the cell
  rows,       \* shape[0] of the output
  memory,     \* what is in the places written so far
  outcome     \* "called", "running", or what the kernel returned

cellVars == <<series, piece, pc, step, at, tsr, quant, cell_rank, rows, memory, outcome>>

-----------------------------------------------------------------------------
(* Places, values and operations on them.                                  *)

Scratch(gate) == <<"scratch", gate>>
Out(row) == <<"out", row>>
Cell == <<"cell", 0>>
One == <<"one", 0>>
Prev(c) == IF c.shared THEN Out(0) ELSE <<"prev", 0>>

Desc(place, params) == [place |-> place, params |-> params]

Put(m, d, term) ==
  [p \in DOMAIN m \cup {d.place} |->
     IF p = d.place THEN [term |-> term, params |-> d.params] ELSE m[p]]

Read(m, d) ==
  IF d.place \in DOMAIN m /\ m[d.place].params = d.params THEN m[d.place].term ELSE <<"misread">>

Mul(a, b) == <<"mul", {a, b}>>
Add(a, b) == <<"add", {a, b}>>
Sub(a, b) == <<"sub", a, b>>
Act(f, a) == <<f, a>>
Gate(weights, scales, bias, x, h) == <<"gate", weights, scales, bias, x, h>>

(* Elementwise kernels: the parameters of d are kept. *)
EltMul(m, a, b, d) == Put(m, d, Mul(Read(m, a), Read(m, b)))
EltAdd(m, a, b, d) == Put(m, d, Add(Read(m, a), Read(m, b)))
EltSub(m, a, b, d) == Put(m, d, Sub(Read(m, a), Read(m, b)))

(* Activation kernels set the parameters of d, and then write. *)
ActivatedDesc(d, f) == [d EXCEPT !.params = f]
Activate(m, f, a, d) == Put(m, ActivatedDesc(d, f), Act(f, Read(m, a)))

-----------------------------------------------------------------------------
(* Dense layers.                                                           *)

(* define_quant_params: the parameters of one input and of the output, and *)
(* where scales are read from: scale is the number of positions by which   *)
(* the pointer to per axis scales was moved.                               *)
QuantParams(in, dim, scale, out) == [in |-> in, dim |-> dim, scale |-> scale, out |-> out]

Dim(c, k) == IF c.type = "SA8" THEN c.w[k] ELSE -1

(* inc_scales_for_new_gate moves the pointer in a union with the scale.    *)
(* Where there is one scale, the scale itself is changed.                  *)
IncScales(c, gates) == IF c.type = "SA8" THEN gates ELSE 0

(* The frame at an offset of in. *)
Frame(c, n, offset) ==
  IF offset % c.stride = 0 /\ offset \div c.stride \in 0 .. c.len - 1
  THEN <<"x", n, offset \div c.stride>>
  ELSE <<"outside">>

(* rnn_dense_op: one gate of both inputs, each with its own parameters;    *)
(* the sum is stored with those of the last.                               *)
DenseOp(q, gate, scales, offset, hidden, m) ==
  IF q[1].in = "in" /\ q[1].out = q[2].out
  THEN Gate(<<gate, gate>>, scales, gate, Frame(series, piece, offset), Read(m, Desc(hidden, q[2].in)))
  ELSE <<"misread">>

Gates(c) == IF c.kind = "LSTM" THEN 4 ELSE 2

(* rnn_dense_op_stacked: all gates; the scales advance with the gate where *)
(* there is one for each.                                                  *)
Stacked(m) ==
  LET scale(k, g) == quant[k].scale + IF quant[k].dim # -1 THEN g ELSE 0
      ir == quant[2].out
      gates == {Scratch(g) : g \in 0 .. Gates(series) - 1}
  IN  [p \in DOMAIN m \cup gates |->
         IF p \in gates
         THEN [term |-> DenseOp(quant, p[2], <<scale(1, p[2]), scale(2, p[2])>>,
                                at.in, at.hidden, m),
               params |-> ir]
         ELSE m[p]]

(* weight_dim is left at -1. *)
AfterStacked == [k \in 1 .. 2 |-> [quant[k] EXCEPT !.dim = -1]]

-----------------------------------------------------------------------------
(* Checks of the arguments.                                                *)

OutRows(c) == IF c.all THEN c.len ELSE 1
ScratchGates(c) == IF c.kind = "LSTM" THEN 4 ELSE 3

(* Mutant: room for one row of output is taken to be enough. *)
CheckOneRow(c, rank) ==
  IF c.kind = "LSTM" /\ rank # 1 THEN "SHAPE_MISMATCH"
  ELSE IF c.out_rows < 1 THEN "BAD_TENSOR"
  ELSE IF c.scratch_gates < ScratchGates(c) THEN "BAD_FUNC_CFG"
  ELSE IF c.type = "SA8" /\ c.kind = "LSTM" /\ c.w # <<0, 0>> THEN "INCOMPATEBLE_TENSORS"
  ELSE "OK"

(* The GRU refuses weights only if all of them have another dimension than *)
(* the one of the branch it takes, which no weights have.                  *)
CheckCell(c, rank) ==
  IF c.kind = "LSTM" /\ rank # 1 THEN "SHAPE_MISMATCH"
  ELSE IF c.out_rows < OutRows(c) THEN "BAD_TENSOR"
  ELSE IF c.scratch_gates < ScratchGates(c) THEN "BAD_FUNC_CFG"
  ELSE IF c.type = "SA8" /\ c.kind = "LSTM" /\ c.w # <<0, 0>> THEN "INCOMPATEBLE_TENSORS"
  ELSE "OK"

-----------------------------------------------------------------------------
(* The kernel.                                                             *)

CellInit ==
  /\ series \in Series
  /\ piece = 1 /\ pc = "setup" /\ step = 0
  /\ at = [in |-> 0, in_new |-> 0, hidden |-> Prev(series)]
  /\ tsr = [prev |-> Desc(Prev(series), "prev")]
  /\ quant = <<>>
  /\ cell_rank = 1
  /\ rows = 0
  /\ memory = [p \in {Prev(series), Cell, One} |->
              CASE p = Prev(series) -> [term |-> <<"h">>, params |-> "prev"]
                [] p = Cell -> [term |-> <<"c">>, params |-> "cell"]
                [] p = One -> [term |-> <<"1">>, params |-> "one"]]
  /\ outcome = "called"

RefuseCell ==
  /\ outcome = "called" /\ CheckCell(series, cell_rank) # "OK"
  /\ outcome' = CheckCell(series, cell_rank)
  /\ UNCHANGED <<series, piece, pc, step, at, tsr, quant, cell_rank, rows, memory>>

(* Mutant: the descriptor of the next output is a copy of that of the      *)
(* hidden state in the parameters and in the data.                         *)
LocalsCopied(c, prev) ==
  [prev |-> prev, rnn_out |-> Desc(Out(0), "out"), hidden |-> prev,
   current_out |-> prev, prev_out_reset |-> Desc(Scratch(1), "ir"),
   gate |-> [g \in 0 .. ScratchGates(c) - 1 |-> Desc(Scratch(g), "ir")]]

(* The gates are i, g, f, o of the LSTM and z, r, n of the GRU; the last   *)
(* three descriptors are of the GRU.                                       *)
Locals(c, prev) ==
  [prev |-> prev, rnn_out |-> Desc(Out(0), "out"), hidden |-> prev,
   current_out |-> Desc(Out(0), prev.params), prev_out_reset |-> Desc(Scratch(1), "ir"),
   gate |-> [g \in 0 .. ScratchGates(c) - 1 |-> Desc(Scratch(g), "ir")]]

Setup ==
  /\ outcome = "called" /\ CheckCell(series, cell_rank) = "OK"
  /\ outcome' = "running" /\ pc' = "dense" /\ step' = 0
  /\ at' = LET first == IF series.backward THEN (series.len - 1) * series.size ELSE 0
           IN  [in |-> first, in_new |-> first, hidden |-> tsr.prev.place]
  /\ tsr' = Locals(series, tsr.prev)
  /\ quant' = <<QuantParams("in", Dim(series, 1), 0, "ir"),
                QuantParams(tsr.prev.params, Dim(series, 2), 0, "ir")>>
  /\ cell_rank' = IF series.kind = "LSTM" THEN 2 ELSE cell_rank
  /\ UNCHANGED <<series, piece, rows, memory>>

At(label) == outcome = "running" /\ pc = label

Dense ==
  /\ At("dense") /\ step < series.len
  /\ memory' = Stacked(memory)
  /\ quant' = AfterStacked
  /\ pc' = "activate"
  /\ UNCHANGED <<series, piece, step, at, tsr, cell_rank, rows, outcome>>

(* Which gates are activated here, and how. *)
Activation(c) ==
  IF c.kind = "LSTM" THEN [g \in 0 .. 3 |-> IF g = 1 THEN "tanh" ELSE "sigm"]
  ELSE [g \in 0 .. 1 |-> "sigm"]

NonLinearity ==
  /\ At("activate")
  /\ LET ir == quant[2].out
         f == Activation(series)
     IN  /\ tsr' = [tsr EXCEPT !.gate = [g \in DOMAIN @ |->
                      IF g \in DOMAIN f THEN ActivatedDesc(@[g], f[g]) ELSE Desc(@[g].place, ir)]]
         /\ memory' = [p \in DOMAIN memory |->
                      IF p[1] = "scratch" /\ p[2] \in DOMAIN f
                      THEN [term |-> Act(f[p[2]], Read(memory, Desc(p, ir))), params |-> f[p[2]]]
                      ELSE memory[p]]
  /\ pc' = "pointwise"
  /\ UNCHANGED <<series, piece, step, at, quant, cell_rank, rows, outcome>>

CellDesc == Desc(Cell, "cell")
OneDesc == Desc(One, "one")

(* cell := f * cell + i * g *)
PointwiseLSTM ==
  /\ At("pointwise") /\ series.kind = "LSTM"
  /\ LET forgot == EltMul(memory, CellDesc, tsr.gate[2], CellDesc)
         input == EltMul(forgot, tsr.gate[1], tsr.gate[0], tsr.gate[1])
     IN  memory' = EltAdd(input, CellDesc, tsr.gate[1], CellDesc)
  /\ pc' = "output"
  /\ UNCHANGED <<series, piece, step, at, tsr, quant, cell_rank, rows, outcome>>

(* Mutant: the output takes z * h, and then r is multiplied with h, which  *)
(* from the second step on may be in the place of the output.              *)
ResetAfterUpdate(m) ==
  LET kept == EltMul(m, tsr.hidden, tsr.gate[0], tsr.current_out)
      reset == EltMul(kept, tsr.gate[1], tsr.hidden, tsr.prev_out_reset)
  IN  EltSub(reset, OneDesc, tsr.gate[0], tsr.gate[0])

(* r * h in the place of r, z * h in the output, and 1 - z in place of z. *)
ResetAndUpdate(m) ==
  LET reset == EltMul(m, tsr.gate[1], tsr.hidden, tsr.prev_out_reset)
      kept == EltMul(reset, tsr.hidden, tsr.gate[0], tsr.current_out)
  IN  EltSub(kept, OneDesc, tsr.gate[0], tsr.gate[0])

PointwiseGRU ==
  /\ At("pointwise") /\ series.kind = "GRU"
  /\ memory' = ResetAndUpdate(memory)
  /\ pc' = "new_gate"
  /\ UNCHANGED <<series, piece, step, at, tsr, quant, cell_rank, rows, outcome>>

NewGate ==
  /\ At("new_gate")
  /\ LET new == tsr.gate[2]
         moved == IncScales(series, 2)
         q == <<QuantParams("in", Dim(series, 1), moved, new.params),
                QuantParams(tsr.prev_out_reset.params, Dim(series, 2), moved, new.params)>>
         dense == Put(memory, Desc(new.place, q[2].out),
                      DenseOp(q, 2, <<moved, moved>>, at.in_new, tsr.prev_out_reset.place, memory))
     IN  /\ quant' = q
         /\ memory' = Activate(dense, "tanh", new, new)
         /\ tsr' = [tsr EXCEPT !.gate[2] = ActivatedDesc(new, "tanh")]
  /\ pc' = "output"
  /\ UNCHANGED <<series, piece, step, at, cell_rank, rows, outcome>>

(* The output is o * cell, or o times the activated cell, in place. *)
OutputLSTM ==
  /\ At("output") /\ series.kind = "LSTM"
  /\ LET temp == Desc(tsr.rnn_out.place, "out")
         activated == ActivatedDesc(tsr.rnn_out, series.act)
     IN  memory' = IF series.act = "none" THEN EltMul(memory, CellDesc, tsr.gate[3], temp)
                ELSE EltMul(Activate(memory, series.act, CellDesc, activated),
                            activated, tsr.gate[3], temp)
  /\ tsr' = [tsr EXCEPT !.rnn_out.params = "out"]
  /\ pc' = "advance"
  /\ UNCHANGED <<series, piece, step, at, quant, cell_rank, rows, outcome>>

(* n * (1 - z) with the parameters of h, plus z * h. *)
OutputGRU ==
  /\ At("output") /\ series.kind = "GRU"
  /\ LET temp == Desc(tsr.gate[2].place, tsr.hidden.params)
         rnn_out == Desc(tsr.rnn_out.place, "out")
     IN  /\ memory' = EltAdd(EltMul(memory, tsr.gate[2], tsr.gate[0], temp),
                          temp, tsr.current_out, rnn_out)
         /\ tsr' = [tsr EXCEPT !.rnn_out = rnn_out, !.hidden = rnn_out]
  /\ pc' = "advance"
  /\ UNCHANGED <<series, piece, step, at, quant, cell_rank, rows, outcome>>

(* The fixed point kernels leave the parameters of the first input. *)
Redefined(c, out) ==
  <<IF c.type = "SA8" THEN QuantParams("in", Dim(c, 1), 0, "ir") ELSE quant[1],
    QuantParams(out, Dim(c, 2), 0, "ir")>>

Advanced(c, d) ==
  LET next == IF c.all THEN Out(d.rnn_out.place[2] + 1) ELSE d.rnn_out.place
  IN  IF c.kind = "LSTM" THEN [d EXCEPT !.rnn_out.place = next]
      ELSE [d EXCEPT !.rnn_out.place = next, !.current_out = Desc(next, d.rnn_out.params)]

Advance ==
  /\ At("advance")
  /\ LET frame == IF series.backward THEN 0 - series.size ELSE series.size
     IN  at' = [in |-> at.in + frame, in_new |-> at.in_new + frame, hidden |-> tsr.rnn_out.place]
  /\ quant' = Redefined(series, tsr.rnn_out.params)
  /\ tsr' = Advanced(series, tsr)
  /\ step' = step + 1 /\ pc' = "dense"
  /\ UNCHANGED <<series, piece, cell_rank, rows, memory, outcome>>

ReturnCell ==
  /\ At("dense") /\ step = series.len
  /\ rows' = OutRows(series)
  /\ outcome' = "OK" /\ pc' = "setup"
  /\ UNCHANGED <<series, piece, step, at, tsr, quant, cell_rank, memory>>

(* The application copies the last output to prev_out, with its            *)
(* parameters, and calls the kernel with the next piece.                   *)
CallAgain ==
  /\ outcome = "OK" /\ piece < series.pieces
  /\ LET last == Desc(Out(rows - 1), "out")
         prev == Desc(Prev(series), "out")
     IN  /\ memory' = Put(memory, prev, Read(memory, last))
         /\ tsr' = [prev |-> prev]
  /\ cell_rank' = IF series.resets THEN 1 ELSE cell_rank
  /\ piece' = piece + 1 /\ outcome' = "called"
  /\ UNCHANGED <<series, pc, step, at, quant, rows>>

CellNext ==
  \/ RefuseCell \/ Setup \/ Dense \/ NonLinearity \/ PointwiseLSTM \/ PointwiseGRU
  \/ NewGate \/ OutputLSTM \/ OutputGRU \/ Advance \/ ReturnCell \/ CallAgain

CellSpec == CellInit /\ [][CellNext]_cellVars

-----------------------------------------------------------------------------
(* The formulas of an LSTM and of a GRU cell, over the whole sequence, the *)
(* pieces put together.                                                    *)

(* The n-th frame in the order of processing. *)
NthFrame(c, n) ==
  LET in_piece == (n - 1) % c.len
  IN  <<"x", 1 + (n - 1) \div c.len, IF c.backward THEN c.len - 1 - in_piece ELSE in_piece>>

PerAxis(c, k, g) == IF Dim(c, k) = 0 THEN g ELSE 0
TrueGate(c, g, x, h) == Gate(<<g, g>>, <<PerAxis(c, 1, g), PerAxis(c, 2, g)>>, g, x, h)

LSTMStep(c, x, s) ==
  LET gate(g) == TrueGate(c, g, x, s.h)
      cell == Add(Mul(Act("sigm", gate(2)), s.c), Mul(Act("sigm", gate(0)), Act("tanh", gate(1))))
  IN  [h |-> Mul(Act("sigm", gate(3)), IF c.act = "none" THEN cell ELSE Act(c.act, cell)),
       c |-> cell]

GRUStep(c, x, s) ==
  LET z == Act("sigm", TrueGate(c, 0, x, s.h))
      r == Act("sigm", TrueGate(c, 1, x, s.h))
      new == Act("tanh", TrueGate(c, 2, x, Mul(r, s.h)))
  IN  [h |-> Add(Mul(z, s.h), Mul(Sub(<<"1">>, z), new)), c |-> s.c]

CellStep(c, x, s) == IF c.kind = "LSTM" THEN LSTMStep(c, x, s) ELSE GRUStep(c, x, s)

(* The hidden and the cell state after each number of frames. *)
Reference(c) ==
  LET after[n \in 0 .. c.len * c.pieces] ==
        IF n = 0 THEN [h |-> <<"h">>, c |-> <<"c">>]
        ELSE CellStep(c, NthFrame(c, n), after[n - 1])
  IN  after

-----------------------------------------------------------------------------
(* Properties.                                                             *)

(* What the kernel takes for granted: frames without gaps between them,    *)
(* and weights quantized along their first dimension if they are sa8.      *)
Supported(c) == c.stride = c.size /\ (c.type = "SA8" => c.w = <<0, 0>>)

(* After each call the rows of the output hold the hidden states the       *)
(* formulas give, and the cell the last cell state: no value was           *)
(* overwritten before its last use or read with parameters that changed    *)
(* since it was written, in place, backwards, in pieces or not.            *)
ResultExact ==
  outcome = "OK" /\ Supported(series) =>
    LET done == piece * series.len
        ref == Reference(series)
    IN  /\ \A row \in 0 .. rows - 1 :
             Read(memory, Desc(Out(row), "out")) = ref[done - (rows - 1 - row)].h
        /\ Read(memory, CellDesc) = ref[done].c

(* Only the rows of the output and the gates of the scratch memory that    *)
(* there is room for are ever written, besides the cell.                   *)
CellInside ==
  \A p \in DOMAIN memory :
    /\ p[1] = "out" => p[2] \in 0 .. series.out_rows - 1
    /\ p[1] = "scratch" => p[2] \in 0 .. series.scratch_gates - 1

(* prev_out is constant: unless it shares the memory of out, no step of    *)
(* the kernel changes it, and the GRU never changes the cell.              *)
PrevKept ==
  [][outcome = "running" =>
       /\ ~series.shared => memory'[Prev(series)] = memory[Prev(series)]
       /\ series.kind = "GRU" => memory'[Cell] = memory[Cell]]_cellVars

-----------------------------------------------------------------------------
(* What the documentation and an example say and the code does not do.     *)

(* The descriptor of the cell that a call accepted and left behind can be  *)
(* passed to the next call, as the example does in every inference.        *)
CellAcceptedAgain == piece > 1 => outcome # "SHAPE_MISMATCH"
=============================================================================
