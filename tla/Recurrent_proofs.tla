-------------------------- MODULE Recurrent_proofs --------------------------
(***************************************************************************)
(* Proofs about the kernels of recurrent layers and the ones they share    *)
(* with fully connected layers.                                            *)
(*                                                                         *)
(* RnnCell, the LSTM and GRU cells: for sequences of every length, in any  *)
(* number of calls and in both directions, the kernels stay in the places  *)
(* they were given, keep the previous output and compute what their        *)
(* formulas say. The invariant Structure says where in a step a kernel is  *)
(* and how its descriptors are set there, the invariant Values what the    *)
(* memory holds at that point.                                             *)
(*                                                                         *)
(* Dense: mli_krn_fully_connected and mli_krn_rnn_dense look at no         *)
(* capacity once they run: what they read and write lies inside the        *)
(* buffers because the checks accepted the descriptors. The kernels walk   *)
(* inputs as if they were contiguous; that this stays inside, for inputs   *)
(* with gaps too, rests on a tensor having no more elements than it spans. *)
(***************************************************************************)
EXTENDS Dense, RnnCell, Access_proofs, WellFoundedInduction

-----------------------------------------------------------------------------
(***************************************************************************)
(* RnnCell                                                                 *)
(***************************************************************************)

(* A place holds a value, written with the parameters of the descriptor.   *)
Holds(m, d, term) ==
  /\ d.place \in DOMAIN m
  /\ m[d.place] = [term |-> term, params |-> d.params]

LEMMA HoldsRead ==
  ASSUME NEW m, NEW d, NEW term, Holds(m, d, term)
  PROVE  Read(m, d) = term
BY DEF Holds, Read

LEMMA PutHolds ==
  ASSUME NEW m, NEW d, NEW term
  PROVE  Holds(Put(m, d, term), d, term)
BY DEF Holds, Put

LEMMA PutKeeps ==
  ASSUME NEW m, NEW d, NEW term, NEW e, NEW other, Holds(m, e, other), e.place # d.place
  PROVE  Holds(Put(m, d, term), e, other)
BY DEF Holds, Put

LEMMA PutDomain ==
  ASSUME NEW m, NEW d, NEW term
  PROVE  DOMAIN Put(m, d, term) = DOMAIN m \cup {d.place}
BY DEF Put

LEMMA DescFields ==
  ASSUME NEW place, NEW pars
  PROVE  Desc(place, pars).place = place /\ Desc(place, pars).params = pars
BY DEF Desc

LEMMA PlacesApart ==
  /\ Cell # One
  /\ \A g \in Nat, r \in Int : Scratch(g) # Out(r)
  /\ \A g \in Nat : \A c : Scratch(g) # Prev(c) /\ Scratch(g) # Cell /\ Scratch(g) # One
  /\ \A r \in Int : Out(r) # Cell /\ Out(r) # One
  /\ \A c : Prev(c) # Cell /\ Prev(c) # One
  /\ \A g, h \in Nat : g # h => Scratch(g) # Scratch(h)
  /\ \A r, q \in Int : r # q => Out(r) # Out(q)
  /\ \A c : \A r \in Int : ~c.shared => Prev(c) # Out(r)
BY DEF Cell, One, Scratch, Out, Prev

-----------------------------------------------------------------------------
(* What the recursive definition of the reference says.                    *)

Unfolded(c, f, n) ==
  f = [i \in 0 .. n |-> IF i = 0 THEN [h |-> <<"h">>, c |-> <<"c">>]
                        ELSE CellStep(c, NthFrame(c, i), f[i - 1])]

LEMMA Unfolds ==
  ASSUME NEW c, NEW n \in Nat
  PROVE  \E f : Unfolded(c, f, n)
PROOF
  <1> DEFINE Missing == {i \in Nat : ~ \E f : Unfolded(c, f, i)}
             R == OpToRel(<, Nat)
  <1>1. CASE Missing = {}
    BY <1>1
  <1>2. CASE Missing # {}
    <2>1. IsWellFoundedOn(R, Nat) /\ \A x, y \in Nat : <<y, x>> \in R <=> y < x
      BY NatLessThanWellFounded DEF OpToRel
    <2>2. Missing \subseteq Nat
      OBVIOUS
    <2>3. PICK x \in Missing : \A y \in Missing : ~(<<y, x>> \in R)
      <3> HIDE DEF Missing, R
      <3> QED BY <1>2, <2>1, <2>2, WFMin
    <2>4. x \in Nat /\ ~ \E f : Unfolded(c, f, x)
      OBVIOUS
    <2>5. x # 0
      <3>1. SUFFICES ASSUME x = 0 PROVE \E f : Unfolded(c, f, 0)
        BY <2>4
      <3> DEFINE g == [i \in 0 .. 0 |-> [h |-> <<"h">>, c |-> <<"c">>]]
      <3>2. Unfolded(c, g, 0)
        BY DEF Unfolded
      <3> QED BY <3>2
    <2>6. x - 1 \in Nat /\ x - 1 \notin Missing
      <3> HIDE DEF Missing, R
      <3>1. x - 1 \in Nat /\ x - 1 < x
        BY <2>4, <2>5
      <3>2. <<x - 1, x>> \in R
        BY <3>1, <2>1, <2>4
      <3> QED BY <3>1, <3>2, <2>3
    <2>7. PICK f : Unfolded(c, f, x - 1)
      BY <2>6
    <2> DEFINE g == [i \in 0 .. x |-> IF i = x THEN CellStep(c, NthFrame(c, x), f[x - 1]) ELSE f[i]]
               u == [i \in 0 .. x |-> IF i = 0 THEN [h |-> <<"h">>, c |-> <<"c">>]
                                      ELSE CellStep(c, NthFrame(c, i), g[i - 1])]
    <2>8. ASSUME NEW i \in 0 .. x
          PROVE  g[i] = u[i]
      <3>1. CASE i = x
        BY <3>1, <2>5, <2>4
      <3>2. CASE i # x
        <4>1. i \in 0 .. x - 1 /\ g[i] = f[i]
          BY <3>2, <2>4
        <4>2. i # 0 => i - 1 \in 0 .. x - 1 /\ i - 1 # x /\ i - 1 \in 0 .. x
          BY <4>1, <2>4
        <4>3. i # 0 => g[i - 1] = f[i - 1]
          BY <4>2
        <4>4. f[i] = IF i = 0 THEN [h |-> <<"h">>, c |-> <<"c">>]
                     ELSE CellStep(c, NthFrame(c, i), f[i - 1])
          BY <2>7, <4>1 DEF Unfolded
        <4> QED BY <4>1, <4>3, <4>4
      <3> QED BY <3>1, <3>2
    <2>9. g = u
      <3> HIDE DEF g
      <3>1. g = [i \in 0 .. x |-> g[i]]
        BY DEF g
      <3> QED BY <2>8, <3>1
    <2>10. Unfolded(c, g, x)
      BY <2>9 DEF Unfolded
    <2> QED BY <2>4, <2>10
  <1> QED BY <1>1, <1>2

LEMMA ReferenceUnfolds ==
  ASSUME NEW c, c.len * c.pieces \in Nat
  PROVE  Unfolded(c, Reference(c), c.len * c.pieces)
PROOF
  <1>1. \E f : Unfolded(c, f, c.len * c.pieces)
    BY Unfolds
  <1>2. Reference(c) = CHOOSE f : Unfolded(c, f, c.len * c.pieces)
    BY DEF Reference, Unfolded
  <1> QED BY <1>1, <1>2

LEMMA ReferenceSteps ==
  ASSUME NEW c, c.len * c.pieces \in Nat
  PROVE  /\ Reference(c)[0] = [h |-> <<"h">>, c |-> <<"c">>]
         /\ \A n \in 0 .. c.len * c.pieces - 1 :
              Reference(c)[n + 1] = CellStep(c, NthFrame(c, n + 1), Reference(c)[n])
PROOF
  <1>1. Unfolded(c, Reference(c), c.len * c.pieces)
    BY ReferenceUnfolds
  <1> DEFINE ref == Reference(c)
             N == c.len * c.pieces
  <1>2. ref = [i \in 0 .. N |-> IF i = 0 THEN [h |-> <<"h">>, c |-> <<"c">>]
                        ELSE CellStep(c, NthFrame(c, i), ref[i - 1])]
    BY <1>1 DEF Unfolded
  <1> HIDE DEF ref, N
  <1>3. N \in Nat /\ 0 \in 0 .. N
    BY DEF N
  <1>4. ref[0] = [h |-> <<"h">>, c |-> <<"c">>]
    BY <1>2, <1>3
  <1>5. ASSUME NEW n \in 0 .. N - 1
        PROVE  ref[n + 1] = CellStep(c, NthFrame(c, n + 1), ref[n])
    <2>1. n + 1 \in 0 .. N /\ n + 1 # 0 /\ n + 1 - 1 = n
      BY <1>3
    <2>2. ASSUME NEW i \in 0 .. N, i # 0
          PROVE  ref[i] = CellStep(c, NthFrame(c, i), ref[i - 1])
      BY ONLY <1>2, <2>2
    <2> HIDE DEF ref
    <2> QED BY <2>1, <2>2
  <1> QED BY <1>4, <1>5 DEF ref, N
-----------------------------------------------------------------------------
(* The invariant.                                                          *)

(* Where the time step finds the hidden state, written with which          *)
(* parameters, and where its output goes.                                  *)
StartParams == IF piece = 1 THEN "prev" ELSE "out"
Started == Desc(Prev(series), StartParams)
HiddenPlace == IF step = 0 THEN Prev(series) ELSE IF series.all THEN Out(step - 1) ELSE Out(0)
HiddenParams == IF step = 0 THEN StartParams ELSE "out"
OutPlace == IF series.all THEN Out(step) ELSE Out(0)

Labels(c) ==
  {"dense", "activate", "pointwise", "output", "advance"}
    \cup (IF c.kind = "GRU" THEN {"new_gate"} ELSE {})

(* What the checks have seen to. *)
Roomy(c) == c.out_rows >= OutRows(c) /\ c.scratch_gates >= ScratchGates(c)

Control ==
  /\ series \in Series /\ piece \in 1 .. series.pieces
  /\ outcome \in {"called", "running", "OK", "SHAPE_MISMATCH", "BAD_TENSOR", "BAD_FUNC_CFG",
                  "INCOMPATEBLE_TENSORS"}
  /\ outcome = "called" => tsr = [prev |-> Started]
  /\ outcome = "running" =>
       /\ Roomy(series)
       /\ pc \in Labels(series) /\ step \in 0 .. series.len
       /\ pc # "dense" => step < series.len
  /\ outcome = "OK" => Roomy(series) /\ rows = OutRows(series)

(* The parameters of a gate's descriptor once it was activated. *)
GateParams(g) ==
  IF series.kind = "LSTM" THEN IF g = 1 THEN "tanh" ELSE "sigm"
  ELSE IF g # 2 THEN "sigm"
  ELSE IF pc \in {"output", "advance"} THEN "tanh" ELSE "ir"

Described(pars) ==
  tsr = [prev |-> Started, rnn_out |-> Desc(OutPlace, "out"),
         hidden |-> IF series.kind = "LSTM" THEN Started
                    ELSE IF pc = "advance" THEN Desc(OutPlace, "out")
                    ELSE Desc(HiddenPlace, HiddenParams),
         current_out |-> IF series.kind = "LSTM" THEN Desc(Out(0), StartParams)
                         ELSE Desc(OutPlace, HiddenParams),
         prev_out_reset |-> Desc(Scratch(1), "ir"),
         gate |-> [g \in 0 .. ScratchGates(series) - 1 |-> Desc(Scratch(g), pars[g])]]

Descriptors ==
  outcome = "running" =>
    /\ \E pars :
         /\ Described(pars)
         /\ pc \notin {"dense", "activate"} =>
              \A g \in 0 .. ScratchGates(series) - 1 : pars[g] = GateParams(g)
    /\ at = LET frame == (IF series.backward THEN series.len - 1 - step ELSE step) * series.size
            IN  [in |-> frame, in_new |-> frame, hidden |-> HiddenPlace]
    /\ IF pc = "dense"
       THEN quant = <<QuantParams("in", Dim(series, 1), 0, "ir"),
                      QuantParams(HiddenParams, Dim(series, 2), 0, "ir")>>
       ELSE \E dim, scale, second :
              /\ quant = <<QuantParams("in", dim, scale, "ir"), second>> /\ second.out = "ir"
              /\ series.type = "FX" => dim = -1 /\ scale = 0

(* What is written where. *)
Places ==
  /\ {Prev(series), Cell, One} \subseteq DOMAIN memory
  /\ \/ DOMAIN memory = {Prev(series), Cell, One}
     \/ /\ Roomy(series)
        /\ DOMAIN memory \subseteq
             {Prev(series), Cell, One} \cup {Scratch(g) : g \in 0 .. ScratchGates(series) - 1}
               \cup {Out(r) : r \in 0 .. OutRows(series) - 1}

(* The formula's state in front of and behind the time step. *)
Frames == (piece - 1) * series.len
Before == Reference(series)[Frames + step]
After == Reference(series)[Frames + step + 1]
GateValue(g) == TrueGate(series, g, NthFrame(series, Frames + step + 1), Before.h)
Sigm(g) == Act("sigm", GateValue(g))

Rows ==
  series.all => \A r \in 0 .. step - 1 :
                  Holds(memory, Desc(Out(r), "out"), Reference(series)[Frames + r + 1].h)

Values ==
  /\ Holds(memory, OneDesc, <<"1">>)
  /\ outcome = "called" =>
       /\ Holds(memory, Started, Reference(series)[Frames].h)
       /\ Holds(memory, CellDesc, Reference(series)[Frames].c)
  /\ outcome = "running" =>
       /\ Rows
       /\ pc \in {"dense", "activate", "pointwise"} =>
            /\ Holds(memory, Desc(HiddenPlace, HiddenParams), Before.h)
            /\ Holds(memory, CellDesc, Before.c)
       /\ pc = "activate" =>
            \A g \in 0 .. Gates(series) - 1 : Holds(memory, Desc(Scratch(g), "ir"), GateValue(g))
       /\ pc = "pointwise" =>
            \A g \in 0 .. Gates(series) - 1 :
              Holds(memory, Desc(Scratch(g), GateParams(g)), Act(GateParams(g), GateValue(g)))
       /\ pc \in {"new_gate", "output"} /\ series.kind = "GRU" =>
            /\ Holds(memory, CellDesc, Before.c)
            /\ Holds(memory, Desc(OutPlace, HiddenParams), Mul(Sigm(0), Before.h))
            /\ Holds(memory, Desc(Scratch(0), "sigm"), Sub(<<"1">>, Sigm(0)))
       /\ pc = "new_gate" =>
            Holds(memory, Desc(Scratch(1), "ir"), Mul(Sigm(1), Before.h))
       /\ pc = "output" =>
            IF series.kind = "LSTM"
            THEN /\ Holds(memory, CellDesc, After.c)
                 /\ Holds(memory, Desc(Scratch(3), "sigm"), Sigm(3))
            ELSE Holds(memory, Desc(Scratch(2), "tanh"),
                       Act("tanh", TrueGate(series, 2, NthFrame(series, Frames + step + 1),
                                            Mul(Sigm(1), Before.h))))
       /\ pc = "advance" =>
            /\ Holds(memory, Desc(OutPlace, "out"), After.h)
            /\ Holds(memory, CellDesc, After.c)
  /\ outcome = "OK" =>
       LET done == piece * series.len
       IN  /\ \A row \in 0 .. rows - 1 :
                Holds(memory, Desc(Out(row), "out"),
                      Reference(series)[done - (rows - 1 - row)].h)
           /\ Holds(memory, CellDesc, Reference(series)[done].c)

Structure == Control /\ Descriptors /\ Places

CellInv == Structure /\ (Supported(series) => Values)

-----------------------------------------------------------------------------
(* What is assumed of a series, by name. *)
LEMMA SeriesFacts ==
  ASSUME NEW c \in Series
  PROVE  /\ c.kind \in {"LSTM", "GRU"} /\ c.type \in {"FX", "SA8"}
         /\ c.w \in {-1, 0} \X {-1, 0}
         /\ c.len \in Nat \ {0} /\ c.pieces \in Nat \ {0}
         /\ c.size \in Nat \ {0} /\ c.stride \in Nat \ {0}
         /\ c.backward \in BOOLEAN /\ c.all \in BOOLEAN /\ c.shared \in BOOLEAN
         /\ c.act \in {"none", "tanh", "sigm"}
         /\ c.out_rows \in Nat /\ c.scratch_gates \in Nat
         /\ c.shared => c.out_rows > 0
         /\ OutRows(c) \in Nat \ {0} /\ ScratchGates(c) \in {3, 4}
         /\ Gates(c) \in Nat /\ Gates(c) <= ScratchGates(c)
BY SeriesAssumption DEF OutRows, ScratchGates, Gates

(* What a call that is not refused has room for. *)
LEMMA CheckRoom ==
  ASSUME NEW c \in Series, NEW rank
  PROVE  /\ CheckCell(c, rank) \in {"OK", "SHAPE_MISMATCH", "BAD_TENSOR", "BAD_FUNC_CFG",
                                    "INCOMPATEBLE_TENSORS"}
         /\ CheckCell(c, rank) = "OK" => Roomy(c)
BY SeriesFacts DEF CheckCell, Roomy

LEMMA StructureInit == CellInit => Structure
PROOF
  <1> SUFFICES ASSUME CellInit PROVE Structure
    OBVIOUS
  <1> USE DEF CellInit
  <1>1. Control
    BY SeriesFacts DEF Control, Started, StartParams
  <1>2. Descriptors
    BY DEF Descriptors
  <1>3. Places
    BY DEF Places
  <1> QED BY <1>1, <1>2, <1>3 DEF Structure

LEMMA StructureRefuse ==
  ASSUME Structure, RefuseCell
  PROVE  Structure'
PROOF
  <1> USE DEF Structure, RefuseCell
  <1>0. CheckCell(series, cell_rank) \notin {"called", "running", "OK"}
    BY CheckRoom DEF Control
  <1>1. Control'
    BY <1>0, CheckRoom DEF Control, Started, StartParams
  <1>2. Descriptors'
    BY <1>0 DEF Descriptors
  <1>3. Places'
    BY DEF Places
  <1> QED BY <1>1, <1>2, <1>3

LEMMA StructureSetup ==
  ASSUME Structure, Setup
  PROVE  Structure'
PROOF
  <1> USE DEF Structure, Setup
  <1>0. /\ series \in Series /\ series.len \in Nat \ {0} /\ Roomy(series)
        /\ series' = series /\ piece' = piece /\ step' = 0 /\ pc' = "dense"
        /\ outcome' = "running" /\ tsr = [prev |-> Started]
    BY SeriesFacts, CheckRoom DEF Control
  <1>1. Control'
    BY <1>0 DEF Control, Labels
  <1>2. Descriptors'
    <2> PICK pars : pars = [g \in 0 .. ScratchGates(series) - 1 |-> "ir"]
      OBVIOUS
    <2> DEFINE gate == [g \in 0 .. ScratchGates(series) - 1 |-> Desc(Scratch(g), pars[g])]
    <2>0. gate = [g \in 0 .. ScratchGates(series) - 1 |-> Desc(Scratch(g), "ir")]
      OBVIOUS
    <2>1. tsr' = [prev |-> Started, rnn_out |-> Desc(Out(0), "out"), hidden |-> Started,
                  current_out |-> Desc(Out(0), StartParams),
                  prev_out_reset |-> Desc(Scratch(1), "ir"), gate |-> gate]
      <3> HIDE DEF gate
      <3> QED BY <1>0, <2>0 DEF Locals, Started, Desc
    <2>2. /\ OutPlace' = Out(0) /\ Started' = Started /\ StartParams' = StartParams
          /\ HiddenPlace' = Prev(series) /\ HiddenParams' = StartParams
          /\ Started = Desc(Prev(series), StartParams)
      BY <1>0 DEF OutPlace, Started, StartParams, HiddenPlace, HiddenParams
    <2>3. /\ Started.place = Prev(series) /\ Started.params = StartParams
      BY DescFields DEF Started
    <2>4. at' = [in |-> (IF series.backward THEN series.len - 1 - 0 ELSE 0) * series.size,
                 in_new |-> (IF series.backward THEN series.len - 1 - 0 ELSE 0) * series.size,
                 hidden |-> Prev(series)]
      BY <1>0, <2>3, SeriesFacts
    <2>5. quant' = <<QuantParams("in", Dim(series, 1), 0, "ir"),
                     QuantParams(StartParams, Dim(series, 2), 0, "ir")>>
      BY <1>0, <2>3
    <2>6. Described(pars)'
      <3> HIDE DEF Setup
      <3> QED BY <1>0, <2>1, <2>2 DEF Described
    <2> HIDE DEF Setup
    <2> QED BY <1>0, <2>2, <2>4, <2>5, <2>6 DEF Descriptors
  <1>3. Places'
    BY DEF Places
  <1> QED BY <1>1, <1>2, <1>3

(* The expressions of the invariant that a step leaves alone.              *)
LEMMA SameTimeStep ==
  ASSUME UNCHANGED <<series, piece, step>>
  PROVE  /\ UNCHANGED <<StartParams, Started, HiddenPlace, HiddenParams, OutPlace>>
         /\ UNCHANGED <<Frames, Before, After>>
         /\ \A g : GateValue(g)' = GateValue(g) /\ Sigm(g)' = Sigm(g)
BY DEF StartParams, Started, HiddenPlace, HiddenParams, OutPlace, Frames, Before, After,
       GateValue, Sigm

LEMMA DenseKeeps ==
  ASSUME Structure, Dense
  PROVE  (Control /\ Descriptors)'
PROOF
  <1> USE DEF Structure, Dense, At
  <1>1. Control'
    BY DEF Control, Labels, Started, StartParams
  <1>2. Descriptors'
    <2>1. UNCHANGED <<StartParams, Started, HiddenPlace, HiddenParams, OutPlace>>
      BY SameTimeStep
    <2>2. quant' = <<QuantParams("in", -1, 0, "ir"), QuantParams(HiddenParams, -1, 0, "ir")>>
      BY DEF AfterStacked, QuantParams, Descriptors
    <2>3. QuantParams(HiddenParams, -1, 0, "ir").out = "ir"
      BY DEF QuantParams
    <2> QED BY <2>1, <2>2, <2>3 DEF Descriptors, Described
  <1> QED BY <1>1, <1>2

LEMMA NonLinearityKeeps ==
  ASSUME Structure, NonLinearity
  PROVE  (Control /\ Descriptors)'
PROOF
  <1> USE DEF Structure, NonLinearity, At
  <1>1. Control'
    BY DEF Control, Labels, Started, StartParams
  <1>2. Descriptors'
    <2>1. UNCHANGED <<StartParams, Started, HiddenPlace, HiddenParams, OutPlace>>
      BY SameTimeStep
    <2>2. PICK pars : Described(pars)
      BY DEF Descriptors
    <2>3. quant[2].out = "ir"
      BY DEF Descriptors
    <2> DEFINE N == ScratchGates(series) - 1
               f == Activation(series)
               gate == [g \in 0 .. N |-> Desc(Scratch(g), pars[g])]
               next == [g \in 0 .. N |-> IF g \in DOMAIN f THEN ActivatedDesc(gate[g], f[g])
                                         ELSE Desc(gate[g].place, "ir")]
    <2> PICK after : after = [g \in 0 .. N |-> GateParams(g)']
      OBVIOUS
    <2>4. tsr' = [tsr EXCEPT !.gate = next] /\ DOMAIN gate = 0 .. N
      BY <2>2, <2>3 DEF Described
    <2>5. ASSUME NEW g \in 0 .. N
          PROVE  next[g] = Desc(Scratch(g), after[g])
      <3>1. gate[g] = Desc(Scratch(g), pars[g])
        OBVIOUS
      <3>2. gate[g].place = Scratch(g) /\ ActivatedDesc(gate[g], f[g]) = Desc(Scratch(g), f[g])
        BY <3>1 DEF ActivatedDesc, Desc
      <3>3. series.kind \in {"LSTM", "GRU"} /\ g \in 0 .. ScratchGates(series) - 1
        BY SeriesFacts DEF Control
      <3>4. IF g \in DOMAIN f THEN f[g] = GateParams(g)' ELSE GateParams(g)' = "ir"
        BY <3>3 DEF Activation, GateParams, ScratchGates
      <3> QED BY <3>2, <3>4
    <2>6. next = [g \in 0 .. N |-> Desc(Scratch(g), after[g])]
      BY <2>5
    <2>7. Described(after)'
      <3> HIDE DEF next
      <3> QED BY <2>1, <2>2, <2>4, <2>6 DEF Described
    <2>8. \A g \in 0 .. N : after[g] = GateParams(g)'
      OBVIOUS
    <2> QED BY <2>1, <2>7, <2>8 DEF Descriptors
  <1> QED BY <1>1, <1>2

(* The memory n is m but for the places of a set, which may be new.         *)
Writes(m, n, S) ==
  /\ DOMAIN m \subseteq DOMAIN n /\ DOMAIN n \subseteq DOMAIN m \cup S
  /\ \A p \in DOMAIN m \ S : n[p] = m[p]

LEMMA PutWrites ==
  ASSUME NEW m, NEW n, NEW S, NEW d, NEW t, Writes(m, n, S), d.place \in S
  PROVE  Writes(m, Put(n, d, t), S)
BY DEF Writes, Put

LEMMA EltWrites ==
  ASSUME NEW m, NEW n, NEW S, NEW a, NEW b, NEW d, Writes(m, n, S), d.place \in S
  PROVE  /\ Writes(m, EltMul(n, a, b, d), S)
         /\ Writes(m, EltAdd(n, a, b, d), S)
         /\ Writes(m, EltSub(n, a, b, d), S)
BY PutWrites DEF EltMul, EltAdd, EltSub

LEMMA ActWrites ==
  ASSUME NEW m, NEW n, NEW S, NEW f, NEW a, NEW d, Writes(m, n, S),
         NEW place \in S, NEW pars, d = Desc(place, pars)
  PROVE  Writes(m, Activate(n, f, a, d), S)
BY PutWrites DEF Activate, ActivatedDesc, Desc

LEMMA WritesMore ==
  ASSUME NEW m, NEW n, NEW S, NEW T, Writes(m, n, S), S \subseteq T
  PROVE  Writes(m, n, T)
BY DEF Writes

LEMMA WritesHold ==
  ASSUME NEW m, NEW n, NEW S, Writes(m, n, S), NEW d, NEW t, Holds(m, d, t), d.place \notin S
  PROVE  Holds(n, d, t)
BY DEF Writes, Holds

LEMMA NoWrites ==
  ASSUME NEW m, NEW S
  PROVE  Writes(m, m, S)
BY DEF Writes

(* The places the kernel may write. *)
Room(c) ==
  (IF c.kind = "LSTM" THEN {Cell} ELSE {})
    \cup {Scratch(g) : g \in 0 .. ScratchGates(c) - 1} \cup {Out(r) : r \in 0 .. OutRows(c) - 1}

LEMMA WritesPlaces ==
  ASSUME Places, Roomy(series), series' = series, Writes(memory, memory', Room(series))
  PROVE  Places'
BY DEF Places, Room, Writes

LEMMA DescribedNow ==
  ASSUME Structure, outcome = "running"
  PROVE  \E pars :
           /\ Described(pars)
           /\ pc \notin {"dense", "activate"} =>
                \A g \in 0 .. ScratchGates(series) - 1 : pars[g] = GateParams(g)
BY DEF Structure, Descriptors

(* The descriptors that the pointwise steps work with.                     *)
LEMMA Located ==
  ASSUME Structure, outcome = "running"
  PROVE  /\ tsr.rnn_out = Desc(OutPlace, "out") /\ tsr.prev_out_reset = Desc(Scratch(1), "ir")
         /\ pc \notin {"dense", "activate"} =>
              \A g \in 0 .. ScratchGates(series) - 1 : tsr.gate[g] = Desc(Scratch(g), GateParams(g))
         /\ series.kind = "GRU" =>
              /\ tsr.current_out = Desc(OutPlace, HiddenParams)
              /\ pc # "advance" => tsr.hidden = Desc(HiddenPlace, HiddenParams)
         /\ series.kind = "LSTM" => 3 \in 0 .. ScratchGates(series) - 1
         /\ {0, 1, 2} \subseteq 0 .. ScratchGates(series) - 1
         /\ pc # "dense" => OutPlace \in Room(series) /\ step < series.len
PROOF
  <1>1. series \in Series /\ series.kind \in {"LSTM", "GRU"} /\ series.all \in BOOLEAN
    BY SeriesFacts DEF Structure, Control
  <1>2. PICK pars :
          /\ Described(pars)
          /\ pc \notin {"dense", "activate"} =>
               \A g \in 0 .. ScratchGates(series) - 1 : pars[g] = GateParams(g)
    BY DEF Structure, Descriptors
  <1>3. 3 \in 0 .. ScratchGates(series) - 1 \/ series.kind = "GRU"
    BY <1>1 DEF ScratchGates
  <1>4. {0, 1, 2} \subseteq 0 .. ScratchGates(series) - 1
    BY <1>1 DEF ScratchGates
  <1>5. ASSUME pc # "dense" PROVE OutPlace \in Room(series) /\ step < series.len
    <2>1. step \in 0 .. series.len - 1 /\ series.len \in Nat \ {0}
      BY <1>5, <1>1, SeriesFacts DEF Structure, Control
    <2>2. IF series.all THEN OutRows(series) = series.len ELSE OutRows(series) = 1
      BY DEF OutRows
    <2>3. OutPlace \in {Out(r) : r \in 0 .. OutRows(series) - 1}
      BY <2>1, <2>2, <1>1 DEF OutPlace
    <2> QED BY <2>1, <2>3 DEF Room
  <1> QED BY <1>1, <1>2, <1>3, <1>4, <1>5 DEF Described

(* What the steps of the kernel write. *)
GateScratch(n) == {Scratch(g) : g \in 0 .. n - 1}

LEMMA DenseWrites ==
  ASSUME Structure, Dense
  PROVE  Writes(memory, memory', GateScratch(Gates(series)))
PROOF
  <1>1. DOMAIN Stacked(memory) = DOMAIN memory \cup GateScratch(Gates(series))
    BY DEF Stacked, GateScratch
  <1>2. \A p \in DOMAIN memory \ GateScratch(Gates(series)) : Stacked(memory)[p] = memory[p]
    BY DEF Stacked, GateScratch
  <1>3. memory' = Stacked(memory)
    BY DEF Dense
  <1> QED BY <1>1, <1>2, <1>3 DEF Writes

LEMMA NonLinearityWrites ==
  ASSUME Structure, NonLinearity
  PROVE  Writes(memory, memory', GateScratch(Gates(series)))
PROOF
  <1> DEFINE f == Activation(series)
  <1>1. /\ DOMAIN memory' = DOMAIN memory
        /\ \A p \in DOMAIN memory : ~(p[1] = "scratch" /\ p[2] \in DOMAIN f) => memory'[p] = memory[p]
    BY DEF NonLinearity
  <1>2. \A p \in DOMAIN memory \ GateScratch(Gates(series)) : ~(p[1] = "scratch" /\ p[2] \in DOMAIN f)
    <2> SUFFICES ASSUME NEW p \in DOMAIN memory, p[1] = "scratch", p[2] \in DOMAIN f
                 PROVE  p \in GateScratch(Gates(series))
      OBVIOUS
    <2>1. DOMAIN f = 0 .. Gates(series) - 1
      <3>1. CASE series.kind = "LSTM"
        BY <3>1 DEF Activation, Gates
      <3>2. CASE series.kind # "LSTM"
        BY <3>2 DEF Activation, Gates
      <3> QED BY <3>1, <3>2
    <2>2. p \in {Prev(series), Cell, One}
            \/ p \in {Scratch(g) : g \in 0 .. ScratchGates(series) - 1}
            \/ p \in {Out(r) : r \in 0 .. OutRows(series) - 1}
      BY DEF Structure, Places
    <2>3. p \in {Scratch(g) : g \in 0 .. ScratchGates(series) - 1}
      BY <2>2 DEF Prev, Cell, One, Out
    <2> QED BY <2>1, <2>3 DEF Scratch, GateScratch
  <1> QED BY <1>1, <1>2 DEF Writes

LEMMA PointwiseLSTMWrites ==
  ASSUME Structure, PointwiseLSTM
  PROVE  Writes(memory, memory', {Cell, Scratch(1)})
PROOF
  <1>1. outcome = "running" /\ pc = "pointwise" /\ series.kind = "LSTM"
    BY DEF PointwiseLSTM, At
  <1>2. CellDesc.place = Cell /\ tsr.gate[1].place = Scratch(1)
    BY <1>1, Located, DescFields DEF CellDesc
  <1> DEFINE forgot == EltMul(memory, CellDesc, tsr.gate[2], CellDesc)
             input == EltMul(forgot, tsr.gate[1], tsr.gate[0], tsr.gate[1])
             S == {Cell, Scratch(1)}
  <1>3. Writes(memory, forgot, S)
    BY <1>2, NoWrites, EltWrites
  <1>4. Writes(memory, input, S)
    BY <1>2, <1>3, EltWrites
  <1>5. memory' = EltAdd(input, CellDesc, tsr.gate[1], CellDesc)
    BY DEF PointwiseLSTM
  <1> HIDE DEF input
  <1> QED BY <1>2, <1>4, <1>5, EltWrites

LEMMA PointwiseGRUWrites ==
  ASSUME Structure, PointwiseGRU
  PROVE  Writes(memory, memory', {Scratch(0), Scratch(1), OutPlace})
PROOF
  <1>1. outcome = "running" /\ pc = "pointwise" /\ series.kind = "GRU"
    BY DEF PointwiseGRU, At
  <1>2. /\ tsr.prev_out_reset.place = Scratch(1) /\ tsr.current_out.place = OutPlace
        /\ tsr.gate[0].place = Scratch(0)
    BY <1>1, Located, DescFields
  <1> DEFINE reset == EltMul(memory, tsr.gate[1], tsr.hidden, tsr.prev_out_reset)
             kept == EltMul(reset, tsr.hidden, tsr.gate[0], tsr.current_out)
             S == {Scratch(0), Scratch(1), OutPlace}
  <1>3. Writes(memory, reset, S)
    BY <1>2, NoWrites, EltWrites
  <1>4. Writes(memory, kept, S)
    BY <1>2, <1>3, EltWrites
  <1>5. memory' = EltSub(kept, OneDesc, tsr.gate[0], tsr.gate[0])
    BY DEF PointwiseGRU, ResetAndUpdate
  <1> HIDE DEF kept
  <1> QED BY <1>2, <1>4, <1>5, EltWrites

LEMMA NewGateWrites ==
  ASSUME Structure, NewGate
  PROVE  Writes(memory, memory', {Scratch(2)})
PROOF
  <1>1. outcome = "running" /\ pc = "new_gate"
    BY DEF NewGate, At
  <1>2. tsr.gate[2] = Desc(Scratch(2), GateParams(2))
    BY <1>1, Located
  <1>3. tsr.gate[2].place = Scratch(2)
    BY <1>2, DescFields
  <1>4. PICK pars, t : memory' = Activate(Put(memory, Desc(Scratch(2), pars), t), "tanh", tsr.gate[2], tsr.gate[2])
    BY <1>3 DEF NewGate
  <1>5. Writes(memory, Put(memory, Desc(Scratch(2), pars), t), {Scratch(2)})
    BY NoWrites, PutWrites, DescFields
  <1> QED BY <1>2, <1>4, <1>5, ActWrites

LEMMA OutputLSTMWrites ==
  ASSUME Structure, OutputLSTM
  PROVE  Writes(memory, memory', {OutPlace})
PROOF
  <1>1. outcome = "running" /\ pc = "output"
    BY DEF OutputLSTM, At
  <1>2. tsr.rnn_out = Desc(OutPlace, "out")
    BY <1>1, Located
  <1> DEFINE temp == Desc(OutPlace, "out")
             activated == ActivatedDesc(tsr.rnn_out, series.act)
             active == Activate(memory, series.act, CellDesc, activated)
  <1>3. memory' = IF series.act = "none" THEN EltMul(memory, CellDesc, tsr.gate[3], temp)
                  ELSE EltMul(active, activated, tsr.gate[3], temp)
    BY <1>2, DescFields DEF OutputLSTM
  <1>4. activated = Desc(OutPlace, series.act)
    BY <1>2 DEF ActivatedDesc, Desc
  <1>5. Writes(memory, active, {OutPlace})
    BY <1>2, <1>4, NoWrites, ActWrites
  <1>6. temp.place \in {OutPlace}
    BY <1>2, DescFields
  <1> HIDE DEF temp, active, activated
  <1> QED BY <1>3, <1>5, <1>6, NoWrites, EltWrites

LEMMA OutputGRUWrites ==
  ASSUME Structure, OutputGRU
  PROVE  Writes(memory, memory', {Scratch(2), OutPlace})
PROOF
  <1>1. outcome = "running" /\ pc = "output"
    BY DEF OutputGRU, At
  <1>2. tsr.rnn_out.place = OutPlace /\ tsr.gate[2].place = Scratch(2)
    BY <1>1, Located, DescFields
  <1> DEFINE temp == Desc(Scratch(2), tsr.hidden.params)
             rnn_out == Desc(OutPlace, "out")
             product == EltMul(memory, tsr.gate[2], tsr.gate[0], temp)
             S == {Scratch(2), OutPlace}
  <1>3. memory' = EltAdd(product, temp, tsr.current_out, rnn_out)
    BY <1>2 DEF OutputGRU
  <1>4. temp.place \in S /\ rnn_out.place \in S
    BY <1>2, DescFields
  <1>5. Writes(memory, product, S)
    BY <1>4, NoWrites, EltWrites
  <1> HIDE DEF temp, rnn_out, product
  <1> QED BY <1>3, <1>4, <1>5, EltWrites

(* The steps of the kernel, one time step after the other. *)
KernelStep ==
  \/ Dense \/ NonLinearity \/ PointwiseLSTM \/ PointwiseGRU \/ NewGate
  \/ OutputLSTM \/ OutputGRU \/ Advance \/ ReturnCell

LEMMA KernelWrites ==
  ASSUME Structure, KernelStep
  PROVE  Writes(memory, memory', Room(series))
PROOF
  <1>1. CASE Advance \/ ReturnCell
    <2>1. memory' = memory
      BY <1>1 DEF Advance, ReturnCell
    <2> QED BY <2>1, NoWrites
  <1>2. outcome = "running"
    BY DEF KernelStep, Dense, NonLinearity, PointwiseLSTM, PointwiseGRU, NewGate,
           OutputLSTM, OutputGRU, Advance, ReturnCell, At
  <1>3. /\ GateScratch(Gates(series)) \subseteq Room(series)
        /\ {Scratch(0), Scratch(1), Scratch(2)} \subseteq Room(series)
        /\ series.kind = "LSTM" => Cell \in Room(series)
        /\ pc # "dense" => OutPlace \in Room(series)
    BY <1>2, Located, SeriesFacts DEF Structure, Control, Room, GateScratch
  <1>4. CASE Dense \/ NonLinearity
    BY <1>3, <1>4, DenseWrites, NonLinearityWrites, WritesMore
  <1>5. CASE PointwiseLSTM
    BY <1>3, <1>5, PointwiseLSTMWrites, WritesMore DEF PointwiseLSTM
  <1>6. CASE PointwiseGRU
    BY <1>3, <1>6, PointwiseGRUWrites, WritesMore DEF PointwiseGRU, At
  <1>7. CASE NewGate
    BY <1>3, <1>7, NewGateWrites, WritesMore
  <1>8. CASE OutputLSTM \/ OutputGRU
    <2>1. Writes(memory, memory', {OutPlace}) \/ Writes(memory, memory', {Scratch(2), OutPlace})
      BY <1>8, OutputLSTMWrites, OutputGRUWrites
    <2>2. pc # "dense"
      BY <1>8 DEF OutputLSTM, OutputGRU, At
    <2> QED BY <1>3, <2>1, <2>2, WritesMore
  <1> QED BY <1>1, <1>4, <1>5, <1>6, <1>7, <1>8 DEF KernelStep

LEMMA KernelPlaces ==
  ASSUME Structure, KernelStep
  PROVE  Places'
PROOF
  <1>1. outcome = "running" /\ series' = series
    BY DEF KernelStep, Dense, NonLinearity, PointwiseLSTM, PointwiseGRU, NewGate,
           OutputLSTM, OutputGRU, Advance, ReturnCell, At
  <1>2. Roomy(series) /\ Places
    BY <1>1 DEF Structure, Control
  <1> QED BY <1>1, <1>2, KernelWrites, WritesPlaces

(* Steps that leave the descriptors alone. *)
LEMMA PointwiseKeeps ==
  ASSUME Structure, PointwiseLSTM \/ PointwiseGRU
  PROVE  (Control /\ Descriptors)'
PROOF
  <1> USE DEF Structure
  <1>1. /\ outcome = "running" /\ outcome' = outcome /\ pc = "pointwise"
        /\ UNCHANGED <<series, piece, step, at, tsr, quant, rows>>
        /\ pc' = IF series.kind = "LSTM" THEN "output" ELSE "new_gate"
        /\ series.kind \in {"LSTM", "GRU"}
    BY DEF PointwiseLSTM, PointwiseGRU, At
  <1>2. Control'
    BY <1>1 DEF Control, Labels, Started, StartParams
  <1>3. Descriptors'
    <2>1. UNCHANGED <<StartParams, Started, HiddenPlace, HiddenParams, OutPlace>>
      BY <1>1, SameTimeStep
    <2>2. \A g : GateParams(g)' = GateParams(g)
      BY <1>1 DEF GateParams
    <2> QED BY <1>1, <2>1, <2>2 DEF Descriptors, Described
  <1> QED BY <1>2, <1>3

LEMMA OutputLSTMKeeps ==
  ASSUME Structure, OutputLSTM
  PROVE  (Control /\ Descriptors)'
PROOF
  <1> USE DEF Structure
  <1>1. /\ outcome = "running" /\ outcome' = outcome /\ pc = "output" /\ pc' = "advance"
        /\ UNCHANGED <<series, piece, step, at, quant, rows>>
        /\ series.kind = "LSTM" /\ tsr' = [tsr EXCEPT !.rnn_out.params = "out"]
    BY DEF OutputLSTM, At
  <1>2. Control'
    BY <1>1 DEF Control, Labels, Started, StartParams
  <1>3. Descriptors'
    <2>1. UNCHANGED <<StartParams, Started, HiddenPlace, HiddenParams, OutPlace>>
      BY <1>1, SameTimeStep
    <2>2. \A g : GateParams(g)' = GateParams(g)
      BY <1>1 DEF GateParams
    <2>3. tsr' = tsr
      <3>1. tsr.rnn_out = Desc(OutPlace, "out")
        BY <1>1, Located
      <3>2. [tsr.rnn_out EXCEPT !.params = "out"] = tsr.rnn_out
        BY <3>1 DEF Desc
      <3>3. tsr' = [tsr EXCEPT !.rnn_out = tsr.rnn_out]
        BY <1>1, <3>2
      <3>4. PICK pars : Described(pars)
        BY <1>1 DEF Descriptors
      <3> QED BY <3>3, <3>4 DEF Described
    <2>4. PICK pars :
            /\ Described(pars)
            /\ pc \notin {"dense", "activate"} =>
                 \A g \in 0 .. ScratchGates(series) - 1 : pars[g] = GateParams(g)
      BY <1>1, DescribedNow
    <2>5. Described(pars)'
      BY <1>1, <2>1, <2>3, <2>4 DEF Described
    <2> QED BY <1>1, <2>1, <2>2, <2>4, <2>5 DEF Descriptors
  <1> QED BY <1>2, <1>3

(* The descriptors of a GRU in the course of a time step. *)
LEMMA DescriptorsGRU ==
  ASSUME Structure, outcome = "running", series.kind = "GRU",
         pc \in {"pointwise", "new_gate", "output", "advance"}
  PROVE  tsr = [prev |-> Started, rnn_out |-> Desc(OutPlace, "out"),
                hidden |-> IF pc = "advance" THEN Desc(OutPlace, "out")
                           ELSE Desc(HiddenPlace, HiddenParams),
                current_out |-> Desc(OutPlace, HiddenParams),
                prev_out_reset |-> Desc(Scratch(1), "ir"),
                gate |-> [g \in 0 .. 2 |-> Desc(Scratch(g), GateParams(g))]]
PROOF
  <1>1. PICK pars :
          /\ Described(pars)
          /\ pc \notin {"dense", "activate"} =>
               \A g \in 0 .. ScratchGates(series) - 1 : pars[g] = GateParams(g)
    BY DescribedNow
  <1>2. ScratchGates(series) - 1 = 2
    BY DEF ScratchGates
  <1>3. [g \in 0 .. 2 |-> Desc(Scratch(g), pars[g])] = [g \in 0 .. 2 |-> Desc(Scratch(g), GateParams(g))]
    BY <1>1, <1>2
  <1> QED BY <1>1, <1>2, <1>3 DEF Described

LEMMA NewGateKeeps ==
  ASSUME Structure, NewGate
  PROVE  (Control /\ Descriptors)'
PROOF
  <1> USE DEF Structure
  <1>1. /\ outcome = "running" /\ outcome' = outcome /\ pc = "new_gate" /\ pc' = "output"
        /\ UNCHANGED <<series, piece, step, at, rows>>
        /\ tsr' = [tsr EXCEPT !.gate[2] = ActivatedDesc(tsr.gate[2], "tanh")]
    BY DEF NewGate, At
  <1>2. series.kind = "GRU" /\ series.type \in {"FX", "SA8"}
    BY <1>1, SeriesFacts DEF Control, Labels
  <1>3. Control'
    BY <1>1 DEF Control, Labels, Started, StartParams
  <1>4. Descriptors'
    <2>1. UNCHANGED <<StartParams, Started, HiddenPlace, HiddenParams, OutPlace>>
      BY <1>1, SameTimeStep
    <2> DEFINE gate == [g \in 0 .. 2 |-> Desc(Scratch(g), GateParams(g))]
               next == [gate EXCEPT ![2] = Desc(Scratch(2), "tanh")]
    <2>2. tsr = [prev |-> Started, rnn_out |-> Desc(OutPlace, "out"),
                 hidden |-> Desc(HiddenPlace, HiddenParams),
                 current_out |-> Desc(OutPlace, HiddenParams),
                 prev_out_reset |-> Desc(Scratch(1), "ir"), gate |-> gate]
      BY <1>1, <1>2, DescriptorsGRU
    <2>3. ActivatedDesc(tsr.gate[2], "tanh") = Desc(Scratch(2), "tanh")
      BY <2>2 DEF ActivatedDesc, Desc
    <2>4. tsr' = [prev |-> Started, rnn_out |-> Desc(OutPlace, "out"),
                 hidden |-> Desc(HiddenPlace, HiddenParams),
                 current_out |-> Desc(OutPlace, HiddenParams),
                 prev_out_reset |-> Desc(Scratch(1), "ir"), gate |-> next]
      <3> HIDE DEF gate
      <3> QED BY <1>1, <2>2, <2>3
    <2> PICK pars : pars = [g \in 0 .. 2 |-> GateParams(g)']
      OBVIOUS
    <2>5. next = [g \in 0 .. 2 |-> Desc(Scratch(g), pars[g])]
      BY <1>1, <1>2 DEF GateParams
    <2>6. ScratchGates(series) - 1 = 2 /\ \A g \in 0 .. 2 : pars[g] = GateParams(g)'
      BY <1>2 DEF ScratchGates
    <2>9. Described(pars)'
      <3> HIDE DEF next
      <3> QED BY <1>1, <1>2, <2>1, <2>4, <2>5, <2>6 DEF Described
    <2>7. /\ quant' = <<QuantParams("in", Dim(series, 1), IncScales(series, 2), "ir"), quant'[2]>>
          /\ quant'[2].out = "ir"
      <3>1. tsr.gate[2].params = "ir"
        <4>1. tsr.gate[2] = Desc(Scratch(2), GateParams(2)) /\ GateParams(2) = "ir"
          BY <1>1, <1>2, Located DEF GateParams
        <4> QED BY <4>1, DescFields
      <3>2. quant' = <<QuantParams("in", Dim(series, 1), IncScales(series, 2), "ir"),
                       QuantParams(tsr.prev_out_reset.params, Dim(series, 2), IncScales(series, 2), "ir")>>
        BY <3>1 DEF NewGate
      <3> QED BY <3>2 DEF QuantParams
    <2>8. series.type = "FX" => Dim(series, 1) = -1 /\ IncScales(series, 2) = 0
      BY DEF Dim, IncScales
    <2>10. \E dim, scale, second :
              /\ quant' = <<QuantParams("in", dim, scale, "ir"), second>> /\ second.out = "ir"
              /\ series.type = "FX" => dim = -1 /\ scale = 0
      BY <2>7, <2>8
    <2> HIDE DEF gate, next
    <2>11. /\ series' = series /\ \A g \in 0 .. ScratchGates(series) - 1 : pars[g] = GateParams(g)'
      BY <1>1, <2>6
    <2>12. outcome' = "running" /\ pc' = "output"
      BY <1>1
    <2>13. /\ HiddenPlace' = HiddenPlace
           /\ at = LET frame == (IF series.backward THEN series.len - 1 - step ELSE step) * series.size
                   IN  [in |-> frame, in_new |-> frame, hidden |-> HiddenPlace]
      BY <1>1, <2>1 DEF Descriptors
    <2>14. at' = LET frame == (IF series'.backward THEN series'.len - 1 - step' ELSE step') * series'.size
                 IN  [in |-> frame, in_new |-> frame, hidden |-> HiddenPlace']
      BY <1>1, <2>13
    <2> QED BY <2>9, <2>10, <2>11, <2>12, <2>14 DEF Descriptors
  <1> QED BY <1>3, <1>4

LEMMA OutputGRUKeeps ==
  ASSUME Structure, OutputGRU
  PROVE  (Control /\ Descriptors)'
PROOF
  <1> USE DEF Structure
  <1>1. /\ outcome = "running" /\ outcome' = outcome /\ pc = "output" /\ pc' = "advance"
        /\ UNCHANGED <<series, piece, step, at, quant, rows>>
        /\ series.kind = "GRU"
        /\ tsr' = [tsr EXCEPT !.rnn_out = Desc(tsr.rnn_out.place, "out"),
                               !.hidden = Desc(tsr.rnn_out.place, "out")]
    BY DEF OutputGRU, At
  <1>2. Control'
    BY <1>1 DEF Control, Labels, Started, StartParams
  <1>3. Descriptors'
    <2>1. UNCHANGED <<StartParams, Started, HiddenPlace, HiddenParams, OutPlace>>
      BY <1>1, SameTimeStep
    <2> DEFINE gate == [g \in 0 .. 2 |-> Desc(Scratch(g), GateParams(g))]
    <2>2. tsr = [prev |-> Started, rnn_out |-> Desc(OutPlace, "out"),
                 hidden |-> Desc(HiddenPlace, HiddenParams),
                 current_out |-> Desc(OutPlace, HiddenParams),
                 prev_out_reset |-> Desc(Scratch(1), "ir"), gate |-> gate]
      BY <1>1, DescriptorsGRU
    <2>3. tsr.rnn_out.place = OutPlace
      BY <2>2 DEF Desc
    <2>4. tsr' = [prev |-> Started, rnn_out |-> Desc(OutPlace, "out"),
                 hidden |-> Desc(OutPlace, "out"),
                 current_out |-> Desc(OutPlace, HiddenParams),
                 prev_out_reset |-> Desc(Scratch(1), "ir"), gate |-> gate]
      <3> HIDE DEF gate
      <3> QED BY <1>1, <2>2, <2>3
    <2> PICK pars : pars = [g \in 0 .. 2 |-> GateParams(g)']
      OBVIOUS
    <2>5. gate = [g \in 0 .. 2 |-> Desc(Scratch(g), pars[g])]
      BY <1>1 DEF GateParams
    <2>6. ScratchGates(series) - 1 = 2 /\ \A g \in 0 .. 2 : pars[g] = GateParams(g)'
      BY <1>1 DEF ScratchGates
    <2>7. Described(pars)'
      <3> HIDE DEF gate
      <3> QED BY <1>1, <2>1, <2>4, <2>5, <2>6 DEF Described
    <2> HIDE DEF gate
    <2> QED BY <1>1, <2>1, <2>6, <2>7 DEF Descriptors
  <1> QED BY <1>2, <1>3

LEMMA AdvanceKeeps ==
  ASSUME Structure, Advance
  PROVE  (Control /\ Descriptors)'
PROOF
  <1> USE DEF Structure
  <1>1. /\ outcome = "running" /\ outcome' = outcome /\ pc = "advance" /\ pc' = "dense"
        /\ UNCHANGED <<series, piece, rows>> /\ step' = step + 1
        /\ tsr' = Advanced(series, tsr) /\ quant' = Redefined(series, tsr.rnn_out.params)
    BY DEF Advance, At
  <1>2. /\ series \in Series /\ step \in 0 .. series.len - 1 /\ series.len \in Nat
        /\ series.size \in Nat /\ series.kind \in {"LSTM", "GRU"}
        /\ series.all \in BOOLEAN /\ series.backward \in BOOLEAN /\ series.type \in {"FX", "SA8"}
    BY <1>1, SeriesFacts DEF Control
  <1>3. Control'
    BY <1>1, <1>2 DEF Control, Labels, Started, StartParams
  <1>4. Descriptors'
    <2>1. /\ UNCHANGED <<StartParams, Started>> /\ HiddenPlace' = OutPlace /\ HiddenParams' = "out"
          /\ OutPlace' = IF series.all THEN Out(step + 1) ELSE Out(0)
      BY <1>1, <1>2 DEF StartParams, Started, HiddenPlace, HiddenParams, OutPlace
    <2>2. PICK pars : Described(pars)
      BY <1>1 DEF Descriptors
    <2>3. (IF series.all THEN Out(tsr.rnn_out.place[2] + 1) ELSE tsr.rnn_out.place) = OutPlace'
      BY <2>1, <2>2, <1>2 DEF OutPlace, Desc, Out, Described
    <2>4. Described(pars)'
      BY <1>1, <2>1, <2>2, <2>3 DEF Advanced, Desc, Described
    <2>5. PICK dim, scale, second :
              /\ quant = <<QuantParams("in", dim, scale, "ir"), second>>
              /\ series.type = "FX" => dim = -1 /\ scale = 0
      BY <1>1 DEF Descriptors
    <2>6. quant' = <<QuantParams("in", Dim(series, 1), 0, "ir"), QuantParams("out", Dim(series, 2), 0, "ir")>>
      BY <1>1, <1>2, <2>2, <2>5 DEF Redefined, Dim, Desc, Described
    <2>7. at' = LET frame == (IF series.backward THEN series.len - 1 - (step + 1) ELSE step + 1) * series.size
                IN  [in |-> frame, in_new |-> frame, hidden |-> OutPlace]
      <3> DEFINE index == IF series.backward THEN series.len - 1 - step ELSE step
                 frame == IF series.backward THEN 0 - series.size ELSE series.size
      <3>1. at = [in |-> index * series.size, in_new |-> index * series.size, hidden |-> HiddenPlace]
        BY <1>1 DEF Descriptors
      <3>2. \A i, s \in Int : i * s + s = (i + 1) * s /\ i * s + (0 - s) = (i - 1) * s
        OBVIOUS
      <3>3. index * series.size + frame =
              (IF series.backward THEN series.len - 1 - (step + 1) ELSE step + 1) * series.size
        BY <1>2, <3>2
      <3>4. at' = [in |-> index * series.size + frame, in_new |-> index * series.size + frame,
                   hidden |-> OutPlace]
        BY <3>1, <2>2, DescFields DEF Advance, Described
      <3> QED BY <3>3, <3>4
    <2> QED BY <1>1, <1>2, <2>1, <2>4, <2>6, <2>7 DEF Descriptors
  <1> QED BY <1>3, <1>4

LEMMA ReturnKeeps ==
  ASSUME Structure, ReturnCell
  PROVE  (Control /\ Descriptors)'
BY DEF Structure, ReturnCell, At, Control, Descriptors

LEMMA StructureCallAgain ==
  ASSUME Structure, CallAgain
  PROVE  Structure'
PROOF
  <1> USE DEF Structure, CallAgain
  <1>1. /\ series' = series /\ piece' = piece + 1 /\ outcome' = "called"
        /\ series \in Series /\ piece \in 1 .. series.pieces - 1 /\ series.pieces \in Nat
    BY SeriesFacts DEF Control
  <1>2. StartParams' = "out" /\ Started' = Desc(Prev(series), "out")
    BY <1>1 DEF StartParams, Started
  <1>3. Control'
    BY <1>1, <1>2 DEF Control
  <1>4. Descriptors'
    BY DEF Descriptors
  <1>5. Places'
    <2>1. memory' = Put(memory, Desc(Prev(series), "out"), Read(memory, Desc(Out(rows - 1), "out")))
      OBVIOUS
    <2>2. Desc(Prev(series), "out").place = Prev(series)
      BY DescFields
    <2>3. DOMAIN memory' = DOMAIN memory \cup {Prev(series)}
      BY <2>1, <2>2, PutDomain
    <2> HIDE DEF CallAgain
    <2> QED BY <1>1, <2>3 DEF Places
  <1> QED BY <1>3, <1>4, <1>5

LEMMA StructureNext ==
  ASSUME Structure, [CellNext]_cellVars
  PROVE  Structure'
PROOF
  <1>1. CASE UNCHANGED cellVars
    BY <1>1 DEF cellVars, Structure, Control, Descriptors, Described, Places, Started, StartParams,
                HiddenPlace, HiddenParams, OutPlace, GateParams
  <1>2. CASE KernelStep
    <2>1. (Control /\ Descriptors)'
      BY <1>2, DenseKeeps, NonLinearityKeeps, PointwiseKeeps, NewGateKeeps, OutputLSTMKeeps,
         OutputGRUKeeps, AdvanceKeeps, ReturnKeeps DEF KernelStep
    <2> QED BY <1>2, <2>1, KernelPlaces DEF Structure
  <1> QED
    BY <1>1, <1>2, StructureRefuse, StructureSetup, StructureCallAgain DEF CellNext, KernelStep

(* Whatever the sequence and however it is cut into calls:                 *)
(* lstm_cell_prepare_and_run and gru_cell_prepare_and_run write no row of  *)
(* the output and no gate of the scratch tensor but those there is room    *)
(* for.                                                                    *)
THEOREM CellStaysInside == CellSpec => []CellInside
PROOF
  <1>1. Structure => CellInside
    <2> SUFFICES ASSUME Structure, NEW p \in DOMAIN memory
                 PROVE  /\ p[1] = "out" => p[2] \in 0 .. series.out_rows - 1
                        /\ p[1] = "scratch" => p[2] \in 0 .. series.scratch_gates - 1
      BY DEF CellInside
    <2>1. series \in Series
      BY DEF Structure, Control
    <2>2. CASE p \in {Prev(series), Cell, One}
      BY <2>1, <2>2, SeriesFacts DEF Prev, Cell, One, Out
    <2>3. CASE p \in {Scratch(g) : g \in 0 .. ScratchGates(series) - 1} /\ Roomy(series)
      BY <2>1, <2>3, SeriesFacts DEF Scratch, Roomy
    <2>4. CASE p \in {Out(r) : r \in 0 .. OutRows(series) - 1} /\ Roomy(series)
      BY <2>1, <2>4, SeriesFacts DEF Out, Roomy
    <2> QED BY <2>2, <2>3, <2>4 DEF Structure, Places
  <1> QED BY <1>1, StructureInit, StructureNext, PTL DEF CellSpec

(* No step of a kernel changes the previous output a call was given, unless *)
(* the application made it the buffer of the output, and the GRU kernel     *)
(* leaves the cell alone.                                                   *)
THEOREM PrevStays == CellSpec => PrevKept
PROOF
  <1>1. ASSUME Structure, CellNext, outcome = "running"
        PROVE  /\ ~series.shared => memory'[Prev(series)] = memory[Prev(series)]
               /\ series.kind = "GRU" => memory'[Cell] = memory[Cell]
    <2>1. KernelStep
      BY <1>1 DEF CellNext, KernelStep, RefuseCell, Setup, CallAgain
    <2>2. Writes(memory, memory', Room(series))
      BY <1>1, <2>1, KernelWrites
    <2>3. {Prev(series), Cell} \subseteq DOMAIN memory /\ series \in Series
      BY <1>1 DEF Structure, Places, Control
    <2>4. series.kind = "GRU" => Cell \notin Room(series)
      BY <2>3, SeriesFacts, PlacesApart DEF Room
    <2>5. ~series.shared => Prev(series) \notin Room(series)
      BY <2>3, SeriesFacts DEF Room, Prev, Cell, Scratch, Out
    <2> QED BY <2>2, <2>3, <2>4, <2>5 DEF Writes
  <1>2. Structure /\ [CellNext]_cellVars =>
          [outcome = "running" =>
             /\ ~series.shared => memory'[Prev(series)] = memory[Prev(series)]
             /\ series.kind = "GRU" => memory'[Cell] = memory[Cell]]_cellVars
    BY <1>1
  <1> QED BY <1>2, StructureInit, StructureNext, PTL DEF CellSpec, PrevKept

-----------------------------------------------------------------------------
(* Frames.                                                                 *)

LEMMA DivideOut ==
  ASSUME NEW a \in Int, NEW b \in Nat \ {0}, NEW r \in 0 .. b - 1
  PROVE  (a * b + r) \div b = a /\ (a * b + r) % b = r
PROOF
  <1> DEFINE x == a * b + r
             q == x \div b
             m == x % b
  <1>1. x \in Int /\ q \in Int /\ m \in 0 .. b - 1 /\ x = q * b + m
    OBVIOUS
  <1> HIDE DEF q, m
  <1>2. (q - a) * b = r - m
    <2>1. (q - a) * b = q * b - a * b
      BY <1>1
    <2> QED BY <1>1, <2>1
  <1>3. ~(q - a >= 1)
    <2> SUFFICES ASSUME q - a >= 1 PROVE FALSE
      OBVIOUS
    <2>1. (q - a) * b >= b
      BY <1>1
    <2> QED BY <1>1, <1>2, <2>1
  <1>4. ~(a - q >= 1)
    <2> SUFFICES ASSUME a - q >= 1 PROVE FALSE
      OBVIOUS
    <2>1. (a - q) * b >= b /\ (a - q) * b = 0 - (q - a) * b
      BY <1>1
    <2> QED BY <1>1, <1>2, <2>1
  <1>5. q = a /\ m = r
    BY <1>1, <1>2, <1>3, <1>4
  <1> QED BY <1>5 DEF q, m

LEMMA FrameAt ==
  ASSUME NEW c \in Series, c.stride = c.size, NEW n, NEW i \in 0 .. c.len - 1
  PROVE  Frame(c, n, i * c.size) = <<"x", n, i>>
PROOF
  <1>1. c.size \in Nat \ {0} /\ 0 \in 0 .. c.size - 1 /\ i \in Int /\ c.len \in Nat
    BY SeriesFacts
  <1>2. i * c.size + 0 = i * c.size
    BY <1>1
  <1>3. (i * c.size + 0) \div c.size = i /\ (i * c.size + 0) % c.size = 0
    BY <1>1, DivideOut
  <1> QED BY <1>1, <1>2, <1>3 DEF Frame

LEMMA NthFrameAt ==
  ASSUME NEW c \in Series, NEW p \in 1 .. c.pieces, NEW i \in 0 .. c.len - 1
  PROVE  /\ (p - 1) * c.len + i \in 0 .. c.len * c.pieces - 1
         /\ NthFrame(c, (p - 1) * c.len + i + 1) =
               <<"x", p, IF c.backward THEN c.len - 1 - i ELSE i>>
PROOF
  <1>1. c.len \in Nat \ {0} /\ c.pieces \in Nat \ {0} /\ p \in Int /\ i \in Int
    BY SeriesFacts
  <1> DEFINE n == (p - 1) * c.len + i
  <1>2. (p - 1) * c.len \in Nat /\ p * c.len = (p - 1) * c.len + c.len
    BY <1>1
  <1>3. c.len * c.pieces = p * c.len + (c.pieces - p) * c.len /\ (c.pieces - p) * c.len >= 0
    <2>1. \A a, b \in Nat : a * b >= 0
      OBVIOUS
    <2>2. c.pieces - p \in Nat
      BY <1>1
    <2>3. \A a, b, d \in Int : d * a = b * d + (a - b) * d
      OBVIOUS
    <2> QED BY <1>1, <2>1, <2>2, <2>3
  <1>4. n \in 0 .. c.len * c.pieces - 1
    <2>1. c.len * c.pieces >= p * c.len
      BY <1>1, <1>2, <1>3
    <2> QED BY <1>1, <1>2, <2>1
  <1>5. n \div c.len = p - 1 /\ n % c.len = i
    <2>1. p - 1 \in Int
      BY <1>1
    <2> QED BY <1>1, <2>1, DivideOut
  <1>6. n \in Int /\ 1 + (p - 1) = p
    BY <1>1, <1>2
  <1> HIDE DEF n
  <1>8. n + 1 - 1 = n
    BY <1>6
  <1>7. NthFrame(c, n + 1) = <<"x", p, IF c.backward THEN c.len - 1 - i ELSE i>>
    BY <1>5, <1>6, <1>8 DEF NthFrame
  <1> QED BY <1>4, <1>7 DEF n

(* The formula in the current time step. *)
ThisFrame == NthFrame(series, Frames + step + 1)

LEMMA TimeStep ==
  ASSUME Structure, outcome = "running", step < series.len
  PROVE  /\ After = CellStep(series, ThisFrame, Before)
         /\ series.stride = series.size => Frame(series, piece, at.in) = ThisFrame
         /\ at.in_new = at.in /\ at.hidden = HiddenPlace
PROOF
  <1>1. /\ series \in Series /\ piece \in 1 .. series.pieces /\ step \in 0 .. series.len - 1
        /\ series.len \in Nat \ {0} /\ series.pieces \in Nat \ {0} /\ series.size \in Nat
        /\ series.backward \in BOOLEAN
    BY SeriesFacts DEF Structure, Control
  <1> DEFINE index == IF series.backward THEN series.len - 1 - step ELSE step
  <1>2. /\ Frames + step \in 0 .. series.len * series.pieces - 1
        /\ ThisFrame = <<"x", piece, index>>
    BY <1>1, NthFrameAt DEF Frames, ThisFrame
  <1>3. After = CellStep(series, ThisFrame, Before)
    <2>1. series.len * series.pieces \in Nat
      BY <1>1
    <2> QED BY <1>2, <2>1, ReferenceSteps DEF After, Before, ThisFrame
  <1>4. at = [in |-> index * series.size, in_new |-> index * series.size, hidden |-> HiddenPlace]
    BY DEF Structure, Descriptors
  <1>5. index \in 0 .. series.len - 1
    BY <1>1
  <1>6. series.stride = series.size => Frame(series, piece, index * series.size) = ThisFrame
    BY <1>1, <1>2, <1>5, FrameAt
  <1> HIDE DEF index
  <1> QED BY <1>3, <1>4, <1>6

-----------------------------------------------------------------------------
(* The elementwise kernels and the activations, on values that are there.   *)
LEMMA EltHolds ==
  ASSUME NEW m, NEW a, NEW b, NEW d, NEW x, NEW y, Holds(m, a, x), Holds(m, b, y)
  PROVE  /\ Holds(EltMul(m, a, b, d), d, Mul(x, y))
         /\ Holds(EltAdd(m, a, b, d), d, Add(x, y))
         /\ Holds(EltSub(m, a, b, d), d, Sub(x, y))
BY HoldsRead, PutHolds DEF EltMul, EltAdd, EltSub

LEMMA EltKeeps ==
  ASSUME NEW m, NEW a, NEW b, NEW d, NEW e, NEW t, Holds(m, e, t), e.place # d.place
  PROVE  /\ Holds(EltMul(m, a, b, d), e, t)
         /\ Holds(EltAdd(m, a, b, d), e, t)
         /\ Holds(EltSub(m, a, b, d), e, t)
BY PutKeeps DEF EltMul, EltAdd, EltSub

LEMMA ActHolds ==
  ASSUME NEW m, NEW f, NEW a, NEW x, NEW place, NEW pars, Holds(m, a, x)
  PROVE  Holds(Activate(m, f, a, Desc(place, pars)), Desc(place, f), Act(f, x))
PROOF
  <1>1. ActivatedDesc(Desc(place, pars), f) = Desc(place, f)
    BY DEF ActivatedDesc, Desc
  <1> QED BY <1>1, HoldsRead, PutHolds DEF Activate

LEMMA ActKeeps ==
  ASSUME NEW m, NEW f, NEW a, NEW place, NEW pars, NEW e, NEW t, Holds(m, e, t), e.place # place
  PROVE  Holds(Activate(m, f, a, Desc(place, pars)), e, t)
PROOF
  <1>1. ActivatedDesc(Desc(place, pars), f) = Desc(place, f) /\ Desc(place, f).place = place
    BY DEF ActivatedDesc, Desc
  <1> QED BY <1>1, PutKeeps DEF Activate

(* What a step of the kernel leaves of the rows and of the constant.       *)
LEMMA RowsKept ==
  ASSUME Structure, Values, outcome = "running", UNCHANGED <<series, piece, step>>,
         NEW S, Writes(memory, memory', S), One \notin S,
         \A r \in 0 .. step - 1 : series.all => Out(r) \notin S
  PROVE  Rows' /\ Holds(memory', OneDesc, <<"1">>)
PROOF
  <1>1. Frames' = Frames
    BY SameTimeStep
  <1>2. Holds(memory', OneDesc, <<"1">>)
    <2>1. OneDesc.place = One
      BY DescFields DEF OneDesc
    <2> QED BY <2>1, WritesHold DEF Values
  <1>3. ASSUME series.all, NEW r \in 0 .. step - 1
        PROVE  Holds(memory', Desc(Out(r), "out"), Reference(series)[Frames + r + 1].h)
    <2>1. Desc(Out(r), "out").place = Out(r)
      BY DescFields
    <2>2. Holds(memory, Desc(Out(r), "out"), Reference(series)[Frames + r + 1].h)
      BY <1>3 DEF Values, Rows
    <2> HIDE DEF Reference
    <2> QED BY <1>3, <2>1, <2>2, WritesHold
  <1> QED BY <1>1, <1>2, <1>3 DEF Rows

LEMMA OutputApart ==
  ASSUME Structure, outcome = "running", pc # "dense"
  PROVE  /\ \A r \in 0 .. step - 1 : series.all => Out(r) # OutPlace
         /\ OutPlace # One /\ OutPlace # Cell /\ HiddenPlace # One /\ HiddenPlace # Cell
         /\ \A g \in Nat : Scratch(g) # OutPlace /\ Scratch(g) # HiddenPlace
PROOF
  <1>1. series.all \in BOOLEAN /\ step \in 0 .. series.len - 1 /\ series.len \in Nat
    BY SeriesFacts DEF Structure, Control
  <1> QED BY <1>1, PlacesApart DEF OutPlace, HiddenPlace

LEMMA ValuesInit == CellInit => Values
PROOF
  <1> SUFFICES ASSUME CellInit PROVE Values
    OBVIOUS
  <1>1. series \in Series /\ series.len \in Nat \ {0} /\ series.pieces \in Nat \ {0}
    BY SeriesFacts DEF CellInit
  <1>2. Frames = 0
    BY <1>1 DEF CellInit, Frames
  <1>3. Reference(series)[0] = [h |-> <<"h">>, c |-> <<"c">>]
    <2>1. series.len * series.pieces \in Nat
      BY <1>1
    <2> QED BY <2>1, ReferenceSteps
  <1>4. /\ memory[One] = [term |-> <<"1">>, params |-> "one"] /\ One \in DOMAIN memory
        /\ memory[Cell] = [term |-> <<"c">>, params |-> "cell"] /\ Cell \in DOMAIN memory
        /\ memory[Prev(series)] = [term |-> <<"h">>, params |-> "prev"] /\ Prev(series) \in DOMAIN memory
    BY PlacesApart DEF CellInit
  <1>5. Holds(memory, OneDesc, <<"1">>) /\ Holds(memory, CellDesc, <<"c">>) /\ Holds(memory, Started, <<"h">>)
    BY <1>4, DescFields DEF CellInit, Holds, OneDesc, CellDesc, Started, StartParams
  <1> HIDE DEF Reference
  <1>6. outcome = "called"
    BY DEF CellInit
  <1> QED BY <1>2, <1>3, <1>5, <1>6 DEF Values

LEMMA ValuesSetup ==
  ASSUME Structure, Values, Setup
  PROVE  Values'
PROOF
  <1>1. /\ series \in Series /\ series.len \in Nat \ {0} /\ piece \in Int /\ outcome = "called"
        /\ series' = series /\ piece' = piece /\ step' = 0 /\ pc' = "dense"
        /\ outcome' = "running" /\ memory' = memory
    BY SeriesFacts DEF Structure, Control, Setup
  <1>2. /\ Frames' = Frames /\ Frames + 0 = Frames
    BY <1>1 DEF Frames
  <1>3. Before' = Reference(series)[Frames]
    BY <1>1, <1>2 DEF Before
  <1>4. Started = Desc(HiddenPlace', HiddenParams')
    BY <1>1 DEF Started, StartParams, HiddenPlace, HiddenParams
  <1>5. Rows'
    BY <1>1 DEF Rows
  <1>6. /\ Holds(memory, Desc(HiddenPlace', HiddenParams'), Before'.h)
        /\ Holds(memory, CellDesc, Before'.c) /\ Holds(memory, OneDesc, <<"1">>)
    <2> HIDE DEF Reference
    <2> QED BY <1>1, <1>3, <1>4 DEF Values
  <1> QED BY <1>1, <1>5, <1>6 DEF Values

LEMMA ValuesRefuse ==
  ASSUME Structure, Values, RefuseCell
  PROVE  Values'
PROOF
  <1>1. CheckCell(series, cell_rank) \notin {"called", "running", "OK"}
    BY CheckRoom DEF RefuseCell, Structure, Control
  <1>2. outcome' \notin {"called", "running", "OK"} /\ memory' = memory
    BY <1>1 DEF RefuseCell
  <1> QED BY <1>2 DEF Values

LEMMA ValuesStutter ==
  ASSUME Values, UNCHANGED cellVars
  PROVE  Values'
BY DEF Values, cellVars, Rows, Started, StartParams, HiddenPlace, HiddenParams, OutPlace, Frames,
       Before, After, GateValue, Sigm, GateParams

LEMMA DimFacts ==
  ASSUME NEW c \in Series, NEW k \in 1 .. 2
  PROVE  Dim(c, k) \in {-1, 0}
BY SeriesFacts DEF Dim

LEMMA ValuesDense ==
  ASSUME Structure, Values, Dense, series.stride = series.size
  PROVE  Values'
PROOF
  <1>1. /\ outcome = "running" /\ outcome' = "running" /\ pc = "dense" /\ pc' = "activate"
        /\ UNCHANGED <<series, piece, step, at, tsr>> /\ step < series.len
        /\ memory' = Stacked(memory) /\ series \in Series
    BY DEF Dense, At, Structure, Control
  <1> DEFINE S == GateScratch(Gates(series))
  <1>2. Writes(memory, memory', S)
    BY DenseWrites
  <1>3. /\ UNCHANGED <<StartParams, Started, HiddenPlace, HiddenParams, OutPlace>>
        /\ UNCHANGED <<Frames, Before, After>>
        /\ \A g : GateValue(g)' = GateValue(g) /\ Sigm(g)' = Sigm(g)
    BY <1>1, SameTimeStep
  <1>4. /\ Cell \notin S /\ One \notin S /\ \A r \in Int : Out(r) \notin S
        /\ Prev(series) \notin S /\ HiddenPlace \notin S
    <2>1. Gates(series) \in Nat /\ step \in Int
      BY <1>1, SeriesFacts DEF Structure, Control
    <2> QED BY <2>1, PlacesApart DEF GateScratch, HiddenPlace
  <1>5. Rows' /\ Holds(memory', OneDesc, <<"1">>)
    <2>1. step \in Int
      BY <1>1 DEF Structure, Control
    <2> HIDE DEF S
    <2> QED BY <1>1, <1>2, <1>4, <2>1, RowsKept
  <1>6. /\ Holds(memory, Desc(HiddenPlace, HiddenParams), Before.h)
        /\ Holds(memory, CellDesc, Before.c)
    BY <1>1 DEF Values
  <1>7. /\ Holds(memory', Desc(HiddenPlace, HiddenParams), Before.h)
        /\ Holds(memory', CellDesc, Before.c)
    <2>1. Desc(HiddenPlace, HiddenParams).place = HiddenPlace /\ CellDesc.place = Cell
      BY DescFields DEF CellDesc
    <2> HIDE DEF S
    <2> QED BY <1>2, <1>4, <1>6, <2>1, WritesHold
  <1>8. ASSUME NEW g \in 0 .. Gates(series) - 1
        PROVE  Holds(memory', Desc(Scratch(g), "ir"), GateValue(g))
    <2>1. quant = <<QuantParams("in", Dim(series, 1), 0, "ir"),
                    QuantParams(HiddenParams, Dim(series, 2), 0, "ir")>>
      BY <1>1 DEF Structure, Descriptors
    <2>2. /\ quant[1].in = "in" /\ quant[1].out = "ir" /\ quant[2].out = "ir"
          /\ quant[2].in = HiddenParams /\ quant[1].scale = 0 /\ quant[2].scale = 0
          /\ quant[1].dim = Dim(series, 1) /\ quant[2].dim = Dim(series, 2)
      BY <2>1 DEF QuantParams
    <2>3. /\ at.hidden = HiddenPlace /\ Frame(series, piece, at.in) = ThisFrame
      BY <1>1, TimeStep
    <2>4. Read(memory, Desc(at.hidden, quant[2].in)) = Before.h
      BY <1>6, <2>2, <2>3, HoldsRead
    <2>5. /\ quant[1].scale + (IF quant[1].dim # -1 THEN g ELSE 0) = PerAxis(series, 1, g)
          /\ quant[2].scale + (IF quant[2].dim # -1 THEN g ELSE 0) = PerAxis(series, 2, g)
      <3>1. Dim(series, 1) \in {-1, 0} /\ Dim(series, 2) \in {-1, 0}
        BY <1>1, DimFacts
      <3> QED BY <2>2, <3>1 DEF PerAxis
    <2>6. DenseOp(quant, g, <<PerAxis(series, 1, g), PerAxis(series, 2, g)>>, at.in, at.hidden, memory)
            = GateValue(g)
      <3> HIDE DEF ThisFrame
      <3>1. GateValue(g) = TrueGate(series, g, ThisFrame, Before.h)
        BY DEF GateValue, ThisFrame
      <3> QED BY <2>2, <2>3, <2>4, <3>1 DEF DenseOp, TrueGate
    <2>7. Scratch(g) \in S /\ Scratch(g)[2] = g
      BY DEF GateScratch, Scratch
    <2>8. memory'[Scratch(g)] =
            [term |-> DenseOp(quant, g, <<PerAxis(series, 1, g), PerAxis(series, 2, g)>>, at.in, at.hidden, memory),
             params |-> "ir"] /\ Scratch(g) \in DOMAIN memory'
      BY <1>1, <2>2, <2>5, <2>7 DEF Stacked, GateScratch
    <2> QED BY <2>6, <2>8, DescFields DEF Holds
  <1> HIDE DEF S
  <1>9. Gates(series)' = Gates(series) /\ CellDesc' = CellDesc /\ OneDesc' = OneDesc
    BY <1>1 DEF Gates, CellDesc, OneDesc
  <1> QED BY <1>1, <1>3, <1>5, <1>7, <1>8, <1>9 DEF Values

LEMMA ActivationGates ==
  ASSUME NEW c \in Series
  PROVE  /\ DOMAIN Activation(c) = 0 .. Gates(c) - 1
         /\ \A g \in 0 .. Gates(c) - 1 :
              Activation(c)[g] = IF c.kind = "LSTM" /\ g = 1 THEN "tanh" ELSE "sigm"
PROOF
  <1>1. CASE c.kind = "LSTM"
    BY <1>1 DEF Activation, Gates
  <1>2. CASE c.kind # "LSTM"
    BY <1>2 DEF Activation, Gates
  <1> QED BY <1>1, <1>2

LEMMA ValuesNonLinearity ==
  ASSUME Structure, Values, NonLinearity
  PROVE  Values'
PROOF
  <1>1. /\ outcome = "running" /\ outcome' = "running" /\ pc = "activate" /\ pc' = "pointwise"
        /\ UNCHANGED <<series, piece, step, at, quant>> /\ series \in Series
    BY DEF NonLinearity, At, Structure, Control
  <1> DEFINE S == GateScratch(Gates(series))
             f == Activation(series)
  <1>2. Writes(memory, memory', S)
    BY NonLinearityWrites
  <1>3. /\ UNCHANGED <<StartParams, Started, HiddenPlace, HiddenParams, OutPlace>>
        /\ UNCHANGED <<Frames, Before, After>>
        /\ \A g : GateValue(g)' = GateValue(g) /\ Sigm(g)' = Sigm(g)
    BY <1>1, SameTimeStep
  <1>4. /\ Cell \notin S /\ One \notin S /\ \A r \in Int : Out(r) \notin S
        /\ HiddenPlace \notin S
    <2>1. Gates(series) \in Nat /\ step \in Int
      BY <1>1, SeriesFacts DEF Structure, Control
    <2> QED BY <2>1, PlacesApart DEF GateScratch, HiddenPlace
  <1>5. Rows' /\ Holds(memory', OneDesc, <<"1">>)
    <2>1. step \in Int
      BY <1>1 DEF Structure, Control
    <2> HIDE DEF S
    <2> QED BY <1>1, <1>2, <1>4, <2>1, RowsKept
  <1>6. /\ Holds(memory, Desc(HiddenPlace, HiddenParams), Before.h)
        /\ Holds(memory, CellDesc, Before.c)
        /\ \A g \in 0 .. Gates(series) - 1 : Holds(memory, Desc(Scratch(g), "ir"), GateValue(g))
    BY <1>1 DEF Values
  <1>7. /\ Holds(memory', Desc(HiddenPlace, HiddenParams), Before.h)
        /\ Holds(memory', CellDesc, Before.c)
    <2>1. Desc(HiddenPlace, HiddenParams).place = HiddenPlace /\ CellDesc.place = Cell
      BY DescFields DEF CellDesc
    <2> HIDE DEF S
    <2> QED BY <1>2, <1>4, <1>6, <2>1, WritesHold
  <1>8. ASSUME NEW g \in 0 .. Gates(series) - 1
        PROVE  Holds(memory', Desc(Scratch(g), f[g]), Act(f[g], GateValue(g)))
    <2>1. quant[2].out = "ir"
      BY <1>1 DEF Structure, Descriptors
    <2>2. Scratch(g) \in DOMAIN memory /\ Read(memory, Desc(Scratch(g), "ir")) = GateValue(g)
      <3>1. Holds(memory, Desc(Scratch(g), "ir"), GateValue(g))
        BY <1>6
      <3>2. Desc(Scratch(g), "ir").place = Scratch(g)
        BY DescFields
      <3> QED BY <3>1, <3>2, HoldsRead DEF Holds
    <2>3. Scratch(g)[1] = "scratch" /\ Scratch(g)[2] = g /\ g \in DOMAIN f
      BY <1>1, ActivationGates DEF Scratch
    <2>4. /\ memory'[Scratch(g)] = [term |-> Act(f[g], GateValue(g)), params |-> f[g]]
          /\ Scratch(g) \in DOMAIN memory'
      BY <2>1, <2>2, <2>3 DEF NonLinearity
    <2> HIDE DEF f
    <2> QED BY <2>4, DescFields DEF Holds
  <1>9. \A g \in 0 .. Gates(series) - 1 : f[g] = GateParams(g)'
    <2>1. ASSUME NEW g \in 0 .. Gates(series) - 1
          PROVE  (IF series.kind = "LSTM" /\ g = 1 THEN "tanh" ELSE "sigm") = GateParams(g)'
      BY <1>1, SeriesFacts DEF GateParams, Gates
    <2> QED BY <1>1, <2>1, ActivationGates
  <1>10. \A g \in 0 .. Gates(series) - 1 :
           Holds(memory', Desc(Scratch(g), GateParams(g)'), Act(GateParams(g)', GateValue(g)))
    <2> HIDE DEF f
    <2> QED BY <1>8, <1>9
  <1> HIDE DEF S, f
  <1>11. Gates(series)' = Gates(series) /\ CellDesc' = CellDesc /\ OneDesc' = OneDesc
    BY <1>1 DEF Gates, CellDesc, OneDesc
  <1> QED BY <1>1, <1>3, <1>5, <1>7, <1>10, <1>11 DEF Values

(* Sums and products do not depend on the order. *)
LEMMA Commute ==
  ASSUME NEW a, NEW b
  PROVE  Mul(a, b) = Mul(b, a) /\ Add(a, b) = Add(b, a)
BY DEF Mul, Add

(* The formulas, gate by gate. *)
LEMMA AfterLSTM ==
  ASSUME Structure, outcome = "running", step < series.len, series.kind = "LSTM"
  PROVE  /\ After.c = Add(Mul(Sigm(2), Before.c), Mul(Sigm(0), Act("tanh", GateValue(1))))
         /\ After.h = Mul(Sigm(3), IF series.act = "none" THEN After.c ELSE Act(series.act, After.c))
PROOF
  <1>1. After = LSTMStep(series, ThisFrame, Before)
    BY TimeStep DEF CellStep
  <1>2. \A g : GateValue(g) = TrueGate(series, g, ThisFrame, Before.h)
    BY DEF GateValue, ThisFrame
  <1> QED BY <1>1, <1>2 DEF LSTMStep, Sigm

LEMMA AfterGRU ==
  ASSUME Structure, outcome = "running", step < series.len, series.kind = "GRU"
  PROVE  /\ After.c = Before.c
         /\ After.h = Add(Mul(Sigm(0), Before.h),
                          Mul(Sub(<<"1">>, Sigm(0)),
                              Act("tanh", TrueGate(series, 2, ThisFrame, Mul(Sigm(1), Before.h)))))
PROOF
  <1>1. After = GRUStep(series, ThisFrame, Before)
    BY TimeStep DEF CellStep
  <1>2. \A g : GateValue(g) = TrueGate(series, g, ThisFrame, Before.h)
    BY DEF GateValue, ThisFrame
  <1> QED BY <1>1, <1>2 DEF GRUStep, Sigm

LEMMA ValuesPointwiseLSTM ==
  ASSUME Structure, Values, PointwiseLSTM
  PROVE  Values'
PROOF
  <1>1. /\ outcome = "running" /\ outcome' = "running" /\ pc = "pointwise" /\ pc' = "output"
        /\ UNCHANGED <<series, piece, step, at, tsr, quant>> /\ series \in Series
        /\ series.kind = "LSTM" /\ step < series.len /\ Gates(series) = 4
    BY Located DEF PointwiseLSTM, At, Structure, Control, Gates
  <1>2. /\ UNCHANGED <<StartParams, Started, HiddenPlace, HiddenParams, OutPlace>>
        /\ UNCHANGED <<Frames, Before, After>>
        /\ \A g : GateValue(g)' = GateValue(g) /\ Sigm(g)' = Sigm(g)
    BY <1>1, SameTimeStep
  <1>3. Rows' /\ Holds(memory', OneDesc, <<"1">>)
    <2>1. Writes(memory, memory', {Cell, Scratch(1)})
      BY PointwiseLSTMWrites
    <2>2. One \notin {Cell, Scratch(1)} /\ \A r \in Int : Out(r) \notin {Cell, Scratch(1)}
      BY PlacesApart
    <2>3. step \in Int
      BY <1>1 DEF Structure, Control
    <2> QED BY <1>1, <2>1, <2>2, <2>3, RowsKept
  <1> DEFINE gate(g) == Desc(Scratch(g), GateParams(g))
             forgot == EltMul(memory, CellDesc, gate(2), CellDesc)
             input == EltMul(forgot, gate(1), gate(0), gate(1))
  <1>4. memory' = EltAdd(input, CellDesc, gate(1), CellDesc)
    <2>1. \A g \in 0 .. 3 : tsr.gate[g] = gate(g)
      <3>1. ScratchGates(series) - 1 = 3
        BY <1>1 DEF ScratchGates
      <3> QED BY <1>1, <3>1, Located
    <2>2. memory' = LET f == EltMul(memory, CellDesc, tsr.gate[2], CellDesc)
                        i == EltMul(f, tsr.gate[1], tsr.gate[0], tsr.gate[1])
                    IN  EltAdd(i, CellDesc, tsr.gate[1], CellDesc)
      BY DEF PointwiseLSTM
    <2> HIDE DEF gate
    <2>3. tsr.gate[0] = gate(0) /\ tsr.gate[1] = gate(1) /\ tsr.gate[2] = gate(2)
      BY <2>1
    <2> QED BY <2>2, <2>3
  <1>5. /\ GateParams(0) = "sigm" /\ GateParams(1) = "tanh" /\ GateParams(2) = "sigm" /\ GateParams(3) = "sigm"
    BY <1>1 DEF GateParams
  <1>6. \A g \in 0 .. 3 : Holds(memory, gate(g), Act(GateParams(g), GateValue(g)))
    BY <1>1 DEF Values
  <1>7. /\ Holds(memory, gate(0), Sigm(0)) /\ Holds(memory, gate(1), Act("tanh", GateValue(1)))
        /\ Holds(memory, gate(2), Sigm(2)) /\ Holds(memory, gate(3), Sigm(3))
    <2> HIDE DEF gate
    <2> QED BY <1>5, <1>6 DEF Sigm
  <1>8. Holds(memory, CellDesc, Before.c)
    BY <1>1 DEF Values
  <1>9. /\ CellDesc.place = Cell /\ \A g : gate(g).place = Scratch(g)
        /\ \A g \in Nat : gate(g).place # Cell
        /\ Scratch(0) # Scratch(1) /\ Scratch(3) # Scratch(1) /\ Scratch(2) # Scratch(1)
    BY DescFields, PlacesApart DEF CellDesc
  <1>12. gate(3) = Desc(Scratch(3), "sigm")
    BY <1>5
  <1> HIDE DEF gate
  <1>10. /\ Holds(forgot, CellDesc, Mul(Before.c, Sigm(2)))
         /\ Holds(forgot, gate(0), Sigm(0)) /\ Holds(forgot, gate(1), Act("tanh", GateValue(1)))
         /\ Holds(forgot, gate(3), Sigm(3))
    BY <1>7, <1>8, <1>9, EltHolds, EltKeeps
  <1> HIDE DEF forgot
  <1>11. /\ Holds(input, gate(1), Mul(Act("tanh", GateValue(1)), Sigm(0)))
         /\ Holds(input, CellDesc, Mul(Before.c, Sigm(2)))
         /\ Holds(input, gate(3), Sigm(3))
    BY <1>9, <1>10, EltHolds, EltKeeps
  <1> HIDE DEF input
  <1>13. /\ Holds(memory', CellDesc, Add(Mul(Before.c, Sigm(2)), Mul(Act("tanh", GateValue(1)), Sigm(0))))
         /\ Holds(memory', Desc(Scratch(3), "sigm"), Sigm(3))
    BY <1>4, <1>9, <1>11, <1>12, EltHolds, EltKeeps
  <1>14. Holds(memory', CellDesc, After.c)
    BY <1>1, <1>13, AfterLSTM, Commute
  <1>15. CellDesc' = CellDesc /\ OneDesc' = OneDesc
    BY DEF CellDesc, OneDesc
  <1> QED BY <1>1, <1>2, <1>3, <1>13, <1>14, <1>15 DEF Values

LEMMA ValuesPointwiseGRU ==
  ASSUME Structure, Values, PointwiseGRU
  PROVE  Values'
PROOF
  <1>1. /\ outcome = "running" /\ outcome' = "running" /\ pc = "pointwise" /\ pc' = "new_gate"
        /\ UNCHANGED <<series, piece, step, at, tsr, quant>> /\ series \in Series
        /\ series.kind = "GRU" /\ step < series.len /\ Gates(series) = 2
    BY Located DEF PointwiseGRU, At, Structure, Control, Gates
  <1>2. /\ UNCHANGED <<StartParams, Started, HiddenPlace, HiddenParams, OutPlace>>
        /\ UNCHANGED <<Frames, Before, After>>
        /\ \A g : GateValue(g)' = GateValue(g) /\ Sigm(g)' = Sigm(g)
    BY <1>1, SameTimeStep
  <1>3. /\ \A r \in 0 .. step - 1 : series.all => Out(r) # OutPlace
        /\ OutPlace # One /\ OutPlace # Cell /\ HiddenPlace # One /\ HiddenPlace # Cell
        /\ \A g \in Nat : Scratch(g) # OutPlace /\ Scratch(g) # HiddenPlace
    BY <1>1, OutputApart
  <1> DEFINE S == {Scratch(0), Scratch(1), OutPlace}
  <1>4. Writes(memory, memory', S)
    BY PointwiseGRUWrites
  <1>5. One \notin S /\ Cell \notin S /\ \A r \in 0 .. step - 1 : series.all => Out(r) \notin S
    <2>1. step \in Int
      BY <1>1 DEF Structure, Control
    <2> QED BY <1>3, <2>1, PlacesApart
  <1>6. Rows' /\ Holds(memory', OneDesc, <<"1">>)
    <2> HIDE DEF S
    <2> QED BY <1>1, <1>4, <1>5, RowsKept
  <1>7. Holds(memory', CellDesc, Before.c)
    <2>1. Holds(memory, CellDesc, Before.c) /\ CellDesc.place = Cell
      BY <1>1, DescFields DEF Values, CellDesc
    <2> HIDE DEF S
    <2> QED BY <1>4, <1>5, <2>1, WritesHold
  <1> HIDE DEF S
  <1> DEFINE z == Desc(Scratch(0), "sigm")
             r == Desc(Scratch(1), "sigm")
             h == Desc(HiddenPlace, HiddenParams)
             dest == Desc(OutPlace, HiddenParams)
             rh == Desc(Scratch(1), "ir")
             reset == EltMul(memory, r, h, rh)
             kept == EltMul(reset, h, z, dest)
  <1>8. memory' = EltSub(kept, OneDesc, z, z)
    <2>1. /\ tsr.gate[0] = z /\ tsr.gate[1] = r
      <3>1. GateParams(0) = "sigm" /\ GateParams(1) = "sigm"
        BY <1>1 DEF GateParams
      <3>2. tsr.gate[0] = Desc(Scratch(0), GateParams(0)) /\ tsr.gate[1] = Desc(Scratch(1), GateParams(1))
        BY <1>1, Located
      <3> QED BY <3>1, <3>2
    <2>2. tsr.hidden = h /\ tsr.prev_out_reset = rh /\ tsr.current_out = dest
      BY <1>1, Located
    <2>3. memory' = LET a == EltMul(memory, tsr.gate[1], tsr.hidden, tsr.prev_out_reset)
                        b == EltMul(a, tsr.hidden, tsr.gate[0], tsr.current_out)
                    IN  EltSub(b, OneDesc, tsr.gate[0], tsr.gate[0])
      BY DEF PointwiseGRU, ResetAndUpdate
    <2> HIDE DEF z, r, h, dest, rh
    <2> QED BY <2>1, <2>2, <2>3
  <1>9. Holds(memory, z, Sigm(0)) /\ Holds(memory, r, Sigm(1))
    <2>1. GateParams(0) = "sigm" /\ GateParams(1) = "sigm"
      BY <1>1 DEF GateParams
    <2>2. \A g \in 0 .. 1 : Holds(memory, Desc(Scratch(g), GateParams(g)), Act(GateParams(g), GateValue(g)))
      BY <1>1 DEF Values
    <2>3. /\ Holds(memory, Desc(Scratch(0), GateParams(0)), Act(GateParams(0), GateValue(0)))
          /\ Holds(memory, Desc(Scratch(1), GateParams(1)), Act(GateParams(1), GateValue(1)))
      BY <2>2
    <2> QED BY <2>1, <2>3 DEF Sigm
  <1>10. Holds(memory, h, Before.h) /\ Holds(memory, OneDesc, <<"1">>)
    BY <1>1 DEF Values
  <1>11. /\ z.place = Scratch(0) /\ r.place = Scratch(1) /\ h.place = HiddenPlace
         /\ dest.place = OutPlace /\ rh.place = Scratch(1) /\ OneDesc.place = One
         /\ Scratch(0) # Scratch(1) /\ Scratch(0) # One /\ Scratch(1) # One
    BY DescFields, PlacesApart DEF OneDesc
  <1>12. HiddenPlace # Scratch(1) /\ OutPlace # Scratch(0) /\ OutPlace # Scratch(1)
    BY <1>3
  <1> HIDE DEF z, r, h, dest, rh
  <1>13. /\ Holds(reset, rh, Mul(Sigm(1), Before.h)) /\ Holds(reset, h, Before.h)
         /\ Holds(reset, z, Sigm(0)) /\ Holds(reset, OneDesc, <<"1">>)
    BY <1>9, <1>10, <1>11, <1>12, EltHolds, EltKeeps
  <1> HIDE DEF reset
  <1>14. /\ Holds(kept, dest, Mul(Before.h, Sigm(0))) /\ Holds(kept, rh, Mul(Sigm(1), Before.h))
         /\ Holds(kept, z, Sigm(0)) /\ Holds(kept, OneDesc, <<"1">>)
    BY <1>3, <1>11, <1>12, <1>13, EltHolds, EltKeeps
  <1> HIDE DEF kept
  <1>15. /\ Holds(memory', z, Sub(<<"1">>, Sigm(0))) /\ Holds(memory', dest, Mul(Before.h, Sigm(0)))
         /\ Holds(memory', rh, Mul(Sigm(1), Before.h))
    BY <1>8, <1>11, <1>12, <1>14, EltHolds, EltKeeps
  <1>16. /\ Holds(memory', Desc(Scratch(0), "sigm"), Sub(<<"1">>, Sigm(0)))
         /\ Holds(memory', Desc(OutPlace, HiddenParams), Mul(Sigm(0), Before.h))
         /\ Holds(memory', Desc(Scratch(1), "ir"), Mul(Sigm(1), Before.h))
    BY <1>15, Commute DEF z, dest, rh
  <1>17. CellDesc' = CellDesc /\ OneDesc' = OneDesc
    BY DEF CellDesc, OneDesc
  <1> QED BY <1>1, <1>2, <1>6, <1>7, <1>16, <1>17 DEF Values

LEMMA ValuesNewGate ==
  ASSUME Structure, Values, NewGate, Supported(series)
  PROVE  Values'
PROOF
  <1>1. /\ outcome = "running" /\ outcome' = "running" /\ pc = "new_gate" /\ pc' = "output"
        /\ UNCHANGED <<series, piece, step, at>> /\ series \in Series
        /\ series.kind = "GRU" /\ step < series.len /\ series.stride = series.size
    BY Located, SeriesFacts DEF NewGate, At, Structure, Control, Labels, Supported
  <1>2. /\ UNCHANGED <<StartParams, Started, HiddenPlace, HiddenParams, OutPlace>>
        /\ UNCHANGED <<Frames, Before, After>>
        /\ \A g : GateValue(g)' = GateValue(g) /\ Sigm(g)' = Sigm(g)
    BY <1>1, SameTimeStep
  <1>3. Writes(memory, memory', {Scratch(2)})
    BY NewGateWrites
  <1>4. Rows' /\ Holds(memory', OneDesc, <<"1">>)
    <2>1. One # Scratch(2) /\ \A r \in Int : Out(r) # Scratch(2)
      BY PlacesApart
    <2>2. step \in Int
      BY <1>1 DEF Structure, Control
    <2> QED BY <1>1, <1>3, <2>1, <2>2, RowsKept
  <1>5. /\ Holds(memory, CellDesc, Before.c)
        /\ Holds(memory, Desc(OutPlace, HiddenParams), Mul(Sigm(0), Before.h))
        /\ Holds(memory, Desc(Scratch(0), "sigm"), Sub(<<"1">>, Sigm(0)))
        /\ Holds(memory, Desc(Scratch(1), "ir"), Mul(Sigm(1), Before.h))
    BY <1>1 DEF Values
  <1>6. /\ Holds(memory', CellDesc, Before.c)
        /\ Holds(memory', Desc(OutPlace, HiddenParams), Mul(Sigm(0), Before.h))
        /\ Holds(memory', Desc(Scratch(0), "sigm"), Sub(<<"1">>, Sigm(0)))
    <2>1. OutPlace # Scratch(2)
      BY <1>1, OutputApart
    <2>2. Cell # Scratch(2) /\ Scratch(0) # Scratch(2)
      BY PlacesApart
    <2>3. /\ CellDesc.place = Cell /\ Desc(OutPlace, HiddenParams).place = OutPlace
          /\ Desc(Scratch(0), "sigm").place = Scratch(0)
      BY DescFields DEF CellDesc
    <2> QED BY <1>3, <1>5, <2>1, <2>2, <2>3, WritesHold
  <1> DEFINE new == TrueGate(series, 2, ThisFrame, Mul(Sigm(1), Before.h))
  <1>7. Holds(memory', Desc(Scratch(2), "tanh"), Act("tanh", new))
    <2>1. /\ tsr.gate[2] = Desc(Scratch(2), "ir") /\ tsr.prev_out_reset = Desc(Scratch(1), "ir")
      <3>1. GateParams(2) = "ir"
        BY <1>1 DEF GateParams
      <3>2. tsr.gate[2] = Desc(Scratch(2), GateParams(2)) /\ tsr.prev_out_reset = Desc(Scratch(1), "ir")
        BY <1>1, Located
      <3> QED BY <3>1, <3>2
    <2>2. /\ tsr.gate[2].place = Scratch(2) /\ tsr.gate[2].params = "ir"
          /\ tsr.prev_out_reset.place = Scratch(1) /\ tsr.prev_out_reset.params = "ir"
      BY <2>1, DescFields
    <2> DEFINE moved == IncScales(series, 2)
               q == <<QuantParams("in", Dim(series, 1), moved, "ir"),
                      QuantParams("ir", Dim(series, 2), moved, "ir")>>
               value == DenseOp(q, 2, <<moved, moved>>, at.in_new, Scratch(1), memory)
               dense == Put(memory, Desc(Scratch(2), q[2].out), value)
    <2>3. memory' = Activate(dense, "tanh", Desc(Scratch(2), "ir"), Desc(Scratch(2), "ir"))
      <3>1. memory' = LET n == tsr.gate[2]
                          p == <<QuantParams("in", Dim(series, 1), moved, n.params),
                                 QuantParams(tsr.prev_out_reset.params, Dim(series, 2), moved, n.params)>>
                          d == Put(memory, Desc(n.place, p[2].out),
                                   DenseOp(p, 2, <<moved, moved>>, at.in_new, tsr.prev_out_reset.place, memory))
                      IN  Activate(d, "tanh", n, n)
        BY DEF NewGate
      <3> QED BY <2>1, <2>2, <3>1
    <2>4. /\ q[1].in = "in" /\ q[1].out = "ir" /\ q[2].out = "ir" /\ q[2].in = "ir"
      BY DEF QuantParams
    <2>5. Read(memory, Desc(Scratch(1), q[2].in)) = Mul(Sigm(1), Before.h)
      BY <1>5, <2>4, HoldsRead
    <2>6. Frame(series, piece, at.in_new) = ThisFrame
      BY <1>1, TimeStep
    <2>7. moved = PerAxis(series, 1, 2) /\ moved = PerAxis(series, 2, 2)
      BY <1>1, SeriesFacts DEF IncScales, PerAxis, Dim, Supported
    <2> HIDE DEF moved
    <2>8. value = new
      <3> HIDE DEF q, ThisFrame
      <3>1. DenseOp(q, 2, <<moved, moved>>, at.in_new, Scratch(1), memory) =
              Gate(<<2, 2>>, <<moved, moved>>, 2, ThisFrame, Mul(Sigm(1), Before.h))
        BY <2>4, <2>5, <2>6 DEF DenseOp
      <3> QED BY <2>7, <3>1 DEF TrueGate
    <2> HIDE DEF value, new
    <2>9. Holds(dense, Desc(Scratch(2), "ir"), new)
      BY <2>4, <2>8, PutHolds
    <2> HIDE DEF dense
    <2> QED BY <2>3, <2>9, ActHolds
  <1>8. CellDesc' = CellDesc /\ OneDesc' = OneDesc /\ ThisFrame' = ThisFrame
    BY <1>1, <1>2 DEF CellDesc, OneDesc, ThisFrame
  <1>9. /\ Holds(memory', CellDesc', Before'.c)
        /\ Holds(memory', Desc(OutPlace', HiddenParams'), Mul(Sigm(0)', Before'.h))
        /\ Holds(memory', Desc(Scratch(0), "sigm"), Sub(<<"1">>, Sigm(0)'))
        /\ Holds(memory', Desc(Scratch(2), "tanh"),
                 Act("tanh", TrueGate(series', 2, NthFrame(series', Frames' + step' + 1), Mul(Sigm(1)', Before'.h))))
    <2>1. Sigm(0)' = Sigm(0) /\ Sigm(1)' = Sigm(1)
      BY <1>2
    <2>2. NthFrame(series', Frames' + step' + 1) = ThisFrame
      BY <1>1, <1>2 DEF ThisFrame
    <2> HIDE DEF ThisFrame
    <2> QED BY <1>1, <1>2, <1>6, <1>7, <1>8, <2>1, <2>2
  <1>10. outcome' = "running" /\ pc' = "output" /\ series'.kind = "GRU"
    BY <1>1
  <1> QED BY <1>4, <1>8, <1>9, <1>10 DEF Values

LEMMA ValuesOutputLSTM ==
  ASSUME Structure, Values, OutputLSTM
  PROVE  Values'
PROOF
  <1>1. /\ outcome = "running" /\ outcome' = "running" /\ pc = "output" /\ pc' = "advance"
        /\ UNCHANGED <<series, piece, step, at>> /\ series \in Series
        /\ series.kind = "LSTM" /\ step < series.len
    BY Located DEF OutputLSTM, At, Structure, Control
  <1>2. /\ UNCHANGED <<StartParams, Started, HiddenPlace, HiddenParams, OutPlace>>
        /\ UNCHANGED <<Frames, Before, After>>
    BY <1>1, SameTimeStep
  <1>3. /\ \A r \in 0 .. step - 1 : series.all => Out(r) # OutPlace
        /\ OutPlace # One /\ OutPlace # Cell /\ \A g \in Nat : Scratch(g) # OutPlace
    BY <1>1, OutputApart
  <1>4. Writes(memory, memory', {OutPlace})
    BY OutputLSTMWrites
  <1>5. Rows' /\ Holds(memory', OneDesc, <<"1">>)
    BY <1>1, <1>3, <1>4, RowsKept
  <1>6. Holds(memory, CellDesc, After.c) /\ Holds(memory, Desc(Scratch(3), "sigm"), Sigm(3))
    BY <1>1 DEF Values
  <1>7. Holds(memory', CellDesc, After.c)
    BY <1>3, <1>4, <1>6, DescFields, WritesHold DEF CellDesc
  <1> DEFINE temp == Desc(OutPlace, "out")
             gate == Desc(Scratch(3), "sigm")
             active == Activate(memory, series.act, CellDesc, temp)
  <1>8. /\ tsr.rnn_out = temp /\ tsr.gate[3] = gate
    <2>1. GateParams(3) = "sigm" /\ 3 \in 0 .. ScratchGates(series) - 1
      BY <1>1 DEF GateParams, ScratchGates
    <2>2. tsr.rnn_out = Desc(OutPlace, "out") /\ tsr.gate[3] = Desc(Scratch(3), GateParams(3))
      BY <1>1, <2>1, Located
    <2> QED BY <2>1, <2>2
  <1>9. memory' = IF series.act = "none" THEN EltMul(memory, CellDesc, gate, temp)
                  ELSE EltMul(active, Desc(OutPlace, series.act), gate, temp)
    <2>1. ActivatedDesc(temp, series.act) = Desc(OutPlace, series.act)
      BY DEF ActivatedDesc, Desc
    <2>2. memory' = LET t == Desc(tsr.rnn_out.place, "out")
                        a == ActivatedDesc(tsr.rnn_out, series.act)
                    IN  IF series.act = "none" THEN EltMul(memory, CellDesc, tsr.gate[3], t)
                        ELSE EltMul(Activate(memory, series.act, CellDesc, a), a, tsr.gate[3], t)
      BY DEF OutputLSTM
    <2>3. Activate(memory, series.act, CellDesc, Desc(OutPlace, series.act)) = active
      <3>1. ActivatedDesc(Desc(OutPlace, series.act), series.act) = ActivatedDesc(temp, series.act)
        BY DEF ActivatedDesc, Desc
      <3> QED BY <3>1 DEF Activate
    <2>4. tsr.rnn_out.place = OutPlace
      BY <1>8, DescFields
    <2>5. ActivatedDesc(tsr.rnn_out, series.act) = Desc(OutPlace, series.act)
      BY <1>8, <2>1
    <2> HIDE DEF gate, active
    <2> QED BY <1>8, <2>2, <2>3, <2>4, <2>5
  <1>10. Holds(memory', temp, After.h)
    <2>1. CASE series.act = "none"
      <3>1. Holds(memory', temp, Mul(After.c, Sigm(3)))
        BY <1>6, <1>9, <2>1, EltHolds
      <3> QED BY <1>1, <2>1, <3>1, AfterLSTM, Commute
    <2>2. CASE series.act # "none"
      <3>1. Holds(active, Desc(OutPlace, series.act), Act(series.act, After.c))
        BY <1>6, ActHolds
      <3>2. Holds(active, gate, Sigm(3))
        <4>1. gate.place = Scratch(3) /\ Scratch(3) # OutPlace
          BY <1>3, DescFields
        <4> HIDE DEF gate
        <4>2. Holds(memory, gate, Sigm(3))
          BY <1>6 DEF gate
        <4> QED BY <4>1, <4>2, ActKeeps
      <3> HIDE DEF active, gate, temp
      <3>3. Holds(memory', temp, Mul(Act(series.act, After.c), Sigm(3)))
        BY <1>9, <2>2, <3>1, <3>2, EltHolds
      <3> QED BY <1>1, <2>2, <3>3, AfterLSTM, Commute
    <2> QED BY <2>1, <2>2
  <1>11. CellDesc' = CellDesc /\ OneDesc' = OneDesc
    BY DEF CellDesc, OneDesc
  <1> QED BY <1>1, <1>2, <1>5, <1>7, <1>10, <1>11 DEF Values

LEMMA ValuesOutputGRU ==
  ASSUME Structure, Values, OutputGRU
  PROVE  Values'
PROOF
  <1>1. /\ outcome = "running" /\ outcome' = "running" /\ pc = "output" /\ pc' = "advance"
        /\ UNCHANGED <<series, piece, step, at>> /\ series \in Series
        /\ series.kind = "GRU" /\ step < series.len
    BY Located DEF OutputGRU, At, Structure, Control
  <1>2. /\ UNCHANGED <<StartParams, Started, HiddenPlace, HiddenParams, OutPlace>>
        /\ UNCHANGED <<Frames, Before, After>>
    BY <1>1, SameTimeStep
  <1>3. /\ \A r \in 0 .. step - 1 : series.all => Out(r) # OutPlace
        /\ OutPlace # One /\ OutPlace # Cell /\ \A g \in Nat : Scratch(g) # OutPlace
    BY <1>1, OutputApart
  <1> DEFINE S == {Scratch(2), OutPlace}
  <1>4. Writes(memory, memory', S)
    BY OutputGRUWrites
  <1>5. One \notin S /\ Cell \notin S /\ \A r \in 0 .. step - 1 : series.all => Out(r) \notin S
    <2>1. step \in Int
      BY <1>1 DEF Structure, Control
    <2> QED BY <1>3, <2>1, PlacesApart
  <1>6. Rows' /\ Holds(memory', OneDesc, <<"1">>)
    <2> HIDE DEF S
    <2> QED BY <1>1, <1>4, <1>5, RowsKept
  <1> DEFINE new == Act("tanh", TrueGate(series, 2, ThisFrame, Mul(Sigm(1), Before.h)))
  <1>7. /\ Holds(memory, CellDesc, Before.c)
        /\ Holds(memory, Desc(OutPlace, HiddenParams), Mul(Sigm(0), Before.h))
        /\ Holds(memory, Desc(Scratch(0), "sigm"), Sub(<<"1">>, Sigm(0)))
        /\ Holds(memory, Desc(Scratch(2), "tanh"), new)
    BY <1>1 DEF Values, ThisFrame
  <1>8. Holds(memory', CellDesc, After.c)
    <2>1. Holds(memory, CellDesc, After.c) /\ CellDesc.place = Cell
      BY <1>1, <1>7, AfterGRU, DescFields DEF CellDesc
    <2> HIDE DEF S
    <2> QED BY <1>4, <1>5, <2>1, WritesHold
  <1> HIDE DEF S
  <1> DEFINE z == Desc(Scratch(0), "sigm")
             n == Desc(Scratch(2), "tanh")
             kept == Desc(OutPlace, HiddenParams)
             temp == Desc(Scratch(2), HiddenParams)
             dest == Desc(OutPlace, "out")
             product == EltMul(memory, n, z, temp)
  <1>9. memory' = EltAdd(product, temp, kept, dest)
    <2>1. GateParams(0) = "sigm" /\ GateParams(2) = "tanh" /\ {0, 2} \subseteq 0 .. ScratchGates(series) - 1
      BY <1>1, Located DEF GateParams
    <2>2. /\ tsr.rnn_out = dest /\ tsr.current_out = kept /\ tsr.hidden = Desc(HiddenPlace, HiddenParams)
          /\ tsr.gate[0] = z /\ tsr.gate[2] = n
      <3>1. /\ tsr.gate[0] = Desc(Scratch(0), GateParams(0)) /\ tsr.gate[2] = Desc(Scratch(2), GateParams(2))
        BY <1>1, <2>1, Located
      <3> QED BY <1>1, <2>1, <3>1, Located
    <2>3. /\ tsr.rnn_out.place = OutPlace /\ tsr.gate[2].place = Scratch(2)
          /\ tsr.hidden.params = HiddenParams
      BY <2>2, DescFields
    <2>4. memory' = LET t == Desc(tsr.gate[2].place, tsr.hidden.params)
                        o == Desc(tsr.rnn_out.place, "out")
                    IN  EltAdd(EltMul(memory, tsr.gate[2], tsr.gate[0], t), t, tsr.current_out, o)
      BY DEF OutputGRU
    <2> HIDE DEF z, n, kept
    <2> QED BY <2>2, <2>3, <2>4
  <1>10. /\ z.place = Scratch(0) /\ n.place = Scratch(2) /\ temp.place = Scratch(2)
         /\ kept.place = OutPlace /\ dest.place = OutPlace /\ Scratch(2) # OutPlace
    BY <1>3, DescFields
  <1>11. /\ Holds(memory, z, Sub(<<"1">>, Sigm(0))) /\ Holds(memory, n, new)
         /\ Holds(memory, kept, Mul(Sigm(0), Before.h))
    BY <1>7
  <1>14. dest = Desc(OutPlace, "out")
    OBVIOUS
  <1> HIDE DEF z, n, kept, temp, dest
  <1>12. /\ Holds(product, temp, Mul(new, Sub(<<"1">>, Sigm(0))))
         /\ Holds(product, kept, Mul(Sigm(0), Before.h))
    <2> HIDE DEF new
    <2> QED BY <1>10, <1>11, EltHolds, EltKeeps
  <1> HIDE DEF product
  <1>13. Holds(memory', dest, Add(Mul(new, Sub(<<"1">>, Sigm(0))), Mul(Sigm(0), Before.h)))
    <2> HIDE DEF new
    <2> QED BY <1>9, <1>12, EltHolds
  <1>15. Holds(memory', Desc(OutPlace, "out"), After.h)
    <2>1. After.h = Add(Mul(Sigm(0), Before.h), Mul(Sub(<<"1">>, Sigm(0)), new))
      BY <1>1, AfterGRU
    <2> HIDE DEF new
    <2> QED BY <1>13, <1>14, <2>1, Commute
  <1>16. CellDesc' = CellDesc /\ OneDesc' = OneDesc
    BY DEF CellDesc, OneDesc
  <1> QED BY <1>1, <1>2, <1>6, <1>8, <1>15, <1>16 DEF Values

LEMMA ValuesAdvance ==
  ASSUME Structure, Values, Advance
  PROVE  Values'
PROOF
  <1>1. /\ outcome = "running" /\ outcome' = "running" /\ pc = "advance" /\ pc' = "dense"
        /\ UNCHANGED <<series, piece, memory>> /\ step' = step + 1 /\ series \in Series
        /\ step \in Nat /\ piece \in Int /\ series.len \in Nat /\ series.all \in BOOLEAN
    BY SeriesFacts DEF Advance, At, Structure, Control
  <1>2. /\ HiddenPlace' = OutPlace /\ HiddenParams' = "out" /\ Frames' = Frames /\ Frames \in Int
    BY <1>1 DEF HiddenPlace, HiddenParams, OutPlace, Frames
  <1>3. Before' = After
    <2>1. Frames + (step + 1) = Frames + step + 1
      BY <1>1, <1>2
    <2> HIDE DEF Reference
    <2> QED BY <1>1, <1>2, <2>1 DEF Before, After
  <1>4. /\ Rows /\ Holds(memory, OneDesc, <<"1">>)
        /\ Holds(memory, Desc(OutPlace, "out"), After.h) /\ Holds(memory, CellDesc, After.c)
    BY <1>1 DEF Values
  <1>5. Rows'
    <2> SUFFICES ASSUME series.all, NEW r \in 0 .. step
                 PROVE  Holds(memory, Desc(Out(r), "out"), Reference(series)[Frames + r + 1].h)
      <3>1. step' - 1 = step
        BY <1>1
      <3> QED BY <1>1, <1>2, <3>1 DEF Rows
    <2>1. CASE r = step
      BY <1>4, <2>1 DEF OutPlace, After
    <2>2. CASE r # step
      <3>1. r \in 0 .. step - 1
        BY <1>1, <2>2
      <3> QED BY <1>4, <3>1 DEF Rows
    <2> QED BY <2>1, <2>2
  <1>6. CellDesc' = CellDesc /\ OneDesc' = OneDesc
    BY DEF CellDesc, OneDesc
  <1> QED BY <1>1, <1>2, <1>3, <1>4, <1>5, <1>6 DEF Values

LEMMA ValuesReturn ==
  ASSUME Structure, Values, ReturnCell
  PROVE  Values'
PROOF
  <1>1. /\ outcome = "running" /\ outcome' = "OK" /\ pc = "dense" /\ step = series.len
        /\ UNCHANGED <<series, piece, memory>> /\ rows' = OutRows(series) /\ series \in Series
        /\ piece \in Int /\ series.len \in Nat \ {0} /\ series.all \in BOOLEAN
    BY SeriesFacts DEF ReturnCell, At, Structure, Control
  <1> DEFINE done == piece * series.len
             ref == Reference(series)
  <1>2. done \in Int /\ Frames \in Int /\ done = Frames + series.len
    <2>1. \A p, n \in Int : p * n = (p - 1) * n + n /\ p * n \in Int /\ (p - 1) * n \in Int
      OBVIOUS
    <2> QED BY <1>1, <2>1 DEF Frames
  <1>3. /\ Rows /\ Holds(memory, OneDesc, <<"1">>)
        /\ Holds(memory, Desc(HiddenPlace, HiddenParams), Before.h) /\ Holds(memory, CellDesc, Before.c)
    BY <1>1 DEF Values
  <1> HIDE DEF done, ref
  <1>4. Before = ref[done]
    BY <1>1, <1>2 DEF Before, ref
  <1>5. ASSUME NEW row \in 0 .. OutRows(series) - 1
        PROVE  Holds(memory, Desc(Out(row), "out"), ref[done - (OutRows(series) - 1 - row)].h)
    <2>1. CASE series.all
      <3>1. OutRows(series) = series.len /\ row \in 0 .. step - 1 /\ row \in Int
        BY <1>1, <2>1 DEF OutRows
      <3>2. done - (series.len - 1 - row) = Frames + row + 1
        BY <1>1, <1>2, <3>1
      <3>3. Holds(memory, Desc(Out(row), "out"), ref[Frames + row + 1].h)
        BY <1>3, <2>1, <3>1 DEF Rows, ref
      <3> QED BY <3>1, <3>2, <3>3
    <2>2. CASE ~series.all
      <3>1. OutRows(series) = 1 /\ row = 0 /\ done - (OutRows(series) - 1 - row) = done
        BY <1>2, <2>2 DEF OutRows
      <3>2. HiddenPlace = Out(0) /\ HiddenParams = "out"
        BY <1>1, <2>2 DEF HiddenPlace, HiddenParams
      <3> QED BY <1>3, <1>4, <3>1, <3>2
    <2> QED BY <2>1, <2>2
  <1>6. CellDesc' = CellDesc /\ OneDesc' = OneDesc
    BY DEF CellDesc, OneDesc
  <1>7. \A row \in 0 .. rows' - 1 :
          Holds(memory', Desc(Out(row), "out"), ref[done - (rows' - 1 - row)].h)
    BY <1>1, <1>5
  <1>8. Reference(series') = ref /\ piece' * series'.len = done
    BY <1>1 DEF ref, done
  <1> QED BY <1>1, <1>3, <1>4, <1>6, <1>7, <1>8 DEF Values

LEMMA ValuesCallAgain ==
  ASSUME Structure, Values, CallAgain
  PROVE  Values'
PROOF
  <1>1. /\ outcome = "OK" /\ outcome' = "called" /\ series' = series /\ piece' = piece + 1
        /\ memory' = Put(memory, Desc(Prev(series), "out"), Read(memory, Desc(Out(rows - 1), "out")))
        /\ rows \in Nat \ {0} /\ series \in Series /\ piece \in Int /\ series.len \in Nat
        /\ piece >= 1
    BY SeriesFacts DEF CallAgain, Structure, Control
  <1> DEFINE done == piece * series.len
             ref == Reference(series)
  <1>2. done \in Int /\ Frames' = done
    <2>1. piece + 1 - 1 = piece
      BY <1>1
    <2> QED BY <1>1, <2>1 DEF Frames
  <1>3. /\ \A row \in 0 .. rows - 1 : Holds(memory, Desc(Out(row), "out"), ref[done - (rows - 1 - row)].h)
        /\ Holds(memory, CellDesc, ref[done].c) /\ Holds(memory, OneDesc, <<"1">>)
    BY <1>1 DEF Values
  <1> HIDE DEF done, ref
  <1>4. Read(memory, Desc(Out(rows - 1), "out")) = ref[done].h
    <2>1. rows - 1 \in 0 .. rows - 1 /\ done - (rows - 1 - (rows - 1)) = done
      BY <1>1, <1>2
    <2>2. Holds(memory, Desc(Out(rows - 1), "out"), ref[done - (rows - 1 - (rows - 1))].h)
      BY <1>3, <2>1
    <2> QED BY <2>1, <2>2, HoldsRead
  <1>5. Started' = Desc(Prev(series), "out")
    BY <1>1 DEF Started, StartParams
  <1>6. Holds(memory', Desc(Prev(series), "out"), ref[done].h)
    BY <1>1, <1>4, PutHolds
  <1>7. Holds(memory', CellDesc, ref[done].c) /\ Holds(memory', OneDesc, <<"1">>)
    <2>1. /\ CellDesc.place = Cell /\ OneDesc.place = One
          /\ Desc(Prev(series), "out").place = Prev(series)
          /\ Prev(series) # Cell /\ Prev(series) # One
      BY DescFields, PlacesApart DEF CellDesc, OneDesc
    <2> QED BY <1>1, <1>3, <2>1, PutKeeps
  <1>8. CellDesc' = CellDesc /\ OneDesc' = OneDesc /\ Reference(series') = ref
    BY <1>1 DEF CellDesc, OneDesc, ref
  <1> QED BY <1>1, <1>2, <1>5, <1>6, <1>7, <1>8 DEF Values

LEMMA ValuesNext ==
  ASSUME Structure, Supported(series), Values, [CellNext]_cellVars
  PROVE  Values'
PROOF
  <1>1. CASE UNCHANGED cellVars
    BY <1>1, ValuesStutter
  <1>2. series.stride = series.size
    BY DEF Supported
  <1> QED
    BY <1>1, <1>2, ValuesRefuse, ValuesSetup, ValuesDense, ValuesNonLinearity, ValuesPointwiseLSTM,
       ValuesPointwiseGRU, ValuesNewGate, ValuesOutputLSTM, ValuesOutputGRU, ValuesAdvance,
       ValuesReturn, ValuesCallAgain DEF CellNext

(* What the kernels compute: after each call the rows of the output and the  *)
(* cell hold what the formulas give, for sequences of every length, in any   *)
(* number of pieces, in both directions, in place or not.                    *)
THEOREM FollowsFormula == CellSpec => []ResultExact
PROOF
  <1>1. CellInit => CellInv
    BY StructureInit, ValuesInit DEF CellInv
  <1>2. CellInv /\ [CellNext]_cellVars => CellInv'
    <2> SUFFICES ASSUME CellInv, [CellNext]_cellVars PROVE CellInv'
      OBVIOUS
    <2>1. Structure'
      BY StructureNext DEF CellInv
    <2>2. series' = series
      BY DEF CellNext, cellVars, RefuseCell, Setup, Dense, NonLinearity, PointwiseLSTM, PointwiseGRU,
             NewGate, OutputLSTM, OutputGRU, Advance, ReturnCell, CallAgain
    <2>3. ASSUME Supported(series) PROVE Values'
      BY <2>3, ValuesNext DEF CellInv
    <2> QED BY <2>1, <2>2, <2>3 DEF CellInv
  <1>3. CellInv => ResultExact
    <2> SUFFICES ASSUME CellInv, outcome = "OK", Supported(series)
                 PROVE  LET done == piece * series.len
                            ref == Reference(series)
                        IN  /\ \A row \in 0 .. rows - 1 :
                                 Read(memory, Desc(Out(row), "out")) = ref[done - (rows - 1 - row)].h
                            /\ Read(memory, CellDesc) = ref[done].c
      BY DEF ResultExact
    <2> DEFINE done == piece * series.len
               ref == Reference(series)
    <2>1. /\ \A row \in 0 .. rows - 1 : Holds(memory, Desc(Out(row), "out"), ref[done - (rows - 1 - row)].h)
          /\ Holds(memory, CellDesc, ref[done].c)
      BY DEF CellInv, Values
    <2> HIDE DEF done, ref
    <2>2. ASSUME NEW row \in 0 .. rows - 1
          PROVE  Read(memory, Desc(Out(row), "out")) = ref[done - (rows - 1 - row)].h
      BY <2>1, HoldsRead
    <2>3. Read(memory, CellDesc) = ref[done].c
      BY <2>1, HoldsRead
    <2> QED BY <2>2, <2>3 DEF done, ref
  <1> QED BY <1>1, <1>2, <1>3, PTL DEF CellSpec

-----------------------------------------------------------------------------
(***************************************************************************)
(* Dense                                                                   *)
(***************************************************************************)

(* The sizes that the checks of a call compute fit 32 bits. *)
Sized(t) == Descriptor(t) /\ NoWrap(t)

SizedCall(c) ==
  /\ \E T : (\A t \in T : Sized(t)) /\ c.in \in Seq(T) /\ c.weights \in Seq(T)
  /\ Sized(c.bias) /\ Descriptor(c.out)
  /\ {"type", "elem", "shape", "rank", "mem_stride", "capacity"} \subseteq DOMAIN c.out
  /\ c.in # <<>> => Neurons(c) * c.in[1].elem \in 0 .. Modulus - 1

-----------------------------------------------------------------------------
(* A sequence of checks answers OK if all do, else as one that does not.   *)
LEMMA FirstIsOne ==
  ASSUME NEW checks, DOMAIN checks \subseteq Nat
  PROVE  \/ FirstOf(checks) = "OK" /\ \A i \in DOMAIN checks : checks[i] = "OK"
         \/ \E i \in DOMAIN checks : checks[i] # "OK" /\ FirstOf(checks) = checks[i]
PROOF
  <1> DEFINE failed == {i \in DOMAIN checks : checks[i] # "OK"}
             R == OpToRel(<, Nat)
  <1>1. CASE failed = {}
    BY <1>1 DEF FirstOf
  <1>2. CASE failed # {}
    <2>1. IsWellFoundedOn(R, Nat) /\ \A x, y \in Nat : <<y, x>> \in R <=> y < x
      BY NatLessThanWellFounded DEF OpToRel
    <2>2. /\ failed \subseteq Nat /\ failed \subseteq DOMAIN checks
          /\ \A x \in failed : checks[x] # "OK"
      OBVIOUS
    <2>3. FirstOf(checks) = checks[Min(failed)]
      BY <1>2 DEF FirstOf
    <2> HIDE DEF failed, R
    <2>4. PICK x \in failed : \A y \in failed : ~(<<y, x>> \in R)
      BY <1>2, <2>1, <2>2, WFMin
    <2>5. \A y \in failed : x <= y
      <3> TAKE y \in failed
      <3>1. x \in Nat /\ y \in Nat /\ ~(y < x)
        BY <2>1, <2>2, <2>4
      <3> QED BY <3>1
    <2>6. Min(failed) \in failed
      BY <2>5 DEF Min
    <2> QED BY <2>2, <2>3, <2>6
  <1> QED BY <1>1, <1>2

LEMMA EachIsOK ==
  ASSUME NEW checks, DOMAIN checks \subseteq Nat, FirstOf(checks) = "OK"
  PROVE  \A i \in DOMAIN checks : checks[i] = "OK"
BY FirstIsOne

(* What a check may answer. *)
Answers ==
  {"OK", "BAD_TENSOR", "NOT_ENGH_MEM", "SHAPE_MISMATCH", "INCOMPATEBLE_TENSORS", "TYPE_MISMATCH",
   "BAD_FUNC_CFG"}

LEMMA FirstAnswers ==
  ASSUME NEW checks \in Seq(Answers)
  PROVE  FirstOf(checks) \in Answers
PROOF
  <1>1. DOMAIN checks \subseteq Nat /\ \A i \in DOMAIN checks : checks[i] \in Answers
    OBVIOUS
  <1>2. "OK" \in Answers
    BY DEF Answers
  <1> QED BY <1>1, <1>2, FirstIsOne

LEMMA NeedAnswers ==
  ASSUME NEW P, NEW s \in Answers
  PROVE  Need(P, s) \in Answers
PROOF
  <1>1. "OK" \in Answers
    BY DEF Answers
  <1> QED BY <1>1 DEF Need

LEMMA TensorAnswers ==
  ASSUME NEW t
  PROVE  CheckTensor(t) \in Answers
PROOF
  <1>1. "OK" \in Answers /\ "BAD_TENSOR" \in Answers /\ "NOT_ENGH_MEM" \in Answers
    BY DEF Answers
  <1> QED BY <1>1 DEF CheckTensor, CheckLayout

-----------------------------------------------------------------------------
(* A dimension with n indices at a stride m no smaller than the span x of  *)
(* what is inside, which has p elements. *)
LEMMA SpanGrows ==
  ASSUME NEW n \in Nat \ {0}, NEW m \in Nat, NEW x \in Nat, NEW p \in Nat, p <= x, x <= m
  PROVE  n * p \in Nat /\ (n - 1) * m \in Nat /\ n * p <= x + (n - 1) * m
PROOF
  <1>1. n - 1 \in Nat /\ (n - 1) * p <= (n - 1) * m
    <2>1. /\ n - 1 \in Nat /\ p * (n - 1) <= m * (n - 1)
      BY ProductGrows
    <2> QED BY <2>1
  <1>2. n * p = (n - 1) * p + p /\ (n - 1) * p \in Nat /\ (n - 1) * m \in Nat
    BY <1>1, OneLess
  <1>3. n * p \in Nat
    OBVIOUS
  <1> QED BY <1>1, <1>2, <1>3

(* An accepted tensor spans at least as many places as it has elements.    *)
LEMMA ElementsWithinSpan ==
  ASSUME NEW t, Descriptor(t), CheckTensor(t) = "OK", NoWrap(t)
  PROVE  ElemNum(t) \in Nat /\ Span(t) \in Nat /\ ElemNum(t) <= Span(t)
PROOF
  <1> DEFINE n(d) == IF d <= t.rank THEN t.shape[d] ELSE 1
             B(d) == Term(t, LastPosition(t), d)
             m(d) == IF d <= t.rank THEN t.mem_stride[d] ELSE 1 + Inside(t, d)
  <1>1. \A d \in 1 .. 4 :
          /\ n(d) \in Nat \ {0} /\ m(d) \in Nat /\ B(d) \in Nat
          /\ m(d) >= 1 + Inside(t, d)
          /\ d <= t.rank => B(d) = (n(d) - 1) * m(d)
          /\ d > t.rank => B(d) = 0 /\ n(d) = 1
    <2> TAKE d \in 1 .. 4
    <2>1. CASE d <= t.rank
      <3>1. d \in Dims(t) /\ t.mem_stride[d] \in Nat /\ t.shape[d] \in Nat \ {0}
        BY <2>1, TensorHasLayout, Accepted DEF Dims, MaxRank
      <3>2. t.mem_stride[d] >= 1 + Inside(t, d)
        BY <3>1, TensorHasLayout, StrideCovers
      <3>3. (t.shape[d] - 1) * t.mem_stride[d] \in Nat
        BY <3>1, OneLess
      <3>4. n(d) = t.shape[d] /\ m(d) = t.mem_stride[d]
        BY <2>1
      <3>5. B(d) = (t.shape[d] - 1) * t.mem_stride[d]
        BY <2>1 DEF Term, LastPosition, MaxRank
      <3>6. ~(d > t.rank)
        BY <2>1, TensorHasLayout, Accepted
      <3> HIDE DEF n, m, B
      <3> QED BY <3>1, <3>2, <3>3, <3>4, <3>5, <3>6
    <2>2. CASE ~(d <= t.rank)
      <3>1. \A e \in 1 .. 4 : e > d => Term(t, LastPosition(t), e) = 0
        BY <2>2, TensorHasLayout, Accepted DEF Term
      <3>2. Inside(t, d) = 0
        BY <3>1 DEF Inside
      <3> QED BY <2>2, <3>2, TensorHasLayout, Accepted DEF Term
    <2> QED BY <2>1, <2>2
  <1>2. ElemNum(t) = n(1) * (n(2) * (n(3) * n(4)))
    <2>1. ElemNum(t) = n(1) * n(2) * n(3) * n(4)
      BY DEF ElemNum
    <2>2. n(1) \in Nat /\ n(2) \in Nat /\ n(3) \in Nat /\ n(4) \in Nat
      BY <1>1
    <2> HIDE DEF n
    <2> QED BY <2>1, <2>2
  <1>3. Span(t) = 1 + B(1) + B(2) + B(3) + B(4)
    <2>1. \A d \in 1 .. 4 : B(d) \in Nat
      BY <1>1
    <2> QED BY <2>1, OffsetIsSum DEF Span
  <1>4. /\ Inside(t, 4) = 0 /\ Inside(t, 3) = B(4)
        /\ Inside(t, 2) = B(3) + B(4) /\ Inside(t, 1) = B(2) + B(3) + B(4)
    BY <1>1 DEF Inside
  <1>5. ASSUME NEW d \in 1 .. 4, NEW p \in Nat, NEW x \in Nat, x = 1 + Inside(t, d), p <= x
        PROVE  n(d) * p \in Nat /\ n(d) * p <= x + B(d)
    <2>1. CASE d <= t.rank
      <3>1. n(d) \in Nat \ {0} /\ m(d) \in Nat /\ x <= m(d) /\ B(d) = (n(d) - 1) * m(d)
        BY <1>1, <1>5, <2>1
      <3> HIDE DEF n, m, B
      <3> QED BY <1>5, <3>1, SpanGrows
    <2>2. CASE ~(d <= t.rank)
      <3>1. n(d) = 1 /\ B(d) = 0
        BY <2>2, <1>1, TensorHasLayout, Accepted
      <3> QED BY <3>1, <1>5
    <2> QED BY <2>1, <2>2
  <1>6. B(1) \in Nat /\ B(2) \in Nat /\ B(3) \in Nat /\ B(4) \in Nat
    BY <1>1
  <1>7. n(4) \in Nat /\ n(4) <= 1 + B(4)
    <2>1. n(4) * 1 \in Nat /\ n(4) * 1 <= 1 + B(4)
      BY <1>4, <1>5
    <2> QED BY <1>1, <2>1
  <1> HIDE DEF n, m, B
  <1>8. n(3) * n(4) \in Nat /\ n(3) * n(4) <= 1 + B(4) + B(3)
    BY <1>4, <1>5, <1>6, <1>7
  <1>9. n(2) * (n(3) * n(4)) \in Nat /\ n(2) * (n(3) * n(4)) <= 1 + B(4) + B(3) + B(2)
    <2>1. 1 + B(4) + B(3) = 1 + Inside(t, 2) /\ 1 + B(4) + B(3) \in Nat
      BY <1>4, <1>6
    <2> QED BY <1>5, <1>8, <2>1
  <1>10. /\ n(1) * (n(2) * (n(3) * n(4))) \in Nat
         /\ n(1) * (n(2) * (n(3) * n(4))) <= 1 + B(4) + B(3) + B(2) + B(1)
    <2>1. 1 + B(4) + B(3) + B(2) = 1 + Inside(t, 1) /\ 1 + B(4) + B(3) + B(2) \in Nat
      BY <1>4, <1>6
    <2> QED BY <1>5, <1>9, <2>1
  <1> QED BY <1>2, <1>3, <1>6, <1>10

-----------------------------------------------------------------------------
(* What the checks of an accepted call leave to rely on.                   *)
Accessible(c) ==
  /\ CheckTensor(c.bias) = "OK" /\ c.bias.rank = 1 /\ c.bias.shape[1] = Neurons(c)
  /\ c.bias.mem_stride[1] = 1
  /\ c.out.mem_stride[IF c.kernel = "rnn_dense" THEN c.out.rank ELSE 1] = 1
  /\ Neurons(c) * c.in[1].elem <= c.out.capacity
  /\ 1 \in DOMAIN c.in
  /\ \A k \in DOMAIN c.in :
       /\ CheckTensor(c.in[k]) = "OK" /\ CheckTensor(c.weights[k]) = "OK"
       /\ Sized(c.in[k]) /\ Sized(c.weights[k])
       /\ c.weights[k].rank = 2 /\ c.weights[k].mem_stride[2] = 1
       /\ c.weights[k].shape[1] = ElemNum(c.in[k])
       /\ c.weights[k].shape[2] = Neurons(c)

LEMMA SizesAreExact ==
  ASSUME NEW c, SizedCall(c), c.in # <<>>
  PROVE  Bytes(Neurons(c), c.in[1].elem) = Neurons(c) * c.in[1].elem
BY NotReduced DEF SizedCall, Bytes

LEMMA DescriptorsSized ==
  ASSUME NEW c \in Calls, SizedCall(c), Len(c.in) \in 1 .. MaxInputs
  PROVE  /\ DOMAIN c.in = 1 .. Len(c.in) /\ 1 \in DOMAIN c.in
         /\ \A k \in DOMAIN c.in : Sized(c.in[k]) /\ Sized(c.weights[k])
PROOF
  <1>1. PICK T : (\A t \in T : Sized(t)) /\ c.in \in Seq(T) /\ c.weights \in Seq(T)
    BY DEF SizedCall
  <1>2. Len(c.weights) = Len(c.in)
    BY CallsAssumption
  <1>3. DOMAIN c.in = 1 .. Len(c.in) /\ DOMAIN c.weights = 1 .. Len(c.in)
    BY <1>1, <1>2
  <1>4. \A k \in DOMAIN c.in : c.in[k] \in T /\ c.weights[k] \in T
    BY <1>1, <1>3
  <1> QED BY <1>1, <1>3, <1>4

LEMMA FullyConnectedAccessible ==
  ASSUME NEW c \in Calls, SizedCall(c), c.kernel = "fully_connected",
         CheckFullyConnected(c) = "OK"
  PROVE  Accessible(c)
PROOF
  <1> DEFINE in == c.in[1]
             w == c.weights[1]
             checks == <<
               CheckTensor(in), CheckTensor(w), CheckTensor(c.bias),
               Need(w.rank = 2 /\ c.bias.rank = 1 /\ ElemNum(in) = w.shape[1]
                      /\ c.bias.shape[1] = w.shape[2], "SHAPE_MISMATCH"),
               Need(Contiguous(in) /\ Innermost(w) /\ Contiguous(c.bias)
                      /\ c.out.mem_stride[1] = 1, "INCOMPATEBLE_TENSORS"),
               Need(Bytes(Neurons(c), in.elem) <= c.out.capacity, "NOT_ENGH_MEM")>>
  <1>1. FirstOf(checks) = "OK"
    BY DEF CheckFullyConnected
  <1>2. DOMAIN checks = 1 .. 6
    OBVIOUS
  <1>3. \A i \in 1 .. 6 : checks[i] = "OK"
    <2> HIDE DEF checks
    <2>1. DOMAIN checks \subseteq Nat
      BY <1>2
    <2>2. \A i \in DOMAIN checks : checks[i] = "OK"
      BY <1>1, <2>1, EachIsOK
    <2> QED BY <1>2, <2>2
  <1>4. /\ checks[1] = CheckTensor(in) /\ checks[2] = CheckTensor(w)
        /\ checks[3] = CheckTensor(c.bias)
        /\ checks[4] = Need(w.rank = 2 /\ c.bias.rank = 1 /\ ElemNum(in) = w.shape[1]
                              /\ c.bias.shape[1] = w.shape[2], "SHAPE_MISMATCH")
        /\ checks[5] = Need(Contiguous(in) /\ Innermost(w) /\ Contiguous(c.bias)
                              /\ c.out.mem_stride[1] = 1, "INCOMPATEBLE_TENSORS")
        /\ checks[6] = Need(Bytes(Neurons(c), in.elem) <= c.out.capacity, "NOT_ENGH_MEM")
    OBVIOUS
  <1> HIDE DEF checks
  <1>5. CheckTensor(in) = "OK" /\ CheckTensor(w) = "OK" /\ CheckTensor(c.bias) = "OK"
    BY <1>3, <1>4
  <1>6. /\ w.rank = 2 /\ c.bias.rank = 1 /\ ElemNum(in) = w.shape[1]
        /\ c.bias.shape[1] = w.shape[2]
    <2>1. checks[4] = "OK"
      BY <1>3
    <2> QED BY <1>4, <2>1 DEF Need
  <1>7. Innermost(w) /\ Contiguous(c.bias) /\ c.out.mem_stride[1] = 1
    <2>1. checks[5] = "OK"
      BY <1>3
    <2> QED BY <1>4, <2>1 DEF Need
  <1>8. Bytes(Neurons(c), in.elem) <= c.out.capacity
    <2>1. checks[6] = "OK"
      BY <1>3
    <2> QED BY <1>4, <2>1 DEF Need
  <1>9. Len(c.in) = 1
    BY CallsAssumption
  <1>10. DOMAIN c.in = {1} /\ Sized(in) /\ Sized(w)
    BY <1>9, DescriptorsSized DEF MaxInputs
  <1>11. c.bias.mem_stride[1] = 1 /\ w.mem_stride[2] = 1
    BY <1>6, <1>7 DEF Innermost, Contiguous, Dims
  <1>12. Neurons(c) = w.shape[2]
    BY DEF Neurons
  <1> QED BY <1>5, <1>6, <1>7, <1>8, <1>10, <1>11, <1>12, SizesAreExact DEF Accessible

LEMMA InputAccessible ==
  ASSUME NEW c, NEW k, CheckInput(c, k) = "OK"
  PROVE  /\ CheckTensor(c.in[k]) = "OK" /\ CheckTensor(c.weights[k]) = "OK"
         /\ c.weights[k].rank = 2 /\ c.weights[k].mem_stride[2] = 1
         /\ c.weights[k].shape[1] = ElemNum(c.in[k])
         /\ c.weights[k].shape[2] = Neurons(c)
PROOF
  <1> DEFINE in == c.in[k]
             w == c.weights[k]
             checks == <<
               CheckTensor(in), CheckTensor(w),
               Need(w.rank = 2 /\ ElemNum(in) = w.shape[1] /\ w.shape[2] = Neurons(c),
                    "SHAPE_MISMATCH"),
               Need(Innermost(in) /\ Innermost(w), "INCOMPATEBLE_TENSORS")>>
  <1>1. FirstOf(checks) = "OK"
    BY DEF CheckInput
  <1>2. DOMAIN checks = 1 .. 4
    OBVIOUS
  <1>3. \A i \in 1 .. 4 : checks[i] = "OK"
    <2> HIDE DEF checks
    <2>1. DOMAIN checks \subseteq Nat
      BY <1>2
    <2>2. \A i \in DOMAIN checks : checks[i] = "OK"
      BY <1>1, <2>1, EachIsOK
    <2> QED BY <1>2, <2>2
  <1>4. /\ checks[1] = CheckTensor(in) /\ checks[2] = CheckTensor(w)
        /\ checks[3] = Need(w.rank = 2 /\ ElemNum(in) = w.shape[1] /\ w.shape[2] = Neurons(c),
                            "SHAPE_MISMATCH")
        /\ checks[4] = Need(Innermost(in) /\ Innermost(w), "INCOMPATEBLE_TENSORS")
    OBVIOUS
  <1> HIDE DEF checks
  <1>5. CheckTensor(in) = "OK" /\ CheckTensor(w) = "OK"
    BY <1>3, <1>4
  <1>6. w.rank = 2 /\ ElemNum(in) = w.shape[1] /\ w.shape[2] = Neurons(c)
    <2>1. checks[3] = "OK"
      BY <1>3
    <2> QED BY <1>4, <2>1 DEF Need
  <1>7. Innermost(w)
    <2>1. checks[4] = "OK"
      BY <1>3
    <2> QED BY <1>4, <2>1 DEF Need
  <1> QED BY <1>5, <1>6, <1>7 DEF Innermost

LEMMA RnnDenseAccessible ==
  ASSUME NEW c \in Calls, SizedCall(c), c.kernel = "rnn_dense", Len(c.in) \in 1 .. MaxInputs,
         CheckRnnDense(c) = "OK"
  PROVE  Accessible(c)
PROOF
  <1> DEFINE inputs == [k \in DOMAIN c.in |-> CheckInput(c, k)]
             checks == <<
               FirstOf(inputs), CheckTensor(c.bias),
               Need(c.bias.rank = 1 /\ c.bias.shape[1] = Neurons(c), "SHAPE_MISMATCH"),
               Need(Bytes(ElemNum(c.bias), c.in[1].elem) <= c.out.capacity, "BAD_TENSOR"),
               Need(Innermost(c.bias) /\ Innermost(c.out), "INCOMPATEBLE_TENSORS")>>
  <1>1. FirstOf(checks) = "OK"
    BY DEF CheckRnnDense
  <1>2. DOMAIN checks = 1 .. 5 /\ DOMAIN inputs = DOMAIN c.in
    OBVIOUS
  <1>3. \A i \in 1 .. 5 : checks[i] = "OK"
    <2> HIDE DEF checks
    <2>1. DOMAIN checks \subseteq Nat
      BY <1>2
    <2>2. \A i \in DOMAIN checks : checks[i] = "OK"
      BY <1>1, <2>1, EachIsOK
    <2> QED BY <1>2, <2>2
  <1>4. /\ checks[1] = FirstOf(inputs) /\ checks[2] = CheckTensor(c.bias)
        /\ checks[3] = Need(c.bias.rank = 1 /\ c.bias.shape[1] = Neurons(c), "SHAPE_MISMATCH")
        /\ checks[4] = Need(Bytes(ElemNum(c.bias), c.in[1].elem) <= c.out.capacity, "BAD_TENSOR")
        /\ checks[5] = Need(Innermost(c.bias) /\ Innermost(c.out), "INCOMPATEBLE_TENSORS")
    BY DEF inputs
  <1>5. \A k \in DOMAIN c.in : inputs[k] = CheckInput(c, k)
    OBVIOUS
  <1> HIDE DEF checks, inputs
  <1>6. FirstOf(inputs) = "OK" /\ CheckTensor(c.bias) = "OK"
    BY <1>3, <1>4
  <1>7. c.bias.rank = 1 /\ c.bias.shape[1] = Neurons(c)
    <2>1. checks[3] = "OK"
      BY <1>3
    <2> QED BY <1>4, <2>1 DEF Need
  <1>8. Bytes(ElemNum(c.bias), c.in[1].elem) <= c.out.capacity
    <2>1. checks[4] = "OK"
      BY <1>3
    <2> QED BY <1>4, <2>1 DEF Need
  <1>9. c.bias.mem_stride[1] = 1 /\ c.out.mem_stride[c.out.rank] = 1
    <2>1. checks[5] = "OK"
      BY <1>3
    <2>2. Innermost(c.bias) /\ Innermost(c.out)
      BY <1>4, <2>1 DEF Need
    <2> QED BY <1>7, <2>2 DEF Innermost
  <1>10. \A k \in DOMAIN c.in : CheckInput(c, k) = "OK"
    <2>1. DOMAIN inputs \subseteq Nat
      BY <1>2, DescriptorsSized
    <2>2. \A k \in DOMAIN inputs : inputs[k] = "OK"
      BY <1>6, <2>1, EachIsOK
    <2> QED BY <1>2, <1>5, <2>2
  <1>11. ElemNum(c.bias) = Neurons(c)
    <2>1. c.bias.shape[1] \in Nat
      <3>1. Descriptor(c.bias)
        BY DEF SizedCall, Sized
      <3>2. c.bias.shape \in [1 .. 4 -> Nat]
        BY <3>1 DEF Descriptor, MaxRank
      <3> HIDE DEF Descriptor
      <3> QED BY <3>2
    <2>2. ElemNum(c.bias) = c.bias.shape[1] * 1 * 1 * 1
      BY <1>7 DEF ElemNum
    <2> QED BY <1>7, <2>1, <2>2
  <1> QED
    BY <1>6, <1>7, <1>8, <1>9, <1>10, <1>11, InputAccessible, DescriptorsSized, SizesAreExact
    DEF Accessible

LEMMA CallAccessible ==
  ASSUME NEW c \in Calls, SizedCall(c), Check(c) = "OK"
  PROVE  Accessible(c)
PROOF
  <1>1. Len(c.in) \in 1 .. MaxInputs
    BY DEF Check
  <1> DEFINE quantized == Quantized(Format[c.format].io)
             own == IF quantized THEN CheckQuantized(c) ELSE CheckFrac(c)
             base == IF c.kernel = "rnn_dense" THEN CheckRnnDense(c) ELSE CheckFullyConnected(c)
             first == <<CheckTypes(c), own, base>>
             last == <<base, CheckTypes(c), own>>
             checked == IF c.kernel = "fully_connected" /\ ~quantized
                        THEN FirstOf(first) ELSE FirstOf(last)
  <1>2. checked = "OK"
    <2>1. Check(c) = IF checked # "OK" \/ ~quantized THEN checked ELSE CheckScale(c)
      BY <1>1 DEF Check
    <2> HIDE DEF checked, quantized
    <2> QED BY <2>1
  <1>3. DOMAIN first = 1 .. 3 /\ DOMAIN last = 1 .. 3 /\ first[3] = base /\ last[1] = base
    OBVIOUS
  <1> HIDE DEF first, last, base, own, quantized
  <1>4. FirstOf(first) = "OK" \/ FirstOf(last) = "OK"
    BY <1>2
  <1>5. base = "OK"
    <2>1. DOMAIN first \subseteq Nat /\ DOMAIN last \subseteq Nat
      BY <1>3
    <2>2. CASE FirstOf(first) = "OK"
      BY <1>3, <2>1, <2>2, EachIsOK
    <2>3. CASE FirstOf(last) = "OK"
      BY <1>3, <2>1, <2>3, EachIsOK
    <2> QED BY <1>4, <2>2, <2>3
  <1>6. c.kernel = "fully_connected" \/ c.kernel = "rnn_dense"
    BY CallsAssumption
  <1>7. CASE c.kernel = "fully_connected"
    BY <1>5, <1>7, FullyConnectedAccessible DEF base
  <1>8. CASE c.kernel = "rnn_dense"
    BY <1>1, <1>5, <1>8, RnnDenseAccessible DEF base
  <1> QED BY <1>6, <1>7, <1>8

-----------------------------------------------------------------------------
(* The loops.                                                              *)

LEMMA InputAnswers ==
  ASSUME NEW c, NEW k
  PROVE  CheckInput(c, k) \in Answers
PROOF
  <1> DEFINE in == c.in[k]
             w == c.weights[k]
             shapes == Need(w.rank = 2 /\ ElemNum(in) = w.shape[1] /\ w.shape[2] = Neurons(c),
                            "SHAPE_MISMATCH")
             strides == Need(Innermost(in) /\ Innermost(w), "INCOMPATEBLE_TENSORS")
  <1>1. "SHAPE_MISMATCH" \in Answers /\ "INCOMPATEBLE_TENSORS" \in Answers
    BY DEF Answers
  <1>2. shapes \in Answers /\ strides \in Answers
    BY <1>1, NeedAnswers
  <1>3. CheckInput(c, k) = FirstOf(<<CheckTensor(in), CheckTensor(w), shapes, strides>>)
    BY DEF CheckInput
  <1> HIDE DEF in, w, shapes, strides
  <1>4. <<CheckTensor(in), CheckTensor(w), shapes, strides>> \in Seq(Answers)
    BY <1>2, TensorAnswers
  <1> QED BY <1>3, <1>4, FirstAnswers

LEMMA ParamsAnswers ==
  ASSUME NEW t, NEW zeros
  PROVE  CheckParams(t, zeros) \in Answers
PROOF
  <1> DEFINE sizes == Need(Quantified(t), "BAD_TENSOR")
             offsets == Need(\A i \in DOMAIN t.zero : t.zero[i] \in zeros, "INCOMPATEBLE_TENSORS")
  <1>1. "OK" \in Answers /\ "BAD_TENSOR" \in Answers /\ "INCOMPATEBLE_TENSORS" \in Answers
    BY DEF Answers
  <1>2. sizes \in Answers /\ offsets \in Answers
    BY <1>1, NeedAnswers
  <1>3. CheckParams(t, zeros) = IF ~Quantized(t.type) THEN "OK" ELSE FirstOf(<<sizes, offsets>>)
    BY DEF CheckParams
  <1> HIDE DEF sizes, offsets
  <1>4. <<sizes, offsets>> \in Seq(Answers)
    BY <1>2
  <1> QED BY <1>1, <1>3, <1>4, FirstAnswers

LEMMA CheckAnswers ==
  ASSUME NEW c \in Calls, SizedCall(c)
  PROVE  Check(c) \in Answers
PROOF
  <1> DEFINE quantized == Quantized(Format[c.format].io)
             own == IF quantized THEN CheckQuantized(c) ELSE CheckFrac(c)
             base == IF c.kernel = "rnn_dense" THEN CheckRnnDense(c) ELSE CheckFullyConnected(c)
  <1>1. "OK" \in Answers /\ "BAD_FUNC_CFG" \in Answers /\ "TYPE_MISMATCH" \in Answers
        /\ "SHAPE_MISMATCH" \in Answers /\ "INCOMPATEBLE_TENSORS" \in Answers
        /\ "BAD_TENSOR" \in Answers /\ "NOT_ENGH_MEM" \in Answers
    BY DEF Answers
  <1>2. CheckFullyConnected(c) \in Answers
    <2> DEFINE in == c.in[1]
               w == c.weights[1]
               shapes == Need(w.rank = 2 /\ c.bias.rank = 1 /\ ElemNum(in) = w.shape[1]
                                /\ c.bias.shape[1] = w.shape[2], "SHAPE_MISMATCH")
               strides == Need(Contiguous(in) /\ Innermost(w) /\ Contiguous(c.bias)
                                 /\ c.out.mem_stride[1] = 1, "INCOMPATEBLE_TENSORS")
               room == Need(Bytes(Neurons(c), in.elem) <= c.out.capacity, "NOT_ENGH_MEM")
    <2>1. shapes \in Answers /\ strides \in Answers /\ room \in Answers
      BY <1>1, NeedAnswers
    <2>2. CheckFullyConnected(c) =
            FirstOf(<<CheckTensor(in), CheckTensor(w), CheckTensor(c.bias), shapes, strides, room>>)
      BY DEF CheckFullyConnected
    <2> HIDE DEF in, w, shapes, strides, room
    <2>3. /\ CheckTensor(in) \in Answers /\ CheckTensor(w) \in Answers
          /\ CheckTensor(c.bias) \in Answers
      BY TensorAnswers
    <2>4. <<CheckTensor(in), CheckTensor(w), CheckTensor(c.bias), shapes, strides, room>>
            \in Seq(Answers)
      BY <2>1, <2>3
    <2> QED BY <2>2, <2>4, FirstAnswers
  <1>3. ASSUME Len(c.in) \in 1 .. MaxInputs
        PROVE  CheckRnnDense(c) \in Answers
    <2> DEFINE inputs == [k \in DOMAIN c.in |-> CheckInput(c, k)]
               shapes == Need(c.bias.rank = 1 /\ c.bias.shape[1] = Neurons(c), "SHAPE_MISMATCH")
               room == Need(Bytes(ElemNum(c.bias), c.in[1].elem) <= c.out.capacity, "BAD_TENSOR")
               strides == Need(Innermost(c.bias) /\ Innermost(c.out), "INCOMPATEBLE_TENSORS")
    <2>1. shapes \in Answers /\ strides \in Answers /\ room \in Answers
      BY <1>1, NeedAnswers
    <2>2. CheckRnnDense(c) = FirstOf(<<FirstOf(inputs), CheckTensor(c.bias), shapes, room, strides>>)
      BY DEF CheckRnnDense
    <2>3. \A k \in DOMAIN c.in : CheckInput(c, k) \in Answers
      BY InputAnswers
    <2>4. inputs \in Seq(Answers)
      BY <1>3, <2>3, DescriptorsSized DEF MaxInputs
    <2> HIDE DEF inputs, shapes, strides, room
    <2>5. FirstOf(inputs) \in Answers /\ CheckTensor(c.bias) \in Answers
      BY <2>4, TensorAnswers, FirstAnswers
    <2>6. <<FirstOf(inputs), CheckTensor(c.bias), shapes, room, strides>> \in Seq(Answers)
      BY <2>1, <2>5
    <2> QED BY <2>2, <2>6, FirstAnswers
  <1>4. CheckTypes(c) \in Answers /\ CheckFrac(c) \in Answers /\ CheckScale(c) \in Answers
    BY <1>1, NeedAnswers DEF CheckTypes, CheckFrac, CheckScale
  <1>5. ASSUME Len(c.in) \in 1 .. MaxInputs
        PROVE  CheckQuantized(c) \in Answers
    <2> DEFINE ofInput(k) ==
                 FirstOf(<<CheckParams(c.in[k], ByteRange), CheckParams(c.weights[k], {0})>>)
               ofInputs == [k \in DOMAIN c.in |-> ofInput(k)]
               inputs == IF c.kernel = "fully_connected" THEN CheckParams(c.in[1], ByteRange)
                         ELSE FirstOf(ofInputs)
               perAxis == IF c.weights[1].dim = 0 THEN c.bias.dim = 0
                          ELSE c.kernel = "fully_connected" /\ c.weights[1].dim = 2
                                 /\ c.bias.dim = 1
               axes == Need(perAxis /\ c.out.dim = 0 /\ \A k \in DOMAIN c.in :
                              c.in[k].dim = 0 /\ (k > 1 => c.weights[k].dim = 0),
                            "INCOMPATEBLE_TENSORS")
    <2>1. ASSUME NEW k \in DOMAIN c.in
          PROVE  ofInput(k) \in Answers
      <3>1. /\ CheckParams(c.in[k], ByteRange) \in Answers
            /\ CheckParams(c.weights[k], {0}) \in Answers
        BY ParamsAnswers
      <3>2. <<CheckParams(c.in[k], ByteRange), CheckParams(c.weights[k], {0})>> \in Seq(Answers)
        BY <3>1
      <3> QED BY <3>2, FirstAnswers
    <2>2. ofInputs \in Seq(Answers)
      <3> HIDE DEF ofInput
      <3> QED BY <1>5, <2>1, DescriptorsSized DEF MaxInputs
    <2>3. axes \in Answers
      BY <1>1, NeedAnswers
    <2>4. CheckQuantized(c) =
            FirstOf(<<inputs, CheckParams(c.out, ByteRange), CheckParams(c.weights[1], {0}),
                      CheckParams(c.bias, {0}), axes>>)
      BY DEF CheckQuantized
    <2> HIDE DEF ofInputs, axes
    <2>5. inputs \in Answers
      BY <2>2, ParamsAnswers, FirstAnswers
    <2> HIDE DEF inputs
    <2>6. /\ CheckParams(c.out, ByteRange) \in Answers
          /\ CheckParams(c.weights[1], {0}) \in Answers /\ CheckParams(c.bias, {0}) \in Answers
      BY ParamsAnswers
    <2>7. <<inputs, CheckParams(c.out, ByteRange), CheckParams(c.weights[1], {0}),
            CheckParams(c.bias, {0}), axes>> \in Seq(Answers)
      BY <2>3, <2>5, <2>6
    <2> QED BY <2>4, <2>7, FirstAnswers
  <1>6. CASE Len(c.in) \in 1 .. MaxInputs
    <2> DEFINE checked == IF c.kernel = "fully_connected" /\ ~quantized
                          THEN FirstOf(<<CheckTypes(c), own, base>>)
                          ELSE FirstOf(<<base, CheckTypes(c), own>>)
    <2>1. own \in Answers /\ base \in Answers
      BY <1>2, <1>3, <1>4, <1>5, <1>6
    <2>2. Check(c) = IF checked # "OK" \/ ~quantized THEN checked ELSE CheckScale(c)
      BY <1>6 DEF Check
    <2> HIDE DEF own, base, quantized
    <2>3. checked \in Answers
      <3>1. <<CheckTypes(c), own, base>> \in Seq(Answers)
            /\ <<base, CheckTypes(c), own>> \in Seq(Answers)
        BY <1>4, <2>1
      <3> QED BY <3>1, FirstAnswers
    <2> HIDE DEF checked
    <2> QED BY <1>4, <2>2, <2>3
  <1>7. CASE Len(c.in) \notin 1 .. MaxInputs
    BY <1>1, <1>7 DEF Check
  <1> QED BY <1>6, <1>7

-----------------------------------------------------------------------------
(* The loops.                                                              *)

Inv ==
  /\ call \in Calls
  /\ neuron \in Nat
  /\ status = "called" => neuron = 0 /\ out = call.out
  /\ status = "running" => Check(call) = "OK" /\ out = Filled(call)
  /\ status = "OK" => Check(call) = "OK" /\ out = FilledAfter(call, Filled(call))

LEMMA Invariance ==
  ASSUME \A c \in Calls : SizedCall(c)
  PROVE  Spec => []Inv
PROOF
  <1>1. Init => Inv
    BY DEF Init, Inv
  <1>2. Inv /\ [Next]_vars => Inv'
    <2> SUFFICES ASSUME Inv, [Next]_vars PROVE Inv'
      OBVIOUS
    <2>1. CASE Refuse
      <3>1. status' = Check(call) /\ call' = call /\ neuron' = neuron
        BY <2>1 DEF Refuse
      <3>2. Check(call) \in Answers /\ Check(call) # "OK"
        BY <2>1, CheckAnswers DEF Inv, Refuse
      <3>3. status' # "called" /\ status' # "running" /\ status' # "OK"
        BY <3>1, <3>2 DEF Answers
      <3> QED BY <3>1, <3>3 DEF Inv
    <2>2. CASE Prepare
      <3>1. /\ status = "called" /\ Check(call) = "OK" /\ status' = "running"
            /\ out' = Filled(call) /\ call' = call /\ neuron' = neuron
        BY <2>2 DEF Prepare
      <3> QED BY <3>1 DEF Inv
    <2>3. CASE Neuron
      BY <2>3 DEF Neuron, Inv
    <2>4. CASE Return
      BY <2>4 DEF Return, Inv
    <2>5. CASE UNCHANGED vars
      BY <2>5 DEF vars, Inv
    <2> QED BY <2>1, <2>2, <2>3, <2>4, <2>5 DEF Next
  <1> QED BY <1>1, <1>2, PTL DEF Spec

(* mli_krn_fully_connected, mli_krn_rnn_dense: whatever the shapes, gaps   *)
(* and number of inputs, each product is of elements inside the buffers of *)
(* input and weights, the bias is read and the result written inside       *)
(* theirs, as long as sizes do not wrap.                                   *)
THEOREM StaysInside ==
  ASSUME \A c \in Calls : SizedCall(c)
  PROVE  Spec => []InsideBuffers
PROOF
  <1>1. Inv => InsideBuffers
    <2> SUFFICES ASSUME Inv, status = "running", neuron < Neurons(call)
                 PROVE  /\ \A k \in DOMAIN call.in : \A i \in Elements(call, k) :
                             /\ (InputCell(call, k, i) + 1) * call.in[k].elem
                                  <= call.in[k].capacity
                             /\ (WeightCell(call, k, neuron + 1, i) + 1) * call.weights[k].elem
                                  <= call.weights[k].capacity
                        /\ (neuron + 1) * call.bias.elem <= call.bias.capacity
                        /\ (neuron + 1) * call.in[1].elem <= out.capacity
      BY DEF InsideBuffers
    <2>1. /\ call \in Calls /\ SizedCall(call) /\ Accessible(call) /\ neuron \in Nat
          /\ out.capacity = call.out.capacity
      <3>1. Filled(call).capacity = call.out.capacity
        BY DEF Inv, SizedCall, Filled
      <3> QED BY <3>1, CallAccessible DEF Inv
    <2>2. Neurons(call) \in Nat
      BY <2>1 DEF Accessible, Neurons, Sized, Descriptor, MaxRank
    <2>3. ASSUME NEW k \in DOMAIN call.in, NEW i \in Elements(call, k)
          PROVE  (InputCell(call, k, i) + 1) * call.in[k].elem <= call.in[k].capacity
      <3> DEFINE t == call.in[k]
      <3>1. Descriptor(t) /\ NoWrap(t) /\ CheckTensor(t) = "OK"
        BY <2>1 DEF Accessible, Sized
      <3>2. ElemNum(t) \in Nat /\ Span(t) \in Nat /\ ElemNum(t) <= Span(t)
        BY <3>1, ElementsWithinSpan
      <3>3. i \in Nat /\ i + 1 <= Span(t)
        BY <3>2 DEF Elements
      <3>4. t.elem \in Nat /\ t.capacity \in Nat
        BY <3>1 DEF Descriptor
      <3>5. Span(t) * t.elem <= t.capacity
        BY <3>1, TensorHasLayout, Accepted, NotReduced DEF Fits, NoWrap
      <3> HIDE DEF t
      <3>6. (i + 1) * t.elem \in Nat /\ Span(t) * t.elem \in Nat
            /\ (i + 1) * t.elem <= Span(t) * t.elem
        BY <3>2, <3>3, <3>4, ProductGrows
      <3>7. (i + 1) * t.elem <= t.capacity
        BY <3>4, <3>5, <3>6
      <3> QED BY <3>7 DEF InputCell, t
    <2>4. ASSUME NEW k \in DOMAIN call.in, NEW i \in Elements(call, k)
          PROVE  (WeightCell(call, k, neuron + 1, i) + 1) * call.weights[k].elem
                   <= call.weights[k].capacity
      <3> DEFINE w == call.weights[k]
                 pos == <<i, neuron, 0, 0>>
      <3>1. /\ Descriptor(w) /\ NoWrap(w) /\ CheckTensor(w) = "OK"
            /\ w.rank = 2 /\ w.mem_stride[2] = 1
            /\ w.shape[1] = ElemNum(call.in[k]) /\ w.shape[2] = Neurons(call)
        BY <2>1 DEF Accessible, Sized
      <3>2. i \in 0 .. w.shape[1] - 1 /\ i \in Int /\ w.mem_stride[1] \in Int
        BY <3>1 DEF Elements, Descriptor, MaxRank
      <3>3. pos \in [1 .. MaxRank -> Int] /\ pos[1] = i /\ pos[2] = neuron
        BY <2>1, <3>2 DEF MaxRank
      <3> HIDE DEF w, pos
      <3>4. IsPosition(w, pos)
        BY <2>1, <2>2, <3>1, <3>2, <3>3 DEF IsPosition, HasPosition, Dims
      <3>5. Offset(w, pos) = i * w.mem_stride[1] + neuron
        <4>1. Offset(w, pos) = pos[1] * w.mem_stride[1] + pos[2] * w.mem_stride[2] + 0 + 0
          BY <3>1 DEF Offset
        <4>2. i * w.mem_stride[1] \in Int /\ neuron \in Int
          BY <2>1, <3>2
        <4> QED BY <3>1, <3>3, <4>1, <4>2
      <3>6. WeightCell(call, k, neuron + 1, i) = Offset(w, pos)
        <4>1. WeightCell(call, k, neuron + 1, i) = (neuron + 1) - 1 + i * w.mem_stride[1]
          BY DEF WeightCell, w
        <4>2. i * w.mem_stride[1] \in Int /\ neuron \in Int
          BY <2>1, <3>2
        <4> QED BY <3>5, <4>1, <4>2
      <3>7. (Offset(w, pos) + 1) * w.elem <= w.capacity
        BY <3>1, <3>4, TensorHasLayout, PositionInside
      <3> QED BY <3>6, <3>7 DEF w
    <2>5. (neuron + 1) * call.bias.elem <= call.bias.capacity
      <3> DEFINE b == call.bias
                 pos == <<neuron, 0, 0, 0>>
      <3>1. /\ Descriptor(b) /\ NoWrap(b) /\ CheckTensor(b) = "OK"
            /\ b.rank = 1 /\ b.mem_stride[1] = 1 /\ b.shape[1] = Neurons(call)
        BY <2>1 DEF Accessible, Sized, SizedCall
      <3>2. pos \in [1 .. MaxRank -> Int] /\ pos[1] = neuron
        BY <2>1 DEF MaxRank
      <3> HIDE DEF b, pos
      <3>3. IsPosition(b, pos)
        BY <2>1, <2>2, <3>1, <3>2 DEF IsPosition, HasPosition, Dims
      <3>4. Offset(b, pos) = neuron
        <4>1. Offset(b, pos) = pos[1] * b.mem_stride[1] + 0 + 0 + 0
          BY <3>1 DEF Offset
        <4> QED BY <2>1, <3>1, <3>2, <4>1
      <3>5. (Offset(b, pos) + 1) * b.elem <= b.capacity
        BY <3>1, <3>3, TensorHasLayout, PositionInside
      <3> QED BY <3>4, <3>5 DEF b
    <2>6. (neuron + 1) * call.in[1].elem <= out.capacity
      <3>1. /\ call.in[1].elem \in Nat
            /\ Neurons(call) * call.in[1].elem <= call.out.capacity /\ call.out.capacity \in Nat
        BY <2>1 DEF Accessible, Sized, Descriptor, SizedCall
      <3>2. neuron + 1 \in Nat /\ neuron + 1 <= Neurons(call)
        BY <2>1, <2>2
      <3>3. /\ (neuron + 1) * call.in[1].elem \in Nat /\ Neurons(call) * call.in[1].elem \in Nat
            /\ (neuron + 1) * call.in[1].elem <= Neurons(call) * call.in[1].elem
        BY <2>2, <3>1, <3>2, ProductGrows
      <3> QED BY <2>1, <3>1, <3>3
    <2> QED BY <2>3, <2>4, <2>5, <2>6
  <1> QED BY Invariance, <1>1, PTL

-----------------------------------------------------------------------------
(* The descriptor of the output.                                           *)

(* What a call leaves in it: rnn_dense keeps type and element size.        *)
LEMMA FilledIn ==
  ASSUME NEW c \in Calls, SizedCall(c),
         c.bias.rank = 1, c.bias.shape[1] = Neurons(c),
         NEW d, d = FilledAfter(c, Filled(c))
  PROVE  /\ d.rank = 1 /\ d.shape[1] = Neurons(c)
         /\ d.mem_stride = c.out.mem_stride /\ d.capacity = c.out.capacity
         /\ c.kernel = "fully_connected" => d.type = c.in[1].type /\ d.elem = c.in[1].elem
         /\ c.kernel = "rnn_dense" => d.elem = c.out.elem
PROOF
  <1>1. /\ {"type", "elem", "shape", "rank", "mem_stride", "capacity"} \subseteq DOMAIN c.out
        /\ DOMAIN c.out.shape = 1 .. 4
    BY DEF SizedCall, Descriptor, MaxRank
  <1>2. CASE c.kernel = "fully_connected"
    <2>1. d = [c.out EXCEPT !.type = c.in[1].type, !.elem = c.in[1].elem,
                            !.shape[1] = Neurons(c), !.rank = 1]
      BY <1>2 DEF Filled, FilledAfter
    <2> QED BY <1>1, <1>2, <2>1
  <1>3. CASE c.kernel = "rnn_dense"
    <2>1. d = [c.out EXCEPT !.rank = 1, !.shape[1] = Neurons(c)]
      BY <1>3 DEF Filled, FilledAfter
    <2> QED BY <1>1, <1>3, <2>1
  <1> QED BY <1>2, <1>3, CallsAssumption

(* A descriptor of rank 1 and stride 1 with room for its elements is one   *)
(* that the check accepts, and finds each element at its index in.         *)
LEMMA VectorAccepted ==
  ASSUME NEW d, NEW n \in Nat \ {0},
         d.rank = 1, d.shape[1] = n, d.mem_stride[1] = 1, d.elem \in Nat, d.capacity \in Nat,
         n * d.elem <= d.capacity, n * d.elem \in 0 .. Modulus - 1
  PROVE  /\ CheckLayout(d) = "OK"
         /\ \A o \in 1 .. n : Offset(d, <<o - 1, 0, 0, 0>>) = o - 1
PROOF
  <1>1. \A pos : pos[1] \in Int => Offset(d, pos) = pos[1]
    BY DEF Offset
  <1>2. Span(d) = n
    <2>1. LastPosition(d)[1] = n - 1
      BY DEF LastPosition, MaxRank
    <2> QED BY <1>1, <2>1 DEF Span
  <1>3. Fits(d)
    BY <1>2, NotReduced DEF Fits
  <1>4. Shaped(d) /\ Strided(d)
    BY DEF Shaped, Strided, Dims, MaxRank
  <1>5. CheckLayout(d) = "OK"
    BY <1>3, <1>4 DEF CheckLayout
  <1>6. ASSUME NEW o \in 1 .. n
        PROVE  Offset(d, <<o - 1, 0, 0, 0>>) = o - 1
    <2>1. <<o - 1, 0, 0, 0>>[1] = o - 1 /\ o - 1 \in Int
      OBVIOUS
    <2> QED BY <1>1, <2>1
  <1> QED BY <1>5, <1>6

(* mli_krn_fully_connected, mli_krn_rnn_dense: the output they leave has   *)
(* rank 1 and as many elements as there are neurons, whatever was in the   *)
(* descriptor, and after a fully connected layer the type of its input.    *)
(* The next kernel accepts it and finds the neurons in it: always after a  *)
(* fully connected layer, after rnn_dense if the client set the first      *)
(* stride to 1 and elements no larger than those of the input.             *)
THEOREM DescribesOutput ==
  ASSUME \A c \in Calls : SizedCall(c)
  PROVE  Spec => []OutputDescribed
PROOF
  <1>1. Inv => OutputDescribed
    <2> SUFFICES ASSUME Inv, status = "OK"
                 PROVE  OutputDescribed
      BY DEF OutputDescribed
    <2> DEFINE n == Neurons(call)
               e == call.in[1].elem
    <2>1. /\ call \in Calls /\ SizedCall(call) /\ Accessible(call)
          /\ out = FilledAfter(call, Filled(call))
      BY CallAccessible DEF Inv
    <2>2. n \in Nat \ {0} /\ e \in Nat
      <3>1. /\ Descriptor(call.weights[1]) /\ CheckTensor(call.weights[1]) = "OK"
            /\ call.weights[1].rank = 2 /\ Descriptor(call.in[1])
        BY <2>1 DEF Accessible, Sized
      <3>2. call.weights[1].shape[2] \in Nat \ {0}
        BY <3>1, TensorHasLayout, Accepted DEF Dims
      <3> QED BY <3>1, <3>2 DEF Neurons, Descriptor
    <2>3. /\ out.rank = 1 /\ out.shape[1] = n
          /\ out.mem_stride = call.out.mem_stride /\ out.capacity = call.out.capacity
          /\ call.kernel = "fully_connected" => out.type = call.in[1].type /\ out.elem = e
          /\ call.kernel = "rnn_dense" => out.elem = call.out.elem
      BY <2>1, FilledIn DEF Accessible
    <2>4. call.kernel \in {"fully_connected", "rnn_dense"}
      BY <2>1, CallsAssumption
    <2>5. ASSUME VectorProvided(call)
          PROVE  /\ CheckLayout(out) = "OK"
                 /\ \A o \in 1 .. n : Offset(out, <<o - 1, 0, 0, 0>>) = o - 1
      <3>1. out.mem_stride[1] = 1
        BY <2>1, <2>3, <2>4, <2>5 DEF Accessible, VectorProvided
      <3>2. out.elem \in Nat /\ out.elem <= e
        BY <2>1, <2>2, <2>3, <2>4, <2>5 DEF VectorProvided, SizedCall, Descriptor
      <3>3. n * e <= out.capacity /\ n * e \in 0 .. Modulus - 1 /\ out.capacity \in Nat
        BY <2>1, <2>3 DEF Accessible, SizedCall, Descriptor
      <3>4. n * out.elem \in Nat /\ n * out.elem <= n * e
        <4>1. /\ out.elem * n \in Nat /\ out.elem * n <= e * n
          BY <2>2, <3>2, ProductGrows
        <4>2. out.elem * n = n * out.elem /\ e * n = n * e
          BY <2>2, <3>2
        <4> QED BY <4>1, <4>2
      <3>5. n * out.elem <= out.capacity /\ n * out.elem \in 0 .. Modulus - 1
        <4> HIDE DEF n, e
        <4> QED BY <3>3, <3>4, ModulusAssumption
      <3> HIDE DEF n, e
      <3> QED BY <2>2, <2>3, <3>1, <3>2, <3>3, <3>5, VectorAccepted
    <2> QED BY <2>3, <2>5 DEF OutputDescribed
  <1> QED BY Invariance, <1>1, PTL

-----------------------------------------------------------------------------
(* Sums.                                                                   *)

(* s has the sums of the first 0, 1, .., n elements of f. *)
Summed(n, f, s) == s = [i \in 0 .. n |-> IF i = 0 THEN 0 ELSE s[i - 1] + f[i - 1]]

LEMMA Smallest ==
  ASSUME NEW S, S \subseteq Nat, S # {}
  PROVE  \E x \in S : \A y \in S : x <= y
PROOF
  <1> DEFINE R == OpToRel(<, Nat)
  <1>1. IsWellFoundedOn(R, Nat) /\ \A x, y \in Nat : <<y, x>> \in R <=> y < x
    BY NatLessThanWellFounded DEF OpToRel
  <1> HIDE DEF R
  <1>2. PICK x \in S : \A y \in S : ~(<<y, x>> \in R)
    BY <1>1, WFMin
  <1>3. ASSUME NEW y \in S
        PROVE  x <= y
    <2>1. x \in Nat /\ y \in Nat /\ ~(y < x)
      BY <1>1, <1>2
    <2> QED BY <2>1
  <1> QED BY <1>3

LEMMA SumsExist ==
  ASSUME NEW f, NEW n \in Nat
  PROVE  \E s : Summed(n, f, s)
PROOF
  <1> DEFINE Missing == {i \in Nat : ~ \E s : Summed(i, f, s)}
  <1>1. SUFFICES ASSUME Missing # {} PROVE FALSE
    OBVIOUS
  <1>2. PICK x \in Missing : \A y \in Missing : x <= y
    <2>1. Missing \subseteq Nat
      OBVIOUS
    <2> HIDE DEF Missing
    <2> QED BY <1>1, <2>1, Smallest
  <1>3. x \in Nat /\ ~ \E s : Summed(x, f, s)
    OBVIOUS
  <1>4. x # 0
    <2> DEFINE s == [i \in 0 .. 0 |-> 0]
    <2>1. Summed(0, f, s)
      BY DEF Summed
    <2> QED BY <1>3, <2>1
  <1>5. x - 1 \in Nat /\ x - 1 \notin Missing
    <2> HIDE DEF Missing
    <2> QED BY <1>2, <1>3, <1>4
  <1>6. PICK s : Summed(x - 1, f, s)
    BY <1>5
  <1> DEFINE g == [i \in 0 .. x |-> IF i = x THEN s[x - 1] + f[x - 1] ELSE s[i]]
             u == [i \in 0 .. x |-> IF i = 0 THEN 0 ELSE g[i - 1] + f[i - 1]]
  <1>7. ASSUME NEW i \in 0 .. x
        PROVE  g[i] = u[i]
    <2>1. CASE i = x
      BY <2>1, <1>3, <1>4
    <2>2. CASE i # x
      <3>1. i \in 0 .. x - 1 /\ g[i] = s[i]
        BY <2>2, <1>3
      <3>2. i # 0 => g[i - 1] = s[i - 1]
        <4>1. i # 0 => i - 1 \in 0 .. x /\ i - 1 # x
          BY <3>1, <1>3
        <4> QED BY <4>1
      <3>3. s[i] = IF i = 0 THEN 0 ELSE s[i - 1] + f[i - 1]
        BY <1>6, <3>1 DEF Summed
      <3> QED BY <3>1, <3>2, <3>3
    <2> QED BY <2>1, <2>2
  <1>8. g = u
    <2>1. g = [i \in 0 .. x |-> g[i]]
      OBVIOUS
    <2> HIDE DEF g
    <2> QED BY <1>7, <2>1
  <1>9. Summed(x, f, g)
    BY <1>8 DEF Summed
  <1> QED BY <1>3, <1>9

(* The sums that the definition of SumTo adds up. *)
LEMMA SumInSteps ==
  ASSUME NEW f, NEW n \in Nat
  PROVE  \E s : /\ SumTo(n, f) = s[n] /\ s[0] = 0
                /\ \A i \in 1 .. n : s[i] = s[i - 1] + f[i - 1]
PROOF
  <1> DEFINE s == CHOOSE t : Summed(n, f, t)
  <1>1. Summed(n, f, s)
    BY SumsExist
  <1>2. SumTo(n, f) = s[n]
    BY DEF SumTo, Summed
  <1> HIDE DEF s
  <1>3. s[0] = 0 /\ \A i \in 1 .. n : s[i] = s[i - 1] + f[i - 1]
    <2>1. s = [i \in 0 .. n |-> IF i = 0 THEN 0 ELSE s[i - 1] + f[i - 1]]
      BY <1>1 DEF Summed
    <2>2. ASSUME NEW i \in 0 .. n
          PROVE  s[i] = IF i = 0 THEN 0 ELSE s[i - 1] + f[i - 1]
      BY ONLY <2>1, <2>2
    <2> QED BY <2>2
  <1> QED BY <1>2, <1>3

(* Sums of integers add up element by element.                             *)
LEMMA SumsAddUp ==
  ASSUME NEW n \in Nat, NEW f, NEW g, NEW h,
         \A i \in 0 .. n - 1 : f[i] \in Int /\ g[i] \in Int /\ h[i] = f[i] + g[i]
  PROVE  /\ SumTo(n, f) \in Int /\ SumTo(n, g) \in Int
         /\ SumTo(n, h) = SumTo(n, f) + SumTo(n, g)
PROOF
  <1>1. PICK a : /\ SumTo(n, f) = a[n] /\ a[0] = 0
                 /\ \A i \in 1 .. n : a[i] = a[i - 1] + f[i - 1]
    BY SumInSteps
  <1>2. PICK b : /\ SumTo(n, g) = b[n] /\ b[0] = 0
                 /\ \A i \in 1 .. n : b[i] = b[i - 1] + g[i - 1]
    BY SumInSteps
  <1>3. PICK c : /\ SumTo(n, h) = c[n] /\ c[0] = 0
                 /\ \A i \in 1 .. n : c[i] = c[i - 1] + h[i - 1]
    BY SumInSteps
  <1> DEFINE Fine(i) == a[i] \in Int /\ b[i] \in Int /\ c[i] = a[i] + b[i]
             Wrong == {i \in 0 .. n : ~Fine(i)}
  <1>4. Wrong = {}
    <2> SUFFICES ASSUME Wrong # {} PROVE FALSE
      OBVIOUS
    <2>1. PICK x \in Wrong : \A y \in Wrong : x <= y
      <3>1. Wrong \subseteq Nat
        OBVIOUS
      <3> HIDE DEF Wrong
      <3> QED BY <3>1, Smallest
    <2>2. x \in 0 .. n /\ ~Fine(x)
      OBVIOUS
    <2>3. x # 0
      <3>1. Fine(0)
        BY <1>1, <1>2, <1>3
      <3> QED BY <2>2, <3>1
    <2>4. x - 1 \in 0 .. n /\ x \in 1 .. n /\ x - 1 \in 0 .. n - 1 /\ x - 1 \notin Wrong
      <3> HIDE DEF Wrong, Fine
      <3> QED BY <2>1, <2>2, <2>3
    <2>5. Fine(x - 1)
      BY <2>4
    <2>6. /\ a[x] = a[x - 1] + f[x - 1] /\ b[x] = b[x - 1] + g[x - 1]
          /\ c[x] = c[x - 1] + h[x - 1]
          /\ f[x - 1] \in Int /\ g[x - 1] \in Int /\ h[x - 1] = f[x - 1] + g[x - 1]
      BY <1>1, <1>2, <1>3, <2>4
    <2>7. Fine(x)
      BY <2>5, <2>6
    <2> QED BY <2>2, <2>7
  <1>5. Fine(n)
    BY <1>4
  <1> QED BY <1>1, <1>2, <1>3, <1>5

LEMMA SumOfNothing ==
  ASSUME NEW n \in Nat, NEW f, \A i \in 0 .. n - 1 : f[i] = 0
  PROVE  SumTo(n, f) = 0
PROOF
  <1>1. PICK a : /\ SumTo(n, f) = a[n] /\ a[0] = 0
                 /\ \A i \in 1 .. n : a[i] = a[i - 1] + f[i - 1]
    BY SumInSteps
  <1> DEFINE Wrong == {i \in 0 .. n : a[i] # 0}
  <1>2. Wrong = {}
    <2> SUFFICES ASSUME Wrong # {} PROVE FALSE
      OBVIOUS
    <2>1. PICK x \in Wrong : \A y \in Wrong : x <= y
      <3>1. Wrong \subseteq Nat
        OBVIOUS
      <3> HIDE DEF Wrong
      <3> QED BY <3>1, Smallest
    <2>2. x \in 0 .. n /\ a[x] # 0
      OBVIOUS
    <2>3. x - 1 \in 0 .. n /\ x \in 1 .. n /\ x - 1 \in 0 .. n - 1 /\ x - 1 \notin Wrong
      <3> HIDE DEF Wrong
      <3>1. x # 0
        BY <1>1, <2>2
      <3> QED BY <2>1, <2>2, <3>1
    <2>4. a[x - 1] = 0 /\ f[x - 1] = 0 /\ a[x] = a[x - 1] + f[x - 1]
      BY <1>1, <2>3
    <2> QED BY <2>2, <2>4
  <1> QED BY <1>1, <1>2

-----------------------------------------------------------------------------
(* The extended bias.                                                      *)

(* A call with an extended bias has numbers where the kernel reads them.   *)
Numbered(c) ==
  c.ext =>
    /\ {"ext", "bias"} \subseteq DOMAIN c /\ "values" \in DOMAIN c.bias
    /\ \A t \in {c.in[1], c.weights[1], c.bias} :
         /\ 1 \in DOMAIN t.zero /\ t.zero[1] \in Int
         /\ \A i \in 0 .. Span(t) - 1 : t.values[i] \in Int

LEMMA PlainFields ==
  ASSUME NEW c, {"ext", "bias"} \subseteq DOMAIN c, "values" \in DOMAIN c.bias,
         Neurons(c) \in Nat
  PROVE  /\ Plain(c).in = c.in /\ Plain(c).weights = c.weights /\ Plain(c).kernel = c.kernel
         /\ Plain(c).format = c.format /\ Plain(c).relu = c.relu /\ Plain(c).ext = FALSE
         /\ Plain(c).bias.type = c.bias.type
         /\ \A o \in 1 .. Neurons(c) :
              Plain(c).bias.values[o - 1] = c.bias.values[o - 1] + ZeroProducts(c, o)
PROOF
  <1> PICK v : v = [i \in 0 .. Neurons(c) - 1 |-> c.bias.values[i] + ZeroProducts(c, i + 1)]
    OBVIOUS
  <1> PICK b : b = [c.bias EXCEPT !.values = v]
    OBVIOUS
  <1>1. Plain(c) = [c EXCEPT !.ext = FALSE, !.bias = b]
    BY DEF Plain
  <1>2. b.values = v /\ b.type = c.bias.type
    OBVIOUS
  <1>3. \A o \in 1 .. Neurons(c) : v[o - 1] = c.bias.values[o - 1] + ZeroProducts(c, o)
    <2> TAKE o \in 1 .. Neurons(c)
    <2>1. o - 1 \in 0 .. Neurons(c) - 1 /\ (o - 1) + 1 = o
      OBVIOUS
    <2> QED BY <2>1
  <1>4. Plain(c).bias = b /\ Plain(c).ext = FALSE
    BY <1>1
  <1>5. /\ Plain(c).in = c.in /\ Plain(c).weights = c.weights /\ Plain(c).kernel = c.kernel
        /\ Plain(c).format = c.format /\ Plain(c).relu = c.relu
    BY <1>1
  <1> QED BY <1>2, <1>3, <1>4, <1>5

(* What the checks of such a call have seen to.                            *)
LEMMA ExtendedCall ==
  ASSUME NEW c \in Calls, SizedCall(c), Numbered(c), c.ext, Check(c) = "OK"
  PROVE  /\ c.kernel = "fully_connected" /\ c.format = "sa8_sa8_sa32"
         /\ DOMAIN c.in = {1}
         /\ Quantized(c.in[1].type) /\ Quantized(c.bias.type)
         /\ c.weights[1].zero[1] = 0
PROOF
  <1>1. c.kernel = "fully_connected" /\ c.format = "sa8_sa8_sa32" /\ Len(c.in) = 1
    BY CallsAssumption
  <1>2. DOMAIN c.in = {1}
    BY <1>1, DescriptorsSized DEF MaxInputs
  <1> DEFINE f == Format[c.format]
             base == CheckFullyConnected(c)
             own == CheckQuantized(c)
             checks == <<base, CheckTypes(c), own>>
  <1>3. Quantized(f.io) /\ f.io = "SA_8" /\ f.w = "SA_8" /\ f.b = "SA_32"
    BY <1>1 DEF Format, Quantized
  <1>4. FirstOf(checks) = "OK"
    BY <1>1, <1>3 DEF Check, MaxInputs
  <1>5. checks[1] = base /\ checks[2] = CheckTypes(c) /\ checks[3] = own /\ DOMAIN checks = 1 .. 3
    OBVIOUS
  <1> HIDE DEF checks
  <1>6. CheckTypes(c) = "OK" /\ own = "OK"
    <2>1. \A i \in 1 .. 3 : checks[i] = "OK"
      BY <1>4, <1>5, EachIsOK
    <2> QED BY <1>5, <2>1
  <1>7. c.in[1].type = "SA_8" /\ c.weights[1].type = "SA_8" /\ c.bias.type = "SA_32"
    BY <1>2, <1>3, <1>6 DEF CheckTypes, Need
  <1>8. CheckParams(c.weights[1], {0}) = "OK"
    <2> DEFINE perAxis ==
                 IF c.weights[1].dim = 0 THEN c.bias.dim = 0
                 ELSE c.kernel = "fully_connected" /\ c.weights[1].dim = 2 /\ c.bias.dim = 1
               last == Need(perAxis /\ c.out.dim = 0 /\ \A k \in DOMAIN c.in :
                              c.in[k].dim = 0 /\ (k > 1 => c.weights[k].dim = 0),
                            "INCOMPATEBLE_TENSORS")
               first == CheckParams(c.in[1], ByteRange)
               second == CheckParams(c.out, ByteRange)
               fourth == CheckParams(c.bias, {0})
               params5 == <<first, second, CheckParams(c.weights[1], {0}), fourth, last>>
    <2>1. FirstOf(params5) = "OK"
      <3> HIDE DEF perAxis
      <3> QED BY <1>1, <1>6 DEF CheckQuantized, perAxis
    <2>2. DOMAIN params5 = 1 .. 5 /\ params5[3] = CheckParams(c.weights[1], {0})
      OBVIOUS
    <2> HIDE DEF params5
    <2> QED BY <2>1, <2>2, EachIsOK
  <1>9. c.weights[1].zero[1] = 0
    <2> DEFINE w == c.weights[1]
               pair == <<Need(Quantified(w), "BAD_TENSOR"),
                         Need(\A i \in DOMAIN w.zero : w.zero[i] \in {0}, "INCOMPATEBLE_TENSORS")>>
    <2>1. FirstOf(pair) = "OK"
      BY <1>7, <1>8 DEF CheckParams, Quantized
    <2>2. DOMAIN pair = 1 .. 2
          /\ pair[2] = Need(\A i \in DOMAIN w.zero : w.zero[i] \in {0}, "INCOMPATEBLE_TENSORS")
      OBVIOUS
    <2> HIDE DEF pair
    <2>3. \A i \in DOMAIN w.zero : w.zero[i] \in {0}
      BY <2>1, <2>2, EachIsOK DEF Need
    <2> QED BY <2>3 DEF Numbered
  <1> QED BY <1>1, <1>2, <1>7, <1>9 DEF Quantized

(* The numbers that meet in a product.                                     *)
LEMMA ProductNumbers ==
  ASSUME NEW c \in Calls, SizedCall(c), Numbered(c), c.ext, Check(c) = "OK",
         NEW o \in 1 .. Neurons(c)
  PROVE  /\ ElemNum(c.in[1]) \in Nat /\ Neurons(c) \in Nat
         /\ c.in[1].zero[1] \in Int /\ c.bias.values[o - 1] \in Int
         /\ \A i \in Elements(c, 1) : Input(c, 1, i) \in Int /\ Weight(c, 1, o, i) \in Int
PROOF
  <1> DEFINE t == c.in[1]
             w == c.weights[1]
             b == c.bias
  <1>1. Accessible(c) /\ 1 \in DOMAIN c.in
    BY CallAccessible DEF Accessible
  <1>2. /\ Descriptor(t) /\ NoWrap(t) /\ CheckTensor(t) = "OK"
        /\ Descriptor(w) /\ NoWrap(w) /\ CheckTensor(w) = "OK"
        /\ w.rank = 2 /\ w.mem_stride[2] = 1 /\ w.shape[1] = ElemNum(t) /\ w.shape[2] = Neurons(c)
    BY <1>1 DEF Accessible, Sized
  <1>3. /\ Descriptor(b) /\ CheckTensor(b) = "OK"
        /\ b.rank = 1 /\ b.mem_stride[1] = 1 /\ b.shape[1] = Neurons(c)
    BY <1>1 DEF Accessible, Sized, SizedCall
  <1>4. ElemNum(t) \in Nat /\ Span(t) \in Nat /\ ElemNum(t) <= Span(t)
    BY <1>2, ElementsWithinSpan
  <1>5. Neurons(c) \in Nat
    BY <1>2 DEF Descriptor, MaxRank
  <1>6. /\ \A i \in 0 .. Span(t) - 1 : t.values[i] \in Int
        /\ \A i \in 0 .. Span(w) - 1 : w.values[i] \in Int
        /\ \A i \in 0 .. Span(b) - 1 : b.values[i] \in Int
        /\ t.zero[1] \in Int
    BY DEF Numbered
  <1> HIDE DEF t, w, b
  <1>7. ASSUME NEW i \in Elements(c, 1)
        PROVE  Input(c, 1, i) \in Int
    <2>1. i \in 0 .. Span(t) - 1
      BY <1>4 DEF Elements, t
    <2> QED BY <1>6, <2>1 DEF Input, InputCell, t
  <1>8. ASSUME NEW i \in Elements(c, 1)
        PROVE  Weight(c, 1, o, i) \in Int
    <2> DEFINE pos == <<i, o - 1, 0, 0>>
    <2>1. i \in 0 .. w.shape[1] - 1 /\ i \in Int /\ w.mem_stride[1] \in Int
      BY <1>2, <1>4 DEF Elements, Descriptor, MaxRank, t
    <2>2. pos \in [1 .. MaxRank -> Int] /\ pos[1] = i /\ pos[2] = o - 1
      BY <1>5, <2>1 DEF MaxRank
    <2> HIDE DEF pos
    <2>3. IsPosition(w, pos)
      BY <1>2, <1>5, <2>1, <2>2 DEF IsPosition, HasPosition, Dims
    <2>4. Offset(w, pos) = WeightCell(c, 1, o, i)
      <3>1. Offset(w, pos) = pos[1] * w.mem_stride[1] + pos[2] * w.mem_stride[2] + 0 + 0
        BY <1>2 DEF Offset
      <3>2. i * w.mem_stride[1] \in Int /\ o - 1 \in Int
        BY <1>5, <2>1
      <3>3. WeightCell(c, 1, o, i) = o - 1 + i * w.mem_stride[1]
        BY DEF WeightCell, w
      <3> QED BY <1>2, <2>2, <3>1, <3>2, <3>3
    <2>5. Offset(w, pos) \in 0 .. Span(w) - 1
      BY <1>2, <2>3, TensorHasLayout, OffsetBelowSpan
    <2> QED BY <1>6, <2>4, <2>5 DEF Weight, w
  <1>9. b.values[o - 1] \in Int
    <2> DEFINE pos == <<o - 1, 0, 0, 0>>
    <2>1. pos \in [1 .. MaxRank -> Int] /\ pos[1] = o - 1
      BY <1>5 DEF MaxRank
    <2> HIDE DEF pos
    <2>2. IsPosition(b, pos)
      BY <1>3, <1>5, <2>1 DEF IsPosition, HasPosition, Dims
    <2>3. Offset(b, pos) = o - 1
      <3>1. Offset(b, pos) = pos[1] * b.mem_stride[1] + 0 + 0 + 0
        BY <1>3 DEF Offset
      <3> QED BY <1>3, <1>5, <2>1, <3>1
    <2>4. Offset(b, pos) \in 0 .. Span(b) - 1
      BY <1>3, <2>2, TensorHasLayout, OffsetBelowSpan
    <2> QED BY <1>6, <2>3, <2>4
  <1> QED BY <1>4, <1>5, <1>6, <1>7, <1>8, <1>9 DEF t, b

(* The same numbers arrive in the accumulator if the products fit.         *)
LEMMA SaturatedSum ==
  ASSUME NEW w, Hi(w) \in Int, NEW x \in Int, NEW y \in Int, NEW b \in Int, NEW e \in Int,
         x = y + e, Fit(w, x), Fit(w, y)
  PROVE  AddSat(w, AddSat(w, Narrow(w, x), Narrow(w, 0)), b)
           = AddSat(w, AddSat(w, Narrow(w, y), Narrow(w, 0)), b + e)
PROOF
  <1>1. Lo(w) = -1 - Hi(w) /\ Lo(w) <= x /\ x <= Hi(w) /\ Lo(w) <= y /\ y <= Hi(w)
    BY DEF Lo, Fit
  <1>2. Hi(w) >= 0 /\ Lo(w) <= 0
    BY <1>1
  <1>3. Narrow(w, x) = x /\ Narrow(w, y) = y /\ Narrow(w, 0) = 0
    BY <1>1, <1>2 DEF Narrow
  <1>4. AddSat(w, x, 0) = x /\ AddSat(w, y, 0) = y
    BY <1>1, <1>2 DEF AddSat
  <1>5. AddSat(w, x, b) = AddSat(w, y, b + e)
    <2> PICK hi \in Int : hi = Hi(w)
      OBVIOUS
    <2>1. /\ AddSat(w, x, b) = IF b > 0 /\ x > hi - b THEN hi
                               ELSE IF b < 0 /\ x < (-1 - hi) - b THEN -1 - hi ELSE x + b
          /\ AddSat(w, y, b + e) = IF b + e > 0 /\ y > hi - (b + e) THEN hi
                               ELSE IF b + e < 0 /\ y < (-1 - hi) - (b + e) THEN -1 - hi
                               ELSE y + (b + e)
      BY <1>1 DEF AddSat
    <2>2. -1 - hi <= x /\ x <= hi /\ -1 - hi <= y /\ y <= hi
      BY <1>1
    <2> QED BY ONLY <2>1, <2>2, x \in Int, y \in Int, b \in Int, e \in Int, hi \in Int, x = y + e
  <1> QED BY <1>3, <1>4, <1>5

(* One neuron: the kernel that leaves the zero point of the input out, and *)
(* finds it in the bias, against the one that subtracts it.                *)
LEMMA SameNeuron ==
  ASSUME NEW c \in Calls, SizedCall(c), Numbered(c), c.ext, Check(c) = "OK",
         NEW o \in 1 .. Neurons(c), NEW d, NEW p, NEW q,
         p = DefineQuant(Plain(c).in[1], Plain(c).weights[1], Plain(c).bias, d),
         q = InOffset(c, DefineQuant(c.in[1], c.weights[1], c.bias, d)),
         Fit(AccBits(c), DotProduct(c, q, 1, o)), Fit(AccBits(c), DotProduct(Plain(c), p, 1, o))
  PROVE  InnerProduct(c, q, d, o) = InnerProduct(Plain(c), p, d, o)
PROOF
  <1> DEFINE e == Plain(c)
             z == c.in[1].zero[1]
             n == ElemNum(c.in[1])
             w == AccBits(c)
  <1>1. /\ n \in Nat /\ z \in Int /\ Neurons(c) \in Nat /\ c.bias.values[o - 1] \in Int
        /\ \A i \in Elements(c, 1) : Input(c, 1, i) \in Int /\ Weight(c, 1, o, i) \in Int
    BY ProductNumbers
  <1>2. /\ c.kernel = "fully_connected" /\ c.format = "sa8_sa8_sa32"
        /\ Quantized(c.in[1].type) /\ Quantized(c.bias.type) /\ c.weights[1].zero[1] = 0
    BY ExtendedCall
  <1>3. /\ e.in = c.in /\ e.weights = c.weights /\ e.kernel = c.kernel
        /\ e.format = c.format /\ e.relu = c.relu /\ e.bias.type = c.bias.type
        /\ e.bias.values[o - 1] = c.bias.values[o - 1] + ZeroProducts(c, o)
    BY <1>1, PlainFields DEF Numbered
  <1>4. /\ p.in_offset = z /\ p.weights_offset = 0
        /\ q.in_offset = 0 /\ q.weights_offset = 0
        /\ q.out_offset = p.out_offset /\ q.ratio = p.ratio /\ q.shift = p.shift
    <2>1. p = DefineQuant(c.in[1], c.weights[1], c.bias, d)
      <3>1. p = DefineQuant(c.in[1], c.weights[1], e.bias, d)
        BY <1>3
      <3> QED BY <1>2, <3>1 DEF DefineQuant
    <2>2. q = [p EXCEPT !.in_offset = 0]
      BY <2>1 DEF InOffset
    <2>3. /\ p.in_offset = z /\ p.weights_offset = 0
          /\ "in_offset" \in DOMAIN p
      <3> DEFINE norm == NormCast(Word, Word, c.in[1].scale[1])
                 ratio == norm.val \div d.scale[1]
                 shift == Word - Short - Norm(Word, ratio)
      <3> PICK r, t : /\ r = Cast(Word, Short, ratio, shift)
                      /\ t = c.in[1].frac[1] - norm.shift - d.frac[1] - shift
        OBVIOUS
      <3>1. p = [in_offset |-> c.in[1].zero[1], weights_offset |-> c.weights[1].zero[1],
                 out_offset |-> d.zero[1], ratio |-> r, shift |-> t]
        BY <1>2, <2>1 DEF DefineQuant
      <3> HIDE DEF norm, ratio, shift
      <3>2. p.in_offset = c.in[1].zero[1] /\ p.weights_offset = c.weights[1].zero[1]
        BY <3>1
      <3>3. "in_offset" \in DOMAIN p
        BY <3>1
      <3> QED BY <1>2, <3>2, <3>3
    <2> QED BY <2>2, <2>3
  <1> DEFINE F == [i \in Elements(c, 1) |-> (Input(c, 1, i) - 0) * Weight(c, 1, o, i)]
             G == [i \in Elements(c, 1) |-> (Input(c, 1, i) - z) * Weight(c, 1, o, i)]
             H == [i \in Elements(c, 1) |-> z * Weight(c, 1, o, i)]
  <1>5. /\ AccBits(e) = w /\ Elements(e, 1) = Elements(c, 1) /\ ElemNum(e.in[1]) = n
        /\ \A i : Input(e, 1, i) = Input(c, 1, i) /\ Weight(e, 1, o, i) = Weight(c, 1, o, i)
    BY <1>3 DEF AccBits, Elements, Input, InputCell, Weight, WeightCell
  <1>6. /\ DotProduct(c, q, 1, o) = SumTo(n, F) /\ DotProduct(e, p, 1, o) = SumTo(n, G)
        /\ ZeroProducts(c, o) = SumTo(n, H)
    <2>1. DotProduct(c, q, 1, o) = SumTo(n, F)
      BY <1>4 DEF DotProduct
    <2>2. DotProduct(e, p, 1, o) = SumTo(n, G)
      <3>1. DotProduct(e, p, 1, o)
              = SumTo(n, [i \in Elements(c, 1) |->
                            (Input(e, 1, i) - p.in_offset) * Weight(e, 1, o, i)])
        BY <1>5 DEF DotProduct
      <3> QED BY <1>4, <1>5, <3>1
    <2>3. ZeroProducts(c, o) = SumTo(n, H)
      BY DEF ZeroProducts
    <2> QED BY <2>1, <2>2, <2>3
  <1>7. /\ SumTo(n, G) \in Int /\ SumTo(n, H) \in Int
        /\ SumTo(n, F) = SumTo(n, G) + SumTo(n, H)
    <2>1. ASSUME NEW i \in 0 .. n - 1
          PROVE  G[i] \in Int /\ H[i] \in Int /\ F[i] = G[i] + H[i]
      <3>1. i \in Elements(c, 1)
        BY DEF Elements
      <3> PICK x \in Int, y \in Int : x = Input(c, 1, i) /\ y = Weight(c, 1, o, i)
        BY <1>1, <3>1
      <3>2. F[i] = (x - 0) * y /\ G[i] = (x - z) * y /\ H[i] = z * y
        BY <3>1
      <3>3. \A a, b, m \in Int : /\ (a - m) * b \in Int /\ m * b \in Int
                                 /\ (a - 0) * b = (a - m) * b + m * b
        OBVIOUS
      <3> HIDE DEF F, G, H, z
      <3> QED BY <1>1, <3>2, <3>3 DEF z
    <2> HIDE DEF F, G, H, e, z, n, w
    <2>2. n \in Nat
      BY <1>1
    <2> QED BY <2>1, <2>2, SumsAddUp
  <1>8. Additives(c, q, 1) = 0 /\ Additives(e, p, 1) = 0
    <2> DEFINE A == [i \in Elements(c, 1) |-> 0 * (0 - Input(c, 1, i))]
               B == [i \in Elements(c, 1) |-> 0 * (z - Input(c, 1, i))]
    <2>1. \A i \in 0 .. n - 1 : A[i] = 0 /\ B[i] = 0
      BY <1>1 DEF Elements
    <2>2. Additives(c, q, 1) = SumTo(n, A)
      BY <1>4 DEF Additives
    <2>3. Additives(e, p, 1) = SumTo(n, B)
      <3>1. Additives(e, p, 1)
              = SumTo(n, [i \in Elements(c, 1) |-> p.weights_offset * (p.in_offset - Input(e, 1, i))])
        BY <1>5 DEF Additives
      <3> QED BY <1>4, <1>5, <3>1
    <2> HIDE DEF A, B
    <2> QED BY <1>1, <2>1, <2>2, <2>3, SumOfNothing
  <1>9. Bias(c, q, o) = c.bias.values[o - 1] /\ Bias(e, p, o) = e.bias.values[o - 1]
    BY <1>2, <1>3 DEF Bias
  <1> PICK x, y, s, b : /\ x = DotProduct(c, q, 1, o) /\ y = DotProduct(e, p, 1, o)
                        /\ s = ZeroProducts(c, o) /\ b = c.bias.values[o - 1]
    OBVIOUS
  <1>10. x = y + s /\ x \in Int /\ y \in Int /\ s \in Int /\ b \in Int /\ Fit(w, x) /\ Fit(w, y)
    <2>1. x = y + s /\ y \in Int /\ s \in Int
      BY <1>6, <1>7
    <2> QED BY <1>1, <2>1
  <1>11. w = Word /\ Hi(w) \in Int
    BY <1>2, WidthAssumption DEF AccBits, Format, Hi, Word
  <1>12. AddSat(w, AddSat(w, Narrow(w, x), Narrow(w, 0)), b)
           = AddSat(w, AddSat(w, Narrow(w, y), Narrow(w, 0)), b + s)
    <2> HIDE DEF w
    <2> QED BY <1>10, <1>11, SaturatedSum
  <1>13. Adjusted(q, c.weights[1], o) = Adjusted(p, e.weights[1], o)
    BY <1>3, <1>4 DEF Adjusted
  <1> DEFINE result(r, acc) ==
        IF Quantized(d.type) THEN Scaled(Adjusted(p, c.weights[1], o), p.out_offset, acc)
        ELSE Cast(w, Bits[d.type], acc, p.shift)
  <1>14. InnerProduct(c, q, d, o)
           = Limited(c.relu, d, result(q, AddSat(w, AddSat(w, Narrow(w, x), Narrow(w, 0)), b)))
    <2> HIDE DEF e, w, F, G, H
    <2> QED BY <1>3, <1>4, <1>8, <1>9, <1>13 DEF InnerProduct, w
  <1>15. InnerProduct(e, p, d, o)
           = Limited(c.relu, d, result(p, AddSat(w, AddSat(w, Narrow(w, y), Narrow(w, 0)), b + s)))
    <2>1. Bias(e, p, o) = b + s
      BY <1>3, <1>9
    <2> HIDE DEF e, w, F, G, H
    <2> QED BY <1>3, <1>5, <1>8, <2>1 DEF InnerProduct
  <1> QED BY <1>12, <1>14, <1>15

(* What the loop has left in the memory of the output. *)
Prepared(c, ps, d) ==
  ps = [k \in DOMAIN c.in |-> InOffset(c, DefineQuant(c.in[k], c.weights[k], c.bias, d))]

Stored ==
  status \in {"running", "OK"} =>
    /\ Prepared(call, params, Filled(call))
    /\ status = "OK" => neuron = Neurons(call)
    /\ \A o \in 1 .. neuron : mem[o - 1] = Value(call, params, Filled(call), o)

LEMMA StoredStays ==
  ASSUME Inv, Stored, [Next]_vars, \A c \in Calls : SizedCall(c)
  PROVE  Stored'
PROOF
  <1>1. CASE Refuse
    <2>1. status' = Check(call) /\ Check(call) \in Answers /\ Check(call) # "OK"
      BY <1>1, CheckAnswers DEF Inv, Refuse
    <2> QED BY <2>1 DEF Stored, Answers
  <1>2. CASE Prepare
    <2>1. /\ status' = "running" /\ call' = call /\ neuron' = 0 /\ out' = Filled(call)
          /\ params' = [k \in DOMAIN call.in |->
               InOffset(call, DefineQuant(call.in[k], call.weights[k], call.bias, out'))]
      BY <1>2 DEF Inv, Prepare
    <2>2. Prepared(call, params, Filled(call))'
      BY <2>1 DEF Prepared
    <2>3. \A o \in 1 .. neuron' : FALSE
      BY <2>1
    <2> QED BY <2>1, <2>2, <2>3 DEF Stored
  <1>3. CASE Neuron
    <2>1. /\ status = "running" /\ status' = "running" /\ call' = call /\ params' = params
          /\ neuron' = neuron + 1 /\ neuron \in Nat /\ out = Filled(call)
          /\ mem' = [i \in 0 .. neuron |->
               IF i = neuron THEN Value(call, params, out, neuron + 1) ELSE mem[i]]
      BY <1>3 DEF Inv, Neuron
    <2>2. Filled(call)' = Filled(call) /\ Prepared(call, params, Filled(call))'
      BY <2>1 DEF Stored, Prepared
    <2>3. ASSUME NEW o \in 1 .. neuron + 1
          PROVE  mem'[o - 1] = Value(call, params, Filled(call), o)
      <3>1. o - 1 \in 0 .. neuron /\ o \in Nat
        BY <2>1
      <3>2. mem'[o - 1] = IF o - 1 = neuron THEN Value(call, params, out, neuron + 1) ELSE mem[o - 1]
        BY <2>1, <3>1
      <3>3. CASE o - 1 = neuron
        <4>1. o = neuron + 1
          BY <2>1, <3>1, <3>3
        <4> QED BY <2>1, <3>2, <3>3, <4>1
      <3>4. CASE o - 1 # neuron
        <4>1. o \in 1 .. neuron
          BY <2>1, <3>1, <3>4
        <4> QED BY <2>1, <3>2, <3>4, <4>1 DEF Stored
      <3> QED BY <3>3, <3>4
    <2>4. \A o \in 1 .. neuron' : mem'[o - 1] = Value(call, params, Filled(call), o)'
      <3>1. \A o : Value(call, params, Filled(call), o)' = Value(call, params, Filled(call), o)
        BY <2>1, <2>2 DEF Value, InnerProduct, RnnDenseOp
      <3> QED BY <2>1, <2>3, <3>1
    <2> QED BY <2>1, <2>2, <2>4 DEF Stored
  <1>4. CASE Return
    <2>1. /\ status = "running" /\ neuron = Neurons(call) /\ call' = call
          /\ params' = params /\ neuron' = neuron /\ mem' = mem
      BY <1>4 DEF Return
    <2> QED BY <2>1 DEF Stored, Prepared
  <1>5. CASE UNCHANGED vars
    BY <1>5 DEF vars, Stored, Prepared
  <1> QED BY <1>1, <1>2, <1>3, <1>4, <1>5 DEF Next

(* mli_krn_fully_connected_sa8_sa8_sa32_ext_bias: whatever the sizes and   *)
(* scales, a neuron that finds what the zero point of the input adds in    *)
(* its bias is equal, to the last bit, to that of the kernel that computes *)
(* it, if the products of neither overflow.                                *)
THEOREM ExtendedBiasSame ==
  ASSUME \A c \in Calls : SizedCall(c) /\ Numbered(c)
  PROVE  Spec => []BiasExtended
PROOF
  <1>1. Init => Stored
    BY DEF Init, Stored
  <1>2. Inv /\ Stored /\ [Next]_vars => Stored'
    BY StoredStays
  <1>3. Inv /\ Stored => BiasExtended
    <2> SUFFICES ASSUME Inv, Stored PROVE BiasExtended
      OBVIOUS
    <2> PICK e : e = Plain(call)
      OBVIOUS
    <2> PICK p : p = DefineQuant(e.in[1], e.weights[1], e.bias, out)
      OBVIOUS
    <2> SUFFICES ASSUME status = "OK", call.ext, NEW o \in 1 .. Neurons(call),
                        Fit(AccBits(e), DotProduct(call, params[1], 1, o)),
                        Fit(AccBits(e), DotProduct(e, p, 1, o))
                 PROVE  mem[o - 1] = Value(e, <<p>>, out, o)
      BY Zenon DEF BiasExtended
    <2>1. /\ call \in Calls /\ SizedCall(call) /\ Numbered(call) /\ Check(call) = "OK"
          /\ out = FilledAfter(call, Filled(call))
      BY DEF Inv
    <2>2. call.kernel = "fully_connected" /\ DOMAIN call.in = {1}
      BY <2>1, ExtendedCall
    <2>3. Neurons(call) \in Nat
      BY <2>1, ProductNumbers
    <2>4. e.kernel = call.kernel /\ e.format = call.format
      BY <2>1, <2>3, PlainFields DEF Numbered
    <2>5. AccBits(e) = AccBits(call)
      BY <2>4 DEF AccBits
    <2>6. out = Filled(call)
      BY <2>1, <2>2 DEF FilledAfter
    <2>7. params[1] = InOffset(call, DefineQuant(call.in[1], call.weights[1], call.bias, out))
      BY <2>2, <2>6 DEF Stored, Prepared
    <2>8. mem[o - 1] = Value(call, params, out, o)
      BY <2>6 DEF Stored
    <2>9. InnerProduct(call, params[1], out, o) = InnerProduct(e, p, out, o)
      BY <2>1, <2>5, <2>7, SameNeuron
    <2>10. /\ Value(call, params, out, o) = InnerProduct(call, params[1], out, o)
           /\ Value(e, <<p>>, out, o) = InnerProduct(e, <<p>>[1], out, o)
      BY <2>2, <2>4 DEF Value
    <2> QED BY <2>8, <2>9, <2>10
  <1>4. Spec => []Inv
    <2>1. \A c \in Calls : SizedCall(c)
      OBVIOUS
    <2> QED BY <2>1, Invariance
  <1> QED BY <1>1, <1>2, <1>3, <1>4, PTL DEF Spec

=============================================================================
