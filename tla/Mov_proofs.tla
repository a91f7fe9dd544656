----------------------------- MODULE Mov_proofs ------------------------------
(***************************************************************************)
(* Proofs about the data movement group.                                   *)
(*                                                                         *)
(* MovTransfer, for every configuration and every sequence of moves into   *)
(* one destination: where the quantization parameters of a source end up,  *)
(* that the descriptor left behind can be relied on, that a move puts what *)
(* its configuration describes where it says, and that it stays inside the *)
(* buffers.                                                                *)
(*                                                                         *)
(* MovPool, for any number of channels, handles and callers.  The          *)
(* invariant PoolInv adds to the properties what makes them inductive:     *)
(* which handles hold no channel, and what a handle about to be started    *)
(* has behind it.                                                          *)
(***************************************************************************)
EXTENDS MovTransfer, MovPool, Access_proofs, FiniteSetTheorems

-----------------------------------------------------------------------------
(***************************************************************************)
(* MovTransfer                                                             *)
(***************************************************************************)

(* Sources are descriptors, an order of dimensions has none of them twice, *)
(* and the application's own arrays are not those of a source.             *)
Movable ==
  /\ {Null, Value, Own} \cap Sources = {} /\ Own \notin {Null, Value}
  /\ \A d \in DstInit : {"dim", "qptr"} \subseteq DOMAIN d
  /\ \A s \in Sources :
       /\ Descriptor(SrcTensor[s]) /\ SrcTensor[s].dim \in 0 .. SrcTensor[s].rank
       /\ \A c \in Cfgs[s] : \A i, j \in Dims(SrcTensor[s]) :
            c.perm_dim[i] = c.perm_dim[j] => i = j

(* No move writes the parameters of a source. *)
SourcesKept ==
  /\ DOMAIN arrays = Sources \cup {Own} /\ \A s \in Sources : arrays[s] = s
  /\ {"dim", "qptr"} \subseteq DOMAIN dst

-----------------------------------------------------------------------------
(* An index of the quantized dimension that is moved whole and in place is *)
(* the one it had in the source. *)
LEMMA AxisStays ==
  ASSUME Movable, NEW s \in Sources, NEW c \in Cfgs[s], PerAxis(s), AxisInPlace(s, c),
         CheckTensor(SrcTensor[s]) = "OK", NEW y \in Part(s, c)
  PROVE  Place(s, c, y)[SrcTensor[s].dim] = Shown(s, c, y)[SrcTensor[s].dim]
PROOF
  <1> DEFINE src == SrcTensor[s]
             p == src.dim
             taken(x) == (IF c.size[x] > 0 THEN c.size[x] ELSE src.shape[x] - c.offset[x])
                           + c.padding_pre[x] + c.padding_post[x]
             ticks(x) == {k \in 0 .. taken(x) : k * c.sub_sample_step[x] < taken(x)}
             sizes == [i \in Dims(src) |-> Cardinality(ticks(c.perm_dim[i]))]
  <1>1. /\ Descriptor(src) /\ p \in 0 .. src.rank
        /\ \A i, j \in Dims(src) : c.perm_dim[i] = c.perm_dim[j] => i = j
    BY DEF Movable
  <1>2. p \in Dims(src) /\ p \in 1 .. MaxRank
    BY <1>1, TensorHasLayout, Accepted DEF PerAxis, Dims, MaxRank, Descriptor
  <1>3. y[p] \in Int
    <2>1. y \in Box(sizes)
      BY DEF Part
    <2>2. DOMAIN sizes = Dims(src)
      OBVIOUS
    <2> HIDE DEF sizes, src, p
    <2>3. \E b : y \in [DOMAIN sizes -> 0 .. b - 1]
      BY <2>1 DEF Box
    <2> QED BY <1>2, <2>2, <2>3
  <1>4. /\ c.perm_dim[p] = p /\ c.offset[p] = 0 /\ c.dst_offset[p] = 0
        /\ c.sub_sample_step[p] = 1 /\ c.padding_pre[p] = 0
    BY DEF AxisInPlace
  <1> DEFINE from == CHOOSE j \in Dims(src) : c.perm_dim[j] = p
  <1>5. from = p
    BY <1>1, <1>2, <1>4
  <1>6. Shown(s, c, y)[p] = c.offset[p] - c.padding_pre[p] + c.sub_sample_step[p] * y[from]
    BY <1>2 DEF Shown
  <1>7. Place(s, c, y)[p] = y[p] + c.dst_offset[p]
    BY <1>2 DEF Place
  <1> HIDE DEF from, p, src
  <1>8. Shown(s, c, y)[p] = Place(s, c, y)[p]
    BY <1>3, <1>4, <1>5, <1>6, <1>7
  <1> QED BY <1>8 DEF p, src

(* The pointer of the destination leads to the parameters of the source,   *)
(* whether it was not given, is that of the source, or its own.            *)
LEMMA ParamsArrive ==
  ASSUME Movable, SourcesKept, NEW s \in Sources, NEW c \in Cfgs[s], Move(s, c)
  PROVE  /\ SourcesKept'
         /\ CheckTensor(SrcTensor[s]) = "OK"
         /\ PerAxis(s) => arrays'[dst'.qptr] = s /\ dst'.dim = SrcTensor[s].dim
PROOF
  <1>1. PICK d \in SetUp(s) : /\ CheckMovement(s, c, d) = "OK"
                              /\ dst' = Filled(s, c, d) /\ arrays' = ParamsMoved(s, d)
    BY DEF Move
  <1>2. CheckTensor(SrcTensor[s]) = "OK"
    BY <1>1 DEF CheckMovement
  <1>3. PICK q \in {Null, s, Own} : \E n : d = [dst EXCEPT !.qptr = q, !.params_cap = n]
    BY <1>1 DEF SetUp
  <1>4. d.qptr = q /\ {"dim", "qptr"} \subseteq DOMAIN d
    BY <1>3 DEF SourcesKept
  <1>5. /\ DOMAIN dst' = DOMAIN d
        /\ dst'.dim = SrcTensor[s].dim
        /\ PerAxis(s) => dst'.qptr = IF q = Null THEN s ELSE q
    BY <1>1, <1>4 DEF Filled
  <1>6. q \notin {Null, s} => q = Own
    OBVIOUS
  <1>7. SourcesKept'
    BY <1>1, <1>4, <1>5, <1>6 DEF SourcesKept, ParamsMoved, Movable
  <1>8. ASSUME PerAxis(s)
        PROVE  arrays'[dst'.qptr] = s
    <2>1. CASE q \in {Null, s}
      BY <1>1, <1>4, <1>5, <1>8, <2>1 DEF ParamsMoved, SourcesKept
    <2>2. CASE q \notin {Null, s}
      <3>1. dst'.qptr = q /\ q \in DOMAIN arrays /\ arrays[s] = s
        BY <1>5, <1>6, <1>8, <2>2 DEF SourcesKept
      <3>2. arrays' = [arrays EXCEPT ![q] = arrays[s]]
        BY <1>1, <1>4, <1>8, <2>2 DEF ParamsMoved
      <3> QED BY <3>1, <3>2
    <2> QED BY <2>1, <2>2
  <1> QED BY <1>2, <1>5, <1>7, <1>8

-----------------------------------------------------------------------------
Inv == SourcesKept /\ ParamsFollowInPlace

LEMMA PrepareFollows ==
  ASSUME Movable, Inv, NEW s \in Sources, NEW c \in Cfgs[s], Prepare(s, c)
  PROVE  Inv'
PROOF
  <1>1. last' = [src |-> s, cfg |-> c] /\ (Move(s, c) \/ Refuse(s, c))
    BY DEF Prepare
  <1>2. last'.src = s /\ last'.cfg = c
    BY <1>1
  <1>3. CASE Move(s, c)
    <2>1. /\ SourcesKept' /\ CheckTensor(SrcTensor[s]) = "OK"
          /\ PerAxis(s) => arrays'[dst'.qptr] = s /\ dst'.dim = SrcTensor[s].dim
      BY <1>3, ParamsArrive DEF Inv
    <2>2. ASSUME PerAxis(s), AxisInPlace(s, c)
          PROVE  /\ arrays'[dst'.qptr] = s
                 /\ \A y \in Part(s, c) : Place(s, c, y)[dst'.dim] = Shown(s, c, y)[SrcTensor[s].dim]
      BY <2>1, <2>2, AxisStays
    <2>3. ParamsFollowInPlace'
      BY <1>2, <2>2 DEF ParamsFollowInPlace, ParamsFollow
    <2> QED BY <2>1, <2>3 DEF Inv
  <1>4. CASE Refuse(s, c)
    <2>1. PICK d \in SetUp(s) : CheckMovement(s, c, d) # "OK" /\ dst' = d
                                /\ ret' = CheckMovement(s, c, d) /\ arrays' = arrays
      BY <1>4 DEF Refuse
    <2>2. {"dim", "qptr"} \subseteq DOMAIN dst'
      BY <2>1 DEF SetUp, Inv, SourcesKept
    <2>3. ParamsFollowInPlace'
      BY <2>1 DEF ParamsFollowInPlace, ParamsFollow
    <2> QED BY <2>1, <2>2, <2>3 DEF Inv, SourcesKept
  <1> QED BY <1>1, <1>3, <1>4

(* mli_mov_prepare: after any sequence of moves, an element of a quantized *)
(* dimension that was moved whole and in place has in the destination the  *)
(* parameters it has in the source.                                        *)
THEOREM ParamsArriveInPlace ==
  ASSUME Movable
  PROVE  Spec => []ParamsFollowInPlace
PROOF
  <1>1. Init => Inv
    <2> SUFFICES ASSUME Init PROVE Inv
      OBVIOUS
    <2>1. SourcesKept
      BY DEF Init, SourcesKept, Movable
    <2>2. ParamsFollowInPlace
      BY DEF Init, ParamsFollowInPlace
    <2> QED BY <2>1, <2>2 DEF Inv
  <1>2. Inv /\ [Next]_vars => Inv'
    <2> SUFFICES ASSUME Inv, [Next]_vars PROVE Inv'
      OBVIOUS
    <2>1. CASE Next
      BY <2>1, PrepareFollows DEF Next
    <2>2. CASE UNCHANGED vars
      BY <2>2 DEF vars, Inv, SourcesKept, ParamsFollowInPlace, ParamsFollow
    <2> QED BY <2>1, <2>2
  <1>3. Inv => ParamsFollowInPlace
    BY DEF Inv
  <1> QED BY <1>1, <1>2, <1>3, PTL DEF Spec

-----------------------------------------------------------------------------
(* Sizes of the model: what a descriptor and a configuration hold.         *)
Fields == {"rank", "shape", "mem_stride", "capacity", "elem", "dim", "qptr", "params_cap"}

(* A descriptor of a destination whose buffer is modelled to its end. *)
Destination(d) == Descriptor(d) /\ Fields \subseteq DOMAIN d /\ d.capacity <= Cells

(* What a configuration holds; its order names dimensions of the source.   *)
Configuration(src, c) ==
  /\ c.offset \in [1 .. MaxRank -> Nat] /\ c.size \in [1 .. MaxRank -> Nat]
  /\ c.dst_offset \in [1 .. MaxRank -> Nat]
  /\ c.padding_pre \in [1 .. MaxRank -> Nat] /\ c.padding_post \in [1 .. MaxRank -> Nat]
  /\ c.sub_sample_step \in [1 .. MaxRank -> Nat \ {0}]
  /\ c.dst_mem_stride \in [1 .. MaxRank -> Int]
  /\ \A i \in Dims(src) : c.perm_dim[i] \in Dims(src)

Sized ==
  /\ Movable /\ Cells \in Nat
  /\ \A d \in DstInit : Destination(d)
  /\ \A s \in Sources : /\ NoWrap(SrcTensor[s])
                        /\ \A c \in Cfgs[s] : Configuration(SrcTensor[s], c)

-----------------------------------------------------------------------------
(* The positions of a box. *)
LEMMA GreatestOf ==
  ASSUME NEW r \in 0 .. 4, NEW f \in [1 .. r -> Nat]
  PROVE  \E x \in {0} \cup {f[i] : i \in 1 .. r} : \A y \in {0} \cup {f[i] : i \in 1 .. r} : x >= y
PROOF
  <1> DEFINE S(n) == {0} \cup {f[i] : i \in 1 .. n}
             Bounded(n) == \E x \in S(n) : x \in Nat /\ \A y \in S(n) : x >= y
  <1>1. Bounded(0)
    OBVIOUS
  <1>2. ASSUME NEW n \in 0 .. 3, n + 1 <= r, Bounded(n)
        PROVE  Bounded(n + 1)
    <2>1. S(n + 1) = S(n) \cup {f[n + 1]} /\ f[n + 1] \in Nat
      <3>1. 1 .. n + 1 = (1 .. n) \cup {n + 1}
        OBVIOUS
      <3> QED BY <1>2, <3>1
    <2>2. PICK x \in S(n) : x \in Nat /\ \A y \in S(n) : x >= y
      BY <1>2
    <2> HIDE DEF S
    <2>3. CASE x >= f[n + 1]
      BY <2>1, <2>2, <2>3
    <2>4. CASE f[n + 1] > x
      <3>1. \A y \in S(n) : f[n + 1] >= y
        <4> TAKE y \in S(n)
        <4>1. x >= y
          BY <2>2
        <4>2. y \in Nat
          BY <1>2 DEF S
        <4> QED BY <2>1, <2>2, <2>4, <4>1, <4>2
      <3> QED BY <2>1, <3>1
    <2> QED BY <2>1, <2>2, <2>3, <2>4
  <1> HIDE DEF Bounded
  <1>3. 1 <= r => Bounded(1)
    BY <1>1, <1>2
  <1>4. 2 <= r => Bounded(2)
    BY <1>2, <1>3
  <1>5. 3 <= r => Bounded(3)
    BY <1>2, <1>4
  <1>6. 4 <= r => Bounded(4)
    BY <1>2, <1>5
  <1>7. Bounded(r)
    <2>1. r = 0 \/ r = 1 \/ r = 2 \/ r = 3 \/ r = 4
      OBVIOUS
    <2> QED BY <1>1, <1>3, <1>4, <1>5, <1>6, <2>1
  <1> QED BY <1>7 DEF Bounded

LEMMA InBox ==
  ASSUME NEW r \in 0 .. 4, NEW sizes \in [1 .. r -> Nat], NEW q
  PROVE  q \in Box(sizes) <=> q \in [1 .. r -> Nat] /\ \A i \in 1 .. r : q[i] < sizes[i]
PROOF
  <1> DEFINE S == {0} \cup {sizes[i] : i \in DOMAIN sizes}
             bound == Max(S)
  <1>1. DOMAIN sizes = 1 .. r
    OBVIOUS
  <1>2. bound \in S /\ \A y \in S : bound >= y
    <2>1. \E x \in S : \A y \in S : x >= y
      BY <1>1, GreatestOf
    <2> HIDE DEF S
    <2> QED BY <2>1 DEF Max
  <1>3. bound \in Nat /\ \A i \in 1 .. r : sizes[i] <= bound
    <2>1. S \subseteq Nat /\ \A i \in 1 .. r : sizes[i] \in S
      BY <1>1
    <2> HIDE DEF S, bound
    <2>2. \A i \in 1 .. r : bound >= sizes[i] /\ sizes[i] \in Nat
      BY <1>2, <2>1
    <2> QED BY <1>2, <2>1, <2>2
  <1>4. Box(sizes) = {x \in [1 .. r -> 0 .. bound - 1] : \A i \in 1 .. r : x[i] < sizes[i]}
    BY <1>1 DEF Box
  <1> HIDE DEF bound
  <1>5. ASSUME q \in [1 .. r -> Nat], \A i \in 1 .. r : q[i] < sizes[i]
        PROVE  q \in [1 .. r -> 0 .. bound - 1]
    <2>1. \A i \in 1 .. r : q[i] \in 0 .. bound - 1
      <3> TAKE i \in 1 .. r
      <3>1. q[i] \in Nat /\ q[i] < sizes[i] /\ sizes[i] <= bound /\ sizes[i] \in Nat
        BY <1>3, <1>5
      <3> QED BY <1>3, <3>1
    <2> QED BY <1>5, <2>1
  <1>6. q \in [1 .. r -> 0 .. bound - 1] => q \in [1 .. r -> Nat]
    BY <1>3
  <1> QED BY <1>4, <1>5, <1>6

(* Every step-th of a indices, counted.                                    *)
LEMMA StepsCounted ==
  ASSUME NEW a \in Nat, NEW b \in Nat \ {0}
  PROVE  /\ CeilDiv(a, b) \in Nat /\ CeilDiv(a, b) <= a
         /\ \A k \in Nat : k < CeilDiv(a, b) <=> k * b < a
         /\ Cardinality({k \in 0 .. a : k * b < a}) = CeilDiv(a, b)
PROOF
  <1> DEFINE n == CeilDiv(a, b)
  <1>1. n \in Nat /\ \A k \in Nat : k < n <=> k * b < a
    BY StepsBelow
  <1> HIDE DEF n
  <1>2. ASSUME NEW k \in Nat
        PROVE  (k < n <=> k * b < a) /\ k <= k * b /\ k * b \in Nat
    <2>1. 1 * k <= b * k /\ b * k \in Nat
      BY ProductGrows
    <2> QED BY <1>1, <2>1
  <1>3. n <= a
    <2>1. CASE n = 0
      BY <2>1
    <2>2. CASE n > 0
      <3>1. n - 1 \in Nat
        BY <1>1, <2>2
      <3>2. (n - 1) * b < a /\ n - 1 <= (n - 1) * b /\ (n - 1) * b \in Nat
        BY <1>1, <1>2, <3>1
      <3> QED BY <1>1, <3>2
    <2> QED BY <1>1, <2>1, <2>2
  <1>4. {k \in 0 .. a : k * b < a} = 0 .. n - 1
    <2> DEFINE P(k) == k * b < a
    <2>1. \A k \in 0 .. a : P(k) <=> k < n
      BY <1>2
    <2> HIDE DEF P
    <2>2. {k \in 0 .. a : P(k)} = 0 .. n - 1
      BY <1>1, <1>3, <2>1
    <2> QED BY <2>2 DEF P
  <1>5. Cardinality(0 .. n - 1) = n
    <2>1. 0 \in Int /\ n - 1 \in Int
      BY <1>1
    <2>2. Cardinality(0 .. n - 1) = IF 0 > n - 1 THEN 0 ELSE (n - 1) - 0 + 1
      BY <2>1, FS_Interval
    <2> QED BY <1>1, <2>2
  <1>6. \A k \in Nat : k < n <=> k * b < a
    BY <1>2
  <1> QED BY <1>1, <1>3, <1>4, <1>5, <1>6 DEF n

-----------------------------------------------------------------------------
(* What the application sets up is a destination. *)
LEMMA SetUpKeeps ==
  ASSUME Sized, NEW s \in Sources, Destination(dst), NEW d \in SetUp(s)
  PROVE  /\ Destination(d) /\ d.elem = dst.elem /\ d.capacity = dst.capacity
         /\ d.rank = dst.rank /\ d.shape = dst.shape /\ d.mem_stride = dst.mem_stride
PROOF
  <1>1. PICK q, n : d = [dst EXCEPT !.qptr = q, !.params_cap = n]
    BY DEF SetUp
  <1>2. /\ DOMAIN d = DOMAIN dst /\ d.elem = dst.elem /\ d.capacity = dst.capacity
        /\ d.rank = dst.rank /\ d.shape = dst.shape /\ d.mem_stride = dst.mem_stride
    BY <1>1 DEF Destination, Fields
  <1> QED BY <1>2 DEF Destination, Descriptor

(* The configuration of an accepted call, dimension by dimension.          *)
LEMMA SizesFit ==
  ASSUME Sized, NEW s \in Sources, NEW c \in Cfgs[s], NEW d, CheckMovement(s, c, d) = "OK",
         NEW i \in Dims(SrcTensor[s])
  PROVE  /\ Descriptor(SrcTensor[s]) /\ CheckLayout(SrcTensor[s]) = "OK"
         /\ SrcTensor[s].rank \in 0 .. 4 /\ i \in 1 .. 4
         /\ c.perm_dim[i] \in Dims(SrcTensor[s]) /\ c.perm_dim[i] \in 1 .. 4
         /\ SrcTensor[s].shape[c.perm_dim[i]] \in Nat \ {0}
         /\ c.offset[c.perm_dim[i]] \in Nat /\ c.padding_pre[c.perm_dim[i]] \in Nat
         /\ c.padding_post[c.perm_dim[i]] \in Nat
         /\ c.sub_sample_step[c.perm_dim[i]] \in Nat \ {0} /\ c.dst_offset[i] \in Nat
         /\ CopySize(s, c, i) \in Nat
         /\ CopySize(s, c, i) + c.offset[c.perm_dim[i]] <= SrcTensor[s].shape[c.perm_dim[i]]
         /\ WriteSize(s, c, i) \in Nat
PROOF
  <1> DEFINE src == SrcTensor[s]
             p == c.perm_dim[i]
  <1>1. Descriptor(src) /\ CheckTensor(src) = "OK" /\ CfgFits(s, c, d) /\ Configuration(src, c)
    BY DEF Sized, Movable, CheckMovement
  <1>2. CheckLayout(src) = "OK" /\ src.rank \in 0 .. 4
    BY <1>1, TensorHasLayout, Accepted DEF MaxRank
  <1>3. p \in Dims(src) /\ p \in 1 .. 4 /\ i \in 1 .. 4
    BY <1>1, <1>2 DEF Configuration, Dims
  <1>4. src.shape[p] \in Nat \ {0}
    BY <1>1, <1>2, <1>3, Accepted
  <1>5. /\ c.offset[p] \in Nat /\ c.padding_pre[p] \in Nat /\ c.padding_post[p] \in Nat
        /\ c.sub_sample_step[p] \in Nat \ {0} /\ c.dst_offset[i] \in Nat /\ c.size[p] \in Nat
    BY <1>1, <1>3 DEF Configuration, MaxRank
  <1>6. c.size[p] + c.offset[p] <= src.shape[p]
    BY <1>1, <1>3 DEF CfgFits
  <1>7. CopySize(s, c, i) = IF c.size[p] > 0 THEN c.size[p] ELSE src.shape[p] - c.offset[p]
    BY DEF CopySize
  <1> HIDE DEF p, src
  <1>8. CopySize(s, c, i) \in Nat /\ CopySize(s, c, i) + c.offset[p] <= src.shape[p]
    BY <1>4, <1>5, <1>6, <1>7
  <1>9. WriteSize(s, c, i) \in Nat
    <2>1. CopySize(s, c, i) + c.padding_pre[p] + c.padding_post[p] \in Nat
      BY <1>5, <1>8
    <2>2. WriteSize(s, c, i) = CeilDiv(CopySize(s, c, i) + c.padding_pre[p] + c.padding_post[p],
                                       c.sub_sample_step[p])
      BY DEF WriteSize, p
    <2> QED BY <1>5, <2>1, <2>2, StepsCounted
  <1> QED BY <1>1, <1>2, <1>3, <1>4, <1>5, <1>8, <1>9 DEF p, src

(* The descriptor mli_mov_prepare fills in. *)
LEMMA FilledDescribes ==
  ASSUME Sized, NEW s \in Sources, NEW c \in Cfgs[s], NEW d, Destination(d),
         CheckMovement(s, c, d) = "OK", NEW e, e = Filled(s, c, d)
  PROVE  /\ Destination(e) /\ e.capacity = d.capacity
         /\ e.rank = SrcTensor[s].rank /\ e.elem = SrcTensor[s].elem
         /\ \A i \in Dims(SrcTensor[s]) : e.shape[i] = WriteSize(s, c, i) + c.dst_offset[i]
PROOF
  <1> DEFINE src == SrcTensor[s]
             shape == [i \in 1 .. MaxRank |->
                         IF i <= src.rank THEN WriteSize(s, c, i) + c.dst_offset[i] ELSE 1]
             given == [i \in 1 .. MaxRank |->
                         IF c.dst_mem_stride[i] # 0 THEN c.dst_mem_stride[i] ELSE d.mem_stride[i]]
  <1>1. Descriptor(src) /\ CheckTensor(src) = "OK" /\ Configuration(src, c)
    BY DEF Sized, Movable, CheckMovement
  <1>2. src.rank \in 0 .. 4
    BY <1>1, TensorHasLayout, Accepted DEF MaxRank
  <1>3. \A i \in Dims(src) : WriteSize(s, c, i) \in Nat /\ c.dst_offset[i] \in Nat
    BY SizesFit
  <1>4. shape \in [1 .. MaxRank -> Nat]
    BY <1>2, <1>3 DEF MaxRank, Dims
  <1>5. given \in [1 .. MaxRank -> Int]
    BY <1>1 DEF Configuration, Destination, Descriptor
  <1>6. \A i \in Dims(src) : shape[i] = WriteSize(s, c, i) + c.dst_offset[i]
    BY <1>2 DEF Dims, MaxRank
  <1> DEFINE strides == Strides(given, shape, src.rank)
  <1>7. strides \in [1 .. MaxRank -> Int]
    <2> HIDE DEF given, shape, src
    <2> QED BY <1>2, <1>4, <1>5, StridesAreInts DEF MaxRank
  <1>8. /\ DOMAIN e = DOMAIN d /\ e.rank = src.rank /\ e.elem = src.elem /\ e.shape = shape
        /\ e.mem_stride = strides /\ e.capacity = d.capacity
    <2>1. \E q, n : e = [d EXCEPT !.rank = src.rank, !.elem = src.elem, !.dim = src.dim,
                                  !.shape = shape, !.mem_stride = strides, !.qptr = q,
                                  !.params_cap = n]
      BY DEF Filled
    <2> HIDE DEF shape, strides, src
    <2> QED BY <2>1 DEF Destination, Fields
  <1> HIDE DEF shape, strides, given, src
  <1>9. Destination(e)
    BY <1>1, <1>2, <1>4, <1>7, <1>8 DEF Destination, Descriptor, Fields
  <1> QED BY <1>6, <1>8, <1>9 DEF src

(* The part of the extended slice that is written has WriteSize indices of *)
(* each dimension. *)
LEMMA PartIsBox ==
  ASSUME Sized, NEW s \in Sources, NEW c \in Cfgs[s], NEW d, CheckMovement(s, c, d) = "OK"
  PROVE  /\ Part(s, c) = Box([i \in Dims(SrcTensor[s]) |-> WriteSize(s, c, i)])
         /\ \A y : y \in Part(s, c) <=>
              y \in [Dims(SrcTensor[s]) -> Nat] /\ \A i \in Dims(SrcTensor[s]) : y[i] < WriteSize(s, c, i)
PROOF
  <1> DEFINE src == SrcTensor[s]
             taken(p) == (IF c.size[p] > 0 THEN c.size[p] ELSE src.shape[p] - c.offset[p])
                           + c.padding_pre[p] + c.padding_post[p]
             ticks(p) == {k \in 0 .. taken(p) : k * c.sub_sample_step[p] < taken(p)}
             sizes == [i \in Dims(src) |-> WriteSize(s, c, i)]
  <1>1. ASSUME NEW i \in Dims(src)
        PROVE  Cardinality(ticks(c.perm_dim[i])) = WriteSize(s, c, i)
    <2> DEFINE p == c.perm_dim[i]
    <2>1. /\ CopySize(s, c, i) \in Nat /\ c.padding_pre[p] \in Nat /\ c.padding_post[p] \in Nat
          /\ c.sub_sample_step[p] \in Nat \ {0}
      BY SizesFit
    <2>2. taken(p) = CopySize(s, c, i) + c.padding_pre[p] + c.padding_post[p]
      BY DEF CopySize
    <2>3. taken(p) \in Nat
      <3> HIDE DEF taken, p
      <3> QED BY <2>1, <2>2
    <2>4. WriteSize(s, c, i) = CeilDiv(taken(p), c.sub_sample_step[p])
      BY <2>2 DEF WriteSize
    <2> HIDE DEF taken
    <2>5. Cardinality({k \in 0 .. taken(p) : k * c.sub_sample_step[p] < taken(p)})
            = CeilDiv(taken(p), c.sub_sample_step[p])
      BY <2>1, <2>3, StepsCounted
    <2> QED BY <2>4, <2>5
  <1>2. Part(s, c) = Box([i \in Dims(src) |-> Cardinality(ticks(c.perm_dim[i]))])
    BY DEF Part
  <1>3. [i \in Dims(src) |-> Cardinality(ticks(c.perm_dim[i]))] = sizes
    <2> HIDE DEF ticks
    <2> QED BY <1>1
  <1>4. Part(s, c) = Box(sizes)
    BY <1>2, <1>3
  <1>5. src.rank \in 0 .. 4 /\ Dims(src) = 1 .. src.rank
    BY TensorHasLayout, Accepted DEF Dims, MaxRank, Sized, Movable, CheckMovement
  <1>6. sizes \in [1 .. src.rank -> Nat]
    <2>1. \A i \in Dims(src) : WriteSize(s, c, i) \in Nat
      BY SizesFit
    <2> QED BY <1>5, <2>1
  <1>7. ASSUME NEW y
        PROVE  y \in Part(s, c) <=>
                 y \in [Dims(src) -> Nat] /\ \A i \in Dims(src) : y[i] < WriteSize(s, c, i)
    <2>1. \A i \in Dims(src) : sizes[i] = WriteSize(s, c, i)
      OBVIOUS
    <2> HIDE DEF sizes, src
    <2>2. y \in Box(sizes) <=>
            y \in [1 .. src.rank -> Nat] /\ \A i \in 1 .. src.rank : y[i] < sizes[i]
      BY <1>5, <1>6, InBox
    <2> QED BY <1>4, <1>5, <2>1, <2>2
  <1> QED BY <1>4, <1>7

-----------------------------------------------------------------------------
(* A call that returns OK, with the destination as it was set up and as it *)
(* is filled in. *)
Accepts(s, c, d, e) ==
  /\ s \in Sources /\ c \in Cfgs[s] /\ Destination(d) /\ CheckMovement(s, c, d) = "OK"
  /\ e = Filled(s, c, d) /\ CheckTensor(e) = "OK" /\ NoWrap(e)

(* A position of the written part lies in the destination, apart from all others. *)
LEMMA Placed ==
  ASSUME Sized, NEW s, NEW c, NEW d, NEW e, Accepts(s, c, d, e), NEW y \in Part(s, c)
  PROVE  /\ IsPosition(e, Place(s, c, y))
         /\ Offset(e, Place(s, c, y)) \in Nat
         /\ (Offset(e, Place(s, c, y)) + 1) * e.elem <= e.capacity
         /\ Offset(e, Place(s, c, y)) \in Cell
         /\ \A z \in Part(s, c) :
              Offset(e, Place(s, c, z)) = Offset(e, Place(s, c, y)) => z = y
PROOF
  <1> DEFINE src == SrcTensor[s]
  <1>1. /\ s \in Sources /\ c \in Cfgs[s] /\ CheckMovement(s, c, d) = "OK" /\ Destination(e)
        /\ CheckLayout(e) = "OK" /\ NoWrap(e) /\ e.rank = src.rank /\ Descriptor(e)
        /\ \A i \in Dims(src) : e.shape[i] = WriteSize(s, c, i) + c.dst_offset[i]
    BY FilledDescribes, TensorHasLayout DEF Accepts, Destination
  <1>2. /\ src.rank \in 0 .. 4 /\ \A i \in Dims(src) : WriteSize(s, c, i) \in Nat /\ c.dst_offset[i] \in Nat
    <2>1. src.rank \in 0 .. 4
      BY <1>1, Accepted DEF MaxRank
    <2> QED BY <1>1, <2>1, SizesFit
  <1>3. ASSUME NEW z \in Part(s, c)
        PROVE  /\ z \in [Dims(src) -> Nat] /\ IsPosition(e, Place(s, c, z))
               /\ \A i \in Dims(src) : Place(s, c, z)[i] = z[i] + c.dst_offset[i]
    <2>1. z \in [Dims(src) -> Nat] /\ \A i \in Dims(src) : z[i] < WriteSize(s, c, i)
      BY <1>1, PartIsBox
    <2>2. \A i \in Dims(src) : z[i] \in Nat /\ z[i] + c.dst_offset[i] \in 0 .. e.shape[i] - 1
      BY <1>1, <1>2, <2>1
    <2>3. Dims(e) = Dims(src) /\ Dims(src) \subseteq 1 .. MaxRank
      BY <1>1, <1>2 DEF Dims, MaxRank
    <2>4. \A i \in Dims(src) : Place(s, c, z)[i] = z[i] + c.dst_offset[i]
      BY <2>3 DEF Place
    <2>5. Place(s, c, z) \in [1 .. MaxRank -> Int]
      BY <1>2, <2>2, <2>3 DEF Place
    <2> QED BY <2>1, <2>2, <2>3, <2>4, <2>5 DEF IsPosition, HasPosition
  <1> HIDE DEF src
  <1>4. 0 <= Offset(e, Place(s, c, y)) /\ (Offset(e, Place(s, c, y)) + 1) * e.elem <= e.capacity
    BY <1>1, <1>3, PositionInside
  <1>5. Offset(e, Place(s, c, y)) \in Int
    BY <1>1, <1>3, TermBounds, OffsetIsSum DEF MaxRank
  <1>6. Offset(e, Place(s, c, y)) \in Cell
    <2> DEFINE o == Offset(e, Place(s, c, y))
    <2>1. o \in Nat /\ e.elem \in Nat \ {0} /\ e.capacity \in Nat /\ e.capacity <= Cells /\ Cells \in Nat
      BY <1>1, <1>4, <1>5 DEF Destination, Descriptor, Sized
    <2>2. (o + 1) * e.elem <= e.capacity
      BY <1>4
    <2> HIDE DEF o
    <2>3. o + 1 <= (o + 1) * e.elem /\ (o + 1) * e.elem \in Nat
      <3>1. o + 1 \in Nat /\ 1 <= e.elem /\ 1 * (o + 1) <= e.elem * (o + 1) /\ e.elem * (o + 1) \in Nat
        BY <2>1, ProductGrows
      <3>2. e.elem * (o + 1) = (o + 1) * e.elem /\ 1 * (o + 1) = o + 1
        BY <2>1
      <3> QED BY <3>1, <3>2
    <2>4. o \in 0 .. Cells - 1
      BY <2>1, <2>2, <2>3
    <2> QED BY <2>4 DEF o, Cell
  <1>7. ASSUME NEW z \in Part(s, c), Offset(e, Place(s, c, z)) = Offset(e, Place(s, c, y))
        PROVE  z = y
    <2>1. \A i \in Dims(e) : Place(s, c, z)[i] = Place(s, c, y)[i]
      BY <1>1, <1>3, <1>7, PositionsApart
    <2>2. \A i \in Dims(src) : z[i] = y[i]
      <3> TAKE i \in Dims(src)
      <3>1. i \in Dims(e)
        BY <1>1 DEF Dims
      <3>2. z[i] + c.dst_offset[i] = y[i] + c.dst_offset[i] /\ z[i] \in Nat /\ y[i] \in Nat
            /\ c.dst_offset[i] \in Nat
        BY <1>2, <1>3, <2>1, <3>1
      <3> QED BY <3>2
    <2> QED BY <1>3, <2>2
  <1> QED BY <1>3, <1>4, <1>5, <1>6, <1>7

(* The coordinates shown at a position, through the order of dimensions.   *)
LEMMA ShownAt ==
  ASSUME Sized, NEW s \in Sources, NEW c \in Cfgs[s], NEW y, NEW i \in Dims(SrcTensor[s])
  PROVE  /\ c.perm_dim[i] \in Dims(SrcTensor[s])
         /\ Shown(s, c, y)[c.perm_dim[i]]
              = c.offset[c.perm_dim[i]] - c.padding_pre[c.perm_dim[i]]
                + c.sub_sample_step[c.perm_dim[i]] * y[i]
PROOF
  <1> DEFINE src == SrcTensor[s]
             at(p) == CHOOSE j \in Dims(src) : c.perm_dim[j] = p
  <1>1. c.perm_dim[i] \in Dims(src) /\ \A j \in Dims(src) : c.perm_dim[j] = c.perm_dim[i] => j = i
    BY DEF Sized, Movable, Configuration
  <1>2. at(c.perm_dim[i]) = i
    BY <1>1
  <1>3. Shown(s, c, y) = [p \in Dims(src) |-> c.offset[p] - c.padding_pre[p]
                                                + c.sub_sample_step[p] * y[at(p)]]
    BY DEF Shown
  <1> HIDE DEF at
  <1> QED BY <1>1, <1>2, <1>3

(* Each dimension of the source is shown in one of the destination.        *)
LEMMA EachIsShown ==
  ASSUME Sized, NEW s \in Sources, NEW c \in Cfgs[s], CheckTensor(SrcTensor[s]) = "OK",
         NEW p \in Dims(SrcTensor[s])
  PROVE  \E i \in Dims(SrcTensor[s]) : c.perm_dim[i] = p
PROOF
  <1> DEFINE r == SrcTensor[s].rank
             f == c.perm_dim
  <1>1. r \in 0 .. 4 /\ Dims(SrcTensor[s]) = 1 .. r
    BY TensorHasLayout, Accepted DEF Dims, MaxRank, Sized, Movable
  <1>2. /\ \A i \in 1 .. r : f[i] \in 1 .. r
        /\ \A i, j \in 1 .. r : f[i] = f[j] => i = j
    <2>1. \A i, j \in Dims(SrcTensor[s]) : f[i] = f[j] => i = j
      BY DEF Sized, Movable
    <2>2. \A i \in Dims(SrcTensor[s]) : f[i] \in Dims(SrcTensor[s])
      BY DEF Sized, Configuration
    <2> HIDE DEF f, r
    <2> QED BY <1>1, <2>1, <2>2
  <1> HIDE DEF r, f
  <1>3. \A i \in 1 .. r : \A j \in i + 1 .. r : f[i] # f[j]
    BY <1>1, <1>2
  <1>4. \E i \in 1 .. r : f[i] = p
    <2>1. r \in 0 .. 4 /\ p \in 1 .. r /\ \A i \in 1 .. r : f[i] \in 1 .. r
      BY <1>1, <1>2
    <2> QED BY <1>3, <2>1, EachDimensionOccurs
  <1> QED BY <1>1, <1>4 DEF r, f

(* What is to be written. *)
Reference(s, c, e) ==
  {[cell |-> Offset(e, Place(s, c, y)), content |-> Extended(s, Shown(s, c, y))] : y \in Part(s, c)}

(* The strides of a source are those it was given. *)
LEMMA SourceStrides ==
  ASSUME Sized, NEW s \in Sources, CheckTensor(SrcTensor[s]) = "OK", NEW i \in Dims(SrcTensor[s])
  PROVE  SrcStrides(s)[i] = SrcTensor[s].mem_stride[i]
PROOF
  <1> DEFINE src == SrcTensor[s]
  <1>1. /\ src.rank \in 0 .. MaxRank /\ i \in 1 .. src.rank /\ src.mem_stride[i] # 0
    BY TensorHasLayout, Accepted DEF Dims, MaxRank, Sized, Movable
  <1>2. SrcStrides(s) = Strides(src.mem_stride, src.shape, src.rank)
    BY DEF SrcStrides
  <1> HIDE DEF src
  <1> QED BY <1>1, <1>2, StridesFollow DEF src

(* An index shown in range, unless there is padding. *)
LEMMA ShownInRange ==
  ASSUME Sized, NEW s \in Sources, NEW c \in Cfgs[s], NEW d, CheckMovement(s, c, d) = "OK",
         NEW y \in Part(s, c), NEW i \in Dims(SrcTensor[s])
  PROVE  /\ Shown(s, c, y)[c.perm_dim[i]] \in Int
         /\ NoPadding(s, c) => Shown(s, c, y)[c.perm_dim[i]] \in 0 .. SrcTensor[s].shape[c.perm_dim[i]] - 1
PROOF
  <1> DEFINE p == c.perm_dim[i]
             x == Shown(s, c, y)[p]
             n == SrcTensor[s].shape[p]
             step == c.sub_sample_step[p]
             size == CopySize(s, c, i)
  <1>1. /\ p \in Dims(SrcTensor[s]) /\ n \in Nat /\ c.offset[p] \in Nat /\ c.padding_pre[p] \in Nat
        /\ c.padding_post[p] \in Nat /\ step \in Nat \ {0} /\ size \in Nat /\ size + c.offset[p] <= n
    BY SizesFit
  <1>2. y[i] \in Nat /\ y[i] < WriteSize(s, c, i)
    BY PartIsBox
  <1>3. x = c.offset[p] - c.padding_pre[p] + step * y[i]
    BY ShownAt
  <1>4. WriteSize(s, c, i) = CeilDiv(size + c.padding_pre[p] + c.padding_post[p], step)
    BY DEF WriteSize
  <1> HIDE DEF p, x, n, step, size
  <1>5. step * y[i] \in Nat /\ step * y[i] = y[i] * step
    BY <1>1, <1>2
  <1>6. ASSUME NoPadding(s, c)
        PROVE  x \in 0 .. n - 1
    <2>1. c.padding_pre[p] = 0 /\ c.padding_post[p] = 0
      BY <1>1, <1>6 DEF NoPadding
    <2>2. size + c.padding_pre[p] + c.padding_post[p] = size
      BY <1>1, <2>1
    <2>3. y[i] * step < size
      BY <1>1, <1>2, <1>4, <2>2, StepsCounted
    <2> QED BY <1>1, <1>3, <1>5, <2>1, <2>3
  <1>7. x \in Int
    BY <1>1, <1>3, <1>5
  <1> QED BY <1>6, <1>7 DEF x, p, n

LEMMA LoopsWrite ==
  ASSUME Sized, NEW s, NEW c, NEW d, NEW e, Accepts(s, c, d, e)
  PROVE  LoopWrites(s, c, e) = Reference(s, c, e)
PROOF
  <1> DEFINE src == SrcTensor[s]
             strides == SrcStrides(s)
             padded == ~NoPadding(s, c)
             spos(q, p, i) == q[i] * c.sub_sample_step[p] + c.offset[p] - c.padding_pre[p]
             at(q) == [i \in 1 .. MaxRank |->
                         IF i <= src.rank THEN spos(q, c.perm_dim[i], i) ELSE 0]
             padding(x) == padded /\ \E i \in Dims(src) : x[i] \notin 0 .. src.shape[c.perm_dim[i]] - 1
             term(x, i) == IF i <= src.rank THEN x[i] * strides[c.perm_dim[i]] ELSE 0
             from(x) == term(x, 1) + term(x, 2) + term(x, 3) + term(x, 4)
             to(q) == Offset(e, [i \in Dims(src) |-> q[i] + c.dst_offset[i]])
             content(x) == IF padding(x) THEN Zero ELSE Elem(s, from(x))
  <1>1. LoopWrites(s, c, e) = {[cell |-> to(q), content |-> content(at(q))] :
                                 q \in Box([i \in Dims(src) |-> WriteSize(s, c, i)])}
    BY DEF LoopWrites
  <1>2. /\ s \in Sources /\ c \in Cfgs[s] /\ CheckMovement(s, c, d) = "OK" /\ CheckTensor(src) = "OK"
        /\ e.rank = src.rank /\ src.rank \in 0 .. 4 /\ Descriptor(src)
    <2>1. s \in Sources /\ CheckTensor(src) = "OK"
      BY DEF Accepts, CheckMovement
    <2>2. src.rank \in 0 .. 4 /\ Descriptor(src)
      BY <2>1, TensorHasLayout, Accepted DEF Sized, Movable, MaxRank
    <2> QED BY <2>1, <2>2, FilledDescribes DEF Accepts
  <1>3. Box([i \in Dims(src) |-> WriteSize(s, c, i)]) = Part(s, c)
    BY <1>2, PartIsBox
  <1>4. ASSUME NEW q \in Part(s, c)
        PROVE  to(q) = Offset(e, Place(s, c, q))
    <2> DEFINE u == [i \in Dims(src) |-> q[i] + c.dst_offset[i]]
    <2>1. \A i \in 1 .. 4 : i <= src.rank => u[i] = Place(s, c, q)[i]
      BY <1>2 DEF Dims, MaxRank, Place
    <2> HIDE DEF u
    <2>2. \A i \in 1 .. 4 : Term(e, u, i) = Term(e, Place(s, c, q), i)
      BY <1>2, <2>1 DEF Term
    <2> QED BY <2>2, OffsetIsSum DEF u
  <1>5. ASSUME NEW q \in Part(s, c)
        PROVE  content(at(q)) = Extended(s, Shown(s, c, q))
    <2> DEFINE x == at(q)
               z == Shown(s, c, q)
    <2>1. ASSUME NEW i \in Dims(src)
          PROVE  x[i] = z[c.perm_dim[i]] /\ c.perm_dim[i] \in Dims(src) /\ i \in 1 .. 4 /\ i <= src.rank
      <3> DEFINE p == c.perm_dim[i]
      <3>1. i \in 1 .. MaxRank /\ i <= src.rank /\ x[i] = q[i] * c.sub_sample_step[p] + c.offset[p] - c.padding_pre[p]
        BY <1>2 DEF Dims, MaxRank
      <3>2. z[p] = c.offset[p] - c.padding_pre[p] + c.sub_sample_step[p] * q[i] /\ p \in Dims(src)
        BY <1>2, ShownAt
      <3>3. /\ c.offset[p] \in Nat /\ c.padding_pre[p] \in Nat /\ c.sub_sample_step[p] \in Nat /\ q[i] \in Nat
        <4>1. /\ c.offset[p] \in Nat /\ c.padding_pre[p] \in Nat /\ c.sub_sample_step[p] \in Nat
          BY <1>2, SizesFit
        <4>2. q[i] \in Nat
          <5>1. \A y : y \in Part(s, c) => y \in [Dims(SrcTensor[s]) -> Nat]
            BY <1>2, PartIsBox
          <5>2. q \in [Dims(src) -> Nat]
            BY <5>1
          <5> QED BY <5>2
        <4> QED BY <4>1, <4>2
      <3> HIDE DEF p, x, z
      <3>4. x[i] = z[p]
        BY <3>1, <3>2, <3>3
      <3>5. i \in 1 .. 4 /\ i <= src.rank
        BY <3>1 DEF MaxRank
      <3>6. p = c.perm_dim[i] /\ p \in Dims(src)
        BY <3>2 DEF p
      <3> HIDE DEF src
      <3> QED BY <3>4, <3>5, <3>6
    <2>2. padding(x) <=> ~HasPosition(src, z)
      <3>1. HasPosition(src, z) <=> \A i \in Dims(src) : x[i] \in 0 .. src.shape[c.perm_dim[i]] - 1
        <4>1. ASSUME NEW p \in Dims(src)
              PROVE  \E i \in Dims(src) : c.perm_dim[i] = p
          BY <1>2, EachIsShown
        <4>2. \A i \in Dims(src) : x[i] = z[c.perm_dim[i]] /\ c.perm_dim[i] \in Dims(src)
          BY <2>1
        <4> HIDE DEF x, z, src
        <4> QED BY <4>1, <4>2 DEF HasPosition
      <3>2. ~padded => HasPosition(src, z)
        <4>1. NoPadding(s, c) =>
                \A i \in Dims(src) : z[c.perm_dim[i]] \in 0 .. src.shape[c.perm_dim[i]] - 1
          BY <1>2, ShownInRange
        <4>2. \A i \in Dims(src) : x[i] = z[c.perm_dim[i]]
          BY <2>1
        <4>3. ~padded <=> NoPadding(s, c)
          OBVIOUS
        <4>4. SUFFICES ASSUME NoPadding(s, c), NEW i \in Dims(src)
                       PROVE  x[i] \in 0 .. src.shape[c.perm_dim[i]] - 1
          <5> HIDE DEF x, z, padded, src
          <5> QED BY <3>1, <4>3
        <4>5. z[c.perm_dim[i]] \in 0 .. src.shape[c.perm_dim[i]] - 1
          BY <4>1, <4>4
        <4>6. x[i] = z[c.perm_dim[i]]
          BY <4>2
        <4> HIDE DEF x, z
        <4> QED BY <4>5, <4>6
      <3> HIDE DEF x, z, padded
      <3> QED BY <3>1, <3>2
    <2>3. from(x) = Offset(src, z)
      <3> DEFINE F == [p \in Dims(src) |-> z[p] * src.mem_stride[p]]
                 f == c.perm_dim
                 r == src.rank
      <3>1. \A i \in Dims(src) : term(x, i) = F[f[i]]
        <4> TAKE i \in Dims(src)
        <4>1. f[i] \in Dims(src) /\ i <= src.rank /\ x[i] = z[f[i]]
          BY <2>1
        <4>2. strides[f[i]] = src.mem_stride[f[i]]
          BY <1>2, <4>1, SourceStrides
        <4> HIDE DEF x, z, strides
        <4> QED BY <4>1, <4>2
      <3>2. /\ \A i \in 1 .. r : f[i] \in 1 .. r
            /\ \A i \in 1 .. r : \A j \in i + 1 .. r : f[i] # f[j]
        <4>1. \A i, j \in Dims(src) : f[i] = f[j] => i = j
          BY <1>2 DEF Sized, Movable
        <4>2. \A i \in Dims(src) : f[i] \in Dims(src)
          BY <2>1
        <4>3. \A i \in 1 .. r : \A j \in i + 1 .. r : i \in Dims(src) /\ j \in Dims(src) /\ i # j
          BY <1>2 DEF Dims
        <4> HIDE DEF f
        <4> QED BY <4>1, <4>2, <4>3 DEF Dims
      <3>3. \A p \in 1 .. r : F[p] \in Int
        <4> TAKE p \in 1 .. r
        <4>1. PICK i \in Dims(src) : f[i] = p
          BY <1>2, EachIsShown DEF Dims
        <4>2. z[p] \in Int
          BY <1>2, <4>1, ShownInRange
        <4>3. src.mem_stride[p] \in Int /\ p \in Dims(src)
          BY <1>2 DEF Descriptor, MaxRank, Dims
        <4> HIDE DEF z, src
        <4> QED BY <4>2, <4>3
      <3>4. \A i \in 1 .. 4 : term(x, i) = IF i <= r THEN F[f[i]] ELSE 0
        BY <3>1 DEF Dims
      <3>5. \A i \in 1 .. 4 : Term(src, z, i) = IF i <= r THEN F[i] ELSE 0
        BY <1>2 DEF Term, Dims
      <3> HIDE DEF F, f, term, x, z
      <3>6. from(x) = (IF 1 <= r THEN F[f[1]] ELSE 0) + (IF 2 <= r THEN F[f[2]] ELSE 0)
                        + (IF 3 <= r THEN F[f[3]] ELSE 0) + (IF 4 <= r THEN F[f[4]] ELSE 0)
        BY <3>4
      <3>7. Offset(src, z) = (IF 1 <= r THEN F[1] ELSE 0) + (IF 2 <= r THEN F[2] ELSE 0)
                               + (IF 3 <= r THEN F[3] ELSE 0) + (IF 4 <= r THEN F[4] ELSE 0)
        BY <3>5, OffsetIsSum
      <3> HIDE DEF from, r
      <3>8. r \in 0 .. 4
        BY <1>2 DEF r
      <3> QED BY <3>2, <3>3, <3>6, <3>7, <3>8, SumInAnyOrder
    <2>4. content(x) = IF padding(x) THEN Zero ELSE Elem(s, from(x))
      OBVIOUS
    <2> HIDE DEF content, padding, from, x, z
    <2> QED BY <2>2, <2>3, <2>4 DEF Extended, x, z
  <1> HIDE DEF to, content, at, src
  <1> QED BY <1>1, <1>3, <1>4, <1>5 DEF Reference, src

(* A block: element for element, source and destination lie alike.         *)
LEMMA BlocksAlike ==
  ASSUME Sized, NEW s, NEW c, NEW d, NEW e, Accepts(s, c, d, e), Single1D(s, c, e)
  PROVE  /\ \A pos : IsPosition(SrcTensor[s], pos) =>
              /\ Offset(SrcTensor[s], pos) \in 0 .. ElemNum(SrcTensor[s]) - 1
              /\ IsPosition(e, pos) /\ Offset(e, pos) = Offset(SrcTensor[s], pos)
         /\ \A n \in 0 .. ElemNum(SrcTensor[s]) - 1 : \E pos :
              IsPosition(SrcTensor[s], pos) /\ Offset(SrcTensor[s], pos) = n
PROOF
  <1> DEFINE src == SrcTensor[s]
  <1>1. /\ s \in Sources /\ c \in Cfgs[s] /\ CheckTensor(src) = "OK" /\ CheckLayout(src) = "OK"
        /\ e.rank = src.rank /\ src.rank \in 0 .. 4 /\ Descriptor(src)
    <2>1. s \in Sources /\ c \in Cfgs[s] /\ CheckTensor(src) = "OK"
      BY DEF Accepts, CheckMovement
    <2>2. src.rank \in 0 .. 4 /\ Descriptor(src) /\ CheckLayout(src) = "OK"
      BY <2>1, TensorHasLayout, Accepted DEF Sized, Movable, MaxRank
    <2> QED BY <2>1, <2>2, FilledDescribes DEF Accepts
  <1>2. \A i \in Dims(src) : /\ SrcStrides(s)[i] = Packed(src)[i]
                             /\ e.mem_stride[i] = Packed(src)[i] /\ src.shape[i] = e.shape[i]
    BY DEF Single1D, Packed
  <1>3. \A i \in Dims(src) : src.mem_stride[i] = Packed(src)[i]
    BY <1>1, <1>2, SourceStrides
  <1>4. ASSUME NEW pos
        PROVE  Offset(e, pos) = Offset(src, pos)
    <2>1. \A i \in 1 .. 4 : Term(e, pos, i) = Term(src, pos, i)
      BY <1>1, <1>2, <1>3 DEF Term, Dims
    <2> QED BY <2>1, OffsetIsSum
  <1>5. ASSUME NEW pos, IsPosition(src, pos)
        PROVE  IsPosition(e, pos)
    BY <1>1, <1>2, <1>5 DEF IsPosition, HasPosition, Dims
  <1> HIDE DEF src
  <1>6. /\ \A pos : IsPosition(src, pos) => Offset(src, pos) \in 0 .. ElemNum(src) - 1
        /\ \A n \in 0 .. ElemNum(src) - 1 : \E pos : IsPosition(src, pos) /\ Offset(src, pos) = n
    BY <1>1, <1>3, PackedIsBlock
  <1> QED BY <1>4, <1>5, <1>6 DEF src

(* What is placed at an offset is not a slice.  A slice placed so that the *)
(* destination gets the shape of the source would be taken for all of it.  *)
PlacedWhole(s, c) ==
  \A i \in Dims(SrcTensor[s]) :
    \/ c.dst_offset[i] = 0
    \/ /\ CopySize(s, c, i) = SrcTensor[s].shape[c.perm_dim[i]]
       /\ c.sub_sample_step[c.perm_dim[i]] = 1

LEMMA WholeInPlace ==
  ASSUME Sized, NEW s, NEW c, NEW d, NEW e, Accepts(s, c, d, e), Single1D(s, c, e),
         PlacedWhole(s, c), NEW i \in Dims(SrcTensor[s])
  PROVE  /\ WriteSize(s, c, i) = SrcTensor[s].shape[i] /\ c.dst_offset[i] = 0
         /\ \A y \in Part(s, c) : Shown(s, c, y)[i] = y[i]
PROOF
  <1> DEFINE n == SrcTensor[s].shape[i]
             step == c.sub_sample_step[i]
             size == CopySize(s, c, i)
             w == WriteSize(s, c, i)
  <1>1. s \in Sources /\ c \in Cfgs[s] /\ CheckMovement(s, c, d) = "OK" /\ Destination(d)
    BY DEF Accepts
  <1>2. /\ c.perm_dim[i] = i /\ c.padding_pre[i] = 0 /\ c.padding_post[i] = 0 /\ n = e.shape[i]
    BY DEF Single1D, NoPadding
  <1>3. /\ n \in Nat \ {0} /\ step \in Nat \ {0} /\ size \in Nat /\ size + c.offset[i] <= n
        /\ c.offset[i] \in Nat /\ c.dst_offset[i] \in Nat /\ w \in Nat
    BY <1>1, <1>2, SizesFit
  <1>4. e.shape[i] = w + c.dst_offset[i]
    BY <1>1, FilledDescribes DEF Accepts
  <1>5. w = CeilDiv(size, step)
    <2>1. size + c.padding_pre[i] + c.padding_post[i] = size
      BY <1>2, <1>3
    <2> QED BY <1>2, <2>1 DEF WriteSize
  <1>6. c.dst_offset[i] = 0 \/ (size = n /\ step = 1)
    BY <1>2 DEF PlacedWhole
  <1>7. ASSUME NEW y \in Part(s, c)
        PROVE  /\ y[i] \in Nat /\ y[i] < w
               /\ Shown(s, c, y)[i] = c.offset[i] - c.padding_pre[i] + step * y[i]
    <2>1. y[i] \in Nat /\ y[i] < w
      BY <1>1, PartIsBox
    <2>2. Shown(s, c, y)[c.perm_dim[i]]
            = c.offset[c.perm_dim[i]] - c.padding_pre[c.perm_dim[i]]
              + c.sub_sample_step[c.perm_dim[i]] * y[i]
      BY <1>1, ShownAt
    <2>3. c.perm_dim[i] = i
      BY <1>2
    <2> QED BY <2>1, <2>2, <2>3
  <1> HIDE DEF n, step, size, w
  <1>8. w <= size /\ \A k \in Nat : k < w <=> k * step < size
    BY <1>3, <1>5, StepsCounted
  <1>9. c.dst_offset[i] = 0
    <2>1. CASE size = n /\ step = 1
      <3>1. (n - 1) * step < size /\ n - 1 \in Nat
        BY <1>3, <2>1
      <3>2. n - 1 < w
        BY <1>8, <3>1
      <3> QED BY <1>2, <1>3, <1>4, <3>2
    <2> QED BY <1>6, <2>1
  <1>10. w = n /\ size = n /\ c.offset[i] = 0
    BY <1>2, <1>3, <1>4, <1>8, <1>9
  <1>11. step = 1 \/ n = 1
    <2>1. n - 1 \in Nat /\ n - 1 < w
      BY <1>3, <1>10
    <2>2. (n - 1) * step < n
      BY <1>8, <1>10, <2>1
    <2>3. step \in Nat /\ step >= 2 => 2 * (n - 1) <= step * (n - 1)
      BY <1>3, <2>1, ProductGrows
    <2>4. step * (n - 1) = (n - 1) * step /\ (n - 1) * step \in Nat
      BY <1>3, <2>1
    <2> QED BY <1>3, <2>1, <2>2, <2>3, <2>4
  <1>12. ASSUME NEW y \in Part(s, c)
         PROVE  Shown(s, c, y)[i] = y[i]
    <2>1. /\ y[i] \in Nat /\ y[i] < n /\ Shown(s, c, y)[i] = c.offset[i] - c.padding_pre[i] + step * y[i]
      BY <1>7, <1>10
    <2>2. step * y[i] = y[i]
      <3>1. CASE step = 1
        BY <2>1, <3>1
      <3>2. CASE n = 1
        <4>1. y[i] = 0
          BY <2>1, <3>2
        <4> QED BY <1>3, <4>1
      <3> QED BY <1>11, <3>1, <3>2
    <2> QED BY <1>2, <1>10, <2>1, <2>2
  <1> QED BY <1>9, <1>10, <1>12 DEF w, n

LEMMA BlockWrites ==
  ASSUME Sized, NEW s, NEW c, NEW d, NEW e, Accepts(s, c, d, e), Single1D(s, c, e),
         PlacedWhole(s, c)
  PROVE  Writes(s, c, e) = Reference(s, c, e)
PROOF
  <1> DEFINE src == SrcTensor[s]
             n == ElemNum(src)
             full(y) == [i \in 1 .. MaxRank |-> IF i \in Dims(src) THEN y[i] ELSE 0]
             cut(pos) == [i \in Dims(src) |-> pos[i]]
  <1>1. Writes(s, c, e) = {[cell |-> k, content |-> Elem(s, k)] : k \in 0 .. n - 1}
    BY DEF Writes
  <1>2. /\ s \in Sources /\ c \in Cfgs[s] /\ CheckMovement(s, c, d) = "OK" /\ CheckTensor(src) = "OK"
        /\ e.rank = src.rank /\ src.rank \in 0 .. 4
    <2>1. s \in Sources /\ CheckTensor(src) = "OK"
      BY DEF Accepts, CheckMovement
    <2>2. src.rank \in 0 .. 4
      BY <2>1, TensorHasLayout, Accepted DEF Sized, Movable, MaxRank
    <2> QED BY <2>1, <2>2, FilledDescribes DEF Accepts
  <1>3. \A i \in Dims(src) : WriteSize(s, c, i) = src.shape[i] /\ c.dst_offset[i] = 0
    BY WholeInPlace
  <1>4. \A y \in Part(s, c), i \in Dims(src) : Shown(s, c, y)[i] = y[i]
    BY WholeInPlace
  <1>5. ASSUME NEW y \in Part(s, c)
        PROVE  /\ IsPosition(src, full(y)) /\ Offset(e, Place(s, c, y)) = Offset(src, full(y))
               /\ Extended(s, Shown(s, c, y)) = Elem(s, Offset(src, full(y)))
    <2>1. y \in [Dims(src) -> Nat] /\ \A i \in Dims(src) : y[i] < WriteSize(s, c, i)
      BY <1>2, PartIsBox
    <2>2. Dims(src) \subseteq 1 .. MaxRank
      BY <1>2 DEF Dims, MaxRank
    <2>3. full(y) \in [1 .. MaxRank -> Int] /\ \A i \in Dims(src) : full(y)[i] = y[i]
      BY <2>1, <2>2
    <2> DEFINE f == full(y)
    <2> HIDE DEF f
    <2>4. \A i \in Dims(src) : y[i] \in 0 .. src.shape[i] - 1
      <3> TAKE i \in Dims(src)
      <3>1. WriteSize(s, c, i) \in Nat /\ WriteSize(s, c, i) = src.shape[i]
        BY <1>2, <1>3, SizesFit
      <3>2. y[i] \in Nat /\ y[i] < WriteSize(s, c, i)
        BY <2>1
      <3> QED BY <3>1, <3>2
    <2>5. IsPosition(src, f)
      BY <2>3, <2>4 DEF IsPosition, HasPosition, f
    <2>6. \A i \in 1 .. 4 : Term(e, Place(s, c, y), i) = Term(e, f, i)
      <3> TAKE i \in 1 .. 4
      <3>1. CASE i <= src.rank
        <4>1. i \in Dims(src) /\ y[i] \in Nat /\ c.dst_offset[i] = 0
          BY <1>3, <2>1, <3>1 DEF Dims
        <4>2. Place(s, c, y)[i] = f[i]
          BY <2>2, <2>3, <4>1 DEF Place, f
        <4> QED BY <4>2 DEF Term
      <3>2. CASE ~(i <= src.rank)
        BY <1>2, <3>2 DEF Term
      <3> QED BY <3>1, <3>2
    <2>7. Offset(e, Place(s, c, y)) = Offset(e, f)
      BY <2>6, OffsetIsSum
    <2>8. Offset(e, f) = Offset(src, f)
      BY <2>5, BlocksAlike
    <2>9. HasPosition(src, Shown(s, c, y)) /\ Offset(src, Shown(s, c, y)) = Offset(src, f)
      <3>1. \A i \in Dims(src) : Shown(s, c, y)[i] = f[i]
        BY <1>4, <2>3 DEF f
      <3>2. HasPosition(src, Shown(s, c, y))
        BY <2>5, <3>1 DEF HasPosition, IsPosition
      <3>3. \A i \in 1 .. 4 : Term(src, Shown(s, c, y), i) = Term(src, f, i)
        BY <1>2, <3>1 DEF Term, Dims
      <3> QED BY <3>2, <3>3, OffsetIsSum
    <2> HIDE DEF src
    <2> QED BY <2>5, <2>7, <2>8, <2>9 DEF Extended, f, src
  <1>6. ASSUME NEW k \in 0 .. n - 1
        PROVE  \E y \in Part(s, c) : Offset(src, full(y)) = k
    <2>1. PICK pos : IsPosition(src, pos) /\ Offset(src, pos) = k
      BY BlocksAlike
    <2>2. cut(pos) \in Part(s, c)
      <3>1. \A i \in Dims(src) : pos[i] \in Nat /\ pos[i] < WriteSize(s, c, i)
        <4> TAKE i \in Dims(src)
        <4>1. pos[i] \in 0 .. src.shape[i] - 1
          BY <2>1 DEF IsPosition, HasPosition
        <4>2. src.shape[i] \in Int
          BY <1>2, <1>3, SizesFit
        <4> QED BY <1>3, <4>1, <4>2
      <3> QED BY <1>2, <3>1, PartIsBox
    <2>3. \A i \in Dims(src) : full(cut(pos))[i] = pos[i]
      BY <1>2 DEF Dims, MaxRank
    <2> HIDE DEF full, cut
    <2>4. \A i \in 1 .. 4 : Term(src, full(cut(pos)), i) = Term(src, pos, i)
      BY <1>2, <2>3 DEF Term, Dims
    <2>5. Offset(src, full(cut(pos))) = k
      BY <2>1, <2>4, OffsetIsSum
    <2> QED BY <2>2, <2>5
  <1>7. \A y \in Part(s, c) : Offset(src, full(y)) \in 0 .. n - 1
    BY <1>5, BlocksAlike
  <1> HIDE DEF full, src, n
  <1> QED BY <1>1, <1>5, <1>6, <1>7 DEF Reference

(* Whichever copy the code chooses, it writes what is to be written.       *)
LEMMA WritesReference ==
  ASSUME Sized, NEW s, NEW c, NEW d, NEW e, Accepts(s, c, d, e), PlacedWhole(s, c)
  PROVE  Writes(s, c, e) = Reference(s, c, e)
PROOF
  <1>1. CASE Single1D(s, c, e)
    BY <1>1, BlockWrites
  <1>2. CASE ~Single1D(s, c, e)
    BY <1>2, LoopsWrite DEF Writes
  <1> QED BY <1>1, <1>2

-----------------------------------------------------------------------------
(* The cells of an accepted tensor lie in its buffer, and each position    *)
(* has one of its own. *)
LEMMA CellsApart ==
  ASSUME NEW t, Descriptor(t), CheckLayout(t) = "OK", NoWrap(t), NEW positions,
         positions = Box([i \in Dims(t) |-> t.shape[i]]), NEW cells,
         cells = {Offset(t, q) : q \in positions}
  PROVE  /\ \A i \in cells : i >= 0 /\ (i + 1) * t.elem <= t.capacity
         /\ Cardinality(cells) = Cardinality(positions)
PROOF
  <1> DEFINE full(q) == [i \in 1 .. MaxRank |-> IF i <= t.rank THEN q[i] ELSE 0]
             f == [q \in positions |-> Offset(t, q)]
  <1>1. t.rank \in 0 .. 4 /\ Dims(t) = 1 .. t.rank /\ \A i \in 1 .. t.rank : t.shape[i] \in Nat
    BY Accepted DEF MaxRank, Dims
  <1>2. ASSUME NEW q \in positions
        PROVE  /\ q \in [1 .. t.rank -> Nat] /\ IsPosition(t, full(q))
               /\ Offset(t, q) = Offset(t, full(q))
    <2> DEFINE sizes == [i \in Dims(t) |-> t.shape[i]]
    <2>1. sizes \in [1 .. t.rank -> Nat] /\ \A i \in 1 .. t.rank : sizes[i] = t.shape[i]
      BY <1>1
    <2> HIDE DEF sizes
    <2>2. q \in [1 .. t.rank -> Nat] /\ \A i \in 1 .. t.rank : q[i] < sizes[i]
      BY <1>1, <2>1, InBox DEF sizes
    <2>3. full(q) \in [1 .. MaxRank -> Int]
      BY <1>1, <2>2 DEF MaxRank
    <2>4. \A i \in 1 .. t.rank : full(q)[i] = q[i] /\ q[i] \in 0 .. t.shape[i] - 1
      <3> TAKE i \in 1 .. t.rank
      <3>1. q[i] \in Nat /\ q[i] < t.shape[i] /\ t.shape[i] \in Nat
        BY <1>1, <2>1, <2>2
      <3>2. i \in 1 .. MaxRank /\ i <= t.rank
        BY <1>1 DEF MaxRank
      <3> QED BY <3>1, <3>2
    <2> HIDE DEF full
    <2>5. IsPosition(t, full(q))
      BY <1>1, <2>3, <2>4 DEF IsPosition, HasPosition
    <2>6. \A i \in 1 .. 4 : Term(t, q, i) = Term(t, full(q), i)
      BY <2>4 DEF Term
    <2> QED BY <2>2, <2>5, <2>6, OffsetIsSum
  <1>3. \A q \in positions : 0 <= Offset(t, q) /\ (Offset(t, q) + 1) * t.elem <= t.capacity
    <2> HIDE DEF full
    <2> QED BY <1>2, PositionInside
  <1>4. \A i \in cells : i >= 0 /\ (i + 1) * t.elem <= t.capacity
    BY <1>3
  <1>5. ASSUME NEW p \in positions, NEW q \in positions, Offset(t, p) = Offset(t, q)
        PROVE  p = q
    <2>1. \A i \in Dims(t) : full(p)[i] = full(q)[i]
      <3> HIDE DEF full
      <3> QED BY <1>2, <1>5, PositionsApart
    <2>2. \A i \in 1 .. t.rank : p[i] = q[i]
      <3> TAKE i \in 1 .. t.rank
      <3>1. i \in 1 .. MaxRank /\ i <= t.rank /\ i \in Dims(t)
        BY <1>1 DEF MaxRank
      <3>2. full(p)[i] = p[i] /\ full(q)[i] = q[i]
        BY <3>1
      <3> HIDE DEF full
      <3> QED BY <2>1, <3>1, <3>2
    <2>3. p \in [1 .. t.rank -> Nat] /\ q \in [1 .. t.rank -> Nat]
      BY <1>2
    <2> DEFINE D == 1 .. t.rank
    <2>4. \A i \in D : p[i] = q[i]
      BY <2>2
    <2>5. p \in [D -> Nat] /\ q \in [D -> Nat]
      BY <2>3
    <2> HIDE DEF D
    <2> QED BY ONLY <2>4, <2>5
  <1>6. f \in Injection(positions, cells) /\ f \in Surjection(positions, cells)
    <2>1. f \in [positions -> cells]
      OBVIOUS
    <2>2. \A c \in cells : \E q \in positions : f[q] = c
      OBVIOUS
    <2>3. \A p, q \in positions : f[p] = f[q] => p = q
      BY <1>5
    <2> HIDE DEF f
    <2> QED BY <2>1, <2>2, <2>3 DEF Injection, Surjection, IsInjective
  <1>7. IsFiniteSet(cells)
    <2>1. \A q \in positions : Offset(t, q) \in Int
      <3> TAKE q \in positions
      <3>1. \A d \in 1 .. MaxRank : Term(t, full(q), d) \in Nat
        <4> HIDE DEF full
        <4> QED BY <1>2, TermBounds
      <3> QED BY <1>2, <3>1, OffsetIsSum DEF MaxRank
    <2>2. t.elem \in Nat \ {0} /\ t.capacity \in Nat
      BY DEF Descriptor
    <2>3. \A i \in cells : i \in 0 .. t.capacity
      <3> TAKE i \in cells
      <3>1. i \in Nat /\ (i + 1) * t.elem <= t.capacity
        BY <1>4, <2>1
      <3>2. 1 * (i + 1) <= t.elem * (i + 1) /\ t.elem * (i + 1) = (i + 1) * t.elem
        <4>1. i + 1 \in Nat /\ 1 <= t.elem
          BY <2>2, <3>1
        <4>2. 1 * (i + 1) <= t.elem * (i + 1)
          BY <2>2, <4>1, ProductGrows
        <4> QED BY <2>2, <4>1, <4>2
      <3> QED BY <2>2, <3>1, <3>2
    <2>4. 0 \in Int /\ t.capacity \in Int
      BY <2>2
    <2>5. IsFiniteSet(0 .. t.capacity)
      BY <2>4, FS_Interval
    <2>6. cells \in SUBSET (0 .. t.capacity)
      BY <2>3
    <2> QED BY <2>5, <2>6, FS_Subset
  <1> HIDE DEF f
  <1>8. Cardinality(cells) = Cardinality(positions)
    BY <1>6, <1>7, FS_Injection
  <1> QED BY <1>4, <1>8

-----------------------------------------------------------------------------
(* The destination stays a descriptor, and one that a move returned OK for *)
(* has passed the check as it is. *)
Checked ==
  /\ Destination(dst)
  /\ calls > 0 /\ ret = "OK" => CheckTensor(dst) = "OK"

LEMMA CheckedHolds ==
  ASSUME Sized
  PROVE  /\ Init => Checked
         /\ Checked /\ [Next]_vars => Checked'
PROOF
  <1>1. ASSUME Init PROVE Checked
    BY <1>1 DEF Init, Checked, Sized
  <1>2. ASSUME Checked, Next PROVE Checked'
    <2>1. PICK s \in Sources : \E c \in Cfgs[s] : Prepare(s, c)
      BY <1>2 DEF Next
    <2>2. PICK c \in Cfgs[s] : Prepare(s, c)
      BY <2>1
    <2>3. CASE Move(s, c)
      <3>1. PICK d \in SetUp(s) : /\ CheckMovement(s, c, d) = "OK" /\ dst' = Filled(s, c, d)
                                  /\ ret' = CheckTensor(dst')
        BY <2>3 DEF Move
      <3>2. Destination(d)
        BY <1>2, SetUpKeeps DEF Checked
      <3>3. Destination(dst')
        BY <3>1, <3>2, FilledDescribes
      <3> QED BY <3>1, <3>3 DEF Checked, Destination, Descriptor
    <2>4. CASE Refuse(s, c)
      <3>1. PICK d \in SetUp(s) : dst' = d /\ ret' # "OK"
        BY <2>4 DEF Refuse
      <3>2. Destination(d)
        BY <1>2, SetUpKeeps DEF Checked
      <3> QED BY <3>1, <3>2 DEF Checked, Destination, Descriptor
    <2> QED BY <2>2, <2>3, <2>4 DEF Prepare
  <1>3. ASSUME Checked, UNCHANGED vars PROVE Checked'
    BY <1>3 DEF Checked, vars, Destination, Descriptor
  <1> QED BY <1>1, <1>2, <1>3

(* mli_mov_prepare: whatever was moved before, the descriptor that a move  *)
(* returning OK leaves has a cell of its own for every position, inside    *)
(* the buffer, as long as the sizes fit the 32 bits they are computed in.  *)
THEOREM DescriptorUsable ==
  ASSUME Sized
  PROVE  Spec => [](NoWrap(dst) => DescriptorFits)
PROOF
  <1>1. Checked => (NoWrap(dst) => DescriptorFits)
    <2> SUFFICES ASSUME Checked, NoWrap(dst), calls > 0, ret = "OK"
                 PROVE  LET positions == Box([i \in Dims(dst) |-> dst.shape[i]])
                            cells == {Offset(dst, q) : q \in positions}
                        IN  /\ \A i \in cells : i >= 0 /\ (i + 1) * dst.elem <= dst.capacity
                            /\ Cardinality(cells) = Cardinality(positions)
      BY DEF DescriptorFits
    <2>1. Descriptor(dst) /\ CheckLayout(dst) = "OK"
      BY TensorHasLayout DEF Checked, Destination
    <2> QED BY <2>1, CellsApart
  <1> QED BY <1>1, CheckedHolds, PTL DEF Spec

-----------------------------------------------------------------------------
(* A call that returns OK writes what is to be written and nothing else.   *)
LEMMA WrittenExactly ==
  ASSUME Sized, NEW s, NEW c, NEW d, NEW e, Accepts(s, c, d, e), NEW W, W = Reference(s, c, e)
  PROVE  /\ \A w \in W : w.cell \in Cell /\ Written(W)[w.cell] = w.content
         /\ \A i \in Cell : (\A w \in W : w.cell # i) => Written(W)[i] = mem[i]
PROOF
  <1>1. ASSUME NEW w \in W
        PROVE  w.cell \in Cell /\ \A v \in W : v.cell = w.cell => v = w
    <2>1. PICK y \in Part(s, c) : w = [cell |-> Offset(e, Place(s, c, y)),
                                       content |-> Extended(s, Shown(s, c, y))]
      BY DEF Reference
    <2>2. w.cell = Offset(e, Place(s, c, y))
      BY <2>1
    <2>3. w.cell \in Cell
      BY <2>2, Placed
    <2>4. ASSUME NEW v \in W, v.cell = w.cell
          PROVE  v = w
      <3>1. PICK z \in Part(s, c) : v = [cell |-> Offset(e, Place(s, c, z)),
                                         content |-> Extended(s, Shown(s, c, z))]
        BY DEF Reference
      <3>2. v.cell = Offset(e, Place(s, c, z))
        BY <3>1
      <3>3. z = y
        BY <2>2, <2>4, <3>2, Placed
      <3> QED BY <2>1, <3>1, <3>3
    <2> QED BY <2>3, <2>4
  <1>2. Written(W) = [i \in Cell |-> IF \E w \in W : w.cell = i
                                     THEN (CHOOSE w \in W : w.cell = i).content ELSE mem[i]]
    BY DEF Written
  <1>3. ASSUME NEW w \in W
        PROVE  Written(W)[w.cell] = w.content
    <2>1. (CHOOSE v \in W : v.cell = w.cell) = w
      BY <1>1
    <2> QED BY <1>1, <1>2, <2>1
  <1>4. ASSUME NEW i \in Cell, \A w \in W : w.cell # i
        PROVE  Written(W)[i] = mem[i]
    BY <1>2, <1>4
  <1> QED BY <1>1, <1>3, <1>4

(* mli_mov_prepare: whatever was moved before, a move that returns OK puts *)
(* the content the configuration describes at every position of the part   *)
(* it describes and leaves the other cells alone, whichever copy loop runs *)
(* and whatever the descriptor held.                                       *)
THEOREM MovesExactly ==
  ASSUME Sized, \A s \in Sources : \A c \in Cfgs[s] : PlacedWhole(s, c)
  PROVE  Spec /\ []NoWrap(dst) => MoveExact
PROOF
  <1>1. ASSUME Checked, NoWrap(dst)', Next
        PROVE  ExactlyMoved
    <2>1. PICK s \in Sources : \E c \in Cfgs[s] : Prepare(s, c)
      BY <1>1 DEF Next
    <2>2. PICK c \in Cfgs[s] : Prepare(s, c)
      BY <2>1
    <2>3. last'.src = s /\ last'.cfg = c
      BY <2>2 DEF Prepare
    <2>4. CASE Move(s, c) /\ ret' = "OK"
      <3>1. PICK d \in SetUp(s) : /\ CheckMovement(s, c, d) = "OK" /\ dst' = Filled(s, c, d)
                                  /\ CheckTensor(dst') = "OK"
                                  /\ mem' = Written(Writes(s, c, dst'))
        BY <2>4 DEF Move
      <3>2. NoWrap(dst')
        BY <1>1 DEF NoWrap, Span, Offset, LastPosition
      <3>3. Accepts(s, c, d, dst')
        BY <1>1, <3>1, <3>2, SetUpKeeps DEF Accepts, Checked
      <3>4. Writes(s, c, dst') = Reference(s, c, dst')
        BY <3>3, WritesReference
      <3> DEFINE W == Reference(s, c, dst')
      <3>5. W = {[cell |-> Offset(dst', Place(s, c, y)),
                  content |-> Extended(s, Shown(s, c, y))] : y \in Part(s, c)}
        BY DEF Reference
      <3>6. mem' = Written(W)
        BY <3>1, <3>4
      <3> HIDE DEF W
      <3>7. /\ \A w \in W : w.cell \in Cell /\ mem'[w.cell] = w.content
            /\ \A i \in Cell : (\A w \in W : w.cell # i) => mem'[i] = mem[i]
        BY <3>3, <3>6, WrittenExactly DEF W
      <3>8. \A i \in Cell \ {w.cell : w \in W} : mem'[i] = mem[i]
        BY <3>7
      <3> QED BY <2>3, <2>4, <3>5, <3>7, <3>8 DEF ExactlyMoved
    <2>5. CASE Move(s, c) /\ ret' # "OK"
      BY <2>5 DEF Move, ExactlyMoved
    <2>6. CASE Refuse(s, c)
      BY <2>6 DEF Refuse, ExactlyMoved
    <2> QED BY <2>2, <2>4, <2>5, <2>6 DEF Prepare
  <1>2. Checked /\ NoWrap(dst)' /\ [Next]_vars => [ExactlyMoved]_vars
    BY <1>1
  <1> QED BY <1>2, CheckedHolds, PTL DEF Spec, MoveExact

-----------------------------------------------------------------------------
(* All tensors have elements of one size. *)
OneSize(size) ==
  /\ {"zero", "before"} \cap Sources = {}
  /\ \A d \in DstInit : d.elem = size
  /\ \A s \in Sources : SrcTensor[s].elem = size

(* What a call that returns OK writes lies in the buffer of the            *)
(* destination and is a zero or an element of the source.                  *)
LEMMA WritesInside ==
  ASSUME Sized, NEW s, NEW c, NEW d, NEW e, Accepts(s, c, d, e), NEW w \in Writes(s, c, e)
  PROVE  /\ (w.cell + 1) * e.elem <= e.capacity
         /\ \/ w.content = Zero
            \/ \E q \in Box([i \in Dims(SrcTensor[s]) |-> SrcTensor[s].shape[i]]) :
                 w.content = Elem(s, Offset(SrcTensor[s], q))
PROOF
  <1> DEFINE src == SrcTensor[s]
             sizes == [i \in Dims(src) |-> src.shape[i]]
             cut(pos) == [i \in Dims(src) |-> pos[i]]
  <1>1. /\ s \in Sources /\ c \in Cfgs[s] /\ CheckMovement(s, c, d) = "OK" /\ CheckTensor(src) = "OK"
        /\ src.rank \in 0 .. 4 /\ Dims(src) = 1 .. src.rank
        /\ \A i \in 1 .. src.rank : src.shape[i] \in Nat
    <2>1. s \in Sources /\ CheckTensor(src) = "OK" /\ Descriptor(src)
      BY DEF Accepts, CheckMovement, Sized, Movable
    <2>2. src.rank \in 0 .. MaxRank /\ \A i \in Dims(src) : src.shape[i] \in Nat
      BY <2>1, TensorHasLayout, Accepted
    <2> QED BY <2>1, <2>2 DEF Accepts, Dims, MaxRank
  <1>2. ASSUME NEW pos, HasPosition(src, pos)
        PROVE  cut(pos) \in Box(sizes) /\ Offset(src, cut(pos)) = Offset(src, pos)
    <2>1. \A i \in 1 .. src.rank : pos[i] \in Nat /\ pos[i] < src.shape[i]
      <3> TAKE i \in 1 .. src.rank
      <3>1. pos[i] \in 0 .. src.shape[i] - 1 /\ src.shape[i] \in Nat
        BY <1>1, <1>2 DEF HasPosition
      <3> QED BY <3>1
    <2>2. \A i \in 1 .. src.rank : cut(pos)[i] = pos[i] /\ sizes[i] = src.shape[i]
      BY <1>1
    <2>3. cut(pos) \in [1 .. src.rank -> Nat] /\ sizes \in [1 .. src.rank -> Nat]
      BY <1>1, <2>1
    <2> HIDE DEF cut, sizes, src
    <2>4. cut(pos) \in Box(sizes)
      BY <1>1, <2>1, <2>2, <2>3, InBox
    <2>5. \A i \in 1 .. 4 : Term(src, cut(pos), i) = Term(src, pos, i)
      BY <2>2 DEF Term
    <2> QED BY <2>4, <2>5, OffsetIsSum
  <1> HIDE DEF cut, sizes
  <1>3. CASE Single1D(s, c, e)
    <2>1. PICK n \in 0 .. ElemNum(src) - 1 : w = [cell |-> n, content |-> Elem(s, n)]
      BY <1>3 DEF Writes
    <2>2. PICK pos : IsPosition(src, pos) /\ Offset(src, pos) = n
      BY <1>3, BlocksAlike
    <2>3. IsPosition(e, pos) /\ Offset(e, pos) = n
      BY <1>3, <2>2, BlocksAlike
    <2>4. Descriptor(e) /\ CheckLayout(e) = "OK" /\ NoWrap(e)
      BY FilledDescribes, TensorHasLayout DEF Accepts, Destination
    <2>5. (n + 1) * e.elem <= e.capacity
      BY <2>3, <2>4, PositionInside
    <2>6. w.content = Elem(s, Offset(src, cut(pos))) /\ cut(pos) \in Box(sizes) /\ w.cell = n
      BY <1>2, <2>1, <2>2 DEF IsPosition
    <2> QED BY <2>5, <2>6 DEF sizes
  <1>4. CASE ~Single1D(s, c, e)
    <2>1. w \in Reference(s, c, e)
      BY <1>4, LoopsWrite DEF Writes
    <2>2. PICK y \in Part(s, c) : w = [cell |-> Offset(e, Place(s, c, y)),
                                       content |-> Extended(s, Shown(s, c, y))]
      BY <2>1 DEF Reference
    <2>3. (w.cell + 1) * e.elem <= e.capacity
      BY <2>2, Placed
    <2>4. CASE HasPosition(src, Shown(s, c, y))
      <3> DEFINE q == cut(Shown(s, c, y))
      <3>1. q \in Box(sizes) /\ Offset(src, q) = Offset(src, Shown(s, c, y))
        BY <1>2, <2>4
      <3>2. w.content = Elem(s, Offset(src, q))
        BY <2>2, <2>4, <3>1 DEF Extended
      <3> QED BY <2>3, <3>1, <3>2 DEF sizes
    <2>5. CASE ~HasPosition(src, Shown(s, c, y))
      BY <2>2, <2>3, <2>5 DEF Extended
    <2> QED BY <2>4, <2>5
  <1> QED BY <1>3, <1>4

(* mli_mov_prepare: no sequence of moves writes behind the buffer of the   *)
(* destination or copies from where a source has no element; also of the   *)
(* moves that are not exact.                                               *)
THEOREM MovesInside ==
  ASSUME Sized, NEW size, OneSize(size)
  PROVE  Spec /\ []NoWrap(dst) => []InsideBuffers
PROOF
  <1> DEFINE Elements(t) == {Offset(t, q) : q \in Box([d \in Dims(t) |-> t.shape[d]])}
             Kept(i, x) == /\ (i + 1) * dst.elem > dst.capacity => x = Before
                           /\ \A s \in Sources : x.of = s => x.at \in Elements(SrcTensor[s])
             InBoth == dst.elem = size /\ \A i \in Cell : Kept(i, mem[i])
  <1>1. InBoth => InsideBuffers
    BY DEF InsideBuffers
  <1>2. Init => InBoth
    <2> SUFFICES ASSUME Init PROVE InBoth
      OBVIOUS
    <2>1. \A i \in Cell : mem[i] = Before
      BY DEF Init
    <2>2. \A s \in Sources : Before.of # s
      BY DEF OneSize, Before, Elem
    <2> QED BY <2>1, <2>2 DEF Init, OneSize
  <1>3. ASSUME Checked, InBoth, NoWrap(dst)', Next
        PROVE  InBoth'
    <2>1. PICK s \in Sources : \E c \in Cfgs[s] : Prepare(s, c)
      BY <1>3 DEF Next
    <2>2. PICK c \in Cfgs[s] : Prepare(s, c)
      BY <2>1
    <2>3. PICK d \in SetUp(s) : /\ dst' = d /\ mem' = mem
                                \/ /\ CheckMovement(s, c, d) = "OK" /\ dst' = Filled(s, c, d)
                                   /\ \/ mem' = mem
                                      \/ CheckTensor(dst') = "OK" /\ mem' = Written(Writes(s, c, dst'))
      BY <2>2 DEF Prepare, Move, Refuse
    <2>4. Destination(d) /\ d.elem = size /\ d.capacity = dst.capacity
      BY <1>3, SetUpKeeps DEF Checked
    <2>5. dst'.elem = size /\ dst'.capacity = dst.capacity
      BY <2>3, <2>4, FilledDescribes DEF OneSize
    <2>6. SUFFICES ASSUME NEW i \in Cell
                   PROVE  Kept(i, mem'[i])
      <3> HIDE DEF Elements
      <3> QED BY <1>3, <2>5, <2>6
    <2>7. CASE mem'[i] = mem[i]
      BY <1>3, <2>7
    <2>8. CASE mem'[i] # mem[i]
      <3>1. /\ CheckMovement(s, c, d) = "OK" /\ dst' = Filled(s, c, d) /\ CheckTensor(dst') = "OK"
            /\ mem' = Written(Writes(s, c, dst'))
        BY <2>3, <2>8
      <3>2. NoWrap(dst')
        BY <1>3 DEF NoWrap, Span, Offset, LastPosition
      <3>3. Accepts(s, c, d, dst')
        BY <2>4, <3>1, <3>2 DEF Accepts
      <3>4. \E w \in Writes(s, c, dst') : w.cell = i /\ mem'[i] = w.content
        BY <2>8, <3>1 DEF Written
      <3>5. PICK w \in Writes(s, c, dst') : w.cell = i /\ mem'[i] = w.content
        BY <3>4
      <3>6. /\ (w.cell + 1) * dst'.elem <= dst'.capacity
            /\ \/ w.content = Zero
               \/ \E q \in Box([k \in Dims(SrcTensor[s]) |-> SrcTensor[s].shape[k]]) :
                    w.content = Elem(s, Offset(SrcTensor[s], q))
        BY <3>3, WritesInside
      <3>7. ~((i + 1) * dst.elem > dst.capacity)
        <4>1. /\ (i + 1) * dst.elem <= dst.capacity
              /\ dst.elem \in Nat /\ dst.capacity \in Nat /\ i \in Int
          BY <1>3, <2>5, <3>5, <3>6 DEF Checked, Destination, Descriptor, Cell, Sized
        <4> QED BY <4>1
      <3>8. ASSUME NEW r \in Sources, mem'[i].of = r
            PROVE  mem'[i].at \in Elements(SrcTensor[r])
        <4>1. w.content # Zero
          BY <3>5, <3>8 DEF OneSize, Zero, Elem
        <4>2. PICK q \in Box([k \in Dims(SrcTensor[s]) |-> SrcTensor[s].shape[k]]) :
                mem'[i] = Elem(s, Offset(SrcTensor[s], q))
          BY <3>5, <3>6, <4>1
        <4>3. r = s /\ mem'[i].at = Offset(SrcTensor[s], q)
          BY <3>8, <4>2 DEF Elem
        <4> QED BY <4>3
      <3> HIDE DEF Elements
      <3> QED BY <3>7, <3>8
    <2> QED BY <2>7, <2>8
  <1>4. ASSUME InBoth, UNCHANGED vars PROVE InBoth'
    BY <1>4 DEF vars
  <1>5. Checked /\ InBoth /\ NoWrap(dst)' /\ [Next]_vars => InBoth'
    BY <1>3, <1>4
  <1> HIDE DEF InBoth
  <1> QED BY <1>1, <1>2, <1>5, CheckedHolds, PTL DEF Spec

-----------------------------------------------------------------------------
(***************************************************************************)
(* MovPool                                                                 *)
(***************************************************************************)

(* An unused handle and the handle of a synchronous move hold no channel. *)
HoldsNothing ==
  /\ \A h \in Handle : handle[h].state = "INVALID" => handle[h].num_ch = 0
  /\ \A s \in Sync : handle[s].num_ch = 0

PoolInv == TypeOK /\ ChannelsExclusive /\ HoldsNothing

USE SizeAssumption, RequestAssumption, HandleAssumption, ClientAssumption

-----------------------------------------------------------------------------
(* The initial state satisfies the invariant: no handle holds anything. *)
LEMMA InitPoolInv == PoolInit => PoolInv
<1> SUFFICES ASSUME PoolInit PROVE PoolInv
  OBVIOUS
<1>1. TypeOK
  BY DEF PoolInit, TypeOK, Handle, Channel, PoolCell, Status, State, Result, Step,
         NullHandle, NoCall
<1>2. \A h \in Handle : HeldBy(h) = {}
  BY DEF PoolInit, HeldBy, Block, NullHandle
<1>3. ChannelsExclusive
  BY <1>2 DEF PoolInit, ChannelsExclusive, Channel, PoolCell
<1>4. HoldsNothing
  BY DEF PoolInit, HoldsNothing, NullHandle, Handle
<1> QED
  BY <1>1, <1>3, <1>4 DEF PoolInv

-----------------------------------------------------------------------------
(* What a handle holds is within the cells the model keeps a status of. *)
LEMMA HeldAreCells ==
  ASSUME TypeOK, NEW h \in Handle
  PROVE  HeldBy(h) \subseteq PoolCell
BY DEF TypeOK, HeldBy, Block, PoolCell, Channel

(* Granting a block to a handle that holds nothing, or releasing one,      *)
(* keeps the types: the block starts at a channel of the pool.             *)
LEMMA AcquireTypes ==
  ASSUME TypeOK, NEW h \in Handle, NEW n \in 0 .. MaxReq, AcquireHandle(h, n),
         pc' \in [Sync -> Step]
  PROVE  TypeOK'
<1>1. CASE Granted(h, n)
  <2>1. PICK i \in FreeBlocks(n) :
          /\ handle' = [handle EXCEPT ![h] = [dma_ch |-> i, num_ch |-> n, state |-> "OPEN"]]
          /\ status' = Mark(Block(i, n), "IN_USE")
          /\ answer' = [answer EXCEPT ![h] = "OK"]
    BY <1>1 DEF Granted
  <2>2. i \in Channel
    BY DEF FreeBlocks, PoolChannels, Block, TypeOK, Channel
  <2> QED
    BY <2>1, <2>2 DEF TypeOK, AcquireHandle, Mark, Status, State, Result, NoCall
<1>2. CASE NotGranted(h, n)
  BY <1>2 DEF NotGranted, TypeOK, AcquireHandle, Result, NoCall
<1> QED
  BY <1>1, <1>2 DEF AcquireHandle

LEMMA PrepareTypes ==
  ASSUME TypeOK, NEW h \in Handle, PrepareTransfer(h), pc' \in [Sync -> Step]
  PROVE  TypeOK'
<1>1. /\ pool' = pool /\ status' = status /\ callbacktable' = callbacktable
      /\ registered' = registered /\ fired' = NoCall
  BY DEF PrepareTransfer
<1>2. handle' \in [Handle -> [dma_ch : Channel, num_ch : 0 .. MaxReq, state : State]]
  <2>1. CASE handle' = [handle EXCEPT ![h].state = "PREPARED"]
    BY <2>1 DEF TypeOK, State
  <2>2. CASE UNCHANGED handle
    BY <2>2 DEF TypeOK
  <2> QED
    BY <2>1, <2>2 DEF PrepareTransfer, Prepared, PrepareRefused, PrepareUnsupported
<1>3. answer' \in [Handle -> Result]
  BY DEF TypeOK, PrepareTransfer, Prepared, PrepareRefused, PrepareUnsupported, Result
<1>4. moved' \in [Handle -> BOOLEAN]
  BY DEF TypeOK, PrepareTransfer, Prepared, PrepareRefused, PrepareUnsupported
<1> QED
  BY <1>1, <1>2, <1>3, <1>4 DEF TypeOK, NoCall

LEMMA StartTypes ==
  ASSUME TypeOK, NEW h \in Handle, StartTransfer(h), pc' \in [Sync -> Step]
  PROVE  TypeOK'
BY DEF TypeOK, StartTransfer, State, Result

LEMMA ReleaseTypes ==
  ASSUME TypeOK, NEW h \in Handle, ReleaseHandle(h), pc' \in [Sync -> Step],
         answer' \in [Handle -> Result]
  PROVE  TypeOK'
<1>1. handle' \in [Handle -> [dma_ch : Channel, num_ch : 0 .. MaxReq, state : State]]
  BY DEF TypeOK, ReleaseHandle, State, NullHandle, Channel
<1>2. status' \in [PoolCell -> Status]
  BY DEF TypeOK, ReleaseHandle, Mark, Status
<1> QED
  BY <1>1, <1>2 DEF TypeOK, ReleaseHandle, NoCall

(* Every call leaves values of the declared types behind. *)
LEMMA NextTypes == TypeOK /\ [PoolNext]_poolVars => TypeOK'
<1> SUFFICES ASSUME TypeOK, [PoolNext]_poolVars PROVE TypeOK'
  OBVIOUS
<1>0. /\ Async \subseteq Handle /\ Sync \subseteq Handle
      /\ 0 \in 0 .. MaxReq /\ Requests \subseteq 0 .. MaxReq
  BY DEF Handle
<1>1. ASSUME NEW ch_offset \in Channel, NEW num_ch \in 0 .. MaxDmaChan - ch_offset,
             SetNumDmaCh(ch_offset, num_ch)
      PROVE  TypeOK'
  BY <1>1 DEF SetNumDmaCh, TypeOK, Mark, Status, Channel, NoCall
<1>2. ASSUME NEW h \in Async, NEW n \in Requests, Acquire(h, n) PROVE TypeOK'
  BY <1>0, <1>2, AcquireTypes DEF Acquire, TypeOK
<1>3. ASSUME NEW h \in Async, AsyncPrepare(h) PROVE TypeOK'
  BY <1>0, <1>3, PrepareTypes DEF AsyncPrepare, TypeOK
<1>4. ASSUME NEW h \in Async, NEW cb \in {h, NoCb}, RegisterCallback(h, cb) PROVE TypeOK'
  BY <1>0, <1>4 DEF RegisterCallback, TypeOK, NoCall
<1>5. ASSUME NEW h \in Async, Start(h) PROVE TypeOK'
  BY <1>0, <1>5, StartTypes DEF Start, TypeOK
<1>6. ASSUME NEW h \in Async, Release(h) PROVE TypeOK'
  BY <1>0, <1>6, ReleaseTypes DEF Release, TypeOK, Result
<1>7. ASSUME NEW s \in Sync, SyncCall(s) PROVE TypeOK'
  BY <1>7 DEF SyncCall, Goto, TypeOK, Step, NoCall
<1>8. ASSUME NEW s \in Sync, SyncStep(s) PROVE TypeOK'
  <2>1. CASE SyncAcquire(s)
    BY <1>0, <2>1, AcquireTypes DEF SyncAcquire, Goto, TypeOK, Step
  <2>2. CASE SyncPrepare(s)
    BY <1>0, <2>2, PrepareTypes DEF SyncPrepare, Goto, TypeOK, Step
  <2>3. CASE SyncStart(s)
    BY <1>0, <2>3, StartTypes DEF SyncStart, Goto, TypeOK, Step
  <2>4. CASE SyncWait(s)
    BY <2>4 DEF SyncWait, Goto, TypeOK, Step, NoCall
  <2>5. CASE SyncRelease(s)
    BY <1>0, <2>5, ReleaseTypes DEF SyncRelease, Goto, TypeOK, Step
  <2> QED
    BY <1>8, <2>1, <2>2, <2>3, <2>4, <2>5 DEF SyncStep
<1>9. CASE UNCHANGED poolVars
  BY <1>9 DEF poolVars, TypeOK
<1> QED
  BY <1>1, <1>2, <1>3, <1>4, <1>5, <1>6, <1>7, <1>8, <1>9 DEF PoolNext

-----------------------------------------------------------------------------
(* Acquire: the granted cells were AVAILABLE, so nobody held them. *)
LEMMA AcquireExclusive ==
  ASSUME TypeOK, TypeOK', ChannelsExclusive, NEW h \in Handle, NEW n \in 0 .. MaxReq,
         handle[h].num_ch = 0, AcquireHandle(h, n)
  PROVE  ChannelsExclusive'
<1>1. CASE Granted(h, n)
  <2>1. PICK i \in FreeBlocks(n) :
          /\ handle' = [handle EXCEPT ![h] = [dma_ch |-> i, num_ch |-> n, state |-> "OPEN"]]
          /\ status' = Mark(Block(i, n), "IN_USE")
    BY <1>1 DEF Granted
  <2>2. HeldBy(h) = {}
    <3>1. handle[h].dma_ch \in Int
      BY DEF TypeOK, Channel
    <3> QED
      BY <3>1 DEF HeldBy, Block
  <2>3. HeldBy(h)' = Block(i, n)
    BY <2>1 DEF HeldBy, TypeOK
  <2>4. \A g \in Handle : g # h => HeldBy(g)' = HeldBy(g)
    BY <2>1 DEF HeldBy, TypeOK
  <2>5. \A c \in Block(i, n) : status[c] = "AVAILABLE"
    BY <2>1 DEF FreeBlocks
  <2>6. Block(i, n) \subseteq PoolCell
    <3>1. i \in 0 .. MaxDmaChan - 1
      <4>1. i \in pool.base .. pool.base + pool.size - 1
        BY DEF FreeBlocks, PoolChannels, Block
      <4>2. /\ pool.base \in 0 .. MaxDmaChan - 1 /\ pool.size \in 0 .. MaxDmaChan
            /\ pool.base + pool.size <= MaxDmaChan
        BY DEF TypeOK, Channel
      <4> QED
        BY <4>1, <4>2, SizeAssumption
    <3> QED
      BY <3>1 DEF Block, PoolCell
  <2>7. \A g \in Handle : HeldBy(g) \cap Block(i, n) = {}
    BY <2>5, <2>6 DEF ChannelsExclusive
  <2>8. \A f, g \in Handle : f # g => (HeldBy(f) \cap HeldBy(g) = {})'
    BY <2>3, <2>4, <2>7 DEF ChannelsExclusive
  <2>9. ASSUME NEW c \in PoolCell
        PROVE  status'[c] = "IN_USE" <=> \E g \in Handle : c \in HeldBy(g)'
    <3>1. CASE c \in Block(i, n)
      BY <2>1, <2>3, <3>1 DEF Mark
    <3>2. CASE c \notin Block(i, n)
      <4>1. status'[c] = status[c]
        BY <2>1, <3>2 DEF Mark
      <4>2. \A g \in Handle : c \in HeldBy(g)' <=> c \in HeldBy(g)
        BY <2>2, <2>3, <2>4, <3>2
      <4> QED
        BY <4>1, <4>2 DEF ChannelsExclusive
    <3> QED
      BY <3>1, <3>2
  <2> QED
    BY <2>8, <2>9 DEF ChannelsExclusive
<1>2. CASE NotGranted(h, n)
  BY <1>2 DEF NotGranted, ChannelsExclusive, HeldBy
<1> QED
  BY <1>1, <1>2 DEF AcquireHandle

(* Release: the released cells were held by h alone. *)
LEMMA ReleaseExclusive ==
  ASSUME TypeOK, ChannelsExclusive, NEW h \in Handle, ReleaseHandle(h)
  PROVE  ChannelsExclusive'
<1>1. HeldBy(h)' = {}
  BY DEF ReleaseHandle, HeldBy, Block, NullHandle, TypeOK
<1>2. \A g \in Handle : g # h => HeldBy(g)' = HeldBy(g)
  BY DEF ReleaseHandle, HeldBy, TypeOK
<1>3. \A f, g \in Handle : f # g => (HeldBy(f) \cap HeldBy(g) = {})'
  BY <1>1, <1>2 DEF ChannelsExclusive
<1>4. ASSUME NEW c \in PoolCell
      PROVE  status'[c] = "IN_USE" <=> \E g \in Handle : c \in HeldBy(g)'
  <2>1. CASE c \in HeldBy(h)
    <3>1. status'[c] = "AVAILABLE"
      BY <2>1 DEF ReleaseHandle, Mark
    <3>2. \A g \in Handle : c \notin HeldBy(g)'
      BY <1>1, <1>2, <2>1 DEF ChannelsExclusive
    <3> QED
      BY <3>1, <3>2
  <2>2. CASE c \notin HeldBy(h)
    <3>1. status'[c] = status[c]
      BY <2>2 DEF ReleaseHandle, Mark
    <3>2. \A g \in Handle : c \in HeldBy(g)' <=> c \in HeldBy(g)
      BY <1>1, <1>2, <2>2
    <3> QED
      BY <3>1, <3>2 DEF ChannelsExclusive
  <2> QED
    BY <2>1, <2>2
<1> QED
  BY <1>3, <1>4 DEF ChannelsExclusive

(* A call that changes only the state of a handle changes no holding. *)
LEMMA SameChannelsExclusive ==
  ASSUME TypeOK, ChannelsExclusive, status' = status,
         \A g \in Handle : /\ handle'[g].dma_ch = handle[g].dma_ch
                           /\ handle'[g].num_ch = handle[g].num_ch
  PROVE  ChannelsExclusive'
<1>1. \A g \in Handle : HeldBy(g)' = HeldBy(g)
  BY DEF HeldBy
<1> QED
  BY <1>1 DEF ChannelsExclusive

(* AsyncPrepare and start touch nothing of a handle but its state. *)
LEMMA StateOnly ==
  ASSUME TypeOK, NEW h \in Handle, PrepareTransfer(h) \/ StartTransfer(h)
  PROVE  /\ status' = status
         /\ \A g \in Handle : /\ handle'[g].dma_ch = handle[g].dma_ch
                              /\ handle'[g].num_ch = handle[g].num_ch
<1>1. status' = status
  BY DEF PrepareTransfer, StartTransfer
<1>2. \E st \in State : handle' = [handle EXCEPT ![h].state = st]
  <2>1. CASE UNCHANGED handle
    BY <2>1, handle[h].state \in State, handle = [handle EXCEPT ![h].state = handle[h].state]
       DEF TypeOK
  <2>2. CASE handle' = [handle EXCEPT ![h].state = "PREPARED"]
    BY <2>2 DEF State
  <2>3. CASE handle' = [handle EXCEPT ![h].state = "DONE"]
    BY <2>3 DEF State
  <2> QED
    BY <2>1, <2>2, <2>3
       DEF PrepareTransfer, Prepared, PrepareRefused, PrepareUnsupported, StartTransfer
<1> QED
  BY <1>1, <1>2 DEF TypeOK

(* Assigning the pool happens while nobody holds anything. *)
LEMMA ConfigureExclusive ==
  ASSUME TypeOK, ChannelsExclusive, HoldsNothing,
         NEW ch_offset \in Channel, NEW num_ch \in 0 .. MaxDmaChan - ch_offset,
         SetNumDmaCh(ch_offset, num_ch)
  PROVE  ChannelsExclusive'
<1>1. \A h \in Handle : HeldBy(h) = {}
  <2>1. \A h \in Handle : handle[h].num_ch = 0
    BY DEF SetNumDmaCh, MayConfigure, HoldsNothing
  <2>2. \A h \in Handle : handle[h].dma_ch \in Int
    BY DEF TypeOK, Channel
  <2> QED
    BY <2>1, <2>2 DEF HeldBy, Block
<1>2. \A h \in Handle : HeldBy(h)' = {}
  BY <1>1 DEF SetNumDmaCh, HeldBy
<1>3. \A c \in PoolCell : status'[c] # "IN_USE"
  BY <1>1 DEF SetNumDmaCh, Mark, ChannelsExclusive
<1> QED
  BY <1>2, <1>3 DEF ChannelsExclusive

LEMMA NextExclusive == PoolInv /\ [PoolNext]_poolVars => ChannelsExclusive'
<1> SUFFICES ASSUME PoolInv, [PoolNext]_poolVars PROVE ChannelsExclusive'
  OBVIOUS
<1>0. /\ Async \subseteq Handle /\ Sync \subseteq Handle
      /\ 0 \in 0 .. MaxReq /\ Requests \subseteq 0 .. MaxReq
      /\ TypeOK /\ ChannelsExclusive /\ HoldsNothing /\ TypeOK'
  BY NextTypes DEF Handle, PoolInv
<1>1. ASSUME NEW ch_offset \in Channel, NEW num_ch \in 0 .. MaxDmaChan - ch_offset,
             SetNumDmaCh(ch_offset, num_ch)
      PROVE  ChannelsExclusive'
  BY <1>0, <1>1, ConfigureExclusive
<1>2. ASSUME NEW h \in Async, NEW n \in Requests, Acquire(h, n) PROVE ChannelsExclusive'
  BY <1>0, <1>2, AcquireExclusive DEF Acquire, HoldsNothing
<1>3. ASSUME NEW h \in Async, AsyncPrepare(h) PROVE ChannelsExclusive'
  BY <1>0, <1>3, StateOnly, SameChannelsExclusive DEF AsyncPrepare
<1>4. ASSUME NEW h \in Async, NEW cb \in {h, NoCb}, RegisterCallback(h, cb)
      PROVE  ChannelsExclusive'
  BY <1>0, <1>4, SameChannelsExclusive DEF RegisterCallback
<1>5. ASSUME NEW h \in Async, Start(h) PROVE ChannelsExclusive'
  BY <1>0, <1>5, StateOnly, SameChannelsExclusive DEF Start
<1>6. ASSUME NEW h \in Async, Release(h) PROVE ChannelsExclusive'
  BY <1>0, <1>6, ReleaseExclusive DEF Release
<1>7. ASSUME NEW s \in Sync, SyncCall(s) PROVE ChannelsExclusive'
  BY <1>0, <1>7, SameChannelsExclusive DEF SyncCall
<1>8. ASSUME NEW s \in Sync, SyncStep(s) PROVE ChannelsExclusive'
  <2>1. CASE SyncAcquire(s)
    BY <1>0, <2>1, AcquireExclusive DEF SyncAcquire, HoldsNothing
  <2>2. CASE SyncPrepare(s)
    BY <1>0, <2>2, StateOnly, SameChannelsExclusive DEF SyncPrepare
  <2>3. CASE SyncStart(s)
    BY <1>0, <2>3, StateOnly, SameChannelsExclusive DEF SyncStart
  <2>4. CASE SyncWait(s)
    BY <1>0, <2>4, SameChannelsExclusive DEF SyncWait
  <2>5. CASE SyncRelease(s)
    BY <1>0, <2>5, ReleaseExclusive DEF SyncRelease
  <2> QED
    BY <1>8, <2>1, <2>2, <2>3, <2>4, <2>5 DEF SyncStep
<1>9. CASE UNCHANGED poolVars
  BY <1>0, <1>9, SameChannelsExclusive DEF poolVars
<1> QED
  BY <1>1, <1>2, <1>3, <1>4, <1>5, <1>6, <1>7, <1>8, <1>9 DEF PoolNext

LEMMA NextHoldsNothing == PoolInv /\ [PoolNext]_poolVars => HoldsNothing'
<1> SUFFICES ASSUME PoolInv, [PoolNext]_poolVars PROVE HoldsNothing'
  OBVIOUS
<1>0. /\ Async \subseteq Handle /\ Sync \subseteq Handle
      /\ TypeOK /\ HoldsNothing
  BY DEF Handle, PoolInv
<1> DEFINE Others(h) == \A g \in Handle : g # h => handle'[g] = handle[g]
<1>1. ASSUME NEW h \in Handle, PrepareTransfer(h) \/ StartTransfer(h)
      PROVE  HoldsNothing'
  <2>1. \A g \in Handle : handle'[g].num_ch = handle[g].num_ch
    BY <1>0, <1>1, StateOnly
  <2>2. handle'[h] = handle[h] \/ handle'[h].state \in {"PREPARED", "DONE"}
    BY <1>0, <1>1
       DEF TypeOK, PrepareTransfer, Prepared, PrepareRefused, PrepareUnsupported, StartTransfer
  <2>3. Others(h)
    BY <1>0, <1>1
       DEF TypeOK, PrepareTransfer, Prepared, PrepareRefused, PrepareUnsupported, StartTransfer
  <2> QED
    BY <1>0, <2>1, <2>2, <2>3 DEF HoldsNothing
<1>2. ASSUME NEW h \in Handle, ReleaseHandle(h) PROVE HoldsNothing'
  BY <1>0, <1>2 DEF HoldsNothing, ReleaseHandle, NullHandle, TypeOK
<1>3. ASSUME NEW h \in Handle, NEW n \in 0 .. MaxReq, AcquireHandle(h, n),
             h \in Sync => n = 0
      PROVE  HoldsNothing'
  <2>1. CASE Granted(h, n)
    BY <1>0, <1>3, <2>1 DEF Granted, HoldsNothing, TypeOK
  <2>2. CASE NotGranted(h, n)
    BY <1>0, <2>2 DEF NotGranted, HoldsNothing
  <2> QED
    BY <1>3, <2>1, <2>2 DEF AcquireHandle
<1>4. CASE UNCHANGED handle
  BY <1>0, <1>4 DEF HoldsNothing
<1>5. ASSUME NEW h \in Async, NEW n \in Requests, Acquire(h, n) PROVE HoldsNothing'
  BY <1>0, <1>3, <1>5, h \notin Sync DEF Acquire
<1>6. ASSUME NEW s \in Sync, SyncStep(s) PROVE HoldsNothing'
  BY <1>0, <1>1, <1>2, <1>3, <1>4, <1>6, 0 \in 0 .. MaxReq
     DEF SyncStep, SyncAcquire, SyncPrepare, SyncStart, SyncWait, SyncRelease
<1> QED
  BY <1>0, <1>1, <1>2, <1>4, <1>5, <1>6
     DEF PoolNext, SetNumDmaCh, AsyncPrepare, RegisterCallback, Start, Release, SyncCall, poolVars

LEMMA NextPoolInv == PoolInv /\ [PoolNext]_poolVars => PoolInv'
BY NextTypes, NextExclusive, NextHoldsNothing DEF PoolInv

(* The inductive invariant holds in every reachable state. *)
LEMMA PoolInvariance == PoolSpec => []PoolInv
<1>1. PoolInit => PoolInv
  BY InitPoolInv
<1>2. PoolInv /\ [PoolNext]_poolVars => PoolInv'
  BY NextPoolInv
<1> QED
  BY <1>1, <1>2, PTL DEF PoolSpec

(* The singletons and the handles always hold values of their types: in    *)
(* particular a granted block starts at an entry of callbacktable.         *)
THEOREM TypeCorrect == PoolSpec => []TypeOK
<1>1. PoolInv => TypeOK
  BY DEF PoolInv
<1> QED
  BY <1>1, PoolInvariance, PTL

(* No two transfers ever share a DMA channel, and a channel is IN_USE      *)
(* exactly while a handle holds it, for any number of channels, handles    *)
(* and callers of mli_mov_tensor_sync and any sizes of the requests.       *)
THEOREM Exclusion == PoolSpec => []ChannelsExclusive
<1>1. PoolInv => ChannelsExclusive
  BY DEF PoolInv
<1> QED
  BY <1>1, PoolInvariance, PTL

-----------------------------------------------------------------------------
(* A synchronous move that is refused.  It asks for no channel, so every   *)
(* channel of the pool would do; a started one was not refused.            *)
RefusedInv ==
  /\ SyncRefusedOnlyByEmptyPool
  /\ \A s \in Sync : pc[s] = "wait" => answer[s] = "OK"

LEMMA NothingAsked ==
  ASSUME TypeOK, NEW h \in Handle, NotGranted(h, 0)
  PROVE  pool.size = 0
<1>1. FreeBlocks(0) = PoolChannels
  <2>1. \A i \in PoolChannels : Block(i, 0) = {}
    BY DEF PoolChannels, Block
  <2> QED
    BY <2>1 DEF FreeBlocks
<1>2. pool.base \in Int /\ pool.size \in Nat
  BY DEF TypeOK, Channel
<1>3. pool.size > 0 => pool.base \in PoolChannels
  BY <1>2 DEF PoolChannels, Block
<1> QED
  BY <1>1, <1>2, <1>3 DEF NotGranted

LEMMA NextRefused == TypeOK /\ RefusedInv /\ [PoolNext]_poolVars => RefusedInv'
<1> SUFFICES ASSUME TypeOK, RefusedInv, [PoolNext]_poolVars PROVE RefusedInv'
  OBVIOUS
<1>0. Async \subseteq Handle /\ Sync \subseteq Handle /\ Async \cap Sync = {}
  BY DEF Handle
<1>1. ASSUME NEW ch_offset \in Channel, NEW num_ch \in 0 .. MaxDmaChan - ch_offset,
             SetNumDmaCh(ch_offset, num_ch)
      PROVE  RefusedInv'
  BY <1>1 DEF SetNumDmaCh, MayConfigure, RefusedInv, SyncRefusedOnlyByEmptyPool
(* What another caller does leaves a synchronous move where it is. *)
<1>2. ASSUME UNCHANGED <<pool, pc>>, \A s \in Sync : answer'[s] = answer[s]
      PROVE  RefusedInv'
  BY <1>2 DEF RefusedInv, SyncRefusedOnlyByEmptyPool
<1>3. ASSUME NEW h \in Async, NEW n \in Requests, Acquire(h, n) PROVE RefusedInv'
  BY <1>0, <1>2, <1>3 DEF Acquire, AcquireHandle, Granted, NotGranted, TypeOK
<1>4. ASSUME NEW h \in Async, AsyncPrepare(h) PROVE RefusedInv'
  BY <1>0, <1>2, <1>4
     DEF AsyncPrepare, PrepareTransfer, Prepared, PrepareRefused, PrepareUnsupported, TypeOK
<1>5. ASSUME NEW h \in Async, NEW cb \in {h, NoCb}, RegisterCallback(h, cb) PROVE RefusedInv'
  BY <1>2, <1>5 DEF RegisterCallback
<1>6. ASSUME NEW h \in Async, Start(h) PROVE RefusedInv'
  BY <1>0, <1>2, <1>6 DEF Start, StartTransfer, TypeOK
<1>7. ASSUME NEW h \in Async, Release(h) PROVE RefusedInv'
  BY <1>0, <1>2, <1>7 DEF Release, ReleaseHandle, TypeOK
(* A step of a synchronous move concerns this move only. *)
<1>8. ASSUME NEW s \in Sync, pool' = pool, NEW step \in Step, Goto(s, step),
             \A r \in Sync : r # s => answer'[r] = answer[r],
             step = "release" /\ answer'[s] = "NOT_ENGH_MEM" => pool.size = 0,
             step = "wait" => answer'[s] = "OK"
      PROVE  RefusedInv'
  BY <1>8 DEF Goto, TypeOK, RefusedInv, SyncRefusedOnlyByEmptyPool
<1>9. ASSUME NEW s \in Sync, SyncCall(s) PROVE RefusedInv'
  BY <1>8, <1>9, "acquire" \in Step DEF SyncCall, Step
<1>10. ASSUME NEW s \in Sync, SyncAcquire(s) PROVE RefusedInv'
  <2>1. /\ pool' = pool /\ AcquireHandle(s, 0)
        /\ Goto(s, IF answer'[s] = "OK" THEN "prepare" ELSE "release")
    BY <1>10 DEF SyncAcquire, AcquireHandle
  <2>2. CASE Granted(s, 0)
    <3>1. answer' = [answer EXCEPT ![s] = "OK"]
      BY <2>2 DEF Granted
    <3> QED
      BY <1>0, <1>8, <2>1, <3>1 DEF TypeOK, Step
  <2>3. CASE NotGranted(s, 0)
    <3>1. answer' = [answer EXCEPT ![s] = "NOT_ENGH_MEM"] /\ pool.size = 0
      BY <1>0, <2>3, NothingAsked DEF NotGranted
    <3> QED
      BY <1>0, <1>8, <2>1, <3>1 DEF TypeOK, Step
  <2> QED
    BY <2>1, <2>2, <2>3 DEF AcquireHandle
<1>11. ASSUME NEW s \in Sync, SyncPrepare(s) PROVE RefusedInv'
  <2>1. /\ pool' = pool /\ PrepareTransfer(s)
        /\ Goto(s, IF answer'[s] = "OK" THEN "start" ELSE "release")
    BY <1>11 DEF SyncPrepare, PrepareTransfer
  <2>2. \E r \in {"OK", "REFUSED", "TYPE_MISMATCH"} : answer' = [answer EXCEPT ![s] = r]
    BY <2>1 DEF PrepareTransfer, Prepared, PrepareRefused, PrepareUnsupported
  <2>3. answer'[s] # "NOT_ENGH_MEM" /\ \A r \in Sync : r # s => answer'[r] = answer[r]
    BY <1>0, <2>2 DEF TypeOK
  <2> QED
    BY <1>8, <2>1, <2>3 DEF Step
<1>12. ASSUME NEW s \in Sync, SyncStart(s) PROVE RefusedInv'
  <2>1. pool' = pool /\ answer' = [answer EXCEPT ![s] = "OK"] /\ Goto(s, "wait")
    BY <1>12 DEF SyncStart, StartTransfer
  <2> QED
    BY <1>0, <1>8, <2>1 DEF TypeOK, Step
<1>13. ASSUME NEW s \in Sync, SyncWait(s) PROVE RefusedInv'
  <2>1. pool' = pool /\ answer' = answer /\ answer[s] = "OK" /\ Goto(s, "release")
    BY <1>13 DEF SyncWait, RefusedInv
  <2> QED
    BY <1>8, <2>1 DEF Step
<1>14. ASSUME NEW s \in Sync, SyncRelease(s) PROVE RefusedInv'
  <2>1. pool' = pool /\ answer' = answer /\ Goto(s, "idle")
    BY <1>14 DEF SyncRelease, ReleaseHandle
  <2> QED
    BY <1>8, <2>1 DEF Step
<1>15. CASE UNCHANGED poolVars
  BY <1>2, <1>15 DEF poolVars
<1> QED
  BY <1>1, <1>3, <1>4, <1>5, <1>6, <1>7, <1>9, <1>10, <1>11, <1>12, <1>13, <1>14, <1>15
     DEF PoolNext, SyncStep

(* mli_mov_tensor_sync: transfers that hold channels, even all of them,    *)
(* never make a synchronous move fail to get its handle.                   *)
THEOREM SyncNotStarved == PoolSpec => []SyncRefusedOnlyByEmptyPool
<1>1. PoolInit => RefusedInv
  BY DEF PoolInit, RefusedInv, SyncRefusedOnlyByEmptyPool
<1>2. PoolInv /\ RefusedInv /\ [PoolNext]_poolVars => RefusedInv'
  BY NextRefused DEF PoolInv
<1>3. RefusedInv => SyncRefusedOnlyByEmptyPool
  BY DEF RefusedInv
<1> QED
  BY <1>1, <1>2, <1>3, PoolInvariance, PTL DEF PoolSpec

-----------------------------------------------------------------------------
(* Completion.  A handle whose prepare just returned OK has moved data; a  *)
(* synchronous move starts only such a handle, and begins with an unused   *)
(* one.                                                                    *)
MovedInv ==
  /\ DoneMeansMoved
  /\ \A h \in Handle : handle[h].state = "PREPARED" /\ answer[h] = "OK" => moved[h]
  /\ \A s \in Sync : pc[s] = "start" => handle[s].state = "PREPARED" /\ answer[s] = "OK"
  /\ \A s \in Sync : pc[s] \in {"idle", "acquire"} => handle[s].state = "INVALID"

LEMMA InitMoved == PoolInit => MovedInv
BY DEF PoolInit, MovedInv, DoneMeansMoved, IsDone, NullHandle, Handle

LEMMA NextMoved == DocumentedStart /\ TypeOK /\ MovedInv /\ [PoolNext]_poolVars => MovedInv'
<1> SUFFICES ASSUME DocumentedStart, TypeOK, MovedInv, [PoolNext]_poolVars PROVE MovedInv'
  OBVIOUS
<1>0. Async \subseteq Handle /\ Sync \subseteq Handle /\ Async \cap Sync = {}
  BY DEF Handle
<1> USE DEF MovedInv, DoneMeansMoved, IsDone
<1>1. ASSUME NEW h \in Handle, NEW n \in 0 .. MaxReq, AcquireHandle(h, n),
             handle[h].state = "INVALID",
             \A s \in Sync : IF s = h THEN pc'[s] \in {"prepare", "release"} ELSE pc'[s] = pc[s]
      PROVE  MovedInv'
  <2>1. /\ \A g \in Handle : g # h => /\ handle'[g] = handle[g]
                                     /\ answer'[g] = answer[g]
                                     /\ moved'[g] = moved[g]
        /\ handle'[h].state \in {"INVALID", "OPEN"}
    <3>1. CASE Granted(h, n)
      BY <1>1, <3>1 DEF Granted, AcquireHandle, TypeOK
    <3>2. CASE NotGranted(h, n)
      BY <1>1, <3>2 DEF NotGranted, AcquireHandle, TypeOK
    <3> QED
      BY <1>1, <3>1, <3>2 DEF AcquireHandle
  <2>2. DoneMeansMoved'
    BY <2>1
  <2>3. \A g \in Handle : handle'[g].state = "PREPARED" /\ answer'[g] = "OK" => moved'[g]
    BY <2>1
  <2>4. \A s \in Sync : pc'[s] = "start" => handle'[s].state = "PREPARED" /\ answer'[s] = "OK"
    BY <1>0, <1>1, <2>1
  <2>5. \A s \in Sync : pc'[s] \in {"idle", "acquire"} => handle'[s].state = "INVALID"
    BY <1>0, <1>1, <2>1
  <2> QED
    BY <2>2, <2>3, <2>4, <2>5
<1>2. ASSUME NEW h \in Handle, PrepareTransfer(h),
             \A s \in Sync : IF s = h THEN pc'[s] = IF answer'[s] = "OK" THEN "start" ELSE "release"
                                     ELSE pc'[s] = pc[s]
      PROVE  MovedInv'
  <2>1. CASE Prepared(h)
    BY <1>0, <1>2, <2>1 DEF Prepared, TypeOK
  <2>2. CASE PrepareRefused(h)
    BY <1>0, <1>2, <2>2 DEF PrepareRefused, PrepareTransfer, TypeOK
  <2>3. CASE PrepareUnsupported(h)
    BY <1>0, <1>2, <2>3 DEF PrepareUnsupported, TypeOK
  <2> QED
    BY <1>2, <2>1, <2>2, <2>3 DEF PrepareTransfer
<1>3. ASSUME NEW h \in Handle, StartTransfer(h), moved[h],
             \A s \in Sync : IF s = h THEN pc'[s] = "wait" ELSE pc'[s] = pc[s]
      PROVE  MovedInv'
  BY <1>0, <1>3 DEF StartTransfer, TypeOK
<1>4. ASSUME NEW h \in Handle, ReleaseHandle(h), answer' \in [Handle -> Result],
             \A g \in Handle : g # h => answer'[g] = answer[g],
             \A s \in Sync : IF s = h THEN pc'[s] = "idle" ELSE pc'[s] = pc[s]
      PROVE  MovedInv'
  BY <1>0, <1>4 DEF ReleaseHandle, NullHandle, TypeOK
<1>5. ASSUME UNCHANGED <<handle, answer, moved>>,
             \A s \in Sync : \/ pc'[s] = pc[s]
                             \/ pc[s] = "idle" /\ pc'[s] = "acquire"
                             \/ pc'[s] = "release"
      PROVE  MovedInv'
  BY <1>0, <1>5
<1>6. ASSUME NEW h \in Async, NEW n \in Requests, Acquire(h, n) PROVE MovedInv'
  BY <1>0, <1>1, <1>6 DEF Acquire
<1>7. ASSUME NEW h \in Async, AsyncPrepare(h) PROVE MovedInv'
  BY <1>0, <1>2, <1>7 DEF AsyncPrepare
<1>8. ASSUME NEW h \in Async, Start(h) PROVE MovedInv'
  BY <1>0, <1>3, <1>8 DEF Start
<1>9. ASSUME NEW h \in Async, Release(h) PROVE MovedInv'
  BY <1>0, <1>4, <1>9 DEF Release, TypeOK, Result
<1>10. ASSUME NEW s \in Sync, SyncStep(s) PROVE MovedInv'
  <2>1. CASE SyncAcquire(s)
    BY <1>0, <1>1, <2>1, 0 \in 0 .. MaxReq DEF SyncAcquire, Goto, TypeOK
  <2>2. CASE SyncPrepare(s)
    BY <1>0, <1>2, <2>2 DEF SyncPrepare, Goto, TypeOK
  <2>3. CASE SyncStart(s)
    BY <1>0, <1>3, <2>3 DEF SyncStart, Goto, TypeOK
  <2>4. CASE SyncWait(s)
    BY <1>0, <1>5, <2>4 DEF SyncWait, Goto, TypeOK
  <2>5. CASE SyncRelease(s)
    BY <1>0, <1>4, <2>5 DEF SyncRelease, Goto, TypeOK
  <2> QED
    BY <1>10, <2>1, <2>2, <2>3, <2>4, <2>5 DEF SyncStep
<1>11. ASSUME NEW s \in Sync, SyncCall(s) PROVE MovedInv'
  BY <1>0, <1>5, <1>11 DEF SyncCall, Goto, TypeOK
<1> QED
  BY <1>5, <1>6, <1>7, <1>8, <1>9, <1>10, <1>11
     DEF PoolNext, SetNumDmaCh, RegisterCallback, poolVars

(* With clients that start only what they prepared, a handle is DONE only  *)
(* after a prepare on it moved data.                                       *)
THEOREM Completion == DocumentedStart => (PoolSpec => []DoneMeansMoved)
<1> SUFFICES ASSUME DocumentedStart PROVE PoolSpec => []DoneMeansMoved
  OBVIOUS
<1>1. PoolInit => MovedInv
  BY InitMoved
<1>2. TypeOK /\ MovedInv /\ [PoolNext]_poolVars => MovedInv'
  BY NextMoved
<1>3. MovedInv => DoneMeansMoved
  BY DEF MovedInv
<1> QED
  BY <1>1, <1>2, <1>3, TypeCorrect, PTL DEF PoolSpec

-----------------------------------------------------------------------------
(* Callbacks.  The entry of a handle with channels is the one its client   *)
(* registered, because the entries of two such handles differ.             *)
CallbackInv ==
  \A h \in Async :
    /\ handle[h].state # "INVALID" => handle[h].num_ch > 0
    /\ registered[h] => /\ handle[h].state # "INVALID"
                        /\ callbacktable[handle[h].dma_ch] = h

LEMMA DistinctEntries ==
  ASSUME TypeOK, ChannelsExclusive, NEW g \in Handle, NEW h \in Handle, g # h,
         handle[g].num_ch > 0, handle[h].num_ch > 0
  PROVE  handle[g].dma_ch # handle[h].dma_ch
<1>1. \A f \in {g, h} : handle[f].dma_ch \in HeldBy(f)
  BY DEF HeldBy, Block, TypeOK, Channel
<1> QED
  BY <1>1 DEF ChannelsExclusive

LEMMA NextCallback == 0 \notin Requests /\ PoolInv /\ CallbackInv /\ [PoolNext]_poolVars => CallbackInv'
<1> SUFFICES ASSUME 0 \notin Requests, PoolInv, CallbackInv, [PoolNext]_poolVars PROVE CallbackInv'
  OBVIOUS
<1>0. /\ Async \subseteq Handle /\ Sync \subseteq Handle /\ Async \cap Sync = {}
      /\ TypeOK /\ ChannelsExclusive /\ Requests \subseteq 0 .. MaxReq
  BY DEF Handle, PoolInv
<1> USE DEF CallbackInv
<1>1. ASSUME NEW h \in Async, NEW n \in Requests, Acquire(h, n) PROVE CallbackInv'
  <2>1. CASE Granted(h, n)
    BY <1>0, <1>1, <2>1, n > 0 DEF Acquire, AcquireHandle, Granted, TypeOK
  <2>2. CASE NotGranted(h, n)
    BY <1>0, <1>1, <2>2 DEF Acquire, AcquireHandle, NotGranted, TypeOK
  <2> QED
    BY <1>1, <2>1, <2>2 DEF Acquire, AcquireHandle
<1>2. ASSUME NEW h \in Async, AsyncPrepare(h) PROVE CallbackInv'
  <2>1. CASE Prepared(h)
    BY <1>0, <1>2, <2>1 DEF AsyncPrepare, PrepareTransfer, Prepared, TypeOK
  <2>2. CASE PrepareRefused(h)
    BY <1>0, <1>2, <2>2 DEF AsyncPrepare, PrepareTransfer, PrepareRefused, TypeOK
  <2>3. CASE PrepareUnsupported(h)
    BY <1>0, <1>2, <2>3 DEF AsyncPrepare, PrepareTransfer, PrepareUnsupported, TypeOK
  <2> QED
    BY <1>2, <2>1, <2>2, <2>3 DEF AsyncPrepare, PrepareTransfer
<1>3. ASSUME NEW h \in Async, NEW cb \in {h, NoCb}, RegisterCallback(h, cb)
      PROVE  CallbackInv'
  <2>1. \A g \in Async : g # h /\ registered[g] => handle[g].dma_ch # handle[h].dma_ch
    BY <1>0, <1>3, DistinctEntries DEF RegisterCallback
  <2>2. handle[h].dma_ch \in Channel
    BY <1>0 DEF TypeOK
  <2> QED
    BY <1>0, <1>3, <2>1, <2>2 DEF RegisterCallback, TypeOK
<1>4. ASSUME NEW h \in Async, Start(h) PROVE CallbackInv'
  BY <1>0, <1>4 DEF Start, StartTransfer, TypeOK
<1>5. ASSUME NEW h \in Async, Release(h) PROVE CallbackInv'
  BY <1>0, <1>5 DEF Release, ReleaseHandle, NullHandle, TypeOK
<1>6. ASSUME NEW s \in Sync, SyncStep(s) PROVE CallbackInv'
  <2>1. \A h \in Async : handle'[h] = handle[h] /\ registered'[h] = registered[h]
    BY <1>0, <1>6
       DEF SyncStep, SyncAcquire, SyncPrepare, SyncStart, SyncWait, SyncRelease,
           AcquireHandle, Granted, NotGranted, PrepareTransfer, Prepared, PrepareRefused,
           PrepareUnsupported, StartTransfer, ReleaseHandle, TypeOK
  <2>2. callbacktable' = callbacktable
    BY <1>6
       DEF SyncStep, SyncAcquire, SyncPrepare, SyncStart, SyncWait, SyncRelease,
           AcquireHandle, PrepareTransfer, StartTransfer, ReleaseHandle
  <2> QED
    BY <2>1, <2>2
<1>7. CASE UNCHANGED <<handle, registered, callbacktable>>
  BY <1>7
<1> QED
  BY <1>1, <1>2, <1>3, <1>4, <1>5, <1>6, <1>7 DEF PoolNext, SetNumDmaCh, SyncCall, poolVars

(* What a step that completes a transfer calls. *)
LEMMA CompletionCalls ==
  ASSUME 0 \notin Requests, PoolInv, CallbackInv, [PoolNext]_poolVars, NEW h \in Async,
         registered[h], ~IsDone(h), IsDone(h)'
  PROVE  fired' = [by |-> h, cb |-> h]
<1>0. /\ Async \subseteq Handle /\ Sync \subseteq Handle /\ Async \cap Sync = {} /\ TypeOK
  BY DEF Handle, PoolInv
<1>1. handle' # handle
  BY DEF IsDone
<1>2. ASSUME NEW g \in Async, Start(g) PROVE fired' = [by |-> h, cb |-> h]
  <2>1. g = h
    BY <1>0, <1>2 DEF Start, StartTransfer, IsDone, TypeOK
  <2> QED
    BY <1>2, <2>1 DEF Start, StartTransfer, CallbackInv
<1>3. ASSUME NEW s \in Sync, SyncStep(s) PROVE FALSE
  BY <1>0, <1>3
     DEF SyncStep, SyncAcquire, SyncPrepare, SyncStart, SyncWait, SyncRelease,
         AcquireHandle, Granted, NotGranted, PrepareTransfer, Prepared, PrepareRefused,
         PrepareUnsupported, StartTransfer, ReleaseHandle, TypeOK, IsDone
<1>4. ASSUME NEW g \in Async, NEW n \in Requests, Acquire(g, n) PROVE FALSE
  BY <1>0, <1>4 DEF Acquire, AcquireHandle, Granted, NotGranted, TypeOK, IsDone
<1>5. ASSUME NEW g \in Async, AsyncPrepare(g) PROVE FALSE
  BY <1>0, <1>5
     DEF AsyncPrepare, PrepareTransfer, Prepared, PrepareRefused, PrepareUnsupported, TypeOK, IsDone
<1>6. ASSUME NEW g \in Async, Release(g) PROVE FALSE
  BY <1>0, <1>6 DEF Release, ReleaseHandle, NullHandle, TypeOK, IsDone
<1> QED
  BY <1>1, <1>2, <1>3, <1>4, <1>5, <1>6
     DEF PoolNext, SetNumDmaCh, RegisterCallback, SyncCall, poolVars

(* When every asynchronous handle asks for a channel at least, the callback*)
(* registered on a handle is called when its transfer completes.           *)
THEOREM Delivery == 0 \notin Requests => (PoolSpec => CallbackDelivered)
<1> SUFFICES ASSUME 0 \notin Requests PROVE PoolSpec => CallbackDelivered
  OBVIOUS
<1>1. PoolInit => CallbackInv
  BY DEF PoolInit, CallbackInv, Handle, NullHandle
<1>2. PoolInv /\ CallbackInv /\ [PoolNext]_poolVars => CallbackInv'
  BY NextCallback
<1>3. PoolInv /\ CallbackInv /\ [PoolNext]_poolVars =>
        [\A h \in Async :
           registered[h] /\ handle[h].num_ch > 0 /\ ~IsDone(h) /\ IsDone(h)'
             => fired' = [by |-> h, cb |-> h]]_poolVars
  BY CompletionCalls
<1> QED
  BY <1>1, <1>2, <1>3, PoolInvariance, PTL DEF PoolSpec, CallbackDelivered
-----------------------------------------------------------------------------
(* Refinement.  With exclusive channels the owner PoolOwner shows of a     *)
(* cell is the one handle that holds it.                                   *)
OwnersMatch ==
  \A c \in PoolCell :
    /\ OwnerOf(c) \in Handle \cup {Free, Outside}
    /\ OwnerOf(c) = Free <=> status[c] = "AVAILABLE"
    /\ \A h \in Handle : OwnerOf(c) = h <=> c \in HeldBy(h)

LEMMA OwnersAreHolders == TypeOK /\ ChannelsExclusive => OwnersMatch
<1> SUFFICES ASSUME TypeOK, ChannelsExclusive, NEW c \in PoolCell
             PROVE  /\ OwnerOf(c) \in Handle \cup {Free, Outside}
                    /\ OwnerOf(c) = Free <=> status[c] = "AVAILABLE"
                    /\ \A h \in Handle : OwnerOf(c) = h <=> c \in HeldBy(h)
  BY DEF OwnersMatch
<1>0. Free \notin Handle /\ Outside \notin Handle /\ Free # Outside
  BY DEF Handle
<1>1. CASE status[c] = "IN_USE"
  <2>1. PICK g \in Handle : c \in HeldBy(g)
    BY <1>1 DEF ChannelsExclusive
  <2>2. \A h \in Handle : c \in HeldBy(h) => h = g
    BY <2>1 DEF ChannelsExclusive
  <2>3. (CHOOSE h \in Handle : c \in HeldBy(h)) = g
    BY <2>1, <2>2
  <2>4. OwnerOf(c) = g
    BY <1>1, <2>3 DEF OwnerOf
  <2> QED
    BY <1>0, <1>1, <2>1, <2>2, <2>4
<1>2. CASE status[c] # "IN_USE"
  <2>1. \A h \in Handle : c \notin HeldBy(h)
    BY <1>2 DEF ChannelsExclusive
  <2>2. OwnerOf(c) = IF status[c] = "AVAILABLE" THEN Free ELSE Outside
    BY <1>2 DEF OwnerOf
  <2> QED
    BY <1>0, <2>1, <2>2
<1> QED
  BY <1>1, <1>2

LEMMA InitRefines == PoolInit => Abstract!Init
<1> SUFFICES ASSUME PoolInit PROVE PoolOwner \in [PoolCell -> {Free, Outside}]
  BY DEF Abstract!Init
<1>1. \A c \in PoolCell : status[c] # "IN_USE"
  BY DEF PoolInit
<1> QED
  BY <1>1 DEF PoolOwner, OwnerOf

(* The owner of a cell changes only with its status or its holders. *)
LEMMA SameOwners ==
  ASSUME OwnersMatch, OwnersMatch',
         NEW c \in PoolCell, status \in [PoolCell -> Status], status' \in [PoolCell -> Status],
         status'[c] = status[c],
         \A h \in Handle : c \in HeldBy(h)' <=> c \in HeldBy(h)
  PROVE  OwnerOf(c)' = OwnerOf(c)
<1>1. CASE OwnerOf(c) \in Handle
  BY <1>1 DEF OwnersMatch
<1>2. CASE OwnerOf(c) = Free
  BY <1>2 DEF OwnersMatch
<1>3. CASE OwnerOf(c) = Outside
  <2>1. Outside \notin Handle /\ Free # Outside
    BY DEF Handle
  <2>2. status[c] # "AVAILABLE" /\ \A h \in Handle : c \notin HeldBy(h)
    BY <1>3, <2>1 DEF OwnersMatch
  <2> QED
    BY <1>3, <2>2 DEF OwnersMatch
<1> QED
  BY <1>1, <1>2, <1>3 DEF OwnersMatch

LEMMA SameHolders ==
  ASSUME OwnersMatch, OwnersMatch', TypeOK, status' = status,
         \A h \in Handle : HeldBy(h)' = HeldBy(h)
  PROVE  PoolOwner' = PoolOwner
<1>1. \A c \in PoolCell : OwnerOf(c)' = OwnerOf(c)
  BY SameOwners DEF TypeOK
<1> QED
  BY <1>1 DEF PoolOwner

(* A granted block is taken from the free cells, a grant of no channel is  *)
(* no step of the abstract pool.                                           *)
LEMMA AcquireRefines ==
  ASSUME OwnersMatch, OwnersMatch', TypeOK, TypeOK', NEW h \in Handle, NEW n \in 0 .. MaxReq,
         AcquireHandle(h, n), handle[h].num_ch = 0
  PROVE  [Abstract!Next]_PoolOwner
<1>0. HeldBy(h) = {}
  BY handle[h].dma_ch \in Int DEF HeldBy, Block, TypeOK, Channel
<1>1. CASE Granted(h, n)
  <2>1. PICK i \in FreeBlocks(n) :
          /\ handle' = [handle EXCEPT ![h] = [dma_ch |-> i, num_ch |-> n, state |-> "OPEN"]]
          /\ status' = Mark(Block(i, n), "IN_USE")
    BY <1>1 DEF Granted
  <2>2. i \in Channel /\ \A c \in Block(i, n) : status[c] = "AVAILABLE"
    <3>1. i \in pool.base .. pool.base + pool.size - 1
      BY DEF FreeBlocks, PoolChannels, Block
    <3>2. /\ pool.base \in 0 .. MaxDmaChan - 1 /\ pool.size \in 0 .. MaxDmaChan
          /\ pool.base + pool.size <= MaxDmaChan
      BY DEF TypeOK, Channel
    <3>3. i \in Channel
      BY <3>1, <3>2, SizeAssumption DEF Channel
    <3> QED
      BY <3>3 DEF FreeBlocks
  <2>3. Block(i, n) \subseteq PoolCell
    BY <2>2 DEF Block, Channel, PoolCell
  <2>4. HeldBy(h)' = Block(i, n) /\ \A g \in Handle : g # h => HeldBy(g)' = HeldBy(g)
    BY <2>1 DEF HeldBy, TypeOK
  <2>5. CASE n = 0
    <3>1. Block(i, n) = {}
      BY <2>2, <2>5 DEF Block, Channel
    <3>2. status' = status
      BY <2>1, <3>1 DEF Mark, TypeOK
    <3> QED
      BY <1>0, <2>4, <3>1, <3>2, SameHolders
  <2>6. CASE n > 0
    <3>1. i .. i + n - 1 = Block(i, n) /\ i \in Block(i, n) /\ i + n - 1 \in Block(i, n)
      BY <2>2, <2>6 DEF Block, Channel
    <3>2. \A c \in Block(i, n) : PoolOwner[c] = Free
      BY <2>2, <2>3 DEF OwnersMatch, PoolOwner
    <3>3. Abstract!Owned(h) = {}
      BY <1>0 DEF Abstract!Owned, PoolOwner, OwnersMatch
    <3>4. \A c \in PoolCell : OwnerOf(c)' = IF c \in Block(i, n) THEN h ELSE OwnerOf(c)
      <4>1. ASSUME NEW c \in Block(i, n) PROVE OwnerOf(c)' = h
        BY <2>3, <2>4, <4>1 DEF OwnersMatch
      <4>2. ASSUME NEW c \in PoolCell, c \notin Block(i, n) PROVE OwnerOf(c)' = OwnerOf(c)
        <5>1. status'[c] = status[c]
          BY <2>1, <4>2 DEF Mark
        <5>2. \A g \in Handle : c \in HeldBy(g)' <=> c \in HeldBy(g)
          BY <1>0, <2>4, <4>2
        <5> QED
          BY <5>1, <5>2, SameOwners DEF TypeOK
      <4> QED
        BY <4>1, <4>2
    <3>5. PoolOwner' = [c \in PoolCell |-> IF c \in i .. i + n - 1 THEN h ELSE PoolOwner[c]]
      BY <3>1, <3>4 DEF PoolOwner
    <3>6. i .. i + n - 1 \subseteq Abstract!FreeCells
      BY <2>3, <3>1, <3>2 DEF Abstract!FreeCells
    <3>7. Abstract!Take(h, i, i + n - 1)
      BY <3>3, <3>5, <3>6 DEF Abstract!Take
    <3> QED
      BY <3>1, <3>6, <3>7 DEF Abstract!Next
  <2> QED
    BY <2>5, <2>6
<1>2. CASE NotGranted(h, n)
  BY <1>2, SameHolders DEF NotGranted, HeldBy
<1> QED
  BY <1>1, <1>2 DEF AcquireHandle

(* A release gives back all the handle holds. *)
LEMMA ReleaseRefines ==
  ASSUME OwnersMatch, OwnersMatch', TypeOK, TypeOK', NEW h \in Handle, ReleaseHandle(h)
  PROVE  Abstract!Next
<1>1. HeldBy(h)' = {} /\ \A g \in Handle : g # h => HeldBy(g)' = HeldBy(g)
  BY DEF ReleaseHandle, NullHandle, HeldBy, Block, TypeOK
<1>2. ASSUME NEW c \in PoolCell
      PROVE  OwnerOf(c)' = IF OwnerOf(c) = h THEN Free ELSE OwnerOf(c)
  <2>1. CASE c \in HeldBy(h)
    <3>1. status'[c] = "AVAILABLE"
      BY <2>1 DEF ReleaseHandle, Mark
    <3> QED
      BY <2>1, <3>1 DEF OwnersMatch
  <2>2. CASE c \notin HeldBy(h)
    <3>1. status'[c] = status[c]
      BY <2>2 DEF ReleaseHandle, Mark
    <3>2. \A g \in Handle : c \in HeldBy(g)' <=> c \in HeldBy(g)
      BY <1>1, <2>2
    <3>3. OwnerOf(c)' = OwnerOf(c)
      BY <3>1, <3>2, SameOwners DEF TypeOK
    <3> QED
      BY <2>2, <3>3 DEF OwnersMatch
  <2> QED
    BY <2>1, <2>2
<1>3. PoolOwner' = [c \in PoolCell |-> IF PoolOwner[c] = h THEN Free ELSE PoolOwner[c]]
  BY <1>2 DEF PoolOwner
<1> QED
  BY <1>3 DEF Abstract!Next, Abstract!Give

(* Configuring the pool assigns its channels. *)
LEMMA ConfigureRefines ==
  ASSUME PoolInv, OwnersMatch, OwnersMatch', TypeOK',
         NEW ch_offset \in Channel, NEW num_ch \in 0 .. MaxDmaChan - ch_offset,
         SetNumDmaCh(ch_offset, num_ch)
  PROVE  Abstract!Next
<1> DEFINE B == Block(ch_offset, num_ch)
<1>0. TypeOK
  BY DEF PoolInv
<1>1. B \subseteq PoolCell
  BY DEF Block, Channel, PoolCell
<1>2. \A h \in Handle : HeldBy(h) = {} /\ HeldBy(h)' = HeldBy(h)
  BY DEF SetNumDmaCh, MayConfigure, PoolInv, HoldsNothing, TypeOK, HeldBy, Block, Channel
<1>3. \A h \in Handle : Abstract!Owned(h) = {}
  BY <1>2 DEF Abstract!Owned, PoolOwner, OwnersMatch
<1>4. ASSUME NEW c \in PoolCell
      PROVE  OwnerOf(c)' = IF c \in B THEN Free ELSE OwnerOf(c)
  <2>1. CASE c \in B
    <3>1. status'[c] = "AVAILABLE"
      BY <2>1 DEF SetNumDmaCh, Mark
    <3> QED
      BY <2>1, <3>1 DEF OwnersMatch
  <2>2. CASE c \notin B
    <3>1. status'[c] = status[c]
      BY <2>2 DEF SetNumDmaCh, Mark
    <3> QED
      BY <1>0, <1>2, <2>2, <3>1, SameOwners DEF TypeOK
  <2> QED
    BY <2>1, <2>2
<1>5. PoolOwner' = [c \in PoolCell |-> IF c \in B THEN Free ELSE PoolOwner[c]]
  BY <1>4 DEF PoolOwner
<1>6. Abstract!Assign(B)
  BY <1>3, <1>5 DEF Abstract!Assign
<1> QED
  BY <1>1, <1>6 DEF Abstract!Next

LEMMA NextRefines ==
  PoolInv /\ OwnersMatch /\ PoolInv' /\ OwnersMatch' /\ [PoolNext]_poolVars => [Abstract!Next]_PoolOwner
<1> SUFFICES ASSUME PoolInv, OwnersMatch, PoolInv', OwnersMatch', [PoolNext]_poolVars
             PROVE  [Abstract!Next]_PoolOwner
  OBVIOUS
<1>0. /\ TypeOK /\ TypeOK' /\ HoldsNothing
      /\ Async \subseteq Handle /\ Sync \subseteq Handle
      /\ Requests \subseteq 0 .. MaxReq /\ 0 \in 0 .. MaxReq
  BY DEF Handle, PoolInv
<1>1. ASSUME NEW h \in Handle, PrepareTransfer(h) \/ StartTransfer(h)
      PROVE  PoolOwner' = PoolOwner
  <2>1. status' = status /\ \A g \in Handle : HeldBy(g)' = HeldBy(g)
    BY <1>0, <1>1, StateOnly DEF HeldBy
  <2> QED
    BY <1>0, <2>1, SameHolders
<1>2. CASE UNCHANGED <<status, handle>>
  BY <1>0, <1>2, SameHolders DEF HeldBy
<1>3. ASSUME NEW h \in Async, NEW n \in Requests, Acquire(h, n)
      PROVE  [Abstract!Next]_PoolOwner
  BY <1>0, <1>3, AcquireRefines DEF Acquire, HoldsNothing
<1>4. ASSUME NEW s \in Sync, SyncStep(s) PROVE [Abstract!Next]_PoolOwner
  <2>1. CASE SyncAcquire(s)
    BY <1>0, <2>1, AcquireRefines DEF SyncAcquire, HoldsNothing
  <2>2. CASE SyncRelease(s)
    BY <1>0, <2>2, ReleaseRefines DEF SyncRelease
  <2> QED
    BY <1>0, <1>1, <1>2, <1>4, <2>1, <2>2 DEF SyncStep, SyncPrepare, SyncStart, SyncWait
<1>5. ASSUME NEW ch_offset \in Channel, NEW num_ch \in 0 .. MaxDmaChan - ch_offset,
             SetNumDmaCh(ch_offset, num_ch)
      PROVE  Abstract!Next
  BY <1>0, <1>5, ConfigureRefines
<1>6. ASSUME NEW h \in Async, Release(h) PROVE Abstract!Next
  BY <1>0, <1>6, ReleaseRefines DEF Release
<1> QED
  BY <1>0, <1>1, <1>2, <1>3, <1>4, <1>5, <1>6
     DEF PoolNext, AsyncPrepare, Start, RegisterCallback, SyncCall, poolVars

(* Every behaviour of the bookkeeping is one of the abstract pool: cells   *)
(* change hands only through a release, and a handle takes all it needs in *)
(* one block.                                                              *)
THEOREM Refinement == PoolSpec => ImplementsPool
<1>1. PoolInv => OwnersMatch
  BY OwnersAreHolders DEF PoolInv
<1>2. PoolInit => Abstract!Init
  BY InitRefines
<1>3. PoolInv /\ OwnersMatch /\ PoolInv' /\ OwnersMatch' /\ [PoolNext]_poolVars => [Abstract!Next]_PoolOwner
  BY NextRefines
<1> QED
  BY <1>1, <1>2, <1>3, PoolInvariance, PTL DEF PoolSpec, ImplementsPool, Abstract!Spec
=============================================================================
