----------------------------- MODULE MovTransfer -----------------------------
(***************************************************************************)
(* What a data movement moves: mli_mov_prepare of                          *)
(* lib/src/move/mli_mov_api.cc with the checks before it and the copy      *)
(* loops of lib/src/move/impl/mli_mov_ref.h.  One action is one call; the  *)
(* application moves several sources into one destination tensor one after *)
(* the other, so a call meets the shape, the strides and the parameters    *)
(* that an earlier call left in the destination.                           *)
(*                                                                         *)
(* A buffer cell holds the name of the element copied into it (a source    *)
(* and a cell of its buffer), the zero of padding, or what was there.  The *)
(* field data of a descriptor is the address of its buffer here, in bytes. *)
(***************************************************************************)
EXTENDS Tensor, Numbers, FiniteSetsExt

CONSTANTS
  Sources,       \* names of the source tensors
  SrcTensor,     \* their descriptors
  Cfgs,          \* for each, the configurations (mli_mov_cfg_t) it is moved with
  DstInit,       \* destination descriptors it starts with
  Cells,         \* cells modelled behind the destination pointer
  Own,           \* parameter arrays the application allocated for dst
  MaxCalls       \* bound of the number of calls

VARIABLES
  dst,       \* the destination descriptor
  mem,       \* the cells from its data pointer on, the buffer's and beyond
  arrays,    \* whose parameters each parameter array holds
  ret,       \* what the last call returned
  calls,     \* calls made
  last       \* history: the source and configuration of the last call

vars == <<dst, mem, arrays, ret, calls, last>>

Cell == 0 .. Cells - 1

(* Parameter pointers of a destination: NULL, arrays of a source or its    *)
(* own.  A tensor with one scale keeps the value itself there.             *)
Null == "null"
Value == "value"

Elem(s, at) == [of |-> s, at |-> at]
Zero == Elem("zero", 0)
Before == Elem("before", 0)

(* The positions below the given sizes. *)
Box(sizes) ==
  LET bound == Max({0} \cup {sizes[i] : i \in DOMAIN sizes})
  IN  {q \in [DOMAIN sizes -> 0 .. bound - 1] : \A i \in DOMAIN sizes : q[i] < sizes[i]}

PerAxis(s) == SrcTensor[s].dim > 0

-----------------------------------------------------------------------------
(* The helpers that fill a configuration.                                  *)

Array(x) == [i \in 1 .. MaxRank |-> x]

CfgForPermute(perm_dim) ==
  [offset |-> Array(0), size |-> Array(0), sub_sample_step |-> Array(1),
   dst_offset |-> Array(0), dst_mem_stride |-> Array(0), perm_dim |-> perm_dim,
   padding_pre |-> Array(0), padding_post |-> Array(0)]

CfgForCopy == CfgForPermute([i \in 1 .. MaxRank |-> i])

CfgForSlice(offsets, sizes, dst_mem_stride) ==
  [CfgForCopy EXCEPT !.offset = offsets, !.size = sizes, !.dst_mem_stride = dst_mem_stride]

CfgForConcat(dst_offsets, dst_mem_stride) ==
  [CfgForCopy EXCEPT !.dst_offset = dst_offsets, !.dst_mem_stride = dst_mem_stride]

CfgForSubsample(sub_sample_step, dst_mem_stride) ==
  [CfgForCopy EXCEPT !.sub_sample_step = sub_sample_step, !.dst_mem_stride = dst_mem_stride]

(* Padding of height and width, in the layout that has them at h and w.    *)
Padded(cfg, h, w, left, right, top, bot) ==
  [cfg EXCEPT !.padding_pre[w] = left, !.padding_post[w] = right,
              !.padding_pre[h] = top, !.padding_post[h] = bot]

CfgForPadding2dChw(left, right, top, bot, dst_mem_stride) ==
  Padded([CfgForCopy EXCEPT !.dst_mem_stride = dst_mem_stride], 2, 3, left, right, top, bot)

CfgForPadding2dHwc(left, right, top, bot, dst_mem_stride) ==
  Padded([CfgForCopy EXCEPT !.dst_mem_stride = dst_mem_stride], 1, 2, left, right, top, bot)

CfgAll(offsets, sizes, step, dst_offsets, dst_mem_stride, perm_dim, left, right, top, bot) ==
  Padded([offset |-> offsets, size |-> sizes, sub_sample_step |-> step,
          dst_offset |-> dst_offsets, dst_mem_stride |-> dst_mem_stride,
          perm_dim |-> perm_dim, padding_pre |-> Array(0), padding_post |-> Array(0)],
         1, 2, left, right, top, bot)

-----------------------------------------------------------------------------
(* The checks of mli_chk_data_movement, in the order of the code.          *)

(* Arrays to copy into must hold what the source has. *)
ParamsRoom(s, d) ==
  PerAxis(s) /\ d.qptr \notin {Null, s} => d.params_cap >= SrcTensor[s].params_cap

(* Mutant: the size is compared without the offset. *)
CfgFitsLoose(s, c, d) ==
  \A i \in Dims(SrcTensor[s]) :
    /\ c.size[i] <= SrcTensor[s].shape[i]
    /\ c.dst_offset[i] <= d.shape[i]
    /\ c.size[i] = 0 \/ c.size[i] + c.offset[i] = SrcTensor[s].shape[i] \/ c.padding_post[i] = 0

CfgFits(s, c, d) ==
  \A i \in Dims(SrcTensor[s]) :
    /\ c.size[i] + c.offset[i] <= SrcTensor[s].shape[i]
    /\ c.dst_offset[i] <= d.shape[i]
    /\ c.size[i] = 0 \/ c.size[i] + c.offset[i] = SrcTensor[s].shape[i] \/ c.padding_post[i] = 0

(* One buffer ends before the other starts, by the low 32 bits of their    *)
(* addresses (data.mem.i32).                                               *)
Apart(s, d) ==
  LET src == SrcTensor[s]
  IN  \/ d.data >= (src.data + src.capacity) % Modulus
      \/ src.data >= (d.data + d.capacity) % Modulus

CheckMovement(s, c, d) ==
  IF CheckTensor(SrcTensor[s]) # "OK" THEN CheckTensor(SrcTensor[s])
  ELSE IF ~ParamsRoom(s, d) THEN "SPEC_PARAM_MISMATCH"
  ELSE IF ~CfgFits(s, c, d) THEN "BAD_FUNC_CFG"
  ELSE IF ~Apart(s, d) THEN "INCOMPATEBLE_TENSORS"
  ELSE "OK"

-----------------------------------------------------------------------------
(* The destination descriptor a call leaves behind.                        *)

CopySize(s, c, i) ==
  LET p == c.perm_dim[i]
  IN  IF c.size[p] > 0 THEN c.size[p] ELSE SrcTensor[s].shape[p] - c.offset[p]

(* Mutant: the division rounds down. *)
WriteSizeFloor(s, c, i) ==
  LET p == c.perm_dim[i]
  IN  (CopySize(s, c, i) + c.padding_pre[p] + c.padding_post[p]) \div c.sub_sample_step[p]

WriteSize(s, c, i) ==
  LET p == c.perm_dim[i]
  IN  CeilDiv(CopySize(s, c, i) + c.padding_pre[p] + c.padding_post[p],
              c.sub_sample_step[p])

(* A stride comes from the configuration, else from an earlier use of the  *)
(* descriptor, else from the shape.                                        *)
Filled(s, c, d) ==
  LET src   == SrcTensor[s]
      shape == [i \in 1 .. MaxRank |->
                  IF i <= src.rank THEN WriteSize(s, c, i) + c.dst_offset[i] ELSE 1]
      given == [i \in 1 .. MaxRank |->
                  IF c.dst_mem_stride[i] # 0 THEN c.dst_mem_stride[i] ELSE d.mem_stride[i]]
  IN  [d EXCEPT !.rank = src.rank, !.elem = src.elem, !.dim = src.dim,
                !.shape = shape,
                !.mem_stride = Strides(given, shape, src.rank),
                !.qptr = IF ~PerAxis(s) THEN Value ELSE IF @ = Null THEN s ELSE @,
                !.params_cap = IF ~PerAxis(s) \/ d.qptr \in {Null, s} THEN src.params_cap ELSE @]

(* Mutant: only the pointers are set up. *)
ParamsMovedNever(s, d) == arrays

(* Parameters are copied only into arrays other than the source's. *)
ParamsMoved(s, d) ==
  IF PerAxis(s) /\ d.qptr \notin {Null, s}
  THEN [arrays EXCEPT ![d.qptr] = arrays[s]] ELSE arrays

-----------------------------------------------------------------------------
(* The copy.                                                               *)

NoPadding(s, c) ==
  \A i \in Dims(SrcTensor[s]) : c.padding_pre[i] = 0 /\ c.padding_post[i] = 0

SrcStrides(s) == Strides(SrcTensor[s].mem_stride, SrcTensor[s].shape, SrcTensor[s].rank)

(* Mutant: the strides of the destination are not looked at. *)
Single1DSrcOnly(s, c, d) ==
  LET src    == SrcTensor[s]
      packed == Strides([i \in 1 .. MaxRank |-> 0], src.shape, src.rank)
  IN  /\ \A i \in Dims(src) : /\ SrcStrides(s)[i] = packed[i]
                              /\ src.shape[i] = d.shape[i]
                              /\ c.perm_dim[i] = i
      /\ NoPadding(s, c)

(* All of the source is one block, and so is the destination of the same   *)
(* shape: the data is copied as it is.                                     *)
Single1D(s, c, d) ==
  LET src    == SrcTensor[s]
      packed == Strides([i \in 1 .. MaxRank |-> 0], src.shape, src.rank)
  IN  /\ \A i \in Dims(src) : /\ SrcStrides(s)[i] = packed[i] /\ d.mem_stride[i] = packed[i]
                              /\ src.shape[i] = d.shape[i]
                              /\ c.perm_dim[i] = i
      /\ NoPadding(s, c)

(* What the loops write: for each position of the written part, the cell   *)
(* and its new content.  Positions are those of the destination; the       *)
(* padded loops compare with the source's shape, the others need not.      *)
LoopWrites(s, c, d) ==
  LET src     == SrcTensor[s]
      strides == SrcStrides(s)
      padded  == ~NoPadding(s, c)
      spos(q, p, i) == q[i] * c.sub_sample_step[p] + c.offset[p] - c.padding_pre[p]
      at(q)      == [i \in 1 .. MaxRank |->
                       IF i <= src.rank THEN spos(q, c.perm_dim[i], i) ELSE 0]
      padding(x) == padded /\ \E i \in Dims(src) : x[i] \notin 0 .. src.shape[c.perm_dim[i]] - 1
      term(x, i) == IF i <= src.rank THEN x[i] * strides[c.perm_dim[i]] ELSE 0
      from(x)    == term(x, 1) + term(x, 2) + term(x, 3) + term(x, 4)
      to(q)      == Offset(d, [i \in Dims(src) |-> q[i] + c.dst_offset[i]])
      content(x) == IF padding(x) THEN Zero ELSE Elem(s, from(x))
  IN  {[cell |-> to(q), content |-> content(at(q))] :
         q \in Box([i \in Dims(src) |-> WriteSize(s, c, i)])}

Writes(s, c, d) ==
  IF Single1D(s, c, d)
  THEN {[cell |-> i, content |-> Elem(s, i)] : i \in 0 .. ElemNum(SrcTensor[s]) - 1}
  ELSE LoopWrites(s, c, d)

Written(W) ==
  [i \in Cell |-> IF \E w \in W : w.cell = i
                  THEN (CHOOSE w \in W : w.cell = i).content ELSE mem[i]]

-----------------------------------------------------------------------------
Init ==
  /\ dst \in DstInit
  /\ mem = [i \in Cell |-> Before]
  /\ arrays = [a \in Sources \cup {Own} |-> a]
  /\ ret = "OK"
  /\ calls = 0
  /\ last = [src |-> "none", cfg |-> "none"]

(* What the application sets up for a call: per the documentation the      *)
(* parameter pointers are NULL, those of the source or its own arrays,     *)
(* which may be too small.                                                 *)
SetUp(s) ==
  LET cap == SrcTensor[s].params_cap
      set(q, n) == [dst EXCEPT !.qptr = q, !.params_cap = n]
  IN  IF PerAxis(s) THEN {set(Null, 0), set(s, cap), set(Own, cap), set(Own, cap - 1)}
      ELSE {set(Null, 0)}

Move(s, c) ==
  \E d \in SetUp(s) :
    LET filled == Filled(s, c, d)
        check  == CheckTensor(filled)
        writes == Writes(s, c, filled)
    IN  /\ CheckMovement(s, c, d) = "OK"
        /\ dst' = filled
        /\ arrays' = ParamsMoved(s, d)
        /\ ret' = check
        /\ mem' = IF check = "OK" THEN Written(writes) ELSE mem

Refuse(s, c) ==
  \E d \in SetUp(s) :
    /\ CheckMovement(s, c, d) # "OK"
    /\ dst' = d
    /\ ret' = CheckMovement(s, c, d)
    /\ UNCHANGED <<mem, arrays>>

Prepare(s, c) ==
  /\ calls < MaxCalls
  /\ calls' = calls + 1
  /\ last' = [src |-> s, cfg |-> c]
  /\ Move(s, c) \/ Refuse(s, c)

Next == \E s \in Sources : \E c \in Cfgs[s] : Prepare(s, c)

Spec == Init /\ [][Next]_vars

-----------------------------------------------------------------------------
(* What a move should do, by coordinates.  The input tensor is extended    *)
(* virtually by zeros; from offset on, size elements and the padding are   *)
(* taken, every step-th of them, and placed at dst_offset with the         *)
(* dimensions reordered.                                                   *)

(* The source coordinates shown at position y of the written part.         *)
Shown(s, c, y) ==
  [p \in Dims(SrcTensor[s]) |->
     LET i == CHOOSE j \in Dims(SrcTensor[s]) : c.perm_dim[j] = p
     IN  c.offset[p] - c.padding_pre[p] + c.sub_sample_step[p] * y[i]]

Extended(s, x) ==
  IF HasPosition(SrcTensor[s], x) THEN Elem(s, Offset(SrcTensor[s], x)) ELSE Zero

(* The written part: every step-th index of the extended slice.            *)
Part(s, c) ==
  LET src    == SrcTensor[s]
      taken(p)  == (IF c.size[p] > 0 THEN c.size[p] ELSE src.shape[p] - c.offset[p])
                     + c.padding_pre[p] + c.padding_post[p]
      ticks(p)  == {k \in 0 .. taken(p) : k * c.sub_sample_step[p] < taken(p)}
  IN  Box([i \in Dims(src) |-> Cardinality(ticks(c.perm_dim[i]))])

Place(s, c, y) ==
  [i \in 1 .. MaxRank |-> IF i \in Dims(SrcTensor[s]) THEN y[i] + c.dst_offset[i] ELSE 0]

-----------------------------------------------------------------------------
(* Properties.                                                             *)

(* What the last call was asked for is in place, and nothing else changed. *)
ExactlyMoved ==
  LET s == last'.src
      c == last'.cfg
      content == {[cell |-> Offset(dst', Place(s, c, y)),
                   content |-> Extended(s, Shown(s, c, y))] : y \in Part(s, c)}
      cells == {w.cell : w \in content}
  IN  IF ret' = "OK"
      THEN /\ \A w \in content : w.cell \in Cell /\ mem'[w.cell] = w.content
           /\ \A i \in Cell \ cells : mem'[i] = mem[i]
      ELSE mem' = mem

(* A move that returns OK puts the reference's content at every position   *)
(* of the written part and leaves every other cell as it was, whichever    *)
(* copy loop the code chose; a move that is refused leaves them all.       *)
MoveExact == [][ExactlyMoved]_vars

(* The descriptor a successful move leaves is one a kernel can rely on:    *)
(* every position has a cell of its own, inside the buffer.                *)
DescriptorFits ==
  calls > 0 /\ ret = "OK" =>
    LET positions == Box([i \in Dims(dst) |-> dst.shape[i]])
        cells == {Offset(dst, q) : q \in positions}
    IN  /\ \A i \in cells : i >= 0 /\ (i + 1) * dst.elem <= dst.capacity
        /\ Cardinality(cells) = Cardinality(positions)

(* Nothing is written behind the buffer, and nothing is read from where    *)
(* the source has no element: not behind it, and not in its gaps.          *)
InsideBuffers ==
  LET Elements(t) == {Offset(t, q) : q \in Box([d \in Dims(t) |-> t.shape[d]])}
      stored(s) == {mem[i].at : i \in {j \in Cell : mem[j].of = s}}
  IN  /\ \A i \in Cell : (i + 1) * dst.elem > dst.capacity => mem[i] = Before
      /\ \A s \in Sources : stored(s) \subseteq Elements(SrcTensor[s])

(* The element moved to a position has in dst the quantization parameters  *)
(* it has in the source.                                                   *)
ParamsFollow ==
  calls > 0 /\ ret = "OK" /\ PerAxis(last.src) =>
    LET s == last.src
        c == last.cfg
    IN  /\ arrays[dst.qptr] = s
        /\ \A y \in Part(s, c) :
             HasPosition(SrcTensor[s], Shown(s, c, y)) =>
               Place(s, c, y)[dst.dim] = Shown(s, c, y)[SrcTensor[s].dim]

(* The same where the quantized dimension is moved whole and in place.     *)
AxisInPlace(s, c) ==
  LET p == SrcTensor[s].dim
  IN  /\ c.perm_dim[p] = p /\ c.offset[p] = 0 /\ c.dst_offset[p] = 0
      /\ c.sub_sample_step[p] = 1 /\ c.padding_pre[p] = 0

ParamsFollowInPlace ==
  calls > 0 /\ PerAxis(last.src) /\ AxisInPlace(last.src, last.cfg) => ParamsFollow
=============================================================================
