----------------------------- MODULE Conversion ------------------------------
(***************************************************************************)
(* mli_hlp_convert_tensor between the quantized types fx8, fx16 and sa8.   *)
(* Each slice along the dimension that has a scale for each index gets the *)
(* requantization parameters of its index: a scale, a shift, and an offset *)
(* in which both zero points are folded together.  Then its elements are   *)
(* converted one after the other, perhaps in place.                        *)
(*                                                                         *)
(* Values are the numbers the code computes with, in their own widths.     *)
(***************************************************************************)
EXTENDS Tensor, FixedPoint, Numbers

CONSTANT Calls     \* the calls an application makes

(* A call has the descriptors src and dst, whether dst has the data        *)
(* pointer of src, and what is in the memory of src; in place the elements *)
(* of both have one size, as memory is one of elements here.  Besides the  *)
(* fields of Tensor a descriptor has a type and, for each index of the dimension  *)
(* dim or for 1, scale, frac and zero; an fx tensor has scale 1 and zero   *)
(* point 0.  dst comes with a rank of its own, and the parameters of dst,  *)
(* which are not checked, are those of a dimension of src.                 *)
Bits(type) == IF type = "FX_16" THEN 16 ELSE 8

ASSUME CallsAssumption ==
  \A c \in Calls :
    /\ c.shared \in BOOLEAN
    /\ c.shared => c.src.elem = c.dst.elem
    /\ c.dst.rank \in 1 .. MaxRank /\ {c.src.dim, c.dst.dim} \subseteq 0 .. c.src.rank
    /\ \A t \in {c.src, c.dst} :
         /\ t.type \in {"FX_8", "FX_16", "SA_8"}
         /\ t.elem = Bits(t.type) \div 8
         /\ 1 .. (IF t.dim > 0 THEN c.src.shape[t.dim] ELSE 1) = DOMAIN t.scale
         /\ \A i \in DOMAIN t.scale : t.scale[i] \in 1 .. Hi(16)
         /\ t.type # "SA_8" => t.dim = 0 /\ t.scale = <<1>> /\ t.zero = <<0>>
    /\ 0 .. Span(c.src) - 1 \subseteq DOMAIN c.values
    /\ \A i \in DOMAIN c.values : c.values[i] \in Lo(Bits(c.src.type)) .. Hi(Bits(c.src.type))

VARIABLES
  call,          \* the call in progress
  dst,           \* its destination descriptor
  slice,         \* scale_idx, from 1
  slice_params,  \* s8asym_quant_params of the slice
  element,       \* elements of the slice that are done
  src_mem,       \* the memory behind the data pointer of src
  dst_mem,       \* and behind that of dst; in place they are one
  status         \* "called", "running", or what the helper returned

vars == <<call, dst, slice, slice_params, element, src_mem, dst_mem, status>>

-----------------------------------------------------------------------------
(* Checks.                                                                 *)

Matching(s, d) ==
  s.rank = d.rank /\ \A i \in 1 .. s.rank - 1 : s.mem_stride[i] = d.mem_stride[i]

(* The descriptor of the destination as the checks see it. *)
Filled(c) == [c.dst EXCEPT !.rank = c.src.rank, !.shape = c.src.shape]

(* The last dimension of dst is the one of the rank it had before. *)
Check(c) ==
  IF CheckTensor(c.src) # "OK" THEN CheckTensor(c.src)
  ELSE IF CheckLayout(Filled(c)) # "OK" THEN CheckLayout(Filled(c))
  ELSE IF c.src.mem_stride[c.src.rank] # 1 \/ c.dst.mem_stride[c.dst.rank] # 1
       THEN "INCOMPATEBLE_TENSORS"
  ELSE IF c.shared /\ c.src.type = c.dst.type /\ ~Matching(c.src, c.dst)
       THEN "INCOMPATEBLE_TENSORS"
  ELSE IF ElemNum(c.src) * c.dst.elem > c.dst.capacity THEN "NOT_ENGH_MEM"
  ELSE IF c.src.type = "SA_8" /\ c.dst.type = "SA_8"
            /\ c.src.dim # c.dst.dim /\ c.src.dim > 0 /\ c.dst.dim > 0
       THEN "SIZE_MISMATCH"
  ELSE "OK"

-----------------------------------------------------------------------------
(* Requantization parameters.                                              *)

Param(t, values, i) == IF t.dim > 0 THEN values[i] ELSE values[1]
Scale(t, i) == Param(t, t.scale, i)
Frac(t, i) == Param(t, t.frac, i)
Zero(t, i) == Param(t, t.zero, i)

(* define_requant_params: out = scale * in / 2^shift + offset. *)
Requant(s, d, i) ==
  LET pre == Norm(32, Scale(s, i)) - Norm(16, Scale(d, i))
      ratio == NormCast(32, 16, (Scale(s, i) * 2^pre) \div Scale(d, i))
      shift == pre + Frac(s, i) - Frac(d, i) - ratio.shift
  IN  [scale |-> ratio.val, shift |-> shift,
       offset |-> SubSat(16, Zero(d, i), Cast(32, 16, ratio.val * Zero(s, i), shift))]

(* The offset becomes a value of the destination before it is added. *)
Converted(p, w, x) == AddSat(w, Cast(32, w, x * p.scale, p.shift), Narrow(w, p.offset))

-----------------------------------------------------------------------------
(* Slices and their elements.                                              *)

ScaleDim(c) == IF c.dst.dim > 0 THEN c.dst.dim ELSE c.src.dim
Slices(c) == IF ScaleDim(c) > 0 THEN c.src.shape[ScaleDim(c)] ELSE 1

Elements(c) == SliceLength(c.src, ScaleDim(c))

(* The n-th position of the loops over a slice. *)
Position(c, i, n) == SlicePosition(c.src, ScaleDim(c), i - 1, n)

-----------------------------------------------------------------------------
Init ==
  /\ call \in Calls
  /\ dst = call.dst
  /\ slice = 0 /\ element = 0
  /\ slice_params = <<>>
  /\ src_mem = call.values
  /\ dst_mem = IF call.shared THEN call.values ELSE [i \in {} |-> 0]
  /\ status = "called"

Refuse ==
  /\ status = "called" /\ Check(call) # "OK"
  /\ status' = Check(call)
  /\ UNCHANGED <<call, dst, slice, slice_params, element, src_mem, dst_mem>>

(* Mutant: the next slice keeps the parameters it finds. *)
SliceParamsOfFirst(c, d, i) == Requant(c.src, d, 1)

SliceParams(c, d, i) == Requant(c.src, d, i)

Start ==
  /\ status = "called" /\ Check(call) = "OK"
  /\ status' = "running"
  /\ dst' = Filled(call)
  /\ slice' = 1 /\ element' = 0
  /\ slice_params' = SliceParams(call, dst', 1)
  /\ UNCHANGED <<call, src_mem, dst_mem>>

Convert ==
  /\ status = "running" /\ element < Elements(call)
  /\ LET pos == Position(call, slice, element)
         from == Offset(call.src, pos)
         at == Offset(dst, pos)
         value == Converted(slice_params, Bits(dst.type), src_mem[from])
     IN  /\ dst_mem' = [i \in DOMAIN dst_mem \cup {at} |-> IF i = at THEN value ELSE dst_mem[i]]
         /\ src_mem' = IF call.shared THEN dst_mem' ELSE src_mem
  /\ element' = element + 1
  /\ UNCHANGED <<call, dst, slice, slice_params, status>>

NextSlice ==
  /\ status = "running" /\ element = Elements(call) /\ slice < Slices(call)
  /\ slice' = slice + 1 /\ element' = 0
  /\ slice_params' = SliceParams(call, dst, slice + 1)
  /\ UNCHANGED <<call, dst, src_mem, dst_mem, status>>

Return ==
  /\ status = "running" /\ element = Elements(call) /\ slice = Slices(call)
  /\ status' = "OK"
  /\ UNCHANGED <<call, dst, slice, slice_params, element, src_mem, dst_mem>>

Next == Refuse \/ Start \/ Convert \/ NextSlice \/ Return

Spec == Init /\ [][Next]_vars

-----------------------------------------------------------------------------
(* The formula of the documentation: the ratio of the scales as a rational *)
(* number, rounded to the nearest, half up, and saturated at the end.      *)

Documented(s, d, i, x) ==
  LET frac == Frac(d, i) - Frac(s, i)
      num == (x - Zero(s, i)) * Scale(s, i) * 2^Most(frac, 0)
      den == Scale(d, i) * 2^Most(0 - frac, 0)
      w == Bits(d.type)
  IN  Clamp(Lo(w), Hi(w), ((2 * num + den) \div (2 * den)) + Zero(d, i))

Near(x, y, distance) == x - y <= distance /\ y - x <= distance

(* The offset is a value of the destination, and the product one that has  *)
(* not to be saturated yet. *)
Unclipped(p, w, x) ==
  /\ p.offset \in Lo(w) .. Hi(w)
  /\ p.offset = 0 \/ AsrRnd(32, x * p.scale, p.shift) \in Lo(w) .. Hi(w)

(* In place, an element is read before its place is written: the rows are  *)
(* the same and so is the distance of adjacent elements, which the check   *)
(* asks for only of equal types and in the dimension dst ended with.       *)
ReadFirst(c) == c.shared => \A i \in Dims(c.src) : c.src.mem_stride[i] = c.dst.mem_stride[i]

Index(c, pos) == IF ScaleDim(c) > 0 THEN pos[ScaleDim(c)] + 1 ELSE 1

AllPositions(c) == {Position(c, i, n) : i \in 1 .. Slices(c), n \in 0 .. Elements(c) - 1}

-----------------------------------------------------------------------------
(* Properties.                                                             *)

(* What the conversion of one element makes of it. *)
Due(c, d, pos) ==
  Converted(Requant(c.src, d, Index(c, pos)), Bits(d.type), c.values[Offset(c.src, pos)])

(* Each element of the destination is what the element of the source at    *)
(* its position converts to, with the parameters of its slice: no element  *)
(* is left out, converted twice or overwritten before it was read, with    *)
(* other strides or in place.                                              *)
ConvertedOnce ==
  status = "OK" /\ ReadFirst(call) =>
    \A pos \in AllPositions(call) : dst_mem[Offset(dst, pos)] = Due(call, dst, pos)

(* What was converted is next to what the formula gives - equal to it      *)
(* between fx types, where all scales are powers of two and if halves are  *)
(* rounded up - although scale, product and both zero points were rounded  *)
(* one by one: with the scales of its own slice, in place or not.          *)
ConvertedNear ==
  status = "OK" /\ ReadFirst(call) =>
    \A pos \in AllPositions(call) :
      LET i == Index(call, pos)
          x == call.values[Offset(call.src, pos)]
          exact == "SA_8" \notin {call.src.type, dst.type} /\ Rounding = "UP"
          distance == IF exact THEN 0 ELSE 1
      IN  Unclipped(Requant(call.src, dst, i), Bits(dst.type), x) =>
            Near(dst_mem[Offset(dst, pos)], Documented(call.src, dst, i, x), distance)

(* Nothing behind the end of the source is read, nothing behind the end of *)
(* the destination written.                                                *)
InsideBuffers ==
  status = "running" /\ element < Elements(call) =>
    LET pos == Position(call, slice, element)
    IN  /\ (Offset(call.src, pos) + 1) * call.src.elem <= call.src.capacity
        /\ (Offset(dst, pos) + 1) * dst.elem <= dst.capacity
=============================================================================
