------------------------------- MODULE Tensor --------------------------------
(***************************************************************************)
(* The tensor descriptor mli_tensor and the checks every kernel and helper *)
(* starts with (lib/src/private/src/mli_check.cc).  A descriptor does not  *)
(* hold its data: it says where in a buffer each element is.               *)
(*                                                                         *)
(* A tensor is a record of                                                 *)
(*   rank, shape, mem_stride  arrays of MaxRank numbers, of which the      *)
(*                            first rank are used; dimensions count from 1 *)
(*   data                     where the data pointer points, in elements   *)
(*   capacity                 bytes behind the data pointer                *)
(*   elem                     bytes of an element                          *)
(*   dim                      sa.dim: the dimension with parameters of its *)
(*                            own for each index, 0 if there is none       *)
(*   params, params_cap       where the parameter arrays of such a tensor  *)
(*                            start, and how many parameters follow        *)
(***************************************************************************)
EXTENDS Integers

CONSTANT Modulus   \* sizes are uint32_t: they are computed modulo 2^32

ASSUME ModulusAssumption == Modulus \in Nat \ {0}

MaxRank == 4       \* MLI_MAX_RANK: loops over dimensions are nested 4 deep

Dims(t) == 1 .. t.rank

(* Elements between the data pointer and the element at a position.  *)
Offset(t, pos) ==
  LET term(d) == IF d <= t.rank THEN pos[d] * t.mem_stride[d] ELSE 0
  IN  term(1) + term(2) + term(3) + term(4)

(* The positions of a tensor: what a kernel's loops run over. *)
HasPosition(t, pos) == \A d \in Dims(t) : pos[d] \in 0 .. t.shape[d] - 1

LastPosition(t) == [d \in 1 .. MaxRank |-> t.shape[d] - 1]

(* Elements up to the last one, gaps between rows included. *)
Span(t) == 1 + Offset(t, LastPosition(t))

ElemNum(t) ==
  LET size(d) == IF d <= t.rank THEN t.shape[d] ELSE 1
  IN  size(1) * size(2) * size(3) * size(4)

(* The part of a tensor at one index of a dimension, or all of it if the   *)
(* dimension is 0: its elements, and the position of the n-th of those at  *)
(* index i in the order of nested loops.                                   *)
SliceShape(t, dim) ==
  [d \in 1 .. MaxRank |-> IF d > t.rank \/ d = dim THEN 1 ELSE t.shape[d]]

SliceLength(t, dim) ==
  LET size == SliceShape(t, dim) IN size[1] * size[2] * size[3] * size[4]

SlicePosition(t, dim, i, n) ==
  LET size == SliceShape(t, dim)
      inner[d \in 1 .. MaxRank] == IF d = MaxRank THEN 1 ELSE inner[d + 1] * size[d + 1]
  IN  [d \in 1 .. MaxRank |-> IF d = dim THEN i ELSE (n \div inner[d]) % size[d]]

-----------------------------------------------------------------------------
(* What mli_chk_tensor asks of a descriptor.                               *)

Shaped(t) ==
  /\ t.rank <= MaxRank
  /\ \A d \in Dims(t) : t.mem_stride[d] > 0 /\ t.shape[d] > 0

(* Rows do not overlap: a stride is at least what the next dimension takes. *)
Strided(t) ==
  /\ t.rank > 0 => t.mem_stride[t.rank] >= 1
  /\ \A d \in 1 .. t.rank - 1 :
       t.mem_stride[d] >= (t.shape[d + 1] * t.mem_stride[d + 1]) % Modulus

(* Mutant: the element at the last position is not counted. *)
FitsShort(t) == t.capacity >= ((Span(t) - 1) * t.elem) % Modulus

Fits(t) == t.capacity >= (Span(t) * t.elem) % Modulus

(* mli_chk_tensor_quant_params: a tensor with parameters per index has one *)
(* for each, any other none in memory.                                     *)
Quantified(t) ==
  IF t.dim > 0 THEN t.params_cap >= t.shape[t.dim] ELSE t.params_cap = 0

(* check_tensor_private. *)
CheckLayout(t) ==
  IF ~Shaped(t) \/ ~Strided(t) THEN "BAD_TENSOR"
  ELSE IF ~Fits(t) THEN "NOT_ENGH_MEM"
  ELSE "OK"

CheckTensor(t) ==
  IF CheckLayout(t) # "OK" THEN CheckLayout(t)
  ELSE IF ~Quantified(t) THEN "BAD_TENSOR"
  ELSE "OK"

(* The products that the checks compute fit 32 bits. *)
NoWrap(t) ==
  /\ Span(t) * t.elem \in 0 .. Modulus - 1
  /\ \A d \in 1 .. t.rank - 1 : t.shape[d + 1] * t.mem_stride[d + 1] \in 0 .. Modulus - 1

-----------------------------------------------------------------------------
(* Strides that are not given follow from the shape and the strides inside *)
(* (mli_mov_prepare and mli_hlp_create_subtensor compute them alike).      *)
Strides(given, shape, rank) ==
  LET stride[d \in 1 .. rank] ==
        IF given[d] # 0 THEN given[d]
        ELSE IF d = rank THEN 1
        ELSE stride[d + 1] * shape[d + 1]
  IN  [d \in 1 .. MaxRank |-> IF d <= rank THEN stride[d] ELSE 0]
=============================================================================
