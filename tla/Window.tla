------------------------------- MODULE Window --------------------------------
(***************************************************************************)
(* Which elements of the input meet which elements of a kernel, along one  *)
(* of the two axes of a convolution: mli_prv_valid_area_compensations and  *)
(* the adjustment of the input size before it.  Both axes are alike and    *)
(* independent of each other.                                              *)
(*                                                                         *)
(* A window p is a record of the sizes in and kernel, of stride and        *)
(* dilation, and of pad, the zeroes thought of before the input.           *)
(***************************************************************************)
EXTENDS Numbers

EffectiveKernel(p) == (p.kernel - 1) * p.dilation + 1

(* Where the window of the output o begins in the input. *)
Begin(p, o) == o * p.stride - p.pad

(* Kernel elements in front of the input and behind it.  (The code has a   *)
(* case of its own for dilation 1, where nothing needs to be divided.)     *)
KernelBefore(p, o) == CeilDiv(-Least(Begin(p, o), 0), p.dilation)

(* Mutant: the size of the kernel without the gaps of its dilation. *)
KernelBehindUndilated(p, o) ==
  CeilDiv(-Least(p.in - (Begin(p, o) + p.kernel), 0), p.dilation)

KernelBehind(p, o) ==
  CeilDiv(-Least(p.in - (Begin(p, o) + EffectiveKernel(p)), 0), p.dilation)

(* rows or clmns of the valid area. *)
AreaSize(p, o) == p.kernel - KernelBefore(p, o) - KernelBehind(p, o)

(* The index pairs of input and kernel a dot product visits: both pointers *)
(* start at the first element of the valid area and advance together.      *)
Visited(p, o) ==
  LET before == KernelBefore(p, o)
      first  == Begin(p, o) + before * p.dilation
  IN  {<<first + n * p.dilation, before + n>> : n \in 0 .. AreaSize(p, o) - 1}

(* Input elements n outputs need, padding included.  Where an input has    *)
(* more, the ones at its end are cut off before the loops.                 *)
Required(p, n) == n * p.stride + EffectiveKernel(p) - p.stride

UsedSize(p, n) ==
  LET padding == Required(p, n) - p.in - p.pad
  IN  IF padding < 0 THEN p.in + padding ELSE p.in

(* The reference: each kernel element meets the input element below it, if *)
(* there is one.                                                           *)
Under(p, o, k) == Begin(p, o) + k * p.dilation

Met(p, o) ==
  {<<Under(p, o, k), k>> : k \in {j \in 0 .. p.kernel - 1 : Under(p, o, j) \in 0 .. p.in - 1}}
=============================================================================
