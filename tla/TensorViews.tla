----------------------------- MODULE TensorViews -----------------------------
(***************************************************************************)
(* mli_hlp_create_subtensor: views of a tensor that share its buffer and   *)
(* its quantization parameters.  The recurrent cells cut their gate        *)
(* tensors out this way, and a view can be cut again, so one action        *)
(* replaces the current view by a view of it.                              *)
(***************************************************************************)
EXTENDS Tensor, Sequences

CONSTANTS
  Bases,      \* the tensors views are cut out of
  MaxSize,    \* a bound of their shapes
  KeepAxis    \* clients never cut the quantized dimension away

Tensors ==
  [rank : Nat, shape : [1 .. MaxRank -> Nat], mem_stride : [1 .. MaxRank -> Int],
   data : Int, capacity : Nat, elem : Nat \ {0}, dim : Nat, params : Int, params_cap : Nat]

(* Bases are valid tensors whose sizes fit 32 bits, as those of a tensor   *)
(* that is in memory do.                                                   *)
ASSUME BasesAssumption ==
  \A b \in Bases : b \in Tensors /\ b.dim <= b.rank /\ CheckTensor(b) = "OK" /\ NoWrap(b)

VARIABLES
  base,       \* the tensor the views show
  view,       \* the current view
  ret,        \* what the last call returned
  origin,     \* history: position in base of the view's first element
  axes        \* history: the dimension of base each dimension of view shows

viewVars == <<base, view, ret, origin, axes>>

(* Mutant: one past the end is let through. *)
CheckSubtensorLoose(in, cfg) ==
  IF CheckTensor(in) # "OK" THEN CheckTensor(in)
  ELSE IF /\ cfg.rank <= in.rank
          /\ \A d \in Dims(in) : cfg.offset[d] <= in.shape[d]
          /\ \A d \in Dims(in) : cfg.size[d] <= in.shape[d]
       THEN "OK" ELSE "BAD_FUNC_CFG"

CheckSubtensor(in, cfg) ==
  IF CheckTensor(in) # "OK" THEN CheckTensor(in)
  ELSE IF /\ cfg.rank <= in.rank
          /\ \A d \in Dims(in) : /\ cfg.offset[d] < in.shape[d]
                                 /\ cfg.offset[d] + cfg.size[d] <= in.shape[d]
       THEN "OK" ELSE "BAD_FUNC_CFG"

(* Mutant: dimensions of size 1 are removed whatever rank is asked for. *)
KeptAlways(in, cfg) ==
  SelectSeq([d \in Dims(in) |-> d], LAMBDA d : cfg.size[d] # 1)

(* The dimensions of size 1 in front of one. *)
OnesBefore(cfg, d) ==
  LET one(e) == IF e < d /\ cfg.size[e] = 1 THEN 1 ELSE 0
  IN  one(1) + one(2) + one(3) + one(4)

(* Dimensions of size 1 are removed, the first ones first, until the rank  *)
(* asked for is reached.                                                   *)
Removed(in, cfg, d) == cfg.size[d] = 1 /\ OnesBefore(cfg, d) < in.rank - cfg.rank

KeptBefore(in, cfg, d) ==
  LET one(e) == IF e < d /\ ~Removed(in, cfg, e) THEN 1 ELSE 0
  IN  one(1) + one(2) + one(3) + one(4)

Kept(in, cfg) ==
  [k \in 1 .. cfg.rank |->
     CHOOSE d \in Dims(in) : ~Removed(in, cfg, d) /\ KeptBefore(in, cfg, d) = k - 1]

(* mli_prv_tensor_inc_data_ptr. *)
AdvancedView(t, elements) ==
  [t EXCEPT !.data = @ + elements, !.capacity = @ - elements * t.elem]

(* Mutant: the parameters of the first index, not of the first index left. *)
WithParamsStale(out, in, cfg, kept) ==
  [out EXCEPT !.dim = IF \E k \in DOMAIN kept : kept[k] = in.dim
                      THEN CHOOSE k \in DOMAIN kept : kept[k] = in.dim ELSE 0]

(* The parameter pointers follow the view along its quantized dimension;   *)
(* their capacities do not.                                                *)
WithParams(out, in, cfg, kept) ==
  IF \E k \in DOMAIN kept : in.dim > 0 /\ kept[k] = in.dim
  THEN [out EXCEPT !.dim = CHOOSE k \in DOMAIN kept : kept[k] = in.dim,
                   !.params = @ + cfg.offset[in.dim]]
  ELSE [out EXCEPT !.dim = 0]

Subtensor(in, cfg) ==
  LET strides == Strides(in.mem_stride, in.shape, in.rank)
      kept    == Kept(in, cfg)
      rest(a) == [d \in 1 .. MaxRank |-> IF d \in DOMAIN kept THEN a[kept[d]] ELSE 0]
      moved   == AdvancedView(in, Offset([in EXCEPT !.mem_stride = strides], cfg.offset))
      shaped  == [moved EXCEPT !.rank = cfg.rank,
                               !.shape = rest(cfg.size),
                               !.mem_stride = rest(strides)]
  IN  WithParams(shaped, in, cfg, kept)

(* Only dimensions of size 1 can be removed, and a tensor has one element  *)
(* at least.                                                               *)
DocumentedCut(in, cfg) ==
  /\ cfg.rank >= in.rank - OnesBefore(cfg, in.rank + 1)
  /\ \A d \in Dims(in) : cfg.size[d] > 0
  /\ KeepAxis /\ in.dim > 0 =>
       \E k \in DOMAIN Kept(in, cfg) : Kept(in, cfg)[k] = in.dim

-----------------------------------------------------------------------------
ViewInit ==
  /\ base \in Bases
  /\ view = base
  /\ ret = "OK"
  /\ origin = [d \in 1 .. MaxRank |-> 0]
  /\ axes = [d \in Dims(base) |-> d]

CreateView(cfg) ==
  /\ DocumentedCut(view, cfg)
  /\ CheckSubtensor(view, cfg) = "OK"
  /\ view' = Subtensor(view, cfg)
  /\ ret' = "OK"
  /\ origin' = [d \in 1 .. MaxRank |->
                  IF \E k \in DOMAIN axes : axes[k] = d
                  THEN origin[d] + cfg.offset[CHOOSE k \in DOMAIN axes : axes[k] = d]
                  ELSE origin[d]]
  /\ axes' = [k \in DOMAIN Kept(view, cfg) |-> axes[Kept(view, cfg)[k]]]
  /\ UNCHANGED base

RefuseView(cfg) ==
  /\ DocumentedCut(view, cfg)
  /\ CheckSubtensor(view, cfg) # "OK"
  /\ ret' = CheckSubtensor(view, cfg)
  /\ UNCHANGED <<base, view, origin, axes>>

(* Configurations: an offset and a size for each dimension of the view, up *)
(* to one past what fits.                                                  *)
Cuts(n) == {c \in (0 .. n) \X (1 .. n + 1) : c[1] + c[2] <= n + 1}

Cfgs ==
  LET cuts == {c \in [Dims(view) -> Cuts(MaxSize)] : \A d \in Dims(view) : c[d] \in Cuts(view.shape[d])}
      array(c, i) == [d \in 1 .. MaxRank |-> IF d <= view.rank THEN c[d][i] ELSE 0]
  IN  {[offset |-> array(c, 1), size |-> array(c, 2), rank |-> r] :
         c \in cuts, r \in 1 .. view.rank}

ViewNext == \E cfg \in Cfgs : CreateView(cfg) \/ RefuseView(cfg)

ViewSpec == ViewInit /\ [][ViewNext]_viewVars

-----------------------------------------------------------------------------
(* Properties.                                                             *)

Positions(t) ==
  {[d \in 1 .. MaxRank |-> IF d <= t.rank THEN p[d] ELSE 0] :
     p \in {q \in [Dims(t) -> 0 .. MaxSize - 1] : HasPosition(t, q)}}

(* Where in the base tensor a position of the view is. *)
InBase(pos) ==
  [d \in 1 .. MaxRank |->
     origin[d] + IF \E k \in DOMAIN axes : axes[k] = d
                 THEN pos[CHOOSE k \in DOMAIN axes : axes[k] = d] ELSE 0]

(* However often it was cut, a view shows elements of the base tensor      *)
(* only, each at the address the base tensor has it, and its capacity ends *)
(* where that of the base tensor ends.                                     *)
ViewIsWindow ==
  /\ \A pos \in Positions(view) :
       /\ HasPosition(base, InBase(pos))
       /\ view.data + Offset(view, pos) = base.data + Offset(base, InBase(pos))
  /\ view.data * view.elem + view.capacity = base.data * base.elem + base.capacity

(* A view of a valid tensor is a valid tensor: the kernels that check it   *)
(* accept it, and so does the helper when the view is cut again.           *)
ViewAccepted == CheckTensor(view) = "OK"

(* An element has the same quantization parameters in the view as in the   *)
(* base tensor.                                                            *)
ParamsFollow ==
  base.dim > 0 =>
    /\ view.dim > 0
    /\ \A pos \in Positions(view) :
         view.params + pos[view.dim] = base.params + InBase(pos)[base.dim]
=============================================================================
