---------------------------- MODULE MCTensorViews ----------------------------
(***************************************************************************)
(* Two tensors to cut: an HWC feature map whose rows leave a gap in memory,*)
(* and weights of rank 4 quantized per output channel.  Neither starts at  *)
(* the beginning of its buffer.                                            *)
(***************************************************************************)
EXTENDS TensorViews

FeatureMap ==
  [rank |-> 3, shape |-> <<2, 3, 2, 0>>, mem_stride |-> <<8, 2, 1, 0>>,
   data |-> 3, capacity |-> 30, elem |-> 2, dim |-> 0, params |-> 0, params_cap |-> 0]

Weights ==
  [rank |-> 4, shape |-> <<1, 2, 2, 3>>, mem_stride |-> <<12, 6, 3, 1>>,
   data |-> 1, capacity |-> 12, elem |-> 1, dim |-> 4, params |-> 5, params_cap |-> 3]

MCBases == {FeatureMap, Weights}
=============================================================================
