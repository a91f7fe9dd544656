---------------------------- MODULE MCMovTransfer ----------------------------
(***************************************************************************)
(* Four sources: an HWC feature map, a vector just in front of the         *)
(* destination buffer, a matrix just behind it whose rows leave a gap and  *)
(* that is quantized per column, and a vector that starts inside it.  The  *)
(* buffer holds 12 elements; 4 cells behind it are watched as well.        *)
(***************************************************************************)
EXTENDS MovTransfer, TLC

MCSources == {"map", "matrix", "vector", "alias"}

MCSrcTensor ==
  ("map" :> [rank |-> 3, shape |-> <<2, 2, 2, 0>>, mem_stride |-> <<4, 2, 1, 0>>, data |-> 200,
             capacity |-> 8, elem |-> 1, dim |-> 0, params |-> 0, params_cap |-> 0])
  @@
  ("matrix" :> [rank |-> 2, shape |-> <<2, 3, 0, 0>>, mem_stride |-> <<4, 1, 0, 0>>, data |-> 112,
                capacity |-> 7, elem |-> 1, dim |-> 2, params |-> 0, params_cap |-> 3])
  @@
  ("vector" :> [rank |-> 1, shape |-> <<4, 0, 0, 0>>, mem_stride |-> <<1, 0, 0, 0>>, data |-> 96,
                capacity |-> 4, elem |-> 1, dim |-> 0, params |-> 0, params_cap |-> 0])
  @@
  ("alias" :> [rank |-> 1, shape |-> <<4, 0, 0, 0>>, mem_stride |-> <<1, 0, 0, 0>>, data |-> 110,
               capacity |-> 4, elem |-> 1, dim |-> 0, params |-> 0, params_cap |-> 0])

(* A cleared descriptor, one with the final shape set, and one with        *)
(* strides of its own.                                                     *)
Cleared ==
  [rank |-> 0, shape |-> Array(0), mem_stride |-> Array(0), data |-> 100, capacity |-> 12,
   elem |-> 1, dim |-> 0, params |-> 0, params_cap |-> 0, qptr |-> "null"]

MCDstInit ==
  {Cleared, [Cleared EXCEPT !.shape = <<4, 3, 2, 1>>],
   [Cleared EXCEPT !.mem_stride = <<6, 3, 1, 0>>]}

Id == <<1, 2, 3, 4>>
NoStride == Array(0)

Strided3 == {NoStride, <<6, 2, 1, 0>>}

Slices(strides) ==
  {CfgForSlice(<<a, b, 0, 0>>, <<n, m, 0, 0>>, st) :
     a \in 0 .. 1, b \in {0, 2}, n \in 0 .. 1, m \in 1 .. 2, st \in strides}

Concats(strides) ==
  {CfgForConcat(o, st) : o \in {<<1, 0, 0, 0>>, <<0, 1, 0, 0>>, <<2, 0, 0, 0>>}, st \in strides}

Subsamples == {CfgForSubsample(<<a, b, 1, 1>>, NoStride) : a \in 1 .. 2, b \in 2 .. 3}

Permutes3 == {CfgForPermute(p) : p \in {<<2, 3, 1, 4>>, <<3, 1, 2, 4>>, <<1, 3, 2, 4>>}}
Permutes2 == {CfgForPermute(<<2, 1, 3, 4>>)}

Paddings ==
  {CfgForPadding2dHwc(1, 0, 0, 1, NoStride), CfgForPadding2dHwc(0, 1, 1, 0, <<6, 2, 1, 0>>),
   CfgForPadding2dChw(1, 0, 0, 0, NoStride), CfgForPadding2dChw(0, 0, 1, 0, NoStride)}

(* Several transformations at once, not placed at an offset: a tile with   *)
(* the padding of its side, reordered or subsampled.                       *)
Tiles(perms) ==
  {CfgAll(<<a, 0, 0, 0>>, <<1, 0, 0, 0>>, <<1, st, 1, 1>>, Array(0), NoStride, p, 1, 0, 1, 0) :
     a \in 0 .. 1, st \in 1 .. 2, p \in perms}

MCCfgs ==
  ("map" :> {CfgForCopy} \cup Slices(Strided3) \cup Concats(Strided3) \cup Subsamples
            \cup Permutes3 \cup Paddings \cup Tiles({Id, <<2, 1, 3, 4>>}))
  @@
  ("matrix" :> {CfgForCopy} \cup Slices({NoStride, <<4, 1, 0, 0>>})
            \cup Concats({NoStride, <<5, 1, 0, 0>>}) \cup Subsamples \cup Permutes2
            \cup Tiles({Id, <<2, 1, 3, 4>>}))
  @@
  ("vector" :> {CfgForCopy, CfgForSubsample(<<3, 1, 1, 1>>, NoStride),
                CfgForSlice(<<1, 0, 0, 0>>, <<2, 0, 0, 0>>, <<2, 0, 0, 0>>)}
            \cup {CfgForConcat(<<a, 0, 0, 0>>, NoStride) : a \in 1 .. 4})
  @@
  ("alias" :> {CfgForCopy})
=============================================================================
