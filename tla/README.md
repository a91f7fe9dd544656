# Verification of embARC MLI

MLI (`lib/`, `include/`) is a library of machine learning kernels for embedded
processors: convolution, pooling, recurrent cells, activations and data
movement over *tensors*, small descriptors that say where in a buffer the
elements are. There is no operating system, no thread and no allocation in it.
An application calls the library; the only state the library keeps is the pool
of DMA channels and the table of callbacks of the data movement group. What is
hard is elsewhere:

- **protocols**: the data movement handles are used by several clients in turn,
  block by block, and keep references to entries of shared tables;
- **descriptors**: shapes, strides, capacities, data pointers and quantization
  parameters are edited by every helper and kernel and must stay consistent,
  also when a descriptor is used again or a view is cut out of a view;
- **borders**: windows, padding, offsets, steps and strides decide which
  element is read and written, with two or more copies of the same loops for
  different cases;
- **numbers**: everything is fixed point of 8, 16 or 32 bits with saturation.

This directory holds TLA+ modules translated from the reference code (the
plain C++ variant, `impl/*_ref.h`, `pal/ref`), TLC configurations, and proofs
checked by TLAPS. `PROJECT.json` maps every definition to the lines it models.

## The system

| component | state | operations | uses |
|---|---|---|---|
| handles and DMA pool, `lib/src/move/mli_mov_api.cc` | `dma_pool`, `callbacktable`, one `mli_mov_handle_t` per client | acquire, prepare, register callback, start, isdone, wait, release, `mli_mov_tensor_sync`, set_num_dma_ch | transfer |
| transfer, `mli_mov_prepare` and `impl/mli_mov_ref.h` | destination descriptor and buffer | slice, concatenate, subsample, permute, pad, in any combination | tensor checks |
| tensor descriptors, `mli_types.h`, `mli_prv_tensor.h`, `mli_check.cc` | `mli_tensor` | `mli_chk_*`, offset and size helpers | |
| helpers, `mli_helpers.cc` | descriptors | sub-tensor, element count, strides, conversion of formats | tensor checks, data pointer arithmetic |
| fixed point, `pal/ref/mli_math.h` | none | saturating and rounding shifts, casts, additions | |
| quantization, `bricks/impl/mli_prv_quant_ref.h` | requantization parameters | additives, scaling and casting of accumulators | fixed point |
| convolution, `kernels/convolution` | none | plain, depthwise, group, transposed | quantization, sub-tensors |
| pooling, `kernels/pooling` | none | average, maximum | rotated views |
| recurrent and fully connected, `kernels/common` | cell tensor, scratch | dense, LSTM, GRU | sub-tensors, quantization, LUT |
| elementwise, activations, LUT | none | add, sub, mul, min, max; ReLU kinds, sigmoid, tanh, softmax, L2 | fixed point |
| permute, argmax, `kernels/diverse` | none | reorder dimensions; the k largest elements | |

Components interact by calls only: kernels get descriptors from the
application, check them (`mli_chk_*`), cut sub-tensors out of them and run
loops over their buffers. Data movements are the exception. Their
asynchronous interface splits one operation over several calls, so the calls
of different clients interleave, and a completed transfer calls back into the
application.

What makes each correct:

- handles: a channel has one holder; none is lost; DONE means moved; a
  callback reaches the client that registered it; a synchronous move returns;
- transfer: the destination holds what the composition of the documented
  transformations says, at the documented places, and nothing else changed;
- descriptors: an accepted descriptor's elements lie in its buffer, each at a
  place of its own;
- views: a view shows the elements of its base, with their parameters;
- fixed point and quantization: the result is the exact one, rounded and
  saturated as documented;
- windows: exactly the input elements inside the window and the tensor meet
  their weights;
- recurrent cells: no step overwrites what a later step reads.

The hazards behind these, each with its line and the properties that would
show it going wrong, are listed in `PROJECT.json`.

## Modules

```
ChannelPool                  abstract: who owns which channel
   ^ implements
MovPool                      handles, pool, callbacks, synchronous moves
   ^-- Mov_proofs

Tensor                       descriptors and mli_chk_tensor
   ^ extends
   +-- MovTransfer <-- MCMovTransfer      what one prepare moves
   |      ^-- Mov_proofs
   +-- TensorViews <-- MCTensorViews      mli_hlp_create_subtensor
   |      ^-- Helpers_proofs
   +-- Convolution <-- MCConvolution      the four convolution kernels
   |      |   ^-- Convolution_proofs
   |      v extends
   |   Window                             which input meets which kernel element
   |      ^ extends
   +-- Pooling <-- MCPooling              average and maximum pooling
   |      ^-- Pooling_proofs
   +-- Elementwise <-- MCElementwise      eltwise, activations, softmax, L2, permute
   |      ^-- Elementwise_proofs
   +-- Argmax <-- MCArgmax                the heap of mli_krn_argmax
   |      ^-- Argmax_proofs
   +-- Conversion <-- MCConversion        mli_hlp_convert_tensor
   |      |   ^-- Helpers_proofs
   |      v extends
   |   FixedPoint                         pal/ref/mli_math.h
   |      ^ extends
   +-- Dense <-- MCDense                  fully connected, RNN dense
          ^-- Recurrent_proofs

RnnCell <-- MCRnnCell        LSTM and GRU over shared places and descriptors
   ^-- Recurrent_proofs

Access_proofs                positions of Tensor and areas of Window, which
                             all other proof modules extend
Numbers                      mli_math_macros.h
```

Wherever a value is not what is at stake it is symbolic: the name of the element that was
copied, the set of products that were summed up, the formula that was
computed. Equal numbers then cannot hide a wrong operand. `Conversion` and
`Dense` are about the numbers, and compute them as the code does, bit by bit.

### MovPool

One action is one call of the API, with all it changes. `pool`, `status` and
`callbacktable` are the two singletons of `mli_mov_api.cc`; `handle[h]` is
the `mli_mov_handle_t` of a client; `answer` what its last call returned. Handles
in `Async` are driven by the application in any order the documentation
allows. A handle in `Sync` belongs to a call of `mli_mov_tensor_sync`; `pc`
walks it through acquire, prepare, start, wait and release, or to the release
as soon as one fails, and the application's other calls come in between. Three
history variables (`registered`, `moved`, `fired`) record what the properties
need and no action reads them.

- The scan of `mli_mov_acquire_handle` (`FreeBlocks`) starts inside the pool
  and does not stop at its end. So `status` has `MaxReq - 1` cells more than
  `channel_status[]`; what the memory there reads as is chosen freely in
  `PoolInit`.
- `PrepareTransfer` succeeds, is refused by a check, which leaves the handle as
  it was, or fails after the state was set, because no copy loop exists for
  the element size.
- An entry of `callbacktable` is indexed by the handle's first channel, also
  when it has none (`num_ch = 0`), and survives a release.
- The model is the build without `USE_DMA`, the only one in which the
  functions have bodies: the DMA branches are stubs.
- `mli_mov_set_num_dma_ch` is called at initialization time only, as its
  documentation asks (`MayConfigure`).

`ChannelPool` says the same with a function from cells to owners and nothing
else. `PoolOwner` reads the owner off the handles and `channel_status`.

### MovTransfer and Tensor

`Tensor` is a descriptor and the checks of it, with sizes modulo `Modulus`
as `uint32_t` arithmetic computes them. `MovTransfer` composes it with
`mli_mov_prepare`: `CheckMovement` (`mli_chk_data_movement`), the destination
descriptor (`Filled`), the movement of parameter arrays (`ParamsMoved`), the
decision for a single 1D copy (`Single1D`) and the loops (`LoopWrites`). A
buffer cell holds the *name* of an element (its source and its place in the
source's buffer), so equal contents never hide a wrong address. The reference
the result is compared with (`Shown`, `Extended`, `Part`, `Place`) is written
by coordinates in an infinitely zero-padded source, without strides, without
rounding divisions and without the case distinction of the code.

### TensorViews

`CreateView` is `mli_hlp_create_subtensor` on the current view, which the result
replaces, so chains of views arise; `RefuseView` is a call the check turns down.
The loop over the dimensions, which skips those of size 1 until the rank asked for
is reached, is stated by what it does to one of them: `Removed` counts the
dimensions of size 1 in front (`OnesBefore`).
`origin` and `axes` are history: where in the base tensor the view's elements
should be.

### Window and Convolution

A convolution is two equal axes and a rule for channels. `Window` is one axis:
`mli_prv_valid_area_compensations`, the dot product's walk over the valid area
(`Visited`), and the cut of an input larger than needed (`UsedSize`).

`Convolution` is a call of one of the kernels. `Refuse` and `PrepareAndRun`
are the checks and the computation of shapes and passes; plain, depthwise and
group convolution make one pass of the loops, the transposed one
`stride_height * stride_width` passes with mirrored parts of the kernel, each
on a part of the input and for a grid of outputs. `Point` is one turn of the
two outer loops, with the inner loop over channels. `mem` maps a cell of the output
buffer to what was summed up there: pairs of input and kernel rows, of columns
and of channels. No number is computed, so equal results never hide a wrong
operand. The reference (`Reference`) has no valid area, no passes and no cut:
`Met` looks at every kernel element whether there is input under it, `Spread`
lets each input element reach over the output.

Left out: the value (bias, quantization, rounding, ReLU: see `Dense`), the checks of data
pointers, types and inner-most strides, the weight layouts other than HWC's,
which differ in strides only, and the instances with fixed kernel sizes, which
are the same template.

### Pooling

The code has one routine for the upper border of the output and serves the
other three by rotating views of input and output (`Rotate`, a
`tensor_private_t` with pointer, sizes and strides) and exchanging axes and
paddings with them. `PrepareAndRun` computes sizes and the list of passes, the
centre first; `Point` is one output, with the area of the window worked out or,
beyond the first columns of a border, taken over from the column before, with
its divisor. `mem` maps a cell to the elements the result reduces and the
divisor; `writes` counts what was written. The fixed point multiplication that
stands for the division is left out.

Padding shifts the windows and adds nothing to them: maximum and sum run over
the `rows * clmns` elements inside the input, and the multiplier of an average
is made for this number (`get_mul_shift_value(rows * clmns, ...)`,
`mli_krn_pool_hwc.h:185`). `Reference`, written from windows and without areas, says the
same. The documentation says otherwise; see *Runs*.

### RnnCell

A call of the LSTM or GRU kernel, step by step, in a sequence of calls that
feed a long input in pieces. What the model keeps apart is what the code shares: *places* (gates in the
scratch memory, rows of the output, the cell, the hidden state) and *descriptors* with
their quantization parameters, which the code changes while it goes. A value
is the formula it was computed by and the parameters it was written with, and
reading it with others gives something else. `Setup`, `Dense`,
`NonLinearity`, `Pointwise...`, `Output...`, `Advance` are the sections of
the loop body, `CallAgain` is the application. `Reference` unrolls the cell's
equations. A dense layer of one gate is one operation; its numbers are in
`Dense`.

### FixedPoint, Conversion and Dense

`FixedPoint` has the saturating and rounding operations of `mli_math.h` for
any width, with both rounding modes. `Conversion` is `mli_hlp_convert_tensor`
between the fx8, fx16 and sa8 formats in their real widths: the requantization
parameters (`Requant`) once for each slice, then element after element,
perhaps in place.

`Dense` is `mli_krn_fully_connected` (four formats, with and without extended
bias) and `mli_krn_rnn_dense` (three): all checks in the order of the code,
`DefineQuant` and `Adjusted` (`define_quant_params`, `adjust_quant_params`),
the dot product with its three zero point additives, the bias, and the way
from the accumulator to the output (`Scaled`, `Requantized`), ReLU limits
included. One action computes one neuron. The widths are multiples of `Byte`,
8 in the code; constants like `28` or `32 - 8 - 3` are written by the widths
they come from. The reference, `Documented`, is the formula of the
documentation in rational numbers, with operands found by `Offset` of
their positions instead of increments.

### Elementwise

Eight kinds of kernels that walk through tensors in the same way: dimensions
that are adjacent in every tensor are squashed (`Squash`), the rest are nested
loops (`Place`); scalars, which may lie in the descriptor, are read before the
first element is written; normalizations have a walk over slices and one
within (`Plan`). A value is the address it was at first, or the term
computed. Operands may share a buffer with the result. `Return` of permute
copies or moves the quantization parameters.

### Argmax

One action is one turn of the innermost loop: an exchange in `heapify`
(`Heapify`), the next node to sift (`Build`), the next element to offer
(`Select`), the next one to sort out (`Sort`). `phase`, `node` and `size` are
the loop counters of the nested calls.

## Runs

| run | expected | shows |
|---|---|---|
| `mov_pool` | pass | type correctness; `ChannelsExclusive`, `DoneMeansMoved`, `SyncRefusedOnlyByEmptyPool`, `CallbackDelivered`, `SyncReturns`; MovPool implements ChannelPool |
| `mov_transfer` | pass | `MoveExact`, `DescriptorFits`, `InsideBuffers`, `ParamsFollowInPlace` |
| `tensor_views` | pass | `ViewIsWindow`, `ViewAccepted`, `ParamsFollow` |
| `convolution` | pass | `ResultExact`, `InsideBuffers`, `ComputedOnce`, `AreaNotEmpty` |
| `pooling` | pass | `ResultExact`, `InsideBuffers`, `ComputedOnce`, `AreaNotEmpty` |
| `rnn_cell` | pass | `ResultExact`, `CellInside`, `PrevKept` |
| `conversion` | pass | `ConvertedNear`, `ConvertedOnce`, `InsideBuffers` |
| `dense` | pass | `ResultNear`, `BiasExtended`, `InsideBuffers`, `OutputDescribed` |
| `elementwise` | pass | `ResultExact`, `OthersKept`, `InsideBuffers`, `ParamsFollow` |
| `argmax` | pass | `TopFound`, `HeapKept`, `InsideBuffers`, `Returns` |
| `lstm_again` | violation | the LSTM kernel refuses the cell descriptor that its last call left behind |
| `wide_bias` | violation | a bias of fx16 that takes more than 32 bits in the accumulator wraps around |

The two violations are disagreements of the code with its documentation;
`PROJECT.json` quotes the lines under `findings`. More were met while
modelling. The models do what the code does there, and the properties are
stated under a precondition that names the case:

- *Data movement.* `mli_mov_start` completes a transfer nobody prepared,
  without the assertion its comment names (`DocumentedStart`). A block of
  channels may reach behind the pool, and behind `channel_status[]`. A slice
  placed at an offset may be taken for a copy of the whole source (the run
  places whole sources or slices, not placed slices). Slicing or moving the
  quantized dimension leaves its parameters behind (`AxisInPlace`).
- *Sub-tensors.* A view that removes the quantized dimension does not say
  which parameters its elements have (`KeepAxis`).
- *Convolution.* conv2d and depthwise do not fill in the output's shape, they
  obey it (`ResultExact` compares an output of the shape that was there). A
  transposed convolution whose stride is beyond its kernel fails an assertion,
  though its result is right.
- *Pooling.* Padding is not what the documentation says.
  pooling_grp.rst:43-53 calls each padding the "Number of zero points
  implicitly added" to a side of the input, and pool_avg.rst:4-6 defines the size of
  the area an average is of as "kernel_width * kernel_height", for padded
  calls too (pool_max.rst:4-5 likewise: "the area of the kernel width x
  kernel height"). The code adds no zero points, neither to a maximum nor to
  an average, and divides by the number of elements inside the input. The
  tests side with the code: with paddings (tests 2, 3 and 7), the expected
  outputs of `vectors_mli_krn_avepool.inc` and `vectors_mli_krn_maxpool.inc`
  are averages (to 2e-7) and maxima (exactly) of the elements inside, and would
  be off by 0.4 to 1 at some element of each with zeros counted. `ResultExact` states what code
  and vectors agree on, and is not a claim that the documented padding holds.
  Borders at opposite sides that meet are computed twice, or have
  outputs the tensor does not have (`BordersFit`, `BordersApart`).
  `mli_chk_avepool_hwc` drops the status of the output's layout.
- *Recurrent cells.* The kernels step by the number of elements, not by the
  stride of the frames; weights of a GRU quantized per tensor get a wrong
  scale, because the code advances a pointer that shares its place with the
  scale (`Supported`).
- *Conversion.* The scaled value is saturated before the offset is added
  (`Unclipped`). The message at mli_check.cc:2685 says that a conversion in place
  needs equal container sizes and strides; `mli_hlp_tensor_data_ptr_cmp`
  (mli_helpers.cc:98) answers false for different element types, so sa8 to fx8
  in place with a wider row stride is accepted, and overwrites elements before it
  reads them (`ReadFirst`).
- *Dense.* sa8 accumulators beyond 24 bits are clipped (`ReducedFits`),
  though data_formats.rst promises 65536 products. rnn_dense reads inputs with
  gaps between rows as if they had none (`InputsContiguous`). It looks at the
  stride of the last dimension of the rank the output had before, and never
  sets the output's type, though rec_rnn_dense.rst:134-136 says of all fields
  but `mem_stride` and `el_params` that they "do not have to contain valid data
  and are filled by the function": a first stride of 1 and an element size
  that is not beyond the input's are left to the client (`VectorProvided`).
  The formula of the extended bias (rec_fully_con.rst:126) adds what
  `BiasExtended` shows has to be subtracted.
- *Elementwise.* The status of the first operand's check is overwritten by the
  second's (`Documented` asks that both are valid); permute copies pointers to parameters
  without the capacities, and the next kernel refuses its output.
- *Argmax.* The index returned is an offset in memory, which differs from the
  index in the tensor where rows have gaps. An axis equal to the rank is
  accepted and `shape[rank]` read; `topk` is compared with nothing (`Sound`).

Bounds, and why they are enough:

- `mov_pool`: two channels, two asynchronous handles that ask for one or two
  channels, one synchronous caller. A conflict needs two holders and one
  resource; a block needs two channels; reuse of an entry by another handle
  and a request that overlaps the end of the pool happen with two. The pool is
  every interval of the channels, and it can be empty.
- `mov_transfer`: one of three initial destination descriptors, two calls, so
  that a call meets a used descriptor; sources of rank 1, 2 and 3, with and
  without gaps between rows, before, behind and overlapping the destination;
  each transformation of the API alone, and slice, subsampling, permutation and padding
  together. Shapes are at most 3: a size, a step or an offset of 1 and 2
  tell rounding up from rounding down, and 0 from whole. `Modulus` is far
  above every size; wrapping sizes are a listed hazard, not part of this run.
- `tensor_views`: all chains of cuts of two tensors, with offset and size up to
  one past what fits. A view only shrinks, so the state space is finite
  without a bound on the number of calls.

- `convolution`: inputs up to 4, kernels up to 3 (4 when transposed), strides up to 3,
  dilation up to 2 and every padding from none to more than is allowed: every
  combination on one axis with a few on the other, and the other way around.
  The axes meet only in the number of passes and in the strides of the output,
  so pairs of interesting axes suffice. For channels there are six settings, with
  one group, several, as many as channels, and numbers that do not divide.
  The output's shape is right, one row short or one too long; the buffer has
  the capacity of the right one.
- `pooling` (64,246 states): inputs up to 5, kernels up to 4, strides up to 3,
  paddings up to 3 on each side of one axis, with a few of the other, and rows
  up to 7 long so that the area of one column serves several others.
- `rnn_cell` (16,656): up to three time steps in one to three calls. The
  first, the second and a later step differ in what the hidden state is; a
  fourth is like the third. All options that change which place is reused,
  and buffers one row or gate too short.
- `conversion` (13,579): values at the ends of the ranges, at zero and around
  them; scales of one and of many bits, shifts in both directions, each pair of types.
- `dense` (24,446): one to three inputs of up to four elements, up to three
  neurons. `Byte = 4`, so that products of "int64" fit into TLC's integers:
  types of 4, 8, 16 and 32 bits. Rounding, saturation and shifts beyond the
  width depend on the relation of the widths, which stays; accumulators
  overflow with fewer terms, which the properties exclude by `SumFits`, as the documentation leaves
  it to the client.
- `elementwise` (38,095): one to four dimensions of up to three, with a gap
  behind rows or planes of any one tensor; every axis; operands in place.
  Squashing looks at pairs of neighbouring dimensions.
- `argmax` (174,041): all contents with up to four different values of up to seven
  elements: three levels of the heap, so that a node sinks by two.

Fairness: only `SyncStep` is weakly fair. `mli_mov_tensor_sync` is
straight-line code of one caller which, once called, runs on; its only loop is
`mli_mov_wait`. The application owes the library no call, so nothing else is fair.
`SyncReturns` therefore says that `mli_mov_wait` is entered only when the state
is already, or will be, DONE.

The specification of `Argmax` is weakly fair, `WF_vars(Next)`: a function
that was called goes on, and `Returns` says that its loops end. The other
kernels' loops are counted, and nothing would be said by asking for it.

`CHECK_DEADLOCK FALSE` stands in all runs but `mov_pool` and `tensor_views`:
their behaviours end, when the last call has returned.

## Proofs

`Mov_proofs`, about `MovPool`: for every number of channels, handles, requests and
every initial content of the memory behind the table,

- `TypeCorrect` (`TypeOK`), `Exclusion` (`ChannelsExclusive`). Exclusion is not inductive:
  a release marks the handle's block AVAILABLE, and it must be known that a
  handle without state holds no block (`HoldsNothing`), so that a later
  acquire that overwrites it loses no channel. The invariant proved is
  `TypeOK /\ ChannelsExclusive /\ HoldsNothing`, one lemma per action.
- `Completion` (`DoneMeansMoved`), under `DocumentedStart`. The invariant adds that a
  handle that may be started (PREPARED with OK, or a synchronous caller at its
  start) has moved its data.
- `Delivery` (`CallbackDelivered`), if 0 is not among the requests. The invariant adds
  that the table entry at the first channel of a handle whose client
  registered a callback still holds it. It rests on exclusion: another
  handle's entry is at another channel. With a request of 0 an asynchronous
  handle would get the number of a channel it does not hold, and could
  overwrite the entry of the one that does; that is why the assumption is there.
- `Refinement` (`ImplementsPool`): `PoolOwner` of a state after an acquire, a
  release or a configuration is the abstract `Take`, `Give` or `Assign`, every
  other step a stutter.

- `SyncNotStarved` (`SyncRefusedOnlyByEmptyPool`). The invariant adds that a
  synchronous caller that waits was not refused. It asks for no channel, and the pool
  grants this while it has a channel at all (`NothingAsked`).

`Access_proofs` has what the proofs about kernels and moves share. For every
rank up to 4, shape, stride and element size of a descriptor `mli_chk_tensor`
accepts (`CheckTensor(t) = "OK"`), if the products do not wrap (`NoWrap`):

- `PositionInside`: every position lies within the capacity. `Strided` and
  positive shapes make `Offset` monotone in each index, so no position lies
  behind the last one, which `Fits` counts.
- `MemoryOrder`, `PositionsApart`: the elements lie in memory in the
  lexicographic order of their positions, hence no two share a cell. The
  argument goes from the innermost dimension outwards: what the inner
  dimensions reach is less than one stride of the next.

Without `NoWrap` these are false: sizes are 32 bit products and a shape whose
product wraps passes the check. The assumption is stated in the theorem and
not hidden in the model. And for all sizes, strides, dilations and paddings:

- `ValidAreaExact`: `Visited` is `Met`. The number of elements skipped in front is the
  least k for which `Begin + k * dilation` is not negative, by what
  `CEIL_DIV` returns (`CeilDivBounds`), and the one behind mirrors it.
- `CutInput`: no kernel element of the outputs to compute lies behind what
  they require, so cutting the input down to this changes nothing.

`Mov_proofs`, about `MovTransfer`: for every source, configuration and any number of
moves into one destination,

- `ParamsArriveInPlace` (`Spec => []ParamsFollowInPlace`), if an order of
  dimensions has none of them twice and the application's arrays are not those
  of a source (`Movable`). The invariant adds that no move writes the parameters of a source
  (`SourcesKept`): a destination that was given the source's arrays keeps pointing
  at them, and a later move copies from them.
- `DescriptorUsable` (`DescriptorFits`). The invariant (`Checked`) is about the
  destination whatever the previous move left of it (`SetUpKeeps`).
- `MovesExactly` (`MoveExact`), an action property. The four nested loops write
  one element for each index of their box (`PartIsBox`); the one an index shows
  is the one of the reference (`ShownAt`, `EachIsShown`), and cells of different
  indices are apart (`PositionsApart`), so no write undoes another. The
  single copy of a block writes the same set (`BlockWrites`): under the
  condition of the code, source and destination are the same
  box with the same packed strides. It assumes `PlacedWhole`. The condition looks at the
  shape of the destination, and a slice placed at an offset by which the
  destination gets the shape of the source passes for a copy of the whole: the
  hazard at `mli_mov_api.cc:183`. The theorem is false without it.
- `MovesInside` (`InsideBuffers`), by either copy, also of the moves `PlacedWhole`
  excludes: if every element has the size of those in the
  sources (`OneSize`), what is behind the buffer is as it was before the first move.

The last two say `Spec /\ []NoWrap(dst) => ...`, as the sizes of the destination
are computed by prepare.

`Convolution_proofs`, for all sizes, strides, dilations, paddings and groups:

- `PlainAxisExact`: a pass computes the products of the convolution, by
  `ValidAreaExact` and `CutInput`.
- `GroupSizeLargest`: the shape a group convolution fills in fits, and no
  larger one does.
- `TransposedPassExact`: let m be the input element under the first element
  of a pass's kernel at its first output, an integer by the choice of
  `out_offset`. Then the padding is m's negative part and the input offset its
  positive part, and pairs of the pass and of the reference correspond by
  i = m + o + j.
- `PassesDivideOutput`: passes with the same `out_offset` have equal offsets
  modulo the stride, so are the same; and every output has a pass.
- `NonEmpty` (`Spec => []AreaNotEmpty`), for every set of calls. The invariant
  (`Running`) is that the passes still to make are passes of the accepted
  call and that indices are natural numbers; that each pass has something to sum
  up (`PlainMeets`, `TransposedMeets`) is carried to the valid area by the
  theorems above. It assumes `CallsAssumption`, what the tensor checks
  and the types of the configuration say of a call.
- `SumsExact` (`ResultExact`), `StaysInside` (`InsideBuffers`), `NothingTwice`
  (`ComputedOnce`), for calls whose output has the capacity and the
  channels for the shape the kernel fills in, which not every kernel checks (`SizedCall`). The invariant
  (`LoopInv`) says that memory has the right sums at the points of the loops that
  come before the current one, in the order pass, row, column, and was not written
  anywhere else. A point adds itself (`PointAdds`) and nothing else comes to be behind the loops
  (`PointsInOrder`); at the end all points are behind, and they are the
  elements of the output, each once (`PointsDivideOutput`). Which channels a filter
  of a group sums up is `ChannelsExact`.

`Pooling_proofs`, for every set of calls that `CallsAssumption` admits:

- `PoolsExactly` (`ResultExact`), `PoolsInside` (`InsideBuffers`), `SharedOut`
  (`ComputedOnce`), `WindowsNotEmpty` (`AreaNotEmpty`). The output must have
  elements (`HasOutput`; a kernel beyond the padded input gives
  none or, as 32 bits, very many) and rows of the input must not overlap (`SizedCall`).
  `PoolsExactly` and `SharedOut` also ask for an output with
  room for its shape (`HasRoom`), which is what `mli_krn_maxpool` checks and
  `mli_krn_avepool` does not refuse.
- The properties leave out paddings wider than the outputs at their side can
  serve (`BordersFit`), and `ComputedOnce` borders that meet (`BordersApart`):
  the checks admit both, and the kernel then computes elements twice.
- After the sizes were cut down, either end of an axis has less padding than its
  kernel has elements, and the outputs use it up exactly (`UsedBalanced`). Only
  so is the axis walked from its other end one of the same kind (`FlipBalanced`),
  with the same windows mirrored (`Mirror`), and the code of the upper border can serve all four.
- A rotated view shows the element that the turned position has in the original
  one (`RotatedCell`), so that the window of a turned position is the window
  turned (`WindowsTurn`), and a pass reads the elements of the reference (`PointReads`).
- The area that is kept from one column to the next is the one that would have been
  worked out (`AreaRight`): from as many columns on as the kernel has, windows
  begin behind the left border, and at the right they end in front of the corner that is left to the next side.
- Middle and borders together are the output (`SidesShareOutput`), corners by the
  choice that `BorderEnd` makes. The invariant (`LoopInv`) then is as for
  convolution, with the side in place of the pass.

Integers are unbounded in these theorems. In the code they are `int`: sizes
whose products with strides and dilations do not reach 2^31 are meant.

`Argmax_proofs`, for every set of calls that `CallsAssumption` admits:

- `HeapHoldsLargest` (`Spec => []HeapKept`). The invariant says that the heap
  is in order from some node on except at the node in hand, whose parent is not larger than its
  children (`HeapFrom`): one exchange moves the faulty node down and keeps
  this (`Sift`), and at rest there is none left (`SettledHeap`). That the
  root is least follows by the least counterexample (`RootIsLeast`), as
  induction would need an operator argument. The places are those of
  different elements, and nothing read and not among them is larger
  (`BestSwapped`, `BestOffered`).
- `FindsLargest` (`Spec => []TopFound`). While sorting, the heap shrinks and
  what is behind it descends, its first not larger than the heap's root
  (`BestLeft`, `TailTaken`); slices that are done keep their places, as a slice
  ends where the next begins (`SliceAfterSlice`, `EarlierSlices`).
- `StaysInside` (`Spec => []InsideBuffers`), for calls whose input is a
  descriptor whose sizes do not wrap: `SlicePositionInside` shows that the n-th
  element of a slice has a position of the tensor, and `PositionInside` does the rest.

`Recurrent_proofs`, about `RnnCell`, for every set of sequences that
`SeriesAssumption` admits: of any length, cut into any number of calls, forward
or backward, with every buffer, in place or not.

- `CellStaysInside` (`CellSpec => []CellInside`). The invariant `Structure` says
  at which section of which step a call is (`Control`), where each descriptor
  points and with which parameters it is read (`Descriptors`), and
  which places have been written (`Places`).
- `PrevStays` (`CellSpec => PrevKept`), an action property, from the same
  invariant: `KernelWrites` bounds by section what a step may write.
- `FollowsFormula` (`CellSpec => []ResultExact`), for weights whose parameters
  the code reads right (`Supported`). `Values` adds what each place holds: gates
  that are still needed, the hidden state with the parameters of the place it
  is in at this step, the cell before or after the update, and all rows of the output that are due. What holds
  before `pointwise` says which gates may be overwritten there. The reference, a
  recursion over steps, is unfolded by one step (`ReferenceUnfolds`): that the function
  its definition chooses exists is shown by the least counterexample.

`Recurrent_proofs`, about `Dense`, for calls whose sizes do not wrap (`SizedCall`):

- `StaysInside` (`Spec => []InsideBuffers`). A check that is a sequence of conditions
  answers OK only if each of them does (`FirstIsOne`), which gives what the loops
  rely on (`Accessible`). Weights and bias are then read at positions of their tensors.
  An input is read as if it were contiguous; that this stays inside also where
  it has gaps, which `mli_krn_rnn_dense` accepts, follows as a tensor has no more
  elements than it spans (`ElementsWithinSpan`), shown dimension by dimension from the
  innermost one outwards (`SpanGrows`).
- `DescribesOutput` (`Spec => []OutputDescribed`): a call that returns OK leaves a
  descriptor of rank 1 with as many elements as there are neurons (the length of the bias
  that was accepted), whatever it held, and after `mli_krn_fully_connected` the
  type and the element size of the input (`FilledIn`). The next check accepts
  it, with the neurons where they were written (`VectorAccepted`): always after
  `mli_krn_fully_connected`, and after `mli_krn_rnn_dense` if the client
  provided stride and element size (`VectorProvided`). Of the type that
  `mli_krn_rnn_dense` leaves nothing is said: it is the one the client had there.
- `ExtendedBiasSame` (`Spec => []BiasExtended`), where elements are integers
  (`Numbered`), for every width. Sums of products add up (`SumsAddUp`), so the
  products of the plain kernel are those of the extended one and what the zero
  point adds; none of the steps through the accumulator saturates before the
  bias comes in (`SaturatedSum`), and both kernels then add it to the same
  total. The invariant (`Stored`) is that each neuron done so far holds what its formula
  (`Value`) makes of the parameters the loop prepared. The attempt to prove it showed that the property was false as first
  stated, which only asked that the products of the extended kernel fit: those of
  the plain kernel can overflow alone, and the two differ (a layer of 100
  inputs does so with `Byte = 3`; the run's layers are too small).

`Helpers_proofs`, about `TensorViews`, for every set of base tensors whose sizes
do not wrap (`BasesAssumption`) and views of any depth:

- `ViewsArePart` is the invariant (`ViewInv`): the view is well formed and a
  window of the base (`WindowOf`). The dimensions kept are as many as the rank
  asked for and in their order; a window of a window is one of the
  whole; and the capacity, which shrinks by what the pointer advances, ends with
  that of the base.
- `WindowStays` (`ViewSpec => []ViewIsWindow`), and, as long as no cut
  removes the quantized dimension (`KeepAxis`, true in the run),
  `ViewsAccepted` (`ViewAccepted`) and `ParamsStay` (`ParamsFollow`).

`Helpers_proofs`, about `Conversion`, for every set of calls whose tensors are
descriptors with sizes that do not wrap (`CallsFit`):

- `ConvertsEach` (`Spec => []ConvertedOnce`). Slices and the elements in them
  reach each position once. The invariant (`ConversionInv`) says of the positions
  so far that they hold what they are due and of the others that their
  source is as it was; in place this needs equal strides (`ReadFirst`).
  An earlier form of `ReadFirst`, the comparison of the code (`Matching`), did
  not suffice: it leaves out the innermost stride, which the check looks at in the rank
  the destination had before, and the proof failed at elements further apart than
  those of the source.
- `ConvertsInside` (`Spec => []InsideBuffers`), from the same invariant.

`Elementwise_proofs`:

- `ComputesExactly` (`Spec => []ResultExact`), `KeepsOthers` (`OthersKept`) and
  `StaysInBuffers` (`InsideBuffers`), for calls whose sizes do not wrap and whose
  parameters are not kept in the data buffer of permute's output (`SizedCall`).
  The iterations of a nest are numbers whose digits are the indices of
  its loops (`NestIsCounted`), so loops over the dimensions, in any order and
  divided into outer and inner ones (`Walks`), reach each position once and
  take each tensor to its element of that position (`WalkInside`,
  `WalkApart`, `WalkReaches`, `WalkPlaces`). Squashing keeps both
  (`SquashWalks`): a dimension is joined only if its step, in every tensor, is the number
  of iterations inside. Each kernel's plan is such a walk
  (`PlanWalks`), with the axis as inner loop of a normalization and outermost of
  PReLU. The checks put every element the walk reaches into its buffer, and
  an operand in place of the result has its elements where their results go
  (`CellsAreGood`). So an operand is read before anything is written over it, by
  the invariant `ExactInv`: the results of the iterations so far are as the reference
  wants them, and all other elements are what they were.
- `ParamsStay` (`ParamsFollow`), for calls whose parameters are not kept in the data
  buffer of the output (`Permutes`). An accepted order has each dimension
  (`EachDimensionOccurs`), so the one with parameters goes somewhere; the loops
  leave the input's array alone (`IterateKeeps`), and what is copied from it
  at the end is as long as the dimension.

TLC confirms the hypotheses about `Dense` (`SizedCall`, `Numbered`) and `Conversion`
(`CallsFit`) for the calls of their runs, so the theorems speak about all of them.

Model-checked only:

- liveness (`SyncReturns`, `Returns`), which the prover does not reach;
- how near the numbers of `Conversion` and `Dense` are to the formula
  (`ConvertedNear`, `ResultNear`): roundings one after the other, by
  powers of two with a variable exponent. No prover at hand knows more of `2^n` than
  that it is an integer, and the laws of exponents need induction over data.

## Not modelled

- The code under `USE_DMA` consists of `TODO` stubs. Memory banks and
  alignment (`mli_mem_chk`) depend on the processor's configuration.
- The `dsp` and `vdsp` variants are re-implementations with intrinsics that
  promise the results of the reference code. They, examples with their tables
  of coefficients and the user tests are most of the repository's lines:
  what is mapped is a small share of the lines and most of the reference code of the library.
- Instances of one template, which only differ in a type or a fixed kernel
  size, are mapped by their template.
- Conversion from and to float, which the application does on its host, and
  sa32, which differs from sa8 in width.
- Numeric accuracy of softmax, L2 normalization and of the look-up tables is a
  question of error bounds over reals.
- The build with `FULL_ACCU`.
- The table generator `lutfx.py`, build files.

## Plan

Done: the data movement group, tensor descriptors, sub-tensors, all kernels,
conversion; theorems about every safety invariant and action property but the
two about nearness. Left, in this order:

1. Theorems about `FixedPoint`: saturation, monotonicity and the range of
   results for every width, with 2^w as a parameter of the lemmas; then
   `ConvertedNear`, for which they are needed.
2. The numbers of a convolution: `Dense` with the areas of `Window`.
3. Views as sources of moves: parameter capacities that did not follow the
   pointer.
