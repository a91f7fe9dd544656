------------------------------- MODULE Pooling -------------------------------
(***************************************************************************)
(* The pooling kernels mli_krn_maxpool_hwc and mli_krn_avepool_hwc.  A     *)
(* call works out the size of its output, computes the outputs whose       *)
(* window lies inside the input in one pass of loops, and then the borders *)
(* at the four sides.  One piece of code serves all four: it knows the     *)
(* upper border only, and the views of input and output are rotated until  *)
(* the border at hand is the upper one.                                    *)
(*                                                                         *)
(* A value is not a number here but the elements of the input it is the    *)
(* maximum or the sum of, by their offsets, and the number the sum is      *)
(* divided by.                                                             *)
(***************************************************************************)
EXTENDS Tensor, Window, Sequences, FiniteSets

CONSTANT Calls     \* the calls an application makes

(* A call is a record of type; fixed, the kernel size of a specialised     *)
(* function or 0; the axes h and w with the sizes in and kernel, stride    *)
(* and the padding pre and post; channels; row and col, the strides of the *)
(* input; params, its quantization; and the descriptor out.  Sizes are at  *)
(* least 1, by the check of the tensor in; strides and padding are bytes   *)
(* and may be 0.  The last dimensions have a stride of 1, which the checks *)
(* ask for too.                                                            *)
ASSUME CallsAssumption ==
  \A c \in Calls :
    /\ c.type \in {"AVEPOOL", "MAXPOOL"}
    /\ c.fixed # 0 => c.fixed = c.h.kernel /\ c.fixed = c.w.kernel
    /\ \A a \in {c.h, c.w} :
         /\ a \in [in : Nat, kernel : Nat, stride : Nat, pre : Nat, post : Nat]
         /\ a.in > 0 /\ a.kernel > 0
    /\ c.channels \in Nat \ {0} /\ c.row \in Nat /\ c.col \in Nat
    /\ c.out.shape \in [1 .. MaxRank -> Nat] /\ c.out.mem_stride \in [1 .. MaxRank -> Nat]
    /\ c.out.mem_stride[3] = 1
    /\ c.out.elem \in Nat \ {0} /\ c.out.capacity \in Nat
    /\ {"rank", "shape", "mem_stride", "elem", "capacity", "params"} \subseteq DOMAIN c.out

VARIABLES
  call,     \* the call in progress
  out,      \* its output descriptor
  todo,     \* passes of the loops still to make, the current one first
  at,       \* H_idx and W_idx in the current pass
  area,     \* the valid area of the latest window that was worked out
  mem,      \* what was written to the output buffer, by element
  writes,   \* history: the number of writes
  status    \* "called", "running", or what the kernel returned

vars == <<call, out, todo, at, area, mem, writes, status>>

-----------------------------------------------------------------------------
(* Sizes and the check of the arguments.                                   *)

(* C rounds to zero: too large a kernel makes an output of size 0 or less. *)
OutSize(a) ==
  LET sum == a.in + a.pre + a.post + a.stride - a.kernel
  IN  IF sum >= 0 THEN sum \div a.stride ELSE 0 - ((0 - sum) \div a.stride)

(* Sizes are uint32_t in a shape. *)
Filled(c) ==
  [c.out EXCEPT !.rank = 3,
                !.shape = <<OutSize(c.h) % Modulus, OutSize(c.w) % Modulus, c.channels, 0>>,
                !.params = IF c.type = "MAXPOOL" THEN c.params ELSE @]

(* Mutant: the end of the padding is not looked at. *)
CheckPre(c) ==
  IF \E a \in {c.h, c.w} : a.pre >= a.kernel \/ a.stride = 0
  THEN "BAD_FUNC_CFG"
  ELSE IF c.type = "MAXPOOL" THEN CheckLayout(Filled(c))
  ELSE "OK"

Check(c) ==
  IF \E a \in {c.h, c.w} : a.pre >= a.kernel \/ a.post >= a.kernel \/ a.stride = 0
  THEN "BAD_FUNC_CFG"
  ELSE IF c.type = "MAXPOOL" THEN CheckLayout(Filled(c))
  ELSE "OK"    \* the same layout is checked, but the result is not used

-----------------------------------------------------------------------------
(* Axes and views.                                                         *)

WindowOf(a) == [in |-> a.in, kernel |-> a.kernel, stride |-> a.stride, dilation |-> 1, pad |-> a.pre]

(* An axis with its number of outputs.  Too much padding at the end is     *)
(* taken back, and so are elements of the input that no window reaches.    *)
Used(a) ==
  LET n == OutSize(a)
  IN  [in |-> UsedSize(WindowOf(a), n), kernel |-> a.kernel, stride |-> a.stride, pre |-> a.pre,
       post |-> Most(Required(WindowOf(a), n) - a.in - a.pre, 0), out |-> n]

(* The same axis walked from its other end. *)
Flip(a) ==
  [in |-> a.in, kernel |-> a.kernel, stride |-> a.stride, pre |-> a.post, post |-> a.pre, out |-> a.out]

(* A tensor_private_t: where the first element is, the sizes and strides.  *)
View(height, width, row, col) ==
  [ptr |-> 0, height |-> height, width |-> width, row |-> row, col |-> col]

(* Mutant: the pointer stays at the last column of a view of other rows. *)
RotateFromStart(n, v) ==
  CASE n = 0 -> v
    [] n = 1 -> [ptr |-> v.ptr + v.col * (v.width - 1), height |-> v.width, width |-> v.height,
                 row |-> 0 - v.col, col |-> v.row]
    [] n = 2 -> [ptr |-> v.ptr + v.col * (v.width - 1), height |-> v.height, width |-> v.width,
                 row |-> 0 - v.row, col |-> 0 - v.col]
    [] n = 3 -> [ptr |-> v.ptr + v.row * (v.height - 1), height |-> v.width, width |-> v.height,
                 row |-> v.col, col |-> 0 - v.row]

(* mli_prv_rotate_tensor_private: n quarters counter-clockwise.  The last  *)
(* column of v is the first row of its first rotation.                     *)
Rotate(n, v) ==
  LET last_row == v.row * (v.height - 1)
      last_col == v.col * (v.width - 1)
  IN  CASE n = 0 -> v
        [] n = 1 -> [ptr |-> v.ptr + last_col, height |-> v.width, width |-> v.height,
                     row |-> 0 - v.col, col |-> v.row]
        [] n = 2 -> [ptr |-> v.ptr + last_col + last_row, height |-> v.height, width |-> v.width,
                     row |-> 0 - v.row, col |-> 0 - v.col]
        [] n = 3 -> [ptr |-> v.ptr + last_row, height |-> v.width, width |-> v.height,
                     row |-> v.col, col |-> 0 - v.row]

Cell(v, i, j) == v.ptr + i * v.row + j * v.col

-----------------------------------------------------------------------------
(* Passes.                                                                 *)

(* Outputs whose window begins in front of the input. *)
Border(a) == CeilDiv(a.pre, a.stride)

(* Outputs from the first one that does not to the last one that ends in   *)
(* the input; all of them where there is no padding.                       *)
CentreEnd(a) == CeilDiv(a.in + a.pre - a.kernel + 1, a.stride)

HasCentre(h, w) ==
  /\ h.in >= h.kernel /\ w.in >= w.kernel
  /\ Border(h) < CentreEnd(h) /\ Border(w) < CentreEnd(w)

(* The axes of the n-th rotation. *)
Axes(n, h, w) ==
  CASE n = 0 -> <<h, w>>
    [] n = 1 -> <<Flip(w), h>>
    [] n = 2 -> <<Flip(h), Flip(w)>>
    [] n = 3 -> <<w, Flip(h)>>

Pass(border, axes, rows, clmns, in, to) ==
  [border |-> border, h |-> axes[1], w |-> axes[2], row_beg |-> rows[1], row_end |-> rows[2],
   clmn_beg |-> clmns[1], clmn_end |-> clmns[2], in |-> in, to |-> to]

(* Mutant: each side computes the corner at its end as well. *)
BorderEndWithCorner(n, axes) == axes[2].out

(* A side leaves the corner at its end to the next one.  The upper one     *)
(* does not leave a corner that begins in front of the input on the left.  *)
BorderEnd(n, axes) ==
  LET corner == axes[2].out - Border(Flip(axes[2]))
  IN  IF n = 0 THEN Most(Border(axes[2]), corner) ELSE corner

BorderPass(n, h, w, in, to) ==
  LET axes == Axes(n, h, w)
  IN  Pass(TRUE, axes, <<0, Border(axes[1])>>, <<0, BorderEnd(n, axes)>>, Rotate(n, in), Rotate(n, to))

HasBorder(n, h, w) == Axes(n, h, w)[1].pre # 0

Passes(c) ==
  LET h  == Used(c.h)
      w  == Used(c.w)
      in == View(h.in, w.in, c.row, c.col)
      to == View(h.out, w.out, c.out.mem_stride[1], c.out.mem_stride[2])
      centre  == Pass(FALSE, <<h, w>>, <<Border(h), CentreEnd(h)>>, <<Border(w), CentreEnd(w)>>, in, to)
      borders == [n \in 1 .. 4 |-> BorderPass(n - 1, h, w, in, to)]
      Present(n) == HasBorder(n - 1, h, w)
  IN  (IF HasCentre(h, w) THEN <<centre>> ELSE <<>>)
        \o (IF Present(1) THEN <<borders[1]>> ELSE <<>>)
        \o (IF Present(2) THEN <<borders[2]>> ELSE <<>>)
        \o (IF Present(3) THEN <<borders[3]>> ELSE <<>>)
        \o (IF Present(4) THEN <<borders[4]>> ELSE <<>>)

-----------------------------------------------------------------------------
(* One point of the output.                                                *)

InLoops(pass) == at[1] < pass.row_end /\ at[2] < pass.clmn_end

Whole(h, w) == [top |-> 0, left |-> 0, rows |-> h.kernel, clmns |-> w.kernel, div |-> h.kernel * w.kernel]

ValidArea(h, w, o) ==
  LET rows  == AreaSize(WindowOf(h), o[1])
      clmns == AreaSize(WindowOf(w), o[2])
  IN  [top |-> KernelBefore(WindowOf(h), o[1]), left |-> KernelBefore(WindowOf(w), o[2]),
       rows |-> rows, clmns |-> clmns, div |-> rows * clmns]

(* Mutant: the columns are counted with the height of the kernel.          *)
AreaAtByHeight(pass) ==
  IF ~pass.border THEN Whole(pass.h, pass.w)
  ELSE IF at[2] < pass.clmn_beg + pass.h.kernel THEN ValidArea(pass.h, pass.w, at)
  ELSE IF call.fixed # 0 THEN [area EXCEPT !.clmns = call.fixed]
  ELSE area

(* In a border the area is worked out for as many columns as the kernel    *)
(* has, and the last one serves for the rest of the row: they are behind   *)
(* the left border.  A specialised function takes its own width for them.  *)
AreaAt(pass) ==
  IF ~pass.border THEN Whole(pass.h, pass.w)
  ELSE IF at[2] < pass.clmn_beg + pass.w.kernel THEN ValidArea(pass.h, pass.w, at)
  ELSE IF call.fixed # 0 THEN [area EXCEPT !.clmns = call.fixed]
  ELSE area

(* compute_avepool and reduce_max2D_hwc. *)
Value(pass, a, ch) ==
  LET row  == Begin(WindowOf(pass.h), at[1]) + a.top
      clmn == Begin(WindowOf(pass.w), at[2]) + a.left
  IN  [read |-> {Cell(pass.in, row + i, clmn + j) + ch : i \in 0 .. a.rows - 1, j \in 0 .. a.clmns - 1},
       div  |-> IF call.type = "AVEPOOL" THEN a.div ELSE 0]

-----------------------------------------------------------------------------
Init ==
  /\ call \in Calls
  /\ out = call.out
  /\ todo = <<>>
  /\ at = <<0, 0>>
  /\ area = <<>>
  /\ mem = <<>>
  /\ writes = 0
  /\ status = "called"

Refuse ==
  /\ status = "called"
  /\ Check(call) # "OK"
  /\ status' = Check(call)
  /\ UNCHANGED <<call, out, todo, at, area, mem, writes>>

Start(passes) == IF passes = <<>> THEN <<0, 0>> ELSE <<Head(passes).row_beg, Head(passes).clmn_beg>>

PrepareAndRun ==
  /\ status = "called"
  /\ Check(call) = "OK"
  /\ status' = "running"
  /\ out' = Filled(call)
  /\ todo' = Passes(call)
  /\ at' = Start(Passes(call))
  /\ UNCHANGED <<call, area, mem, writes>>

NextPoint(pass) ==
  IF at[2] + 1 < pass.clmn_end THEN <<at[1], at[2] + 1>> ELSE <<at[1] + 1, pass.clmn_beg>>

Point ==
  /\ status = "running" /\ todo # <<>> /\ InLoops(Head(todo))
  /\ LET pass   == Head(todo)
         target == Cell(pass.to, at[1], at[2])
         cells  == target .. target + call.channels - 1
     IN  /\ area' = AreaAt(pass)
         /\ mem' = [i \in DOMAIN mem \cup cells |->
                      IF i \in cells THEN Value(pass, AreaAt(pass), i - target) ELSE mem[i]]
         /\ writes' = writes + call.channels
         /\ at' = NextPoint(pass)
  /\ UNCHANGED <<call, out, todo, status>>

(* The loops of a pass end, at once where a border has no outputs. *)
EndPass ==
  /\ status = "running" /\ todo # <<>> /\ ~InLoops(Head(todo))
  /\ todo' = Tail(todo)
  /\ at' = Start(Tail(todo))
  /\ area' = <<>>
  /\ UNCHANGED <<call, out, mem, writes, status>>

Return ==
  /\ status = "running" /\ todo = <<>>
  /\ status' = "OK"
  /\ UNCHANGED <<call, out, todo, at, area, mem, writes>>

Next == Refuse \/ PrepareAndRun \/ Point \/ EndPass \/ Return

Spec == Init /\ [][Next]_vars

-----------------------------------------------------------------------------
(* What pooling is.                                                        *)

(* The elements of the input in the window of an output. *)
InWindow(c, h, w, ch) ==
  {v[1][1] * c.row + v[2][1] * c.col + ch : v \in Met(WindowOf(c.h), h) \X Met(WindowOf(c.w), w)}

Reference(c, h, w, ch) ==
  LET elements == InWindow(c, h, w, ch)
  IN  [read |-> elements, div |-> IF c.type = "AVEPOOL" THEN Cardinality(elements) ELSE 0]

OutPositions ==
  {<<h, w, ch, 0>> : h \in 0 .. out.shape[1] - 1, w \in 0 .. out.shape[2] - 1,
                     ch \in 0 .. out.shape[3] - 1}

OutCells == {Offset(out, q) : q \in OutPositions}

(* Each side of the padding is no wider than the outputs can serve: the    *)
(* checks do not ask for it.                                               *)
BordersFit(c) ==
  \A a \in {Used(c.h), Used(c.w)} : Border(a) <= a.out /\ Border(Flip(a)) <= a.out

(* ... and the borders at opposite sides do not meet. *)
BordersApart(c) ==
  \A a \in {Used(c.h), Used(c.w)} : Border(a) + Border(Flip(a)) <= a.out

-----------------------------------------------------------------------------
(* Properties.                                                             *)

(* When a kernel returns OK, each element of the output comes from exactly *)
(* the elements of the input in its window, and an average is divided by   *)
(* their number: at corners, sides and in the middle, where areas of an    *)
(* earlier column are used again, and where the input was cut down.        *)
(* Padding only shifts the windows.  It adds no elements with the value of *)
(* the zero point, as pooling_grp.rst has it, and the divisor is not       *)
(* kernel_width * kernel_height, as pool_avg.rst has it: the code leaves   *)
(* padding out, and the vectors of the user tests expect this.  Said where *)
(* the borders fit into the output (BordersFit).                           *)
ResultExact ==
  status = "OK" /\ BordersFit(call) =>
    /\ DOMAIN mem = OutCells
    /\ \A q \in OutPositions : mem[Offset(out, q)] = Reference(call, q[1], q[2], q[3])

(* Nothing is written but elements of an output that is large enough, and  *)
(* nothing read that the input does not have, by any rotated view.  Said   *)
(* where the borders fit into the output (BordersFit): with padding wider  *)
(* than the outputs at its side can serve, which the checks admit, the     *)
(* code computes elements that the output does not have.                   *)
InsideBuffers ==
  BordersFit(call) =>
    /\ DOMAIN mem \subseteq OutCells
    /\ CheckLayout(out) = "OK" => \A i \in DOMAIN mem : (i + 1) * out.elem <= out.capacity
    /\ \A i \in DOMAIN mem :
         mem[i].read \subseteq {r * call.row + s * call.col + ch :
                                  r \in 0 .. call.h.in - 1, s \in 0 .. call.w.in - 1,
                                  ch \in 0 .. call.channels - 1}

(* The four borders and the middle share the output out among them, as     *)
(* long as the borders at opposite sides do not meet.                      *)
ComputedOnce == BordersApart(call) => writes = Cardinality(DOMAIN mem)

(* Where the check of the output passed, no window is empty, as the code   *)
(* assumes of rows and clmns (__builtin_assume), not even one it computes  *)
(* for a border too wide: an average is never one of nothing.              *)
AreaNotEmpty ==
  area # <<>> /\ CheckLayout(Filled(call)) = "OK" => area.rows > 0 /\ area.clmns > 0
=============================================================================
