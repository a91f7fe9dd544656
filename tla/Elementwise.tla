----------------------------- MODULE Elementwise -----------------------------
(***************************************************************************)
(* The kernels whose result has an element for each element of the input:  *)
(* elementwise operations with one or two full operands, the activations   *)
(* (RELU, leaky and parametric RELU, sigmoid and tanh by look-up table),   *)
(* the normalizations (softmax, L2) along an axis or over the whole tensor,*)
(* and permute.                                                            *)
(*                                                                         *)
(* They share one way to walk through tensors of up to four dimensions     *)
(* with gaps between rows: dimensions that are adjacent in the memory of   *)
(* all tensors are squashed to one, the other ones are nested loops.  A    *)
(* scalar operand is read once, before anything is written.                *)
(*                                                                         *)
(* Elements are symbolic: what is in memory at first is its own address,   *)
(* and a result is the term that was computed.                             *)
(***************************************************************************)
EXTENDS Tensor, Sequences

CONSTANT Calls     \* the calls an application makes

(* A call has a kind, the descriptors in1, in2 (the second operand or the  *)
(* slope) and out, the buffers their data pointers point to, and, where    *)
(* the kind needs them, a dimension axis (0 for the whole tensor) and the  *)
(* order perm of the dimensions.  Of a tensor of rank 0 the value is in    *)
(* the descriptor.  out comes with a rank of its own.  params is the array *)
(* of a tensor with parameters for each index; "null" if out has none yet. *)
Kinds == {"eltwise", "relu", "lut", "leaky", "prelu", "softmax", "l2", "permute"}

Binary == {"eltwise", "leaky", "prelu"}
Normalizing == {"softmax", "l2"}
Names == {"in1", "in2", "out"}

ASSUME CallsAssumption ==
  \A c \in Calls :
    /\ c.kind \in Kinds
    /\ DOMAIN c.buffer = Names /\ c.buffer.in1 # c.buffer.in2
    /\ c.out.rank \in 1 .. MaxRank /\ (c.kind # "eltwise" => c.in1.rank > 0)
    /\ c.axis \in Nat
    /\ \A d \in Dims(c.in1) : c.perm[d] \in Nat \ {0}
    /\ c.in1.elem = c.in2.elem /\ c.in1.elem = c.out.elem

VARIABLES
  call,     \* the call in progress
  out,      \* its output descriptor
  plan,     \* the loops of the kernel
  scalar,   \* operands that were read before the loops, by name
  n,        \* iterations of the outer loops that are done
  mem,      \* elements by address
  status    \* "called", "running", or what the kernel returned

vars == <<call, out, plan, scalar, n, mem, status>>

(* mli_krn_prelu leaves a slope for the whole tensor to leaky RELU. *)
Kind(c) == IF c.kind = "prelu" /\ c.axis = 0 THEN "leaky" ELSE c.kind

-----------------------------------------------------------------------------
(* Checks.                                                                 *)

IsScalar(t) == t.rank = 0 \/ ElemNum(t) = 1

CheckScalar(t) ==
  IF t.rank = 0 THEN "OK"
  ELSE IF CheckTensor(t) # "OK" THEN CheckTensor(t)
  ELSE IF ElemNum(t) # 1 THEN "SHAPE_MISMATCH" ELSE "OK"

Innermost(t) == t.mem_stride[t.rank] = 1

Room(c, size) == size * c.in1.elem <= c.out.capacity

(* A bad first operand passes if the second one is good. *)
CheckEltwise(c) ==
  LET full == {t \in {c.in1, c.in2} : ~IsScalar(t)}
      checked == IF c.in2 \in full THEN CheckTensor(c.in2)
                 ELSE IF c.in1 \in full THEN CheckTensor(c.in1) ELSE "OK"
  IN  IF \E t \in {c.in1, c.in2} \ full : CheckScalar(t) # "OK" THEN "BAD_TENSOR"
      ELSE IF c.in1.rank = 0 /\ c.in2.rank = 0 THEN "NOT_SUPPORTED"
      ELSE IF checked # "OK" THEN checked
      ELSE IF \E t \in full : ~Innermost(t) THEN "INCOMPATEBLE_TENSORS"
      ELSE IF {c.in1, c.in2} = full
                /\ (\/ c.in1.rank # c.in2.rank
                    \/ \E d \in Dims(c.in1) : c.in1.shape[d] # c.in2.shape[d])
           THEN "SHAPE_MISMATCH"
      ELSE IF c.in1.dim > 0 \/ c.in2.dim > 0 THEN "NOT_SUPPORTED"
      ELSE IF ~Room(c, ElemNum(c.in1)) \/ ~Room(c, ElemNum(c.in2)) THEN "NOT_ENGH_MEM"
      ELSE "OK"

(* mli_chk_relu, mli_chk_basic_activation, and the axis of those with one. *)
CheckActivation(c) ==
  IF CheckTensor(c.in1) # "OK" THEN CheckTensor(c.in1)
  ELSE IF ~Innermost(c.in1) \/ ~Innermost(c.out) THEN "INCOMPATEBLE_TENSORS"
  ELSE IF c.kind = "leaky" /\ CheckScalar(c.in2) # "OK" THEN CheckScalar(c.in2)
  ELSE IF ~Room(c, ElemNum(c.in1)) THEN "NOT_ENGH_MEM"
  ELSE IF c.kind \in Normalizing /\ c.axis > c.in1.rank THEN "BAD_FUNC_CFG"
  ELSE IF c.kind \notin Normalizing /\ c.in1.dim > 0 THEN "INCOMPATEBLE_TENSORS"
  ELSE "OK"

(* The slope of the whole tensor is a scalar; along an axis it has that    *)
(* dimension of the input.                                                 *)
CheckPrelu(c) ==
  LET slope == IF c.axis = 0 THEN CheckScalar(c.in2) ELSE CheckTensor(c.in2)
      misshapen == \E d \in Dims(c.in1) : c.in2.shape[d] # (IF d = c.axis THEN c.in1.shape[d] ELSE 1)
  IN  IF CheckTensor(c.in1) # "OK" THEN CheckTensor(c.in1)
      ELSE IF slope # "OK" THEN slope
      ELSE IF ~Innermost(c.in1) \/ ~Innermost(c.out) \/ (c.axis > 0 /\ (~Innermost(c.in2) \/ misshapen))
           THEN "INCOMPATEBLE_TENSORS"
      ELSE IF ~Room(c, ElemNum(c.in1)) THEN "NOT_ENGH_MEM"
      ELSE IF c.in1.dim > 0 THEN "INCOMPATEBLE_TENSORS"
      ELSE "OK"

(* Arrays of out's own need the room that those of in1 have. *)
CheckPermute(c) ==
  IF CheckTensor(c.in1) # "OK" THEN CheckTensor(c.in1)
  ELSE IF \E d \in Dims(c.in1) :
            \/ c.perm[d] > c.in1.rank
            \/ \E e \in d + 1 .. c.in1.rank : c.perm[d] = c.perm[e]
       THEN "BAD_FUNC_CFG"
  ELSE IF ~Room(c, ElemNum(c.in1)) THEN "NOT_ENGH_MEM"
  ELSE IF /\ c.in1.dim > 0 /\ c.out.params \notin {"null", c.in1.params}
          /\ c.out.params_cap < c.in1.params_cap
       THEN "SPEC_PARAM_MISMATCH"
  ELSE "OK"

Check(c) ==
  CASE c.kind = "eltwise" -> CheckEltwise(c)
    [] c.kind = "prelu" -> CheckPrelu(c)
    [] c.kind = "permute" -> CheckPermute(c)
    [] OTHER -> CheckActivation(c)

-----------------------------------------------------------------------------
(* Loops.  A loop has a count and, for each tensor it walks through, a     *)
(* step.  The innermost loop is the last one.                              *)

Loops(ts) ==
  LET operand == IF "in1" \in DOMAIN ts THEN ts.in1 ELSE ts.in2
  IN  [d \in Dims(operand) |->
         [count |-> operand.shape[d], step |-> [k \in DOMAIN ts |-> ts[k].mem_stride[d]]]]

(* Iterations of the loops from the d-th on. *)
Inner(loops, d) ==
  LET count(e) == IF e \in d .. Len(loops) THEN loops[e].count ELSE 1
  IN  count(1) * count(2) * count(3) * count(4)

Iterations(loops) == Inner(loops, 1)

(* Mutant: a gap between the rows of the output is not seen. *)
JoinedInInputs(loops, d) ==
  \A k \in DOMAIN loops[d].step \ {"out"} : loops[d].step[k] = Inner(loops, d + 1)

(* The rows of a loop follow each other in every tensor. *)
Joined(loops, d) ==
  \A k \in DOMAIN loops[d].step : loops[d].step[k] = Inner(loops, d + 1)

(* The innermost loops as far as they are joined become one, with step 1. *)
Squash(loops) ==
  LET last == Len(loops)
      from == CHOOSE m \in 1 .. last :
                /\ \A d \in m .. last - 1 : Joined(loops, d)
                /\ m > 1 => ~Joined(loops, m - 1)
  IN  [d \in 1 .. from |->
         IF d < from \/ from = last THEN loops[d]
         ELSE [count |-> Inner(loops, d), step |-> [k \in DOMAIN loops[last].step |-> 1]]]

(* A pointer that is incremented in the innermost loop. *)
Adjacent(loops) ==
  [loops EXCEPT ![Len(loops)].step = [k \in DOMAIN @ |-> 1]]

(* How far a loop is in the i-th iteration of all, and where this is in    *)
(* tensor k.                                                               *)
Index(loops, d, i) == (i \div Inner(loops, d + 1)) % loops[d].count

Place(loops, k, i) ==
  LET term(d) == IF d <= Len(loops) THEN Index(loops, d, i) * loops[d].step[k] ELSE 0
  IN  term(1) + term(2) + term(3) + term(4)

-----------------------------------------------------------------------------
(* What a kernel prepares.                                                 *)

(* The output has the shape of the larger operand, or of the second one;   *)
(* that of permute is the input's in another order.                        *)
Filled(c) ==
  LET from == IF Kind(c) = "eltwise" /\ ElemNum(c.in1) <= ElemNum(c.in2) THEN c.in2 ELSE c.in1
  IN  IF Kind(c) = "permute"
      THEN [c.out EXCEPT !.rank = c.in1.rank,
                         !.shape = [d \in 1 .. MaxRank |->
                            IF d <= c.in1.rank THEN c.in1.shape[c.perm[d]] ELSE 1]]
      ELSE [c.out EXCEPT !.rank = from.rank,
                         !.shape = [d \in 1 .. MaxRank |->
                            IF d <= from.rank THEN from.shape[d] ELSE @[d]]]

(* Strides of the output that are not given: only the first one is asked.  *)
Increments(o) == IF o.mem_stride[1] < 1 THEN Strides(<<0, 0, 0, 0>>, o.shape, o.rank) ELSE o.mem_stride

(* Operands that are not walked through. *)
Scalars(c) ==
  CASE Kind(c) = "eltwise" -> {k \in {"in1", "in2"} : IsScalar(c[k])}
    [] Kind(c) = "leaky" -> {"in2"}
    [] OTHER -> {}

(* Tensors that are walked through. *)
Walked(c) ==
  (IF Kind(c) \in Binary THEN {"in1", "in2", "out"} ELSE {"in1", "out"}) \ Scalars(c)

(* Mutant: the other dimensions keep the steps of the axis. *)
AlongWhole(loops, axis) == loops

(* mli_prv_get_non_axis_tensor. *)
Along(loops, axis) ==
  IF axis = 0 THEN <<>>
  ELSE [d \in 1 .. Len(loops) - 1 |-> IF d < axis THEN loops[d] ELSE loops[d + 1]]

(* The slope steps along the axis only, from element to element. *)
Sloped(c, loops) ==
  [d \in DOMAIN loops |->
     [count |-> loops[d].count,
      step |-> [k \in Names |-> IF k # "in2" THEN loops[d].step[k] ELSE IF d = c.axis THEN 1 ELSE 0]]]

(* The axis is the outermost loop. *)
AxisFirst(loops, axis) ==
  [d \in DOMAIN loops |-> IF d = 1 THEN loops[axis] ELSE Along(loops, axis)[d - 1]]

(* The input as the output's dimensions see it. *)
Turned(c, o) ==
  [c.in1 EXCEPT !.shape = o.shape,
                !.mem_stride = [d \in 1 .. MaxRank |-> IF d <= o.rank THEN @[c.perm[d]] ELSE 0]]

Plan(c, o) ==
  LET one == Loops([in1 |-> c.in1, out |-> o])
      walked == [k \in Walked(c) |-> IF k = "out" THEN o ELSE c[k]]
      sloped == Sloped(c, IF c.axis = o.rank THEN one ELSE Adjacent(one))
      each(loops) == [outer |-> loops, inner |-> <<>>]
  IN  CASE Kind(c) = "eltwise" ->
             IF Scalars(c) = {"in1", "in2"} THEN each(<<>>) ELSE each(Adjacent(Squash(Loops(walked))))
        [] Kind(c) \in {"relu", "leaky"} -> each(Adjacent(Squash(one)))
        [] Kind(c) = "lut" -> each(Squash(one))
        [] Kind(c) = "prelu" -> each(AxisFirst(sloped, c.axis))
        [] Kind(c) = "permute" ->
             each(Loops([in1 |-> Turned(c, o), out |-> [o EXCEPT !.mem_stride = Increments(o)]]))
        [] Kind(c) \in Normalizing ->
             [outer |-> Along(one, c.axis),
              inner |-> IF c.axis > 0 THEN <<one[c.axis]>>
                        ELSE IF Kind(c) = "l2" THEN Squash(one) ELSE one]

-----------------------------------------------------------------------------
(* Memory.                                                                 *)

At(c, k, offset) == <<c.buffer[k], offset>>

(* The value of a scalar: in the descriptor or in memory. *)
Single(c, k, m) == IF c[k].rank = 0 THEN <<k, "descriptor">> ELSE m[At(c, k, 0)]

Allocated(c) ==
  (UNION {{At(c, k, i) : i \in 0 .. (c[k].capacity \div c[k].elem) - 1} : k \in {j \in Names : c[j].rank > 0}})
  \cup (UNION {{<<t.params, i>> : i \in 0 .. t.params_cap - 1} : t \in {c.in1, c.out}})

Read(a) == IF a \in DOMAIN mem THEN mem[a] ELSE a

Written(m, new) ==
  [a \in DOMAIN m \cup DOMAIN new |-> IF a \in DOMAIN new THEN new[a] ELSE m[a]]

Init ==
  /\ call \in Calls
  /\ out = call.out
  /\ plan = <<>> /\ scalar = <<>>
  /\ n = 0
  /\ mem = [a \in Allocated(call) |-> a]
  /\ status = "called"

Refuse ==
  /\ status = "called" /\ Check(call) # "OK"
  /\ status' = Check(call)
  /\ UNCHANGED <<call, out, plan, scalar, n, mem>>

Prepare ==
  /\ status = "called" /\ Check(call) = "OK"
  /\ status' = "running"
  /\ out' = Filled(call)
  /\ plan' = Plan(call, out')
  /\ scalar' = [k \in Scalars(call) |-> Single(call, k, mem)]
  /\ UNCHANGED <<call, n, mem>>

-----------------------------------------------------------------------------
(* An iteration of the outer loops handles an element; a normalization one *)
(* slice, which it reads to the end before it writes the first result.     *)

(* Where tensor k is in element i of the current iteration. *)
Here(k, i) == Place(plan.outer, k, n) + Place(plan.inner, k, i)

Elements == 0 .. Iterations(plan.inner) - 1

(* Mutant: a scalar in memory is read again for each element. *)
OperandReadAgain(k, i) ==
  IF k \in DOMAIN scalar THEN Single(call, k, mem) ELSE Read(At(call, k, Here(k, i)))

Operand(k, i) == IF k \in DOMAIN scalar THEN scalar[k] ELSE Read(At(call, k, Here(k, i)))

Result(i) ==
  CASE Kind(call) \in Binary -> <<Kind(call), Operand("in1", i), Operand("in2", i)>>
    [] Kind(call) \in Normalizing ->
         <<Kind(call), Operand("in1", i), {Operand("in1", j) : j \in Elements}>>
    [] Kind(call) = "permute" -> Operand("in1", i)
    [] OTHER -> <<Kind(call), Operand("in1", i)>>

Iterate ==
  /\ status = "running" /\ n < Iterations(plan.outer)
  /\ LET place == {At(call, "out", Here("out", i)) : i \in Elements}
     IN  mem' = Written(mem, [a \in place |->
                   Result(CHOOSE i \in Elements : a = At(call, "out", Here("out", i)))])
  /\ n' = n + 1
  /\ UNCHANGED <<call, out, plan, scalar, status>>

(* Mutant: the dimension of the parameters stays where it was. *)
PermutedParamsInPlace(c, o) ==
  IF c.in1.dim = 0 THEN [o EXCEPT !.dim = 0]
  ELSE [o EXCEPT !.dim = c.in1.dim, !.params = IF @ = "null" THEN c.in1.params ELSE @]

(* The parameters of permute's output: where in1's dimension went, in the  *)
(* array of in1 if out has none, or copied to the array out has.           *)
PermutedParams(c, o) ==
  IF c.in1.dim = 0 THEN [o EXCEPT !.dim = 0]
  ELSE [o EXCEPT !.dim = CHOOSE d \in Dims(c.in1) : c.perm[d] = c.in1.dim,
                 !.params = IF @ = "null" THEN c.in1.params ELSE @]

Copied(c, o) ==
  IF c.in1.dim = 0 \/ o.params \in {"null", c.in1.params} THEN {}
  ELSE 0 .. c.in1.shape[c.in1.dim] - 1

Return ==
  /\ status = "running" /\ n = Iterations(plan.outer)
  /\ status' = "OK"
  /\ IF Kind(call) = "permute"
     THEN /\ out' = PermutedParams(call, out)
          /\ mem' = Written(mem, [a \in {<<out.params, i>> : i \in Copied(call, out)} |->
                                    mem[<<call.in1.params, a[2]>>]])
     ELSE UNCHANGED <<out, mem>>
  /\ UNCHANGED <<call, plan, scalar, n>>

Next == Refuse \/ Prepare \/ Iterate \/ Return

Spec == Init /\ [][Next]_vars

-----------------------------------------------------------------------------
(* Calls that keep to the documentation: the operands are valid, the       *)
(* output has room for its rows with the gaps between them, it is apart    *)
(* from the inputs or, but for permute, in place of one with its strides.  *)
(* A slope is read as if its elements were adjacent, as long as there are  *)
(* results to come: they must not replace it.                              *)

SameStrides(s, t) == \A d \in Dims(s) : s.mem_stride[d] = t.mem_stride[d]

Valid(c, k) == IF k \in Scalars(c) THEN CheckScalar(c[k]) = "OK" ELSE CheckTensor(c[k]) = "OK"

(* The output with the strides that the kernel goes by. *)
Strided4(c, o) == IF Kind(c) = "permute" THEN [o EXCEPT !.mem_stride = Increments(o)] ELSE o

Documented(c) ==
  LET o == Strided4(c, Filled(c))
  IN  /\ Valid(c, "in1") /\ (Kind(c) \in Binary => Valid(c, "in2"))
      /\ o.rank > 0 /\ CheckLayout(o) = "OK" /\ Innermost(o)
      /\ \A k \in {"in1", "in2"} : c.buffer[k] = c.buffer.out =>
           /\ Kind(c) # "permute"
           /\ k \in Scalars(c) \/ SameStrides(c[k], o)
      /\ Kind(c) = "prelu" =>
           /\ c.axis \in Dims(c.in1) \cap Dims(c.in2) /\ c.in2.mem_stride[c.axis] = 1
           /\ c.buffer.in2 # c.buffer.out

(* The positions of the result, and its element at a position. *)
Positions ==
  LET along(d) == IF d <= out.rank THEN 0 .. out.shape[d] - 1 ELSE {0}
  IN  {<<p1, p2, p3, p4>> : p1 \in along(1), p2 \in along(2), p3 \in along(3), p4 \in along(4)}

AtResult(p) == At(call, "out", Offset(Strided4(call, out), p))

Source(k, p) ==
  IF k \in Scalars(call)
  THEN IF call[k].rank = 0 THEN <<k, "descriptor">> ELSE At(call, k, 0)
  ELSE At(call, k, Offset(call[k], p))

(* The position of in1 that goes to position p of permute's output. *)
TurnedBack(p) ==
  [d \in 1 .. MaxRank |->
     IF d <= call.in1.rank THEN p[CHOOSE e \in Dims(call.in1) : call.perm[e] = d] ELSE 0]

Slope(p) == [d \in 1 .. MaxRank |-> IF d = call.axis THEN p[d] ELSE 0]

Slice(p) == {q \in Positions : call.axis = 0 \/ \A d \in 1 .. MaxRank : d # call.axis => q[d] = p[d]}

Expected(p) ==
  CASE Kind(call) = "prelu" -> <<"prelu", Source("in1", p), Source("in2", Slope(p))>>
    [] Kind(call) \in {"eltwise", "leaky"} -> <<Kind(call), Source("in1", p), Source("in2", p)>>
    [] Kind(call) = "permute" -> Source("in1", TurnedBack(p))
    [] Kind(call) \in Normalizing ->
         <<Kind(call), Source("in1", p), {Source("in1", q) : q \in Slice(p)}>>
    [] OTHER -> <<Kind(call), Source("in1", p)>>

-----------------------------------------------------------------------------
(* Properties.                                                             *)

(* Each element of the result is computed from the elements of the same    *)
(* position - with the slope of its index, among the elements of its own   *)
(* slice, or from where the permutation takes it - as they were before the *)
(* call, also where the result replaces an operand.                        *)
ResultExact ==
  status = "OK" /\ Documented(call) =>
    \A p \in Positions : mem[AtResult(p)] = Expected(p)

(* Only the result is written: what is in the gaps between the rows of the *)
(* output stays, however many dimensions were squashed.                    *)
OthersKept ==
  status \in {"running", "OK"} /\ Documented(call) =>
    LET changed == {a \in DOMAIN mem : mem[a] # a /\ a[1] # out.params}
    IN  changed \subseteq {AtResult(p) : p \in Positions}

(* Nothing is read or written outside the buffers of the tensors. *)
InsideBuffers ==
  status = "running" /\ n < Iterations(plan.outer) /\ Documented(call) =>
    \A k \in Walked(call) : \A i \in Elements : At(call, k, Here(k, i)) \in Allocated(call)

(* The parameters of permute's output are those of the dimension they had  *)
(* in the input, wherever that went and wherever they are kept.            *)
ParamsFollow ==
  status = "OK" /\ Kind(call) = "permute" /\ call.in1.dim > 0 =>
    /\ out.shape[out.dim] = call.in1.shape[call.in1.dim]
    /\ call.perm[out.dim] = call.in1.dim
    /\ \A i \in 0 .. out.shape[out.dim] - 1 :
         mem[<<out.params, i>>] = <<call.in1.params, i>>
=============================================================================
