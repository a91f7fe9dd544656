------------------------------- MODULE Argmax --------------------------------
(***************************************************************************)
(* mli_krn_argmax: the topk largest elements of a tensor, or of each slice *)
(* along an axis.  The output has topk places for each slice.  They hold a *)
(* heap of positions in the input, the smallest element on top: filled     *)
(* with the first topk elements, ordered, and then offered every other     *)
(* element of the slice.  A heap sort leaves them in descending order.     *)
(*                                                                         *)
(* A step is one iteration of the innermost loop: in heapify, the loop all *)
(* phases share, an exchange of a node with one of its children.           *)
(***************************************************************************)
EXTENDS Tensor

CONSTANT Calls     \* the calls an application makes

(* A call has the descriptor in, values (what is in its memory), axis (0   *)
(* for the whole tensor), topk, and the capacity of the output in bytes.   *)
(* A slice has at least topk elements and, its strides being valid, no two *)
(* of them are at one place.                                               *)
SlicesOf(c) == IF c.axis > 0 THEN c.in.shape[c.axis] ELSE 1

Elements(c) == SliceLength(c.in, c.axis)

(* POS of the j-th element of slice s. *)
Place(c, s, j) == Offset(c.in, SlicePosition(c.in, c.axis, s, j))

Sound(c) ==
  /\ c.axis \in 0 .. c.in.rank
  /\ SlicesOf(c) \in Nat \ {0} /\ Elements(c) \in Nat
  /\ c.topk \in 1 .. Elements(c)
  /\ \A s \in 0 .. SlicesOf(c) - 1, j \in 0 .. Elements(c) - 1 :
       /\ Place(c, s, j) \in DOMAIN c.values
       /\ \A k \in 0 .. j - 1 : Place(c, s, j) # Place(c, s, k)

Check(c) ==
  IF CheckTensor(c.in) # "OK" THEN CheckTensor(c.in)
  ELSE IF c.axis > c.in.rank + 1 THEN "BAD_FUNC_CFG"
  ELSE IF c.in.mem_stride[c.in.rank] # 1 THEN "INCOMPATEBLE_TENSORS"
  ELSE IF c.capacity # c.topk * SlicesOf(c) * 4 THEN "NOT_ENGH_MEM"
  ELSE IF c.in.dim > 0 THEN "INCOMPATEBLE_TENSORS"
  ELSE "OK"

ASSUME CallsAssumption ==
  \A c \in Calls :
    /\ c.axis \in Nat /\ c.topk \in Nat
    /\ \A a \in DOMAIN c.values : c.values[a] \in Int
    /\ Check(c) = "OK" => Sound(c)

VARIABLES
  call,     \* the call in progress
  slice,    \* slice_idx
  phase,    \* "fill", "build", "select", "rebuild", "sort": the loop it is in
  i,        \* the counter of that loop
  size,     \* nodes of the heap
  node,     \* root_idx of heapify; size if it is not running
  dst,      \* the elements of the output
  status    \* "called", "running", or what the kernel returned

vars == <<call, slice, phase, i, size, node, dst, status>>

-----------------------------------------------------------------------------
(* The heap of a slice.                                                    *)

(* Mutant: an output slice is taken to be as long as an input slice. *)
BaseOfLongSlices == Elements(call) * slice

Base == call.topk * slice           \* dst_tensor_offset

At(k) == dst[Base + k]
Value(k) == call.values[At(k)]

Exchanged(j, k) ==
  [dst EXCEPT ![Base + j] = At(k), ![Base + k] = At(j)]

(* Mutant: only the left child is looked at. *)
SmallestOfTwo(n) == IF 2 * n + 1 < size /\ Value(2 * n + 1) < Value(n) THEN 2 * n + 1 ELSE n

(* A node or that of its children with a smaller element, the smallest. *)
Smallest(n) ==
  LET l == 2 * n + 1
      r == 2 * n + 2
      first == IF l < size /\ Value(l) < Value(n) THEN l ELSE n
  IN  IF r < size /\ Value(r) < Value(first) THEN r ELSE first

(* Mutant: heapify goes on as long as there are children. *)
SettledAtLeaf == node >= size \div 2

(* heapify has nothing left to do. *)
Settled == node >= size \div 2 \/ Smallest(node) = node

-----------------------------------------------------------------------------
Init ==
  /\ call \in Calls
  /\ slice = 0 /\ phase = "fill" /\ i = 0
  /\ size = 0 /\ node = 0
  /\ dst = [k \in {} |-> 0]
  /\ status = "called"

Refuse ==
  /\ status = "called" /\ Check(call) # "OK"
  /\ status' = Check(call)
  /\ UNCHANGED <<call, slice, phase, i, size, node, dst>>

Start ==
  /\ status = "called" /\ Check(call) = "OK"
  /\ status' = "running"
  /\ size' = call.topk /\ node' = call.topk
  /\ UNCHANGED <<call, slice, phase, i, dst>>

Heapify ==
  /\ status = "running" /\ ~Settled
  /\ dst' = Exchanged(node, Smallest(node))
  /\ node' = Smallest(node)
  /\ UNCHANGED <<call, slice, phase, i, size, status>>

(* fill_dst_array: the first topk elements of the slice. *)
Fill ==
  /\ status = "running" /\ phase = "fill"
  /\ dst' = [k \in DOMAIN dst \cup Base .. Base + call.topk - 1 |->
               IF k < Base THEN dst[k] ELSE Place(call, slice, k - Base)]
  /\ phase' = "build" /\ i' = (call.topk \div 2) - 1
  /\ UNCHANGED <<call, slice, size, node, status>>

(* Inner nodes from the last one to the root. *)
Build ==
  /\ status = "running" /\ phase \in {"build", "rebuild"} /\ Settled
  /\ IF i >= 0
     THEN node' = i /\ i' = i - 1 /\ UNCHANGED phase
     ELSE /\ node' = size
          /\ phase' = IF phase = "build" THEN "select" ELSE "sort"
          /\ i' = IF phase = "build" THEN call.topk ELSE call.topk - 1
  /\ UNCHANGED <<call, slice, size, dst, status>>

(* What is not smaller than the smallest of the heap replaces it. *)
Offer(p) == Value(0) <= call.values[p]

Select ==
  /\ status = "running" /\ phase = "select" /\ Settled /\ i < Elements(call)
  /\ LET p == Place(call, slice, i)
     IN  IF Offer(p) THEN dst' = [dst EXCEPT ![Base] = p] /\ node' = 0
         ELSE UNCHANGED <<dst, node>>
  /\ i' = i + 1
  /\ UNCHANGED <<call, slice, phase, size, status>>

Selected ==
  /\ status = "running" /\ phase = "select" /\ Settled /\ i >= Elements(call)
  /\ phase' = "rebuild" /\ i' = (call.topk \div 2) - 1
  /\ UNCHANGED <<call, slice, size, node, dst, status>>

(* Mutant: the heap keeps the node that was taken out. *)
ShrunkTooLate == i + 1

Shrunk == i

(* The smallest element goes behind the heap. *)
Sort ==
  /\ status = "running" /\ phase = "sort" /\ Settled /\ i > 0
  /\ dst' = Exchanged(0, i)
  /\ size' = Shrunk /\ node' = 0 /\ i' = i - 1
  /\ UNCHANGED <<call, slice, phase, status>>

Sorted ==
  /\ status = "running" /\ phase = "sort" /\ Settled /\ i <= 0
  /\ IF slice + 1 < SlicesOf(call)
     THEN slice' = slice + 1 /\ phase' = "fill" /\ UNCHANGED status
     ELSE status' = "OK" /\ UNCHANGED <<slice, phase>>
  /\ size' = call.topk /\ node' = call.topk
  /\ UNCHANGED <<call, i, dst>>

Next ==
  Refuse \/ Start \/ Heapify \/ Fill \/ Build \/ Select \/ Selected \/ Sort \/ Sorted

(* A call goes on until it returns. *)
Spec == Init /\ [][Next]_vars /\ WF_vars(Next)

-----------------------------------------------------------------------------
(* Properties.                                                             *)

Source(s) == {Place(call, s, j) : j \in 0 .. Elements(call) - 1}

(* What was found for a slice: places of different elements of the slice,  *)
(* their values in descending order, and no other element is larger.       *)
IsTopOf(s) ==
  LET found(k) == dst[call.topk * s + k]
      ks == 0 .. call.topk - 1
  IN  /\ \A k \in ks : found(k) \in Source(s)
      /\ \A j, k \in ks : j < k => /\ found(j) # found(k)
                                   /\ call.values[found(j)] >= call.values[found(k)]
      /\ \A p \in Source(s) \ {found(k) : k \in ks} :
           call.values[p] <= call.values[found(call.topk - 1)]

(* Each slice that is done has its largest elements, whatever later slices *)
(* write.                                                                  *)
TopFound ==
  LET done == IF status = "OK" THEN SlicesOf(call) ELSE slice
  IN  \A s \in 0 .. done - 1 : IsTopOf(s)

(* Each time an element is offered, the places are those of different      *)
(* elements that were read before, no element that was read and is not     *)
(* among them is larger than one that is, and the top is the smallest.     *)
HeapKept ==
  status = "running" /\ phase = "select" /\ Settled =>
    LET read == {Place(call, slice, j) : j \in 0 .. i - 1}
        kept == {At(k) : k \in 0 .. call.topk - 1}
    IN  /\ kept \subseteq read
        /\ \A j, k \in 0 .. call.topk - 1 : j # k => At(j) # At(k)
        /\ \A k \in 0 .. call.topk - 1 : Value(0) <= Value(k)
        /\ \A p \in read \ kept : call.values[p] <= Value(0)

(* heapify looks at places of its own slice only, which were all written,  *)
(* and the element that is read next is in the input's memory.             *)
InsideBuffers ==
  status = "running" /\ phase # "fill" =>
    /\ size <= call.topk
    /\ \A k \in 0 .. size - 1 : Base + k \in DOMAIN dst /\ (Base + k + 1) * 4 <= call.capacity
    /\ phase = "select" /\ i < Elements(call) =>
         (Place(call, slice, i) + 1) * call.in.elem <= call.in.capacity

(* Every call returns: heapify stops, and so do the loops around it. *)
Returns == <>(status \notin {"called", "running"})
=============================================================================
