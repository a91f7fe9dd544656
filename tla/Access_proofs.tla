---------------------------- MODULE Access_proofs ----------------------------
(***************************************************************************)
(* Which cells of a buffer a kernel accesses.                              *)
(*                                                                         *)
(* What the check of a tensor descriptor guarantees to the kernels, which  *)
(* compute addresses from positions and look at no capacity: for every     *)
(* descriptor whose layout mli_chk_tensor accepts, of any rank up to       *)
(* MaxRank, each position has its own element and lies within the          *)
(* capacity.  Both hold as long as the sizes do not wrap at 2^32, which    *)
(* the code does not test.  Strides that are computed leave no gaps.       *)
(*                                                                         *)
(* The valid area of a window, for sizes, strides, dilations and paddings  *)
(* of every value.                                                         *)
(***************************************************************************)
EXTENDS Tensor, Window, TLAPS

USE ModulusAssumption

(* Descriptors: any numbers the structure can hold. *)
Descriptor(t) ==
  /\ t.rank \in Nat
  /\ t.shape \in [1 .. MaxRank -> Nat]
  /\ t.mem_stride \in [1 .. MaxRank -> Int]
  /\ t.capacity \in Nat
  /\ t.elem \in Nat \ {0}

(* The part of an offset that a dimension contributes. *)
Term(t, pos, d) == IF d <= t.rank THEN pos[d] * t.mem_stride[d] ELSE 0

IsPosition(t, pos) == pos \in [1 .. MaxRank -> Int] /\ HasPosition(t, pos)

-----------------------------------------------------------------------------
(* Products grow with their factors. *)
LEMMA ProductGrows ==
  ASSUME NEW a \in Nat, NEW b \in Nat, NEW s \in Nat, a <= b
  PROVE  a * s \in Nat /\ b * s \in Nat /\ a * s <= b * s
<1>1. PICK k \in Nat : b = a + k
  <2>1. b - a \in Nat /\ b = a + (b - a)
    OBVIOUS
  <2> QED
    BY <2>1
<1>2. b * s = a * s + k * s
  BY <1>1
<1>3. a * s \in Nat /\ k * s \in Nat
  BY <1>1
<1> QED
  BY <1>2, <1>3

(* A number reduced modulo m that is below m is the number itself. *)
LEMMA NotReduced ==
  ASSUME NEW a \in 0 .. Modulus - 1
  PROVE  a % Modulus = a
OBVIOUS

(* The check of a tensor includes that of its layout. *)
LEMMA TensorHasLayout ==
  ASSUME NEW t, CheckTensor(t) = "OK"
  PROVE  CheckLayout(t) = "OK"
BY DEF CheckTensor

(* What an accepted descriptor satisfies dimension by dimension. *)
LEMMA Accepted ==
  ASSUME NEW t, Descriptor(t), CheckLayout(t) = "OK"
  PROVE  /\ t.rank \in 0 .. MaxRank
         /\ \A d \in Dims(t) : t.mem_stride[d] \in Nat \ {0} /\ t.shape[d] \in Nat \ {0}
         /\ Strided(t) /\ Fits(t)
<1>1. Shaped(t) /\ Strided(t) /\ Fits(t)
  BY DEF CheckLayout
<1> QED
  BY <1>1 DEF Shaped, Dims, Descriptor, MaxRank

(* A dimension contributes at most what it contributes to the last         *)
(* position, and a stride more for a larger index.                         *)
LEMMA TermBounds ==
  ASSUME NEW t, Descriptor(t), CheckLayout(t) = "OK",
         NEW pos, IsPosition(t, pos), NEW d \in 1 .. MaxRank
  PROVE  /\ Term(t, pos, d) \in Nat
         /\ Term(t, LastPosition(t), d) \in Nat
         /\ Term(t, pos, d) <= Term(t, LastPosition(t), d)
<1>1. CASE d <= t.rank
  <2>1. d \in Dims(t) /\ t.mem_stride[d] \in Nat /\ t.shape[d] \in Nat \ {0}
    BY <1>1, Accepted DEF Dims, MaxRank
  <2>2. pos[d] \in Nat /\ t.shape[d] - 1 \in Nat /\ pos[d] <= t.shape[d] - 1
    BY <2>1 DEF IsPosition, HasPosition
  <2>3. LastPosition(t)[d] = t.shape[d] - 1
    BY DEF LastPosition
  <2> QED
    BY <1>1, <2>1, <2>2, <2>3, ProductGrows DEF Term
<1>2. CASE ~(d <= t.rank)
  BY <1>2 DEF Term
<1> QED
  BY <1>1, <1>2

LEMMA OffsetIsSum ==
  ASSUME NEW t, NEW pos
  PROVE  Offset(t, pos) = Term(t, pos, 1) + Term(t, pos, 2) + Term(t, pos, 3) + Term(t, pos, 4)
BY DEF Offset, Term

(* Offsets lie in the memory the descriptor spans. *)
LEMMA OffsetBelowSpan ==
  ASSUME NEW t, Descriptor(t), CheckLayout(t) = "OK", NEW pos, IsPosition(t, pos)
  PROVE  Offset(t, pos) \in 0 .. Span(t) - 1 /\ Span(t) \in Nat
<1>1. \A d \in 1 .. MaxRank :
        /\ Term(t, pos, d) \in Nat
        /\ Term(t, LastPosition(t), d) \in Nat
        /\ Term(t, pos, d) <= Term(t, LastPosition(t), d)
  BY TermBounds
<1> QED
  BY <1>1, OffsetIsSum DEF Span, MaxRank

-----------------------------------------------------------------------------
(* Every element of an accepted tensor lies within its capacity: the loops *)
(* of the kernels stay in the buffer although they never look at it.       *)
THEOREM PositionInside ==
  ASSUME NEW t, Descriptor(t), CheckLayout(t) = "OK", NoWrap(t),
         NEW pos, IsPosition(t, pos)
  PROVE  0 <= Offset(t, pos) /\ (Offset(t, pos) + 1) * t.elem <= t.capacity
<1>1. Offset(t, pos) \in Nat /\ Span(t) \in Nat /\ Offset(t, pos) + 1 <= Span(t)
  BY OffsetBelowSpan
<1>2. (Offset(t, pos) + 1) * t.elem <= Span(t) * t.elem
  BY <1>1, ProductGrows DEF Descriptor
<1>3. Span(t) * t.elem <= t.capacity
  BY Accepted, NotReduced DEF Fits, NoWrap
<1>4. (Offset(t, pos) + 1) * t.elem \in Nat /\ Span(t) * t.elem \in Nat /\ t.capacity \in Nat
  BY <1>1 DEF Descriptor
<1> QED
  BY <1>1, <1>2, <1>3, <1>4

-----------------------------------------------------------------------------
(* The stride of a dimension exceeds what all dimensions inside it take    *)
(* together.                                                               *)
Inside(t, d) ==
  LET last(e) == IF e > d THEN Term(t, LastPosition(t), e) ELSE 0
  IN  last(1) + last(2) + last(3) + last(4)

LEMMA OneLess ==
  ASSUME NEW a \in Nat \ {0}, NEW s \in Nat
  PROVE  a * s = (a - 1) * s + s /\ (a - 1) * s \in Nat
<1>1. PICK k \in Nat : a = k + 1
  <2>1. a - 1 \in Nat /\ a = (a - 1) + 1
    OBVIOUS
  <2> QED
    BY <2>1
<1>2. a * s = k * s + s /\ k * s \in Nat
  BY <1>1
<1> QED
  BY <1>1, <1>2

(* From the stride of one dimension to that of the next dimension inside.  *)
LEMMA StrideStep ==
  ASSUME NEW t, Descriptor(t), CheckLayout(t) = "OK", NoWrap(t),
         NEW d \in 1 .. t.rank - 1
  PROVE  t.mem_stride[d] >= Term(t, LastPosition(t), d + 1) + t.mem_stride[d + 1]
<1>1. /\ d \in 1 .. MaxRank /\ d + 1 \in Dims(t)
      /\ t.rank \in 1 .. MaxRank /\ d + 1 \in 1 .. MaxRank /\ d + 1 <= t.rank
      /\ t.mem_stride[d] \in Int
  BY Accepted DEF Dims, MaxRank, Descriptor
<1>2. t.mem_stride[d + 1] \in Nat /\ t.shape[d + 1] \in Nat \ {0}
  BY <1>1, Accepted
<1>3. t.mem_stride[d] >= (t.shape[d + 1] * t.mem_stride[d + 1]) % Modulus
  BY Accepted DEF Strided
<1>4. t.mem_stride[d] >= t.shape[d + 1] * t.mem_stride[d + 1]
  BY <1>3, NotReduced DEF NoWrap
<1>5. /\ t.shape[d + 1] * t.mem_stride[d + 1]
           = (t.shape[d + 1] - 1) * t.mem_stride[d + 1] + t.mem_stride[d + 1]
      /\ (t.shape[d + 1] - 1) * t.mem_stride[d + 1] \in Nat
  BY <1>2, OneLess
<1>6. Term(t, LastPosition(t), d + 1) = (t.shape[d + 1] - 1) * t.mem_stride[d + 1]
  BY <1>1 DEF Term, LastPosition
<1> QED
  BY <1>4, <1>5, <1>6

(* The steps added up, for strides S and contributions B of r dimensions.  *)
LEMMA StepsAddUp ==
  ASSUME NEW r \in 1 .. 4, NEW d \in 1 .. r,
         NEW S \in [1 .. 4 -> Int], NEW B \in [1 .. 4 -> Nat],
         \A e \in 1 .. 4 : e > r => B[e] = 0,
         S[r] >= 1,
         \A e \in 1 .. r - 1 : S[e] >= B[e + 1] + S[e + 1]
  PROVE  S[d] >= 1 + (IF 1 > d THEN B[1] ELSE 0) + (IF 2 > d THEN B[2] ELSE 0)
                   + (IF 3 > d THEN B[3] ELSE 0) + (IF 4 > d THEN B[4] ELSE 0)
<1>1. /\ S[1] \in Int /\ S[2] \in Int /\ S[3] \in Int /\ S[4] \in Int
      /\ B[1] \in Nat /\ B[2] \in Nat /\ B[3] \in Nat /\ B[4] \in Nat
  OBVIOUS
<1>2. CASE r = 1
  <2>1. B[2] = 0 /\ B[3] = 0 /\ B[4] = 0
    BY <1>2
  <2> QED
    BY <1>1, <1>2, <2>1
<1>3. CASE r = 2
  <2>1. B[3] = 0 /\ B[4] = 0 /\ S[1] >= B[2] + S[2]
    BY <1>3
  <2> QED
    BY <1>1, <1>3, <2>1
<1>4. CASE r = 3
  <2>1. B[4] = 0 /\ S[1] >= B[2] + S[2] /\ S[2] >= B[3] + S[3]
    BY <1>4
  <2> QED
    BY <1>1, <1>4, <2>1
<1>5. CASE r = 4
  <2>1. S[1] >= B[2] + S[2] /\ S[2] >= B[3] + S[3] /\ S[3] >= B[4] + S[4]
    BY <1>5
  <2> QED
    BY <1>1, <1>5, <2>1
<1> QED
  BY <1>2, <1>3, <1>4, <1>5

(* The stride of a dimension exceeds what all dimensions inside it take    *)
(* together.                                                               *)
LEMMA StrideCovers ==
  ASSUME NEW t, Descriptor(t), CheckLayout(t) = "OK", NoWrap(t), NEW d \in Dims(t)
  PROVE  t.mem_stride[d] >= 1 + Inside(t, d)
<1> DEFINE B == [e \in 1 .. 4 |-> Term(t, LastPosition(t), e)]
<1>1. t.rank \in 1 .. 4 /\ d \in 1 .. t.rank /\ t.mem_stride \in [1 .. 4 -> Int]
  BY Accepted DEF Dims, MaxRank, Descriptor
<1>2. \A e \in 1 .. 4 : e > t.rank => B[e] = 0
  BY <1>1 DEF Term
<1>3. B \in [1 .. 4 -> Nat]
  <2>1. ASSUME NEW e \in 1 .. 4, e <= t.rank
        PROVE  Term(t, LastPosition(t), e) \in Nat
    <3>1. e \in Dims(t) /\ e \in 1 .. MaxRank
      BY <2>1, <1>1 DEF Dims, MaxRank
    <3>2. t.mem_stride[e] \in Nat /\ t.shape[e] \in Nat \ {0}
      BY <3>1, Accepted
    <3> QED
      BY <2>1, <3>1, <3>2, OneLess DEF Term, LastPosition
  <2> QED
    BY <2>1, <1>1 DEF Term
<1>4. t.mem_stride[t.rank] >= 1
  BY <1>1, Accepted DEF Dims
<1>5. \A e \in 1 .. t.rank - 1 : t.mem_stride[e] >= B[e + 1] + t.mem_stride[e + 1]
  BY <1>1, StrideStep
<1>6. Inside(t, d) = (IF 1 > d THEN B[1] ELSE 0) + (IF 2 > d THEN B[2] ELSE 0)
                       + (IF 3 > d THEN B[3] ELSE 0) + (IF 4 > d THEN B[4] ELSE 0)
  BY DEF Inside
<1>7. /\ \A e \in 1 .. 4 : (IF e > d THEN B[e] ELSE 0) \in Nat
      /\ t.mem_stride[d] \in Int
  BY <1>1, <1>3
<1> HIDE DEF B
<1>8. t.mem_stride[d] >= 1 + (IF 1 > d THEN B[1] ELSE 0) + (IF 2 > d THEN B[2] ELSE 0)
                           + (IF 3 > d THEN B[3] ELSE 0) + (IF 4 > d THEN B[4] ELSE 0)
  BY <1>1, <1>2, <1>3, <1>4, <1>5, StepsAddUp
<1> QED
  BY <1>6, <1>7, <1>8

-----------------------------------------------------------------------------
(* An index that is larger by one or more contributes at least a stride    *)
(* more.                                                                   *)
LEMMA TermGrows ==
  ASSUME NEW t, Descriptor(t), CheckLayout(t) = "OK", NEW d \in Dims(t),
         NEW p, IsPosition(t, p), NEW q, IsPosition(t, q), p[d] < q[d]
  PROVE  Term(t, q, d) >= Term(t, p, d) + t.mem_stride[d]
<1>1. d \in 1 .. MaxRank /\ d <= t.rank
  BY Accepted DEF Dims, MaxRank
<1>2. t.mem_stride[d] \in Nat
  BY Accepted
<1>3. p[d] \in Nat /\ q[d] \in Nat \ {0} /\ p[d] <= q[d] - 1 /\ q[d] - 1 \in Nat
  BY <1>1 DEF IsPosition, HasPosition
<1>4. q[d] * t.mem_stride[d] = (q[d] - 1) * t.mem_stride[d] + t.mem_stride[d]
  BY <1>2, <1>3, OneLess
<1>5. /\ p[d] * t.mem_stride[d] <= (q[d] - 1) * t.mem_stride[d]
      /\ p[d] * t.mem_stride[d] \in Nat /\ (q[d] - 1) * t.mem_stride[d] \in Nat
  BY <1>2, <1>3, ProductGrows
<1> QED
  BY <1>1, <1>2, <1>4, <1>5 DEF Term

(* The elements of an accepted tensor lie in memory in the order of their  *)
(* positions, so a walk over the last dimension first never goes back.     *)
THEOREM MemoryOrder ==
  ASSUME NEW t, Descriptor(t), CheckLayout(t) = "OK", NoWrap(t),
         NEW p, IsPosition(t, p), NEW q, IsPosition(t, q),
         NEW d \in Dims(t), \A e \in 1 .. d - 1 : p[e] = q[e], p[d] < q[d]
  PROVE  Offset(t, p) < Offset(t, q)
<1> DEFINE B(e) == Term(t, LastPosition(t), e)
           X(e) == Term(t, p, e)
           Y(e) == Term(t, q, e)
           S == t.mem_stride[d]
<1>1. d \in 1 .. 4 /\ S \in Nat
  BY Accepted DEF Dims, MaxRank
<1>2. \A e \in 1 .. 4 : /\ X(e) \in Nat /\ B(e) \in Nat /\ X(e) <= B(e)
                        /\ Y(e) \in Nat
  BY TermBounds DEF MaxRank
<1>3. \A e \in 1 .. 4 : e < d => X(e) = Y(e)
  BY <1>1 DEF Term
<1>4. Y(d) >= X(d) + S
  BY TermGrows
<1>5. S >= 1 + ((IF 1 > d THEN B(1) ELSE 0) + (IF 2 > d THEN B(2) ELSE 0)
                + (IF 3 > d THEN B(3) ELSE 0) + (IF 4 > d THEN B(4) ELSE 0))
  BY StrideCovers DEF Inside
<1>6. /\ Offset(t, p) = X(1) + X(2) + X(3) + X(4)
      /\ Offset(t, q) = Y(1) + Y(2) + Y(3) + Y(4)
  BY OffsetIsSum
<1> HIDE DEF B, X, Y, S
<1>7. CASE d = 1
  BY <1>1, <1>2, <1>4, <1>5, <1>6, <1>7
<1>8. CASE d = 2
  BY <1>1, <1>2, <1>3, <1>4, <1>5, <1>6, <1>8
<1>9. CASE d = 3
  BY <1>1, <1>2, <1>3, <1>4, <1>5, <1>6, <1>9
<1>10. CASE d = 4
  BY <1>1, <1>2, <1>3, <1>4, <1>5, <1>6, <1>10
<1> QED
  BY <1>1, <1>7, <1>8, <1>9, <1>10

(* Two positions of an accepted tensor never share an element: what a      *)
(* kernel writes at one it does not overwrite at another.                  *)
THEOREM PositionsApart ==
  ASSUME NEW t, Descriptor(t), CheckLayout(t) = "OK", NoWrap(t),
         NEW p, IsPosition(t, p), NEW q, IsPosition(t, q),
         \E d \in Dims(t) : p[d] # q[d]
  PROVE  Offset(t, p) # Offset(t, q)
<1>1. PICK d \in Dims(t) : p[d] # q[d] /\ \A e \in 1 .. d - 1 : p[e] = q[e]
  <2>1. t.rank \in 0 .. 4
    BY Accepted DEF MaxRank
  <2>3. CASE 1 \in Dims(t) /\ p[1] # q[1]
    BY <2>3
  <2>4. CASE ~(1 \in Dims(t) /\ p[1] # q[1]) /\ 2 \in Dims(t) /\ p[2] # q[2]
    <3>1. \A e \in 1 .. 2 - 1 : p[e] = q[e]
      BY <2>1, <2>4 DEF Dims
    <3> QED
      BY <2>4, <3>1
  <2>5. CASE /\ ~(1 \in Dims(t) /\ p[1] # q[1]) /\ ~(2 \in Dims(t) /\ p[2] # q[2])
             /\ 3 \in Dims(t) /\ p[3] # q[3]
    <3>1. \A e \in 1 .. 3 - 1 : e = 1 \/ e = 2
      OBVIOUS
    <3>2. p[1] = q[1] /\ p[2] = q[2]
      BY <2>1, <2>5 DEF Dims
    <3> QED
      BY <2>5, <3>1, <3>2
  <2>6. CASE /\ ~(1 \in Dims(t) /\ p[1] # q[1]) /\ ~(2 \in Dims(t) /\ p[2] # q[2])
             /\ ~(3 \in Dims(t) /\ p[3] # q[3])
    <3>1. 4 \in Dims(t) /\ p[4] # q[4] /\ p[1] = q[1] /\ p[2] = q[2] /\ p[3] = q[3]
      BY <2>1, <2>6 DEF Dims
    <3>2. \A e \in 1 .. 4 - 1 : e = 1 \/ e = 2 \/ e = 3
      OBVIOUS
    <3> QED
      BY <3>1, <3>2
  <2> QED
    BY <2>3, <2>4, <2>5, <2>6
<1>2. p[d] \in Int /\ q[d] \in Int
  BY Accepted DEF IsPosition, Dims, MaxRank
<1>3. Offset(t, p) \in Int /\ Offset(t, q) \in Int
  BY TermBounds, OffsetIsSum DEF MaxRank
<1>4. CASE p[d] < q[d]
  BY <1>1, <1>3, <1>4, MemoryOrder
<1>5. CASE q[d] < p[d]
  <2>1. \A e \in 1 .. d - 1 : q[e] = p[e]
    BY <1>1
  <2>2. Offset(t, q) < Offset(t, p)
    BY <1>5, <2>1, MemoryOrder
  <2> QED
    BY <1>3, <2>2
<1> QED
  BY <1>1, <1>2, <1>4, <1>5

-----------------------------------------------------------------------------
(* Strides without gaps.                                                   *)

(* The numbers below m are those of two digits: s rows of b. *)
Counted(s, b, m) ==
  /\ \A q \in 0 .. s - 1, r \in 0 .. b - 1 : q * b \in Nat /\ q * b + r \in 0 .. m - 1
  /\ \A n \in 0 .. m - 1 : \E q \in 0 .. s - 1, r \in 0 .. b - 1 : n = q * b + r

LEMMA Digit ==
  ASSUME NEW s \in Nat \ {0}, NEW b \in Nat \ {0}, NEW m, m = s * b
  PROVE  m \in Nat \ {0} /\ Counted(s, b, m)
<1>1. m \in Nat \ {0} /\ m = (s - 1) * b + b /\ (s - 1) * b \in Nat
  BY OneLess
<1>2. ASSUME NEW q \in 0 .. s - 1, NEW r \in 0 .. b - 1
      PROVE  q * b \in Nat /\ q * b + r \in 0 .. m - 1
  <2>1. q * b \in Nat /\ q * b <= (s - 1) * b
    BY ProductGrows
  <2> QED
    BY <1>1, <2>1
<1>3. ASSUME NEW n \in 0 .. m - 1
      PROVE  \E q \in 0 .. s - 1, r \in 0 .. b - 1 : n = q * b + r
  <2>1. n \in Nat /\ n < m
    BY <1>1
  <2>2. PICK q \in Int, r \in 0 .. b - 1 : n = q * b + r
    <3>1. n \div b \in Int /\ n % b \in 0 .. b - 1 /\ n = (n \div b) * b + (n % b)
      BY <2>1
    <3> QED
      BY <3>1
  <2>3. q >= 0
    <3>1. SUFFICES ASSUME q < 0 PROVE FALSE
      OBVIOUS
    <3>2. -q \in Nat \ {0} /\ (-q) * b = ((-q) - 1) * b + b /\ ((-q) - 1) * b \in Nat
      BY <3>1, OneLess
    <3>3. (-q) * b = -(q * b) /\ q * b \in Int
      OBVIOUS
    <3> QED
      BY <2>1, <2>2, <3>2, <3>3
  <2>4. q < s
    <3>1. SUFFICES ASSUME s <= q PROVE FALSE
      OBVIOUS
    <3>2. m <= q * b /\ q * b \in Nat
      BY <2>3, <3>1, ProductGrows
    <3> QED
      BY <2>1, <2>2, <3>2
  <2>5. q \in 0 .. s - 1
    BY <2>3, <2>4
  <2> QED
    BY <2>2, <2>5
<1> QED
  BY <1>1, <1>2, <1>3 DEF Counted

(* Strides that are not given, one by one. *)
LEMMA StridesFollow ==
  ASSUME NEW given, NEW shape, NEW rank \in 0 .. MaxRank
  PROVE  /\ DOMAIN Strides(given, shape, rank) = 1 .. MaxRank
         /\ \A d \in 1 .. rank : Strides(given, shape, rank)[d] =
              IF given[d] # 0 THEN given[d] ELSE IF d = rank THEN 1
              ELSE Strides(given, shape, rank)[d + 1] * shape[d + 1]
         /\ \A d \in 1 .. MaxRank : d > rank => Strides(given, shape, rank)[d] = 0
<1> DEFINE Next(f) == [d \in 1 .. rank |->
                         IF given[d] # 0 THEN given[d] ELSE IF d = rank THEN 1
                         ELSE f[d + 1] * shape[d + 1]]
           s4 == IF given[4] # 0 THEN given[4] ELSE 1
           s3 == IF given[3] # 0 THEN given[3] ELSE IF 3 = rank THEN 1 ELSE s4 * shape[4]
           s2 == IF given[2] # 0 THEN given[2] ELSE IF 2 = rank THEN 1 ELSE s3 * shape[3]
           s1 == IF given[1] # 0 THEN given[1] ELSE IF 1 = rank THEN 1 ELSE s2 * shape[2]
           solution == [d \in 1 .. rank |->
                          IF d = 1 THEN s1 ELSE IF d = 2 THEN s2 ELSE IF d = 3 THEN s3 ELSE s4]
           stride == CHOOSE f : f = Next(f)
<1>1. \A d \in 1 .. rank : solution[d] = Next(solution)[d]
  BY DEF MaxRank
<1>2. solution = Next(solution)
  BY <1>1
<1> HIDE DEF solution, Next
<1>3. stride = Next(stride)
  BY <1>2
<1>4. Strides(given, shape, rank) = [d \in 1 .. MaxRank |-> IF d <= rank THEN stride[d] ELSE 0]
  BY DEF Strides, Next
<1> HIDE DEF stride
<1> QED
  BY <1>3, <1>4 DEF Next, MaxRank

LEMMA StridesAreInts ==
  ASSUME NEW given \in [1 .. MaxRank -> Int], NEW shape \in [1 .. MaxRank -> Nat],
         NEW rank \in 0 .. MaxRank
  PROVE  Strides(given, shape, rank) \in [1 .. MaxRank -> Int]
<1> DEFINE S == Strides(given, shape, rank)
<1>1. /\ DOMAIN S = 1 .. 4
      /\ \A d \in 1 .. rank : S[d] =
           IF given[d] # 0 THEN given[d] ELSE IF d = rank THEN 1 ELSE S[d + 1] * shape[d + 1]
      /\ \A d \in 1 .. 4 : d > rank => S[d] = 0
  BY StridesFollow DEF MaxRank
<1>2. S = [d \in 1 .. 4 |-> S[d]]
  BY DEF Strides, MaxRank
<1> HIDE DEF S
<1>3. S[4] \in Int
  BY <1>1 DEF MaxRank
<1>4. S[3] \in Int
  BY <1>1, <1>3 DEF MaxRank
<1>5. S[2] \in Int
  BY <1>1, <1>4 DEF MaxRank
<1>6. S[1] \in Int
  BY <1>1, <1>5 DEF MaxRank
<1>7. \A d \in 1 .. 4 : S[d] \in Int
  BY <1>3, <1>4, <1>5, <1>6
<1>8. S \in [1 .. MaxRank -> Int]
  BY <1>2, <1>7 DEF MaxRank
<1> QED
  BY <1>8 DEF S

(* Strides without gaps count the elements through. *)
Packed(t) == Strides([i \in 1 .. MaxRank |-> 0], t.shape, t.rank)

FourDigits(n1, n2, n3, n4, b1, b2, b3, m) ==
  /\ \A q1 \in 0 .. n1 - 1, q2 \in 0 .. n2 - 1, q3 \in 0 .. n3 - 1, q4 \in 0 .. n4 - 1 :
       q1 * b1 + q2 * b2 + q3 * b3 + q4 \in 0 .. m - 1
  /\ \A n \in 0 .. m - 1 :
       \E q1 \in 0 .. n1 - 1, q2 \in 0 .. n2 - 1, q3 \in 0 .. n3 - 1, q4 \in 0 .. n4 - 1 :
         n = q1 * b1 + q2 * b2 + q3 * b3 + q4

(* A digit of a digit: three times over, four digits. *)
LEMMA DigitByDigit ==
  ASSUME NEW n1, NEW n2, NEW n3, NEW n4, NEW b1, NEW b2, NEW m,
         Counted(n1, b1, m), Counted(n2, b2, b1), Counted(n3, n4, b2)
  PROVE  FourDigits(n1, n2, n3, n4, b1, b2, n4, m)
<1>1. ASSUME NEW q1 \in 0 .. n1 - 1, NEW q2 \in 0 .. n2 - 1, NEW q3 \in 0 .. n3 - 1,
             NEW q4 \in 0 .. n4 - 1
      PROVE  q1 * b1 + q2 * b2 + q3 * n4 + q4 \in 0 .. m - 1
  <2>1. q3 * n4 \in Nat /\ q3 * n4 + q4 \in 0 .. b2 - 1
    BY DEF Counted
  <2>2. q2 * b2 \in Nat /\ q2 * b2 + (q3 * n4 + q4) \in 0 .. b1 - 1
    BY <2>1 DEF Counted
  <2>3. q1 * b1 \in Nat /\ q1 * b1 + (q2 * b2 + (q3 * n4 + q4)) \in 0 .. m - 1
    BY <2>2 DEF Counted
  <2>4. q1 * b1 + (q2 * b2 + (q3 * n4 + q4)) = q1 * b1 + q2 * b2 + q3 * n4 + q4
    BY <2>1, <2>2, <2>3
  <2> QED
    BY <2>3, <2>4
<1>2. ASSUME NEW n \in 0 .. m - 1
      PROVE  \E q1 \in 0 .. n1 - 1, q2 \in 0 .. n2 - 1, q3 \in 0 .. n3 - 1, q4 \in 0 .. n4 - 1 :
               n = q1 * b1 + q2 * b2 + q3 * n4 + q4
  <2>1. PICK q1 \in 0 .. n1 - 1, r1 \in 0 .. b1 - 1 : n = q1 * b1 + r1
    BY Zenon DEF Counted
  <2>2. PICK q2 \in 0 .. n2 - 1, r2 \in 0 .. b2 - 1 : r1 = q2 * b2 + r2
    BY Zenon DEF Counted
  <2>3. PICK q3 \in 0 .. n3 - 1, q4 \in 0 .. n4 - 1 : r2 = q3 * n4 + q4
    BY Zenon DEF Counted
  <2>4. q1 * b1 \in Nat /\ q2 * b2 \in Nat /\ q3 * n4 \in Nat
    BY DEF Counted
  <2>5. n = q1 * b1 + q2 * b2 + q3 * n4 + q4
    BY <2>1, <2>2, <2>3, <2>4
  <2> QED
    BY <2>5
<1> QED
  BY <1>1, <1>2 DEF FourDigits

LEMMA CountedThrough ==
  ASSUME NEW n1 \in Nat \ {0}, NEW n2 \in Nat \ {0}, NEW n3 \in Nat \ {0}, NEW n4 \in Nat \ {0},
         NEW b1 \in Nat, NEW b2 \in Nat, NEW b3 \in Nat, NEW m,
         b3 = n4, b2 = n3 * b3, b1 = n2 * b2, m = n1 * b1
  PROVE  m \in Nat \ {0} /\ m = n1 * n2 * n3 * n4 /\ FourDigits(n1, n2, n3, n4, b1, b2, b3, m)
<1>1. b3 \in Nat \ {0} /\ b2 \in Nat \ {0} /\ b1 \in Nat \ {0} /\ m \in Nat \ {0}
  BY Digit
<1>2. m = n1 * n2 * n3 * n4
  OBVIOUS
<1>3. Counted(n1, b1, m) /\ Counted(n2, b2, b1) /\ Counted(n3, b3, b2)
  BY <1>1, Digit
<1> QED
  BY <1>1, <1>2, <1>3, DigitByDigit

(* A tensor without gaps is one block: its positions are the numbers of    *)
(* its elements, and every one of them has a position.                     *)
LEMMA PackedIsBlock ==
  ASSUME NEW t, Descriptor(t), CheckLayout(t) = "OK",
         \A d \in Dims(t) : t.mem_stride[d] = Packed(t)[d]
  PROVE  /\ \A pos : IsPosition(t, pos) => Offset(t, pos) \in 0 .. ElemNum(t) - 1
         /\ \A n \in 0 .. ElemNum(t) - 1 : \E pos : IsPosition(t, pos) /\ Offset(t, pos) = n
         /\ ElemNum(t) \in Nat \ {0}
<1> DEFINE S == t.mem_stride
           N(d) == IF d <= t.rank THEN t.shape[d] ELSE 1
           b(d) == IF d <= t.rank THEN S[d] ELSE 1
           n1 == N(1)  n2 == N(2)  n3 == N(3)  n4 == N(4)
           b1 == b(1)  b2 == b(2)  b3 == b(3)  b4 == b(4)
           m == n1 * b1
<1>1. /\ t.rank \in 0 .. 4
      /\ \A d \in 1 .. 4 : d <= t.rank => d \in Dims(t) /\ S[d] \in Nat \ {0} /\ t.shape[d] \in Nat \ {0}
  BY Accepted DEF MaxRank, Dims
<1>2. \A d \in 1 .. t.rank : S[d] = IF d = t.rank THEN 1 ELSE S[d + 1] * t.shape[d + 1]
  <2> DEFINE P == Packed(t)
             zero == [i \in 1 .. MaxRank |-> 0]
  <2>0. P = Strides(zero, t.shape, t.rank)
    BY DEF Packed
  <2>1. \A d \in 1 .. t.rank : P[d] =
          IF zero[d] # 0 THEN zero[d] ELSE IF d = t.rank THEN 1 ELSE P[d + 1] * t.shape[d + 1]
    <3> HIDE DEF P, zero
    <3> QED
      BY <1>1, <2>0, StridesFollow DEF MaxRank
  <2>2. \A d \in 1 .. t.rank : S[d] = P[d] /\ zero[d] = 0
    BY <1>1 DEF MaxRank, Dims
  <2> HIDE DEF P, S, zero
  <2> QED
    BY <1>1, <2>1, <2>2
<1>3. \A d \in 1 .. 4 : N(d) \in Nat \ {0} /\ b(d) \in Nat \ {0}
  BY <1>1
<1>4. b4 = 1
  BY <1>1, <1>2
<1>5. \A d \in 1 .. 3 : b(d) = N(d + 1) * b(d + 1)
  <2> TAKE d \in 1 .. 3
  <2>1. CASE d < t.rank
    <3>1. S[d] = S[d + 1] * t.shape[d + 1] /\ N(d + 1) = t.shape[d + 1] /\ b(d + 1) = S[d + 1]
          /\ b(d) = S[d]
      BY <1>1, <1>2, <2>1
    <3>2. S[d + 1] \in Nat /\ t.shape[d + 1] \in Nat
      BY <1>1, <2>1
    <3> QED
      BY <3>1, <3>2
  <2>2. CASE d = t.rank
    BY <1>1, <1>2, <2>2
  <2>3. CASE d > t.rank
    BY <1>1, <2>3
  <2> QED
    BY <1>1, <2>1, <2>2, <2>3
<1>6. ElemNum(t) = n1 * n2 * n3 * n4
  BY DEF ElemNum
<1>7. m \in Nat \ {0} /\ m = n1 * n2 * n3 * n4 /\ FourDigits(n1, n2, n3, n4, b1, b2, b3, m)
  <2>1. b3 = n4 /\ b2 = n3 * b3 /\ b1 = n2 * b2
    BY <1>3, <1>4, <1>5
  <2>2. /\ n1 \in Nat \ {0} /\ n2 \in Nat \ {0} /\ n3 \in Nat \ {0} /\ n4 \in Nat \ {0}
        /\ b1 \in Nat /\ b2 \in Nat /\ b3 \in Nat
    BY <1>3
  <2>3. m = n1 * b1
    OBVIOUS
  <2> HIDE DEF N, b, n1, n2, n3, n4, b1, b2, b3, b4, m
  <2> QED
    <3>1. FourDigits(n1, n2, n3, n4, b1, b2, b3, m)
      BY <2>1, <2>2, <2>3, CountedThrough
    <3>2. m = n1 * n2 * n3 * n4 /\ m \in Nat \ {0}
      BY <2>1, <2>2, <2>3, CountedThrough
    <3> QED
      BY <3>1, <3>2
<1>8. \A pos : Offset(t, pos) = Term(t, pos, 1) + Term(t, pos, 2) + Term(t, pos, 3) + Term(t, pos, 4)
  BY OffsetIsSum
<1>9. ASSUME NEW pos, NEW q1 \in 0 .. n1 - 1, NEW q2 \in 0 .. n2 - 1, NEW q3 \in 0 .. n3 - 1,
             NEW q4 \in 0 .. n4 - 1,
             1 <= t.rank => pos[1] = q1, 2 <= t.rank => pos[2] = q2,
             3 <= t.rank => pos[3] = q3, 4 <= t.rank => pos[4] = q4
      PROVE  Offset(t, pos) = q1 * b1 + q2 * b2 + q3 * b3 + q4
  <2>1. \A d \in 1 .. 4 : d > t.rank => N(d) = 1 /\ b(d) = 1
    BY <1>1
  <2>2. Term(t, pos, 1) = q1 * b1
    BY <1>1, <1>9, <2>1 DEF Term
  <2>3. Term(t, pos, 2) = q2 * b2
    BY <1>1, <1>9, <2>1 DEF Term
  <2>4. Term(t, pos, 3) = q3 * b3
    BY <1>1, <1>9, <2>1 DEF Term
  <2>5. Term(t, pos, 4) = q4
    <3>1. Term(t, pos, 4) = q4 * b4
      BY <1>1, <1>9, <2>1 DEF Term
    <3> QED
      BY <1>4, <3>1
  <2> QED
    BY <1>8, <2>2, <2>3, <2>4, <2>5
<1>10. ASSUME NEW pos, IsPosition(t, pos)
       PROVE  Offset(t, pos) \in 0 .. ElemNum(t) - 1
  <2> DEFINE q(d) == IF d <= t.rank THEN pos[d] ELSE 0
  <2>1. \A d \in 1 .. 4 : q(d) \in 0 .. N(d) - 1
    BY <1>1, <1>10 DEF IsPosition, HasPosition
  <2>2. Offset(t, pos) = q(1) * b1 + q(2) * b2 + q(3) * b3 + q(4)
    <3>1. /\ q(1) \in 0 .. n1 - 1 /\ q(2) \in 0 .. n2 - 1 /\ q(3) \in 0 .. n3 - 1
          /\ q(4) \in 0 .. n4 - 1
      BY <2>1
    <3>2. /\ 1 <= t.rank => pos[1] = q(1)
          /\ 2 <= t.rank => pos[2] = q(2)
          /\ 3 <= t.rank => pos[3] = q(3)
          /\ 4 <= t.rank => pos[4] = q(4)
      OBVIOUS
    <3> HIDE DEF N, b, n1, n2, n3, n4, b1, b2, b3, b4, m, q
    <3> QED
      BY <1>9, <3>1, <3>2
  <2>3. /\ q(1) \in 0 .. n1 - 1 /\ q(2) \in 0 .. n2 - 1 /\ q(3) \in 0 .. n3 - 1
        /\ q(4) \in 0 .. n4 - 1
    BY <2>1
  <2> HIDE DEF N, b, n1, n2, n3, n4, b1, b2, b3, b4, m, q
  <2> QED
    BY <1>6, <1>7, <2>2, <2>3 DEF FourDigits
<1>11. ASSUME NEW n \in 0 .. ElemNum(t) - 1
       PROVE  \E pos : IsPosition(t, pos) /\ Offset(t, pos) = n
  <2>1. PICK q1 \in 0 .. n1 - 1, q2 \in 0 .. n2 - 1, q3 \in 0 .. n3 - 1, q4 \in 0 .. n4 - 1 :
          n = q1 * b1 + q2 * b2 + q3 * b3 + q4
    <3> HIDE DEF N, b, n1, n2, n3, n4, b1, b2, b3, b4, m
    <3> QED
      BY <1>6, <1>7 DEF FourDigits
  <2> DEFINE pos == [d \in 1 .. 4 |-> IF d = 1 THEN q1 ELSE IF d = 2 THEN q2 ELSE
                                      IF d = 3 THEN q3 ELSE q4]
  <2>2. pos[1] = q1 /\ pos[2] = q2 /\ pos[3] = q3 /\ pos[4] = q4 /\ pos \in [1 .. 4 -> Int]
    OBVIOUS
  <2> HIDE DEF pos
  <2>3. Offset(t, pos) = n
    <3> HIDE DEF N, b, n1, n2, n3, n4, b1, b2, b3, b4, m
    <3> QED
      BY <1>9, <2>1, <2>2
  <2>4. \A d \in Dims(t) : pos[d] \in 0 .. t.shape[d] - 1
    BY <1>1, <2>2 DEF Dims
  <2>5. IsPosition(t, pos)
    BY <2>2, <2>4 DEF IsPosition, HasPosition, MaxRank
  <2> QED
    BY <2>3, <2>5
<1>12. ElemNum(t) \in Nat \ {0}
  BY <1>6, <1>7
<1> QED
  BY <1>10, <1>11, <1>12

(* An order in which no dimension occurs twice has each of them. *)
LEMMA EachDimensionOccurs ==
  ASSUME NEW r \in 0 .. 4, NEW p, \A d \in 1 .. r : p[d] \in 1 .. r,
         \A d \in 1 .. r : \A e \in d + 1 .. r : p[d] # p[e], NEW x \in 1 .. r
  PROVE  \E d \in 1 .. r : p[d] = x
PROOF
  <1>1. CASE r = 1
    BY <1>1
  <1>2. CASE r = 2
    <2>1. p[1] \in 1 .. 2 /\ p[2] \in 1 .. 2 /\ p[1] # p[2]
      BY <1>2
    <2> QED BY <1>2, <2>1
  <1>3. CASE r = 3
    <2>1. /\ p[1] \in 1 .. 3 /\ p[2] \in 1 .. 3 /\ p[3] \in 1 .. 3
          /\ p[1] # p[2] /\ p[1] # p[3] /\ p[2] # p[3]
      BY <1>3
    <2>2. p[1] = x \/ p[2] = x \/ p[3] = x
      BY <1>3, <2>1
    <2> QED BY <1>3, <2>2
  <1>4. CASE r = 4
    <2>1. /\ p[1] \in 1 .. 4 /\ p[2] \in 1 .. 4 /\ p[3] \in 1 .. 4 /\ p[4] \in 1 .. 4
          /\ p[1] # p[2] /\ p[1] # p[3] /\ p[1] # p[4]
          /\ p[2] # p[3] /\ p[2] # p[4] /\ p[3] # p[4]
      BY <1>4
    <2>2. p[1] = x \/ p[2] = x \/ p[3] = x \/ p[4] = x
      BY <1>4, <2>1
    <2> QED BY <1>4, <2>2
  <1> QED BY <1>1, <1>2, <1>3, <1>4

-----------------------------------------------------------------------------
(* Slices.                                                                 *)

(* A slice has a size in each dimension. *)
LEMMA SliceShapePositive ==
  ASSUME NEW t, Descriptor(t), Shaped(t), NEW dim
  PROVE  \A d \in 1 .. MaxRank : SliceShape(t, dim)[d] \in Nat \ {0}
PROOF BY DEF Descriptor, Shaped, Dims, SliceShape, MaxRank

(* Quotient and remainder. *)
LEMMA Divided ==
  ASSUME NEW n \in Nat, NEW a \in Nat \ {0}
  PROVE  n \div a \in Nat /\ n % a \in 0 .. a - 1 /\ n = (n \div a) * a + (n % a)
OBVIOUS

(* There is one quotient. *)
LEMMA QuotientUnique ==
  ASSUME NEW n \in Nat, NEW a \in Nat \ {0}, NEW q \in Nat, NEW r \in 0 .. a - 1, n = q * a + r
  PROVE  n \div a = q
PROOF
  <1> DEFINE p == n \div a
  <1>1. p \in Nat /\ n % a \in 0 .. a - 1 /\ n = p * a + (n % a)
    BY Divided
  <1> HIDE DEF p
  <1>2. ASSUME p < q PROVE FALSE
    <2>1. p + 1 \in Nat /\ p + 1 <= q /\ (p + 1) * a = p * a + a
      BY <1>1, <1>2
    <2>2. (p + 1) * a <= q * a /\ p * a \in Nat /\ q * a \in Nat
      BY <1>1, <2>1, ProductGrows
    <2> QED BY <1>1, <2>1, <2>2
  <1>3. ASSUME q < p PROVE FALSE
    <2>1. q + 1 \in Nat /\ q + 1 <= p /\ (q + 1) * a = q * a + a
      BY <1>1, <1>3
    <2>2. (q + 1) * a <= p * a /\ p * a \in Nat /\ q * a \in Nat
      BY <1>1, <2>1, ProductGrows
    <2> QED BY <1>1, <2>1, <2>2
  <1> QED BY <1>1, <1>2, <1>3 DEF p

Quot(n, a) == n \div a

(* The quotient by a product. *)
LEMMA QuotientTwice ==
  ASSUME NEW n \in Nat, NEW a \in Nat \ {0}, NEW b \in Nat \ {0}, NEW c, c = a * b
  PROVE  /\ Quot(n, a) \in Nat /\ Quot(Quot(n, a), b) \in Nat
         /\ Quot(n, c) = Quot(Quot(n, a), b)
PROOF
  <1> DEFINE q == n \div a
             p == q \div b
             r == n % a
             s == q % b
  <1>1. q \in Nat /\ r \in 0 .. a - 1 /\ n = q * a + r
    BY Divided
  <1> HIDE DEF q, r
  <1>2. p \in Nat /\ s \in 0 .. b - 1 /\ q = p * b + s
    BY <1>1, Divided
  <1> HIDE DEF p, s
  <1>3. c \in Nat \ {0}
    OBVIOUS
  <1>4. s * a + r \in 0 .. c - 1
    <2>1. s + 1 \in Nat /\ s + 1 <= b /\ (s + 1) * a = s * a + a
      BY <1>2
    <2>2. (s + 1) * a <= b * a /\ s * a \in Nat
      BY <1>2, <2>1, ProductGrows
    <2>3. b * a = c
      OBVIOUS
    <2> QED BY <1>1, <1>2, <2>1, <2>2, <2>3
  <1>5. n = p * c + (s * a + r)
    <2>0. \A x, y, z, w \in Nat : (x * y + z) * w = x * (w * y) + z * w
      OBVIOUS
    <2>1. q * a = p * (a * b) + s * a
      <3>1. q * a = (p * b + s) * a
        BY <1>2
      <3>2. p \in Nat /\ b \in Nat /\ s \in Nat /\ a \in Nat
        BY <1>2
      <3>3. (p * b + s) * a = p * (a * b) + s * a
        BY <2>0, <3>2
      <3> QED BY <3>1, <3>3
    <2>2. p * c \in Nat /\ s * a \in Nat /\ q * a = p * c + s * a
      BY <1>2, <2>1
    <2> QED BY <1>1, <1>2, <2>2
  <1> DEFINE t == s * a + r
  <1>6. t \in 0 .. c - 1 /\ n = p * c + t
    BY <1>4, <1>5
  <1> HIDE DEF t
  <1>7. n \div c = p
    BY <1>2, <1>3, <1>6, QuotientUnique
  <1> QED BY <1>1, <1>2, <1>7 DEF q, p, Quot

(* The same step by step: quotients by a product of three factors. *)
LEMMA QuotientsInTurn ==
  ASSUME NEW x \in Nat, NEW s1 \in Nat \ {0}, NEW s2 \in Nat \ {0}, NEW s3 \in Nat \ {0},
         NEW s4 \in Nat \ {0}, NEW a \in Nat \ {0}, NEW b \in Nat \ {0},
         a = s4 * s3, b = a * s2, x < s1 * b
  PROVE  /\ x \div a = (x \div s4) \div s3 /\ x \div b = (x \div a) \div s2
         /\ x \div s4 \in Nat /\ x \div a \in Nat
         /\ x \div b \in 0 .. s1 - 1
PROOF
  <1>1. /\ Quot(x, s4) \in Nat /\ Quot(x, a) = Quot(Quot(x, s4), s3) /\ Quot(x, a) \in Nat
    <2>1. Quot(x, a) = Quot(Quot(x, s4), s3)
      BY QuotientTwice
    <2>2. Quot(x, s4) \in Nat /\ Quot(x, a) \in Nat
      BY Divided DEF Quot
    <2> QED BY <2>1, <2>2
  <1>2. Quot(x, b) = Quot(Quot(x, a), s2) /\ Quot(x, b) \in Nat
    BY QuotientTwice
  <1>0. PICK o : o = Quot(x, b)
    OBVIOUS
  <1>3. o \in Nat /\ x % b \in 0 .. b - 1 /\ x = o * b + (x % b)
    <2>1. x % b \in 0 .. b - 1 /\ x = Quot(x, b) * b + (x % b)
      BY Divided DEF Quot
    <2> QED BY <1>0, <1>2, <2>1
  <1>4. o < s1
    <2> SUFFICES ASSUME s1 <= o PROVE FALSE
      BY <1>3
    <2>1. s1 * b <= o * b /\ s1 * b \in Nat /\ o * b \in Nat
      BY <1>3, ProductGrows
    <2> QED BY <1>3, <2>1
  <1> QED BY <1>0, <1>1, <1>2, <1>3, <1>4 DEF Quot

(* A number is known by its digits. *)
SameDigits(s1, s2, s3, s4, n, m) ==
  /\ n % s4 = m % s4
  /\ (n \div s4) % s3 = (m \div s4) % s3
  /\ (n \div (s4 * s3)) % s2 = (m \div (s4 * s3)) % s2
  /\ (n \div ((s4 * s3) * s2)) % s1 = (m \div ((s4 * s3) * s2)) % s1

LEMMA DigitsDiffer ==
  ASSUME NEW s1 \in Nat \ {0}, NEW s2 \in Nat \ {0}, NEW s3 \in Nat \ {0}, NEW s4 \in Nat \ {0},
         NEW n \in 0 .. s1 * s2 * s3 * s4 - 1, NEW m \in 0 .. s1 * s2 * s3 * s4 - 1,
         SameDigits(s1, s2, s3, s4, n, m)
  PROVE  n = m
PROOF
  <1> DEFINE a == s4 * s3
             b == a * s2
  <1>1. a \in Nat \ {0} /\ b \in Nat \ {0} /\ s1 * s2 * s3 * s4 = s1 * b
    BY DEF a, b
  <1>2. ASSUME NEW x \in 0 .. s1 * b - 1
        PROVE  /\ x \div a = (x \div s4) \div s3 /\ x \div b = (x \div a) \div s2
               /\ x \div s4 \in Nat /\ x \div a \in Nat
               /\ x \div b \in 0 .. s1 - 1
    <2>1. x \in Nat /\ x < s1 * b
      BY <1>1
    <2> QED BY <1>1, <2>1, QuotientsInTurn DEF a, b
  <1>3. /\ (n \div a) % s2 = (m \div a) % s2
        /\ (n \div b) % s1 = (m \div b) % s1
        /\ (n \div s4) % s3 = (m \div s4) % s3
        /\ n % s4 = m % s4
    BY DEF a, b, SameDigits
  <1>4. n \in 0 .. s1 * b - 1 /\ m \in 0 .. s1 * b - 1 /\ n \in Nat /\ m \in Nat
    BY <1>1
  <1> HIDE DEF a, b
  <1>5. n \div b = m \div b
    <2>1. n \div b \in 0 .. s1 - 1 /\ m \div b \in 0 .. s1 - 1
      BY <1>2, <1>4
    <2>2. \A x \in 0 .. s1 - 1 : x % s1 = x
      OBVIOUS
    <2> QED BY <1>3, <2>1, <2>2
  <1>6. \A c \in Nat \ {0} : \A x, y \in Nat : x \div c = y \div c /\ x % c = y % c => x = y
    <2> TAKE c \in Nat \ {0}
    <2> TAKE x \in Nat, y \in Nat
    <2>1. x = (x \div c) * c + (x % c) /\ y = (y \div c) * c + (y % c)
      BY Divided
    <2> QED BY <2>1
  <1>7. n \div a = m \div a
    BY <1>2, <1>3, <1>4, <1>5, <1>6
  <1>8. n \div s4 = m \div s4
    BY <1>2, <1>3, <1>4, <1>6, <1>7
  <1> QED BY <1>3, <1>4, <1>6, <1>8

(* What a walk over a slice counts with: the elements inside a dimension.  *)
InnerSize(s, d) ==
  IF d = 1 THEN (s[4] * s[3]) * s[2] ELSE IF d = 2 THEN s[4] * s[3] ELSE IF d = 3 THEN s[4] ELSE 1

LEMMA InnerSizePositive ==
  ASSUME NEW s, \A d \in 1 .. MaxRank : s[d] \in Nat \ {0}, NEW d \in 1 .. MaxRank
  PROVE  InnerSize(s, d) \in Nat \ {0}
PROOF
  <1>1. s[2] \in Nat \ {0} /\ s[3] \in Nat \ {0} /\ s[4] \in Nat \ {0}
    BY DEF MaxRank
  <1>2. s[4] * s[3] \in Nat \ {0} /\ (s[4] * s[3]) * s[2] \in Nat \ {0}
    BY <1>1
  <1> QED BY <1>1, <1>2 DEF InnerSize

LEMMA SlicePositionDigits ==
  ASSUME NEW t, Descriptor(t), Shaped(t), NEW dim, NEW x, NEW n, NEW s, s = SliceShape(t, dim)
  PROVE  SlicePosition(t, dim, x, n)
           = [d \in 1 .. MaxRank |-> IF d = dim THEN x ELSE (n \div InnerSize(s, d)) % s[d]]
PROOF
  <1> DEFINE step(f) == [d \in 1 .. MaxRank |-> IF d = MaxRank THEN 1 ELSE f[d + 1] * s[d + 1]]
             inner == CHOOSE f : f = step(f)
             known == [d \in 1 .. MaxRank |->
                         IF d = 1 THEN ((1 * s[4]) * s[3]) * s[2]
                         ELSE IF d = 2 THEN (1 * s[4]) * s[3]
                         ELSE IF d = 3 THEN 1 * s[4]
                         ELSE 1]
  <1>1. inner = step(inner)
    <2>1. known = step(known)
      BY DEF MaxRank
    <2> QED BY <2>1
  <1>2. SlicePosition(t, dim, x, n)
          = [d \in 1 .. MaxRank |-> IF d = dim THEN x ELSE (n \div inner[d]) % s[d]]
    BY DEF SlicePosition
  <1> HIDE DEF inner
  <1>3. \A d \in 1 .. MaxRank : inner[d] = InnerSize(s, d)
    <2>1. /\ inner[4] = 1 /\ inner[3] = inner[4] * s[4]
          /\ inner[2] = inner[3] * s[3] /\ inner[1] = inner[2] * s[2]
      BY <1>1 DEF MaxRank
    <2>2. s[4] \in Nat /\ s[3] \in Nat /\ s[2] \in Nat
      BY SliceShapePositive DEF MaxRank
    <2>3. inner[3] = s[4]
      BY <2>1, <2>2
    <2> QED BY <2>1, <2>3 DEF InnerSize, MaxRank
  <1> QED BY <1>2, <1>3

(* The elements of a slice are positions of the tensor. *)
LEMMA SlicePositionInside ==
  ASSUME NEW t, Descriptor(t), Shaped(t), NEW dim \in 0 .. t.rank,
         NEW x \in Nat, dim > 0 => x < t.shape[dim], NEW n \in Nat
  PROVE  IsPosition(t, SlicePosition(t, dim, x, n))
PROOF
  <1>0. PICK s : s = SliceShape(t, dim)
    OBVIOUS
  <1>1. \A d \in 1 .. MaxRank : s[d] \in Nat \ {0}
    BY <1>0, SliceShapePositive
  <1>2. SlicePosition(t, dim, x, n)
          = [d \in 1 .. MaxRank |-> IF d = dim THEN x ELSE (n \div InnerSize(s, d)) % s[d]]
    BY <1>0, SlicePositionDigits
  <1>3. \A d \in 1 .. MaxRank : (n \div InnerSize(s, d)) % s[d] \in 0 .. s[d] - 1
    <2>1. \A a, b \in Nat \ {0} : (n \div a) % b \in 0 .. b - 1
      OBVIOUS
    <2> QED BY <1>1, <2>1, InnerSizePositive
  <1>4. \A d \in Dims(t) : d \in 1 .. MaxRank /\ (d # dim => s[d] = t.shape[d])
    BY <1>0 DEF Dims, Shaped, SliceShape, MaxRank, Descriptor
  <1> DEFINE pos == SlicePosition(t, dim, x, n)
  <1>5. pos \in [1 .. MaxRank -> Int]
    BY <1>2, <1>3
  <1>6. ASSUME NEW d \in Dims(t)
        PROVE  pos[d] \in 0 .. t.shape[d] - 1
    <2>1. CASE d = dim
      <3>1. d > 0 /\ d \in 1 .. MaxRank
        BY <1>4 DEF Dims, Descriptor
      <3>2. t.shape[d] \in Nat
        BY <3>1 DEF Descriptor
      <3>3. x < t.shape[d]
        BY <2>1, <3>1
      <3> QED BY <1>2, <2>1, <3>1, <3>2, <3>3
    <2>2. CASE d # dim
      BY <1>2, <1>3, <1>4, <2>2
    <2> QED BY <2>1, <2>2
  <1> QED BY <1>5, <1>6 DEF IsPosition, HasPosition

(* Two elements of a slice, or of two slices, are at different positions.  *)
LEMMA SlicePositionsDiffer ==
  ASSUME NEW t, Descriptor(t), Shaped(t), NEW dim \in 0 .. t.rank, NEW x, NEW y,
         NEW n \in 0 .. SliceLength(t, dim) - 1, NEW m \in 0 .. SliceLength(t, dim) - 1,
         (dim > 0 /\ x # y) \/ n # m
  PROVE  \E d \in Dims(t) : SlicePosition(t, dim, x, n)[d] # SlicePosition(t, dim, y, m)[d]
PROOF
  <1> SUFFICES ASSUME \A d \in Dims(t) :
                        SlicePosition(t, dim, x, n)[d] = SlicePosition(t, dim, y, m)[d]
               PROVE  FALSE
    OBVIOUS
  <1>1. PICK s : s = SliceShape(t, dim)
    OBVIOUS
  <1>2. /\ t.rank \in 0 .. 4
        /\ s[1] \in Nat \ {0} /\ s[2] \in Nat \ {0} /\ s[3] \in Nat \ {0} /\ s[4] \in Nat \ {0}
        /\ \A d \in 1 .. 4 : d > t.rank \/ d = dim => s[d] = 1
        /\ SliceLength(t, dim) = s[1] * s[2] * s[3] * s[4]
    <2>1. t.rank \in 0 .. 4
      BY DEF Descriptor, Shaped, MaxRank
    <2>2. s[1] \in Nat \ {0} /\ s[2] \in Nat \ {0} /\ s[3] \in Nat \ {0} /\ s[4] \in Nat \ {0}
      BY <1>1, SliceShapePositive DEF MaxRank
    <2> QED BY <1>1, <2>1, <2>2 DEF SliceShape, SliceLength, MaxRank
  <1>3. /\ SlicePosition(t, dim, x, n)
             = [d \in 1 .. 4 |-> IF d = dim THEN x ELSE (n \div InnerSize(s, d)) % s[d]]
        /\ SlicePosition(t, dim, y, m)
             = [d \in 1 .. 4 |-> IF d = dim THEN y ELSE (m \div InnerSize(s, d)) % s[d]]
    BY <1>1, SlicePositionDigits DEF MaxRank
  <1>4. dim > 0 => x = y
    <2> SUFFICES ASSUME dim > 0 PROVE x = y
      OBVIOUS
    <2>1. dim \in 1 .. 4 /\ dim \in Dims(t)
      BY <1>2 DEF Dims
    <2>2. SlicePosition(t, dim, x, n)[dim] = x /\ SlicePosition(t, dim, y, m)[dim] = y
      BY <1>3, <2>1
    <2> QED BY <2>1, <2>2
  <1>5. n # m
    BY <1>4
  <1>6. \A d \in 1 .. 4 : (n \div InnerSize(s, d)) % s[d] = (m \div InnerSize(s, d)) % s[d]
    <2> TAKE d \in 1 .. 4
    <2>1. CASE d > t.rank \/ d = dim
      <3>1. s[d] = 1
        BY <1>2, <2>1
      <3>2. /\ n \in Nat /\ m \in Nat /\ InnerSize(s, d) \in Nat \ {0}
        BY <1>1, <1>2, InnerSizePositive, SliceShapePositive DEF MaxRank
      <3>3. \A k \in Nat : k % 1 = 0
        OBVIOUS
      <3>4. n \div InnerSize(s, d) \in Nat /\ m \div InnerSize(s, d) \in Nat
        BY <3>2, Divided
      <3> QED BY <3>1, <3>3, <3>4
    <2>2. CASE ~(d > t.rank \/ d = dim)
      <3>1. d \in Dims(t) /\ d # dim
        BY <1>2, <2>2 DEF Dims
      <3> QED BY <1>3, <3>1
    <2> QED BY <2>1, <2>2
  <1>7. PICK s1, s2, s3, s4 : s1 = s[1] /\ s2 = s[2] /\ s3 = s[3] /\ s4 = s[4]
    OBVIOUS
  <1>8. /\ (n \div 1) % s4 = (m \div 1) % s4
        /\ (n \div s4) % s3 = (m \div s4) % s3
        /\ (n \div (s4 * s3)) % s2 = (m \div (s4 * s3)) % s2
        /\ (n \div ((s4 * s3) * s2)) % s1 = (m \div ((s4 * s3) * s2)) % s1
    BY <1>6, <1>7 DEF InnerSize
  <1>9. n \div 1 = n /\ m \div 1 = m
    <2>1. \A k \in Nat : k \div 1 = k
      OBVIOUS
    <2>2. n \in Nat /\ m \in Nat
      BY <1>2
    <2> QED BY <2>1, <2>2
  <1>10. n \in 0 .. s1 * s2 * s3 * s4 - 1 /\ m \in 0 .. s1 * s2 * s3 * s4 - 1
    BY <1>2, <1>7
  <1>11. s1 \in Nat \ {0} /\ s2 \in Nat \ {0} /\ s3 \in Nat \ {0} /\ s4 \in Nat \ {0}
    BY <1>2, <1>7
  <1>12. SameDigits(s1, s2, s3, s4, n, m)
    BY <1>8, <1>9 DEF SameDigits
  <1> QED BY <1>5, <1>10, <1>11, <1>12, DigitsDiffer

-----------------------------------------------------------------------------
(* A sum over all dimensions in another order. *)
LEMMA SumInAnyOrder ==
  ASSUME NEW r \in 0 .. 4, NEW p, \A d \in 1 .. r : p[d] \in 1 .. r,
         \A d \in 1 .. r : \A e \in d + 1 .. r : p[d] # p[e],
         NEW F, \A d \in 1 .. r : F[d] \in Int
  PROVE  (IF 1 <= r THEN F[p[1]] ELSE 0) + (IF 2 <= r THEN F[p[2]] ELSE 0)
           + (IF 3 <= r THEN F[p[3]] ELSE 0) + (IF 4 <= r THEN F[p[4]] ELSE 0)
         = (IF 1 <= r THEN F[1] ELSE 0) + (IF 2 <= r THEN F[2] ELSE 0)
             + (IF 3 <= r THEN F[3] ELSE 0) + (IF 4 <= r THEN F[4] ELSE 0)
PROOF
  <1>1. CASE r = 0
    BY <1>1
  <1>2. CASE r = 1
    <2>1. p[1] = 1
      BY <1>2
    <2> QED BY <1>2, <2>1
  <1>3. CASE r = 2
    <2>1. p[1] \in 1 .. 2 /\ p[2] \in 1 .. 2 /\ p[1] # p[2] /\ F[1] \in Int /\ F[2] \in Int
      BY <1>3
    <2> QED BY <1>3, <2>1
  <1>4. CASE r = 3
    <2>1. /\ p[1] \in 1 .. 3 /\ p[2] \in 1 .. 3 /\ p[3] \in 1 .. 3
          /\ p[1] # p[2] /\ p[1] # p[3] /\ p[2] # p[3]
          /\ F[1] \in Int /\ F[2] \in Int /\ F[3] \in Int
      BY <1>4
    <2>2. F[p[1]] + F[p[2]] + F[p[3]] = F[1] + F[2] + F[3]
      BY <2>1
    <2>3. F[p[1]] \in Int /\ F[p[2]] \in Int /\ F[p[3]] \in Int
      BY <2>1
    <2> QED BY <1>4, <2>1, <2>2, <2>3
  <1>5. CASE r = 4
    <2>1. /\ p[1] \in 1 .. 4 /\ p[2] \in 1 .. 4 /\ p[3] \in 1 .. 4 /\ p[4] \in 1 .. 4
          /\ p[1] # p[2] /\ p[1] # p[3] /\ p[1] # p[4]
          /\ p[2] # p[3] /\ p[2] # p[4] /\ p[3] # p[4]
          /\ F[1] \in Int /\ F[2] \in Int /\ F[3] \in Int /\ F[4] \in Int
      BY <1>5
    <2>2. F[p[1]] + F[p[2]] + F[p[3]] + F[p[4]] = F[1] + F[2] + F[3] + F[4]
      <3>1. CASE p[1] = 1
        BY <2>1, <3>1
      <3>2. CASE p[1] = 2
        BY <2>1, <3>2
      <3>3. CASE p[1] = 3
        BY <2>1, <3>3
      <3>4. CASE p[1] = 4
        BY <2>1, <3>4
      <3> QED BY <2>1, <3>1, <3>2, <3>3, <3>4
    <2> QED BY <1>5, <2>2
  <1> QED BY <1>1, <1>2, <1>3, <1>4, <1>5

-----------------------------------------------------------------------------
(* Windows.                                                                *)

(* The numbers a window is made of.  The size of the input is an integer,  *)
(* as it is once an input was cut down, and the kernel may be empty, as    *)
(* some are that a transposed convolution makes.                           *)
IsWindow(p) ==
  /\ p.in \in Int /\ p.pad \in Nat /\ p.kernel \in Nat
  /\ p.stride \in Nat \ {0} /\ p.dilation \in Nat \ {0}

(* CEIL_DIV is the least quotient that covers the dividend, and 0 for the  *)
(* negative ones that occur.                                               *)
LEMMA CeilDivBounds ==
  ASSUME NEW num \in Int, NEW den \in Nat \ {0}, num > -den
  PROVE  /\ CeilDiv(num, den) \in Nat
         /\ CeilDiv(num, den) * den >= num
         /\ CeilDiv(num, den) * den < num + den
<1> DEFINE a == num + den - 1
           q == a \div den
           r == a % den
<1>1. a \in Nat
  OBVIOUS
<1>2. q \in Int /\ r \in Int /\ 0 <= r /\ r < den /\ a = den * q + r
  BY <1>1
<1> QED
  BY <1>1, <1>2 DEF CeilDiv

LEMMA LeastOf ==
  ASSUME NEW a \in Int
  PROVE  -Least(a, 0) \in Nat /\ (a < 0 => -Least(a, 0) = -a) /\ (a >= 0 => -Least(a, 0) = 0)
<1>1. CASE a <= 0
  <2>1. Least(a, 0) = a
    BY <1>1 DEF Least
  <2> QED
    BY <1>1, <2>1
<1>2. CASE a > 0
  <2>1. Least(a, 0) = 0
    BY <1>2 DEF Least
  <2> QED
    BY <1>2, <2>1
<1> QED
  BY <1>1, <1>2

(* The multiple of a positive number d grows by d with every step.         *)
LEMMA Monotone ==
  ASSUME NEW d \in Nat \ {0}, NEW i \in Int, NEW j \in Int
  PROVE  /\ i * d \in Int
         /\ i <= j => i * d <= j * d
         /\ i < j => i * d + d <= j * d
<1>1. i * d \in Int /\ (j - i) * d = j * d - i * d
  OBVIOUS
<1>2. ASSUME i <= j PROVE (j - i) * d >= 0
  BY <1>2
<1>3. ASSUME i < j PROVE (j - i - 1) * d >= 0 /\ (j - i - 1) * d = (j - i) * d - d
  BY <1>3
<1> QED
  BY <1>1, <1>2, <1>3

(* It counts the multiples of the divisor that are less.                   *)
LEMMA StepsBelow ==
  ASSUME NEW a \in Nat, NEW b \in Nat \ {0}
  PROVE  CeilDiv(a, b) \in Nat /\ \A k \in Nat : k < CeilDiv(a, b) <=> k * b < a
<1> DEFINE n == CeilDiv(a, b)
<1>1. n \in Nat /\ n * b >= a /\ n * b < a + b
  BY CeilDivBounds
<1> HIDE DEF n
<1>2. ASSUME NEW k \in Nat PROVE k < n <=> k * b < a
  <2>1. k * b \in Int /\ n * b \in Int /\ (k < n => k * b + b <= n * b) /\ (n <= k => n * b <= k * b)
    BY <1>1, Monotone
  <2> QED
    BY <1>1, <2>1
<1> QED
  BY <1>1, <1>2 DEF n

(* The elements skipped at the front of a kernel are those in front of the *)
(* input.                                                                  *)
LEMMA SkippedInFront ==
  ASSUME NEW p, IsWindow(p), NEW o \in Nat, NEW k \in Nat
  PROVE  /\ KernelBefore(p, o) \in Nat
         /\ Begin(p, o) \in Int /\ Under(p, o, k) \in Int
         /\ Under(p, o, k) >= 0 <=> k >= KernelBefore(p, o)
<1> DEFINE b == Begin(p, o)
           x == -Least(b, 0)
           q == KernelBefore(p, o)
           d == p.dilation
<1>1. b \in Int /\ d \in Nat \ {0}
  BY DEF Begin, IsWindow
<1>2. x \in Nat /\ (b < 0 => x = -b) /\ (b >= 0 => x = 0)
  BY <1>1, LeastOf
<1>3. q \in Nat /\ q * d >= x /\ q * d < x + d
  <2>1. x \in Int /\ x > -d
    BY <1>1, <1>2
  <2>2. q = CeilDiv(x, d)
    BY DEF KernelBefore
  <2> HIDE DEF x, q, d
  <2> QED
    BY <1>1, <2>1, <2>2, CeilDivBounds
<1>4. k * d \in Int /\ (k >= q => k * d >= q * d) /\ (k < q => k * d + d <= q * d)
  BY <1>1, <1>3, Monotone
<1>5. Under(p, o, k) = b + k * d
  BY DEF Under
<1> HIDE DEF b, q, d
<1>6. ASSUME k >= q PROVE b + k * d >= 0
  BY <1>1, <1>2, <1>3, <1>4, <1>6
<1>7. ASSUME k < q PROVE b + k * d < 0
  <2>1. k * d + d < x + d
    BY <1>1, <1>2, <1>3, <1>4, <1>7
  <2>2. k * d >= 0
    BY <1>1
  <2> QED
    BY <1>1, <1>2, <1>4, <2>1, <2>2
<1> QED
  BY <1>1, <1>3, <1>4, <1>5, <1>6, <1>7 DEF b, q, d

(* The elements skipped at its end are those behind the input.             *)
LEMMA SkippedBehind ==
  ASSUME NEW p, IsWindow(p), NEW o \in Nat, NEW k \in Int, k < p.kernel
  PROVE  /\ KernelBehind(p, o) \in Nat
         /\ Begin(p, o) + k * p.dilation < p.in <=> k < p.kernel - KernelBehind(p, o)
<1> DEFINE b == Begin(p, o)
           d == p.dilation
           l == p.kernel - 1 - k
           y == p.in - (b + EffectiveKernel(p))
           x == -Least(y, 0)
           q == KernelBehind(p, o)
<1>1. b \in Int /\ d \in Nat \ {0} /\ l \in Nat /\ p.in \in Int /\ p.kernel \in Nat
  BY DEF Begin, IsWindow
<1>2. /\ l * d \in Nat /\ k * d \in Int /\ EffectiveKernel(p) \in Int
      /\ EffectiveKernel(p) = k * d + l * d + 1
  <2>1. (k + l) * d = k * d + l * d
    BY <1>1
  <2> QED
    BY <1>1, <2>1 DEF EffectiveKernel
<1>3. y \in Int /\ y = p.in - b - k * d - l * d - 1
  BY <1>1, <1>2
<1>4. x \in Nat /\ (y < 0 => x = -y) /\ (y >= 0 => x = 0)
  BY <1>3, LeastOf
<1>5. q \in Nat /\ q * d >= x /\ q * d < x + d
  <2>1. x \in Int /\ x > -d
    BY <1>1, <1>4
  <2>2. q = CeilDiv(x, d)
    BY DEF KernelBehind
  <2> HIDE DEF x, q, d
  <2> QED
    BY <1>1, <2>1, <2>2, CeilDivBounds
<1>6. (l >= q => l * d >= q * d) /\ (l < q => l * d + d <= q * d)
  BY <1>1, <1>5, Monotone
<1> HIDE DEF b, d, q, y, x
<1>7. ASSUME l >= q PROVE b + k * d < p.in
  BY <1>1, <1>2, <1>3, <1>4, <1>5, <1>6, <1>7
<1>8. ASSUME l < q PROVE b + k * d >= p.in
  BY <1>1, <1>2, <1>3, <1>4, <1>5, <1>6, <1>8
<1>9. k < p.kernel - q <=> l >= q
  BY <1>1, <1>5
<1> QED
  BY <1>1, <1>2, <1>5, <1>7, <1>8, <1>9 DEF b, d, q

(* The valid area are the elements of the kernel that lie on the input. *)
LEMMA OnInput ==
  ASSUME NEW p, IsWindow(p), NEW o \in Nat
  PROVE  /\ KernelBefore(p, o) \in Nat /\ KernelBehind(p, o) \in Nat
         /\ \A k \in 0 .. p.kernel - 1 :
              Under(p, o, k) \in 0 .. p.in - 1
                <=> k \in KernelBefore(p, o) .. p.kernel - KernelBehind(p, o) - 1
<1> DEFINE before == KernelBefore(p, o)
           behind == KernelBehind(p, o)
<1>1. before \in Nat
  BY SkippedInFront, 0 \in Nat
<1>2. behind \in Nat
  <2>1. -1 \in Int /\ -1 < p.kernel
    BY DEF IsWindow
  <2> QED
    BY <2>1, SkippedBehind
<1>3. p.kernel \in Nat /\ p.in \in Int
  BY DEF IsWindow
<1>4. ASSUME NEW k \in 0 .. p.kernel - 1
      PROVE  Under(p, o, k) \in 0 .. p.in - 1 <=> k \in before .. p.kernel - behind - 1
  <2>1. k \in Nat /\ k < p.kernel
    BY <1>3
  <2>2. Under(p, o, k) \in Int /\ (Under(p, o, k) >= 0 <=> k >= before)
    BY <2>1, SkippedInFront
  <2>3. Under(p, o, k) < p.in <=> k < p.kernel - behind
    BY <2>1, SkippedBehind DEF Under
  <2> QED
    BY <1>1, <1>2, <1>3, <2>1, <2>2, <2>3
<1> QED
  BY <1>1, <1>2, <1>4

(* The dot product over the valid area takes each element of the kernel    *)
(* that lies on the input, with the input element under it, and no other:  *)
(* mli_prv_valid_area_compensations is right for every window.             *)
THEOREM ValidAreaExact ==
  ASSUME NEW p, IsWindow(p), NEW o \in Nat
  PROVE  Visited(p, o) = Met(p, o)
<1> DEFINE before == KernelBefore(p, o)
           behind == KernelBehind(p, o)
           b == Begin(p, o)
           d == p.dilation
<1>1. before \in Nat /\ behind \in Nat /\ b \in Int /\ d \in Nat /\ p.kernel \in Nat
  BY OnInput, SkippedInFront, 0 \in Nat DEF IsWindow
<1>2. \A k \in 0 .. p.kernel - 1 :
        Under(p, o, k) \in 0 .. p.in - 1 <=> k \in before .. p.kernel - behind - 1
  BY OnInput
<1>3. \A n \in Nat : b + before * d + n * d = b + (before + n) * d
  BY <1>1
<1>4. Visited(p, o) = {<<Under(p, o, before + n), before + n>> : n \in 0 .. p.kernel - before - behind - 1}
  BY <1>1, <1>3 DEF Visited, AreaSize, Under
<1>5. ASSUME NEW v \in Visited(p, o) PROVE v \in Met(p, o)
  <2>1. PICK n \in 0 .. p.kernel - before - behind - 1 : v = <<Under(p, o, before + n), before + n>>
    BY <1>4
  <2>2. before + n \in 0 .. p.kernel - 1 /\ before + n \in before .. p.kernel - behind - 1
    BY <1>1
  <2> QED
    BY <1>2, <2>1, <2>2 DEF Met
<1>6. ASSUME NEW v \in Met(p, o) PROVE v \in Visited(p, o)
  <2>1. PICK k \in 0 .. p.kernel - 1 : Under(p, o, k) \in 0 .. p.in - 1 /\ v = <<Under(p, o, k), k>>
    BY DEF Met
  <2>2. k - before \in 0 .. p.kernel - before - behind - 1 /\ before + (k - before) = k
    BY <1>1, <1>2, <2>1
  <2> QED
    BY <1>4, <2>1, <2>2
<1> QED
  BY <1>5, <1>6

(* A window q on an input from which the elements n outputs do not need    *)
(* were cut off.                                                           *)
IsCut(q, p, n) ==
  /\ q.in = UsedSize(p, n)
  /\ q.kernel = p.kernel /\ q.stride = p.stride
  /\ q.dilation = p.dilation /\ q.pad = p.pad

LEMMA CutIsWindow ==
  ASSUME NEW p, IsWindow(p), NEW n \in Nat, NEW q, IsCut(q, p, n)
  PROVE  IsWindow(q) /\ EffectiveKernel(p) \in Int /\ Required(p, n) \in Int
<1>1. EffectiveKernel(p) \in Int
  BY DEF IsWindow, EffectiveKernel
<1>2. Required(p, n) \in Int
  BY <1>1 DEF IsWindow, Required
<1>3. UsedSize(p, n) \in Int
  BY <1>2 DEF IsWindow, UsedSize
<1> QED
  BY <1>1, <1>2, <1>3 DEF IsWindow, IsCut

(* No kernel element of the first n outputs lies behind what they require. *)
LEMMA UnderRequired ==
  ASSUME NEW p, IsWindow(p), NEW n \in Nat, NEW o \in 0 .. n - 1, NEW k \in 0 .. p.kernel - 1
  PROVE  Under(p, o, k) \in Int /\ Under(p, o, k) < Required(p, n) - p.pad
<1>1. /\ o \in Int /\ n - 1 \in Int /\ o <= n - 1 /\ k \in Int
      /\ p.kernel - 1 \in Int /\ k <= p.kernel - 1
      /\ p.stride \in Nat \ {0} /\ p.dilation \in Nat \ {0} /\ p.pad \in Nat
  BY DEF IsWindow
<1>2. o * p.stride \in Int /\ (n - 1) * p.stride \in Int /\ o * p.stride <= (n - 1) * p.stride
  BY <1>1, Monotone
<1>3. /\ k * p.dilation \in Int /\ (p.kernel - 1) * p.dilation \in Int
      /\ k * p.dilation <= (p.kernel - 1) * p.dilation
  BY <1>1, Monotone
<1>4. (n - 1) * p.stride = n * p.stride - p.stride
  BY <1>1
<1> QED
  BY <1>1, <1>2, <1>3, <1>4 DEF Under, Begin, Required, EffectiveKernel

(* Cutting the input down, as the convolutions do where its last elements  *)
(* are left over, leaves the products of every output as they are.         *)
THEOREM CutInput ==
  ASSUME NEW p, IsWindow(p), NEW n \in Nat, NEW q, IsCut(q, p, n), NEW o \in 0 .. n - 1
  PROVE  Met(q, o) = Met(p, o)
<1>1. Required(p, n) \in Int /\ p.in \in Int /\ p.pad \in Nat
  BY CutIsWindow DEF IsWindow
<1>2. UsedSize(p, n) = IF Required(p, n) - p.in - p.pad < 0 THEN Required(p, n) - p.pad ELSE p.in
  BY <1>1 DEF UsedSize
<1>3. ASSUME NEW k \in 0 .. p.kernel - 1
      PROVE  /\ Under(q, o, k) = Under(p, o, k)
             /\ Under(p, o, k) \in 0 .. q.in - 1 <=> Under(p, o, k) \in 0 .. p.in - 1
  <2>1. Under(q, o, k) = Under(p, o, k)
    BY DEF Under, Begin, IsCut
  <2>2. Under(p, o, k) \in Int /\ Under(p, o, k) < Required(p, n) - p.pad
    BY UnderRequired
  <2>3. q.in = UsedSize(p, n)
    BY DEF IsCut
  <2> QED
    BY <1>1, <1>2, <2>1, <2>2, <2>3
<1>4. q.kernel = p.kernel
  BY DEF IsCut
<1> QED
  BY <1>3, <1>4 DEF Met
=============================================================================
