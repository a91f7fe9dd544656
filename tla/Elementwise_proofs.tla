------------------------- MODULE Elementwise_proofs --------------------------
(***************************************************************************)
(* What the kernels with a result for each element of the input compute,   *)
(* for every shape of up to four dimensions, all strides and buffers.      *)
(*                                                                         *)
(* A kernel walks in nested loops: the iterations are numbers whose digits *)
(* are the indices of the loops (Division to PlaceIsSum).  Loops over the  *)
(* dimensions of the result, in any order and divided into outer and inner *)
(* ones, reach each position once and take each tensor to the element of   *)
(* that position (Walks, WalkInside, WalkApart, WalkReaches, WalkPlaces);  *)
(* squashing the dimensions that are adjacent in all tensors changes none  *)
(* of that (SquashWalks).  The plan of every kernel is such a walk         *)
(* (PlanWalks), and the checks it makes put the elements it reaches in the *)
(* buffers, those of different positions apart (CellsAreGood).  So each    *)
(* iteration reads operands that none before it has written, which is the  *)
(* invariant ExactInv.                                                     *)
(*                                                                         *)
(* mli_krn_permute also moves the dimension that has quantization          *)
(* parameters of its own for each index, and the parameters have to stay   *)
(* with it: for every order of up to four dimensions, whether the output   *)
(* has an array of its own, shares that of the input or has none yet.      *)
(***************************************************************************)
EXTENDS Elementwise, Access_proofs

-----------------------------------------------------------------------------
(* Quotient and remainder. *)
LEMMA Division ==
  ASSUME NEW x \in Int, NEW d \in Nat \ {0}
  PROVE  x % d \in 0 .. d - 1 /\ x \div d \in Int /\ x = (x \div d) * d + (x % d)
OBVIOUS

(* There is one quotient and one remainder. *)
LEMMA OnlyQuotient ==
  ASSUME NEW d \in Nat \ {0}, NEW q \in Int, NEW r \in 0 .. d - 1, NEW x, x = q * d + r
  PROVE  x \in Int /\ x \div d = q /\ x % d = r
<1>1. x \in Int /\ q * d \in Int
  OBVIOUS
<1> DEFINE p == x \div d
           s == x % d
<1>2. p \in Int /\ s \in 0 .. d - 1 /\ x = p * d + s
  BY <1>1, Division
<1> HIDE DEF p, s
<1>3. p * d \in Int /\ (p < q => p * d + d <= q * d) /\ (q < p => q * d + d <= p * d)
  BY <1>2, Monotone
<1>4. p = q
  BY <1>1, <1>2, <1>3
<1>5. s = r
  BY <1>1, <1>2, <1>4
<1> QED
  BY <1>1, <1>4, <1>5 DEF p, s

(* c blocks of b fill one of m. *)
Block(c, b, m) == c \in Nat \ {0} /\ b \in Nat \ {0} /\ m \in Nat \ {0} /\ m = c * b

(* A digit of a number: how many blocks of b there are in the last,        *)
(* incomplete one of m.                                                    *)
LEMMA DigitFound ==
  ASSUME NEW b, NEW c, NEW m, Block(c, b, m), NEW a \in Int, NEW q \in 0 .. c - 1,
         NEW r \in 0 .. b - 1, NEW x, x = a * m + q * b + r
  PROVE  (x \div b) % c = q
<1>1. a * c \in Int /\ (a * c + q) * b = a * m + q * b
  BY DEF Block
<1>2. x = (a * c + q) * b + r
  BY <1>1
<1>3. x \div b = a * c + q
  BY <1>1, <1>2, OnlyQuotient DEF Block
<1>4. c \in Nat \ {0}
  BY DEF Block
<1> DEFINE y == a * c + q
<1>5. y % c = q
  BY <1>4, OnlyQuotient
<1> QED
  BY <1>3, <1>5

(* The remainder in a larger block is a digit and the remainder in a block. *)
DigitRest(x, b, c, m) ==
  /\ (x \div b) % c \in 0 .. c - 1 /\ x % b \in 0 .. b - 1
  /\ ((x \div b) % c) * b \in Nat
  /\ x % m = ((x \div b) % c) * b + (x % b)

LEMMA DigitAndRest ==
  ASSUME NEW x \in Nat, NEW b, NEW c, NEW m, Block(c, b, m)
  PROVE  DigitRest(x, b, c, m)
<1> DEFINE y == x \div b
           q == y % c
           a == y \div c
           r == x % b
<1>1. b \in Nat \ {0} /\ c \in Nat \ {0} /\ m \in Nat \ {0} /\ x \in Int
  BY DEF Block
<1>2. y \in Int /\ r \in 0 .. b - 1 /\ x = y * b + r
  BY <1>1, Division
<1> HIDE DEF y, r
<1>3. a \in Int /\ q \in 0 .. c - 1 /\ y = a * c + q
  BY <1>1, <1>2, Division
<1> HIDE DEF a, q
<1>4. q * b \in Nat /\ q * b + r \in 0 .. m - 1
  BY <1>2, <1>3, Digit DEF Counted, Block
<1>5. y * b = a * m + q * b /\ a * m \in Int
  BY <1>1, <1>3 DEF Block
<1> DEFINE e == q * b + r
<1>6. x = a * m + e
  BY <1>1, <1>2, <1>3, <1>4, <1>5
<1>7. e \in 0 .. m - 1
  BY <1>4
<1> HIDE DEF e
<1>8. x % m = e
  BY <1>1, <1>3, <1>6, <1>7, OnlyQuotient
<1> QED
  BY <1>2, <1>3, <1>4, <1>8, Zenon DEF DigitRest, e, y, q, r

(* A digit and what is below it are below the next block. *)
LEMMA DigitFits ==
  ASSUME NEW b, NEW c, NEW m, Block(c, b, m), NEW q \in 0 .. c - 1, NEW r \in 0 .. b - 1
  PROVE  q * b \in Nat /\ q * b + r \in 0 .. m - 1
BY Digit DEF Block, Counted

(* The indices of four nested loops in the x-th of all iterations. *)
DigitsOf(x, n1, n2, n3, n4, b1, b2, b3) ==
  /\ (x \div b1) % n1 \in 0 .. n1 - 1 /\ (x \div b2) % n2 \in 0 .. n2 - 1
  /\ (x \div b3) % n3 \in 0 .. n3 - 1 /\ (x \div 1) % n4 \in 0 .. n4 - 1
  /\ x = ((x \div b1) % n1) * b1 + ((x \div b2) % n2) * b2 + ((x \div b3) % n3) * b3
           + ((x \div 1) % n4)

(* The digits of an iteration of four nested loops. *)
LEMMA LoopsStep ==
  ASSUME NEW n1, NEW n2, NEW n3, NEW n4, NEW b1, NEW b2, NEW b3, NEW m, Block(n4, 1, b3),
         Block(n3, b3, b2), Block(n2, b2, b1), Block(n1, b1, m), NEW x \in 0 .. m - 1
  PROVE  DigitsOf(x, n1, n2, n3, n4, b1, b2, b3)
<1> DEFINE d1 == (x \div b1) % n1
           d2 == (x \div b2) % n2
           d3 == (x \div b3) % n3
           d4 == (x \div 1) % n4
           e1 == d1 * b1
           e2 == d2 * b2
           e3 == d3 * b3
<1>1. x \in Nat /\ m \in Nat \ {0} /\ x < m
  BY DEF Block
<1>2. /\ DigitRest(x, b1, n1, m) /\ DigitRest(x, b2, n2, b1) /\ DigitRest(x, b3, n3, b2)
      /\ DigitRest(x, 1, n4, b3)
  BY <1>1, DigitAndRest
<1>3. /\ d1 \in 0 .. n1 - 1 /\ e1 \in Nat /\ x % m = e1 + (x % b1) /\ x % b1 \in 0 .. b1 - 1
      /\ d2 \in 0 .. n2 - 1 /\ e2 \in Nat /\ x % b1 = e2 + (x % b2) /\ x % b2 \in 0 .. b2 - 1
      /\ d3 \in 0 .. n3 - 1 /\ e3 \in Nat /\ x % b2 = e3 + (x % b3) /\ x % b3 \in 0 .. b3 - 1
      /\ d4 \in 0 .. n4 - 1
  BY <1>2, Zenon DEF DigitRest
<1>5. d4 \in Int /\ x % b3 = d4 * 1 + (x % 1)
  BY <1>2, <1>3 DEF DigitRest
<1>6. x % m = x /\ x % 1 = 0
  BY <1>1
<1>7. x = e1 + e2 + e3 + d4
  <2> DEFINE r1 == x % b1
             r2 == x % b2
             r3 == x % b3
  <2>1. /\ e1 \in Int /\ e2 \in Int /\ e3 \in Int /\ d4 \in Int
        /\ r1 \in Int /\ r2 \in Int /\ r3 \in Int
    BY <1>3, <1>5
  <2>2. x = e1 + r1 /\ r1 = e2 + r2 /\ r2 = e3 + r3 /\ r3 = d4 * 1 + 0
    BY <1>3, <1>5, <1>6
  <2> HIDE DEF e1, e2, e3, d4, r1, r2, r3
  <2> QED
    BY <2>1, <2>2
<1> QED
  BY <1>3, <1>7, Zenon DEF DigitsOf

(* Every combination of digits is an iteration. *)
LEMMA LoopsReach ==
  ASSUME NEW n1, NEW n2, NEW n3, NEW n4, NEW b1, NEW b2, NEW b3, NEW m, Block(n4, 1, b3),
         Block(n3, b3, b2), Block(n2, b2, b1), Block(n1, b1, m),
         NEW q1 \in 0 .. n1 - 1, NEW q2 \in 0 .. n2 - 1, NEW q3 \in 0 .. n3 - 1,
         NEW q4 \in 0 .. n4 - 1
  PROVE  \E x \in 0 .. m - 1 :
           /\ (x \div b1) % n1 = q1 /\ (x \div b2) % n2 = q2
           /\ (x \div b3) % n3 = q3 /\ (x \div 1) % n4 = q4
<1> DEFINE x4 == q4 * 1 + 0
           x3 == q3 * b3 + x4
           x2 == q2 * b2 + x3
           x == q1 * b1 + x2
           a2 == q1 * n2 + q2
           a3 == a2 * n3 + q3
<1>1. x4 \in 0 .. b3 - 1
  BY DigitFits
<1> HIDE DEF x4
<1>2. x3 \in 0 .. b2 - 1
  BY <1>1, DigitFits
<1> HIDE DEF x3
<1>3. x2 \in 0 .. b1 - 1
  BY <1>2, DigitFits
<1> HIDE DEF x2
<1>4. x \in 0 .. m - 1 /\ q1 * b1 \in Nat
  BY <1>3, DigitFits
<1>5. x = 0 * m + q1 * b1 + x2
  BY <1>3, <1>4 DEF Block
<1> HIDE DEF x
<1>6. x = q1 * b1 + q2 * b2 + x3
  BY <1>5, <1>2, <1>3, <1>4 DEF Block, x2, x
<1>7. x = a2 * b2 + q3 * b3 + x4 /\ a2 \in Int
  <2>1. q1 * b1 + q2 * b2 = a2 * b2 /\ a2 \in Int
    BY DEF Block
  <2> HIDE DEF a2
  <2> QED
    BY <1>6, <2>1, <1>1 DEF x3, Block
<1>8. x = a3 * b3 + q4 * 1 + 0 /\ a3 \in Int
  <2>1. a2 * b2 + q3 * b3 = a3 * b3 /\ a3 \in Int
    <3>1. a2 \in Int
      BY <1>7
    <3> HIDE DEF a2
    <3> QED
      BY <3>1 DEF Block
  <2> HIDE DEF a2, a3
  <2> QED
    BY <1>7, <2>1, <1>1 DEF x4, Block
<1>9. (x \div b1) % n1 = q1
  BY <1>3, <1>5, DigitFound
<1>10. (x \div b2) % n2 = q2
  BY <1>2, <1>6, DigitFound
<1> HIDE DEF a2
<1>11. (x \div b3) % n3 = q3
  BY <1>1, <1>7, DigitFound
<1> HIDE DEF a3
<1>12. (x \div 1) % n4 = q4
  BY <1>8, DigitFound
<1> QED
  BY <1>4, <1>9, <1>10, <1>11, <1>12
-----------------------------------------------------------------------------
(* Nests of loops.                                                         *)

IsNest(loops) ==
  /\ Len(loops) \in 0 .. 4
  /\ \A d \in 1 .. Len(loops) : loops[d].count \in Nat \ {0}

(* The count of a loop, and how far it is: 1 and 0 for those there are not. *)
Count(loops, d) == IF d \in 1 .. Len(loops) THEN loops[d].count ELSE 1

Dig(loops, d, x) == (x \div Inner(loops, d + 1)) % Count(loops, d)

(* The iterations of a loop are its count times those of the loops inside. *)
LEMMA InnerBlocks ==
  ASSUME NEW loops, IsNest(loops)
  PROVE  /\ Inner(loops, 5) = 1
         /\ \A d \in 1 .. 4 : Block(Count(loops, d), Inner(loops, d + 1), Inner(loops, d))
<1> DEFINE N(d) == Count(loops, d)
<1>1. N(1) \in Nat \ {0} /\ N(2) \in Nat \ {0} /\ N(3) \in Nat \ {0} /\ N(4) \in Nat \ {0}
  BY DEF IsNest, Count
<1> DEFINE F(d) == LET count(e) == IF e \in d .. Len(loops) THEN loops[e].count ELSE 1
                   IN  count(1) * count(2) * count(3) * count(4)
<1>2. \A d \in 1 .. 5 : Inner(loops, d) = F(d)
  BY DEF Inner
<1>3. /\ F(5) = 1 * 1 * 1 * 1
      /\ F(4) = 1 * 1 * 1 * N(4) /\ F(3) = 1 * 1 * N(3) * N(4)
      /\ F(2) = 1 * N(2) * N(3) * N(4) /\ F(1) = N(1) * N(2) * N(3) * N(4)
  BY DEF IsNest, Count
<1> HIDE DEF N, F
<1>4. /\ F(5) = 1 /\ F(4) = N(4) * F(5) /\ F(3) = N(3) * F(4) /\ F(2) = N(2) * F(3)
      /\ F(1) = N(1) * F(2)
  BY <1>1, <1>3
<1>5. F(5) \in Nat \ {0} /\ F(4) \in Nat \ {0}
  BY <1>1, <1>4
<1>6. F(3) \in Nat \ {0}
  BY <1>1, <1>4, <1>5, Digit
<1>7. F(2) \in Nat \ {0}
  BY <1>1, <1>4, <1>6, Digit
<1>8. F(1) \in Nat \ {0}
  BY <1>1, <1>4, <1>7, Digit
<1>9. \A d \in 1 .. 4 : Block(N(d), F(d + 1), F(d))
  <2>1. Block(N(1), F(2), F(1)) /\ Block(N(2), F(3), F(2))
        /\ Block(N(3), F(4), F(3)) /\ Block(N(4), F(5), F(4))
    BY <1>1, <1>4, <1>5, <1>6, <1>7, <1>8 DEF Block
  <2> QED
    BY <2>1
<1> QED
  BY <1>2, <1>4, <1>9 DEF N

(* The iterations of a nest are the values of its loops. *)
NestCounts(loops) ==
  /\ Iterations(loops) \in Nat \ {0}
  /\ \A x \in 0 .. Iterations(loops) - 1 : \A d \in 1 .. 4 :
       Dig(loops, d, x) \in 0 .. Count(loops, d) - 1
  /\ \A x, y \in 0 .. Iterations(loops) - 1 :
       (\A d \in 1 .. 4 : Dig(loops, d, x) = Dig(loops, d, y)) => x = y
  /\ \A q1 \in 0 .. Count(loops, 1) - 1, q2 \in 0 .. Count(loops, 2) - 1,
        q3 \in 0 .. Count(loops, 3) - 1, q4 \in 0 .. Count(loops, 4) - 1 :
       \E x \in 0 .. Iterations(loops) - 1 :
         /\ Dig(loops, 1, x) = q1 /\ Dig(loops, 2, x) = q2
         /\ Dig(loops, 3, x) = q3 /\ Dig(loops, 4, x) = q4

LEMMA NestIsCounted ==
  ASSUME NEW loops, IsNest(loops)
  PROVE  NestCounts(loops)
<1> DEFINE n1 == Count(loops, 1)
           n2 == Count(loops, 2)
           n3 == Count(loops, 3)
           n4 == Count(loops, 4)
           b1 == Inner(loops, 2)
           b2 == Inner(loops, 3)
           b3 == Inner(loops, 4)
           m == Iterations(loops)
<1>1. Block(n4, 1, b3) /\ Block(n3, b3, b2) /\ Block(n2, b2, b1) /\ Block(n1, b1, m)
  <2>1. Inner(loops, 5) = 1 /\ m = Inner(loops, 1)
    BY InnerBlocks DEF Iterations
  <2>2. /\ Block(Count(loops, 4), Inner(loops, 4 + 1), Inner(loops, 4))
        /\ Block(Count(loops, 3), Inner(loops, 3 + 1), Inner(loops, 3))
        /\ Block(Count(loops, 2), Inner(loops, 2 + 1), Inner(loops, 2))
        /\ Block(Count(loops, 1), Inner(loops, 1 + 1), Inner(loops, 1))
    BY InnerBlocks
  <2>3. 4 + 1 = 5 /\ 3 + 1 = 4 /\ 2 + 1 = 3 /\ 1 + 1 = 2
    OBVIOUS
  <2> QED
    BY <2>1, <2>2, <2>3, Zenon
<1>2. \A x : /\ Dig(loops, 1, x) = (x \div b1) % n1 /\ Dig(loops, 2, x) = (x \div b2) % n2
             /\ Dig(loops, 3, x) = (x \div b3) % n3 /\ Dig(loops, 4, x) = (x \div 1) % n4
  <2>1. Inner(loops, 5) = 1
    BY InnerBlocks
  <2>2. 4 + 1 = 5 /\ 3 + 1 = 4 /\ 2 + 1 = 3 /\ 1 + 1 = 2
    OBVIOUS
  <2> QED
    BY <2>1, <2>2, Zenon DEF Dig
<1> HIDE DEF n1, n2, n3, n4, b1, b2, b3, m
<1>3. m \in Nat \ {0}
  BY <1>1 DEF Block
<1>4. \A x \in 0 .. m - 1 : DigitsOf(x, n1, n2, n3, n4, b1, b2, b3)
  BY <1>1, LoopsStep
<1>5. ASSUME NEW x \in 0 .. m - 1
      PROVE  /\ Dig(loops, 1, x) \in 0 .. n1 - 1 /\ Dig(loops, 2, x) \in 0 .. n2 - 1
             /\ Dig(loops, 3, x) \in 0 .. n3 - 1 /\ Dig(loops, 4, x) \in 0 .. n4 - 1
             /\ x = Dig(loops, 1, x) * b1 + Dig(loops, 2, x) * b2 + Dig(loops, 3, x) * b3
                      + Dig(loops, 4, x)
  BY <1>2, <1>4, Zenon DEF DigitsOf
<1>6. ASSUME NEW x \in 0 .. m - 1, NEW y \in 0 .. m - 1,
             \A d \in 1 .. 4 : Dig(loops, d, x) = Dig(loops, d, y)
      PROVE  x = y
  <2>1. /\ Dig(loops, 1, x) = Dig(loops, 1, y) /\ Dig(loops, 2, x) = Dig(loops, 2, y)
        /\ Dig(loops, 3, x) = Dig(loops, 3, y) /\ Dig(loops, 4, x) = Dig(loops, 4, y)
    BY <1>6
  <2> QED
    BY <1>5, <2>1, Zenon
<1>7. ASSUME NEW q1 \in 0 .. n1 - 1, NEW q2 \in 0 .. n2 - 1, NEW q3 \in 0 .. n3 - 1,
             NEW q4 \in 0 .. n4 - 1
      PROVE  \E x \in 0 .. m - 1 :
               /\ Dig(loops, 1, x) = q1 /\ Dig(loops, 2, x) = q2
               /\ Dig(loops, 3, x) = q3 /\ Dig(loops, 4, x) = q4
  <2>1. PICK x \in 0 .. m - 1 : /\ (x \div b1) % n1 = q1 /\ (x \div b2) % n2 = q2
                                /\ (x \div b3) % n3 = q3 /\ (x \div 1) % n4 = q4
    BY <1>1, LoopsReach
  <2> QED
    BY <1>2, <2>1, Zenon
<1>8. \A x \in 0 .. m - 1 : \A d \in 1 .. 4 : Dig(loops, d, x) \in 0 .. Count(loops, d) - 1
  <2> SUFFICES ASSUME NEW x \in 0 .. m - 1, NEW d \in 1 .. 4
               PROVE  Dig(loops, d, x) \in 0 .. Count(loops, d) - 1
    OBVIOUS
  <2>1. d = 1 \/ d = 2 \/ d = 3 \/ d = 4
    OBVIOUS
  <2> QED
    BY <1>5, <2>1, Zenon DEF n1, n2, n3, n4
<1> QED
  BY <1>3, <1>6, <1>7, <1>8, Zenon DEF NestCounts, n1, n2, n3, n4, m

(* The part of a place that a loop contributes. *)
Part(loops, k, d, x) == IF d <= Len(loops) THEN Dig(loops, d, x) * loops[d].step[k] ELSE 0

(* Each loop contributes its steps. *)
LEMMA PlaceIsSum ==
  ASSUME NEW loops, IsNest(loops), NEW k, NEW x
  PROVE  Place(loops, k, x) = Part(loops, k, 1, x) + Part(loops, k, 2, x)
                                + Part(loops, k, 3, x) + Part(loops, k, 4, x)
<1>1. Len(loops) \in 0 .. 4
  BY DEF IsNest
<1> DEFINE term(d) == IF d <= Len(loops) THEN Index(loops, d, x) * loops[d].step[k] ELSE 0
<1>2. ASSUME NEW d \in 1 .. 4 PROVE term(d) = Part(loops, k, d, x)
  <2>1. CASE d <= Len(loops)
    <3>1. Count(loops, d) = loops[d].count
      BY <1>1, <2>1 DEF Count
    <3> QED
      BY <2>1, <3>1, Zenon DEF Part, Dig, Index
  <2>2. CASE ~(d <= Len(loops))
    BY <2>2, Zenon DEF Part
  <2> QED
    BY <2>1, <2>2
<1>3. term(1) = Part(loops, k, 1, x) /\ term(2) = Part(loops, k, 2, x)
      /\ term(3) = Part(loops, k, 3, x) /\ term(4) = Part(loops, k, 4, x)
  <2> HIDE DEF term
  <2> QED
    BY <1>2
<1>4. Place(loops, k, x) = term(1) + term(2) + term(3) + term(4)
  BY Zenon DEF Place
<1> QED
  BY <1>3, <1>4, Zenon

(* A function on 1 .. m is a sequence of length m. *)
LEMMA LenIs ==
  ASSUME NEW m \in Nat, NEW s, s = [d \in 1 .. m |-> s[d]]
  PROVE  Len(s) = m
<1> DEFINE S == {s[d] : d \in 1 .. m}
<1>1. s \in [1 .. m -> S]
  OBVIOUS
<1> HIDE DEF S
<1>2. s \in Seq(S)
  BY <1>1
<1> QED
  BY <1>1, <1>2

-----------------------------------------------------------------------------
(* A plan: outer and inner loops, one for each dimension of the result.    *)
(* w says which loop it is that walks along a dimension.                   *)

(* The j-th loop of both nests, and how far it is. *)
Loop(P, j) == IF j <= Len(P.outer) THEN P.outer[j] ELSE P.inner[j - Len(P.outer)]

Turn(P, x, i, j) ==
  IF j <= Len(P.outer) THEN Dig(P.outer, j, x) ELSE Dig(P.inner, j - Len(P.outer), i)

Walks(P, w, r, shape) ==
  /\ IsNest(P.outer) /\ IsNest(P.inner)
  /\ r \in 1 .. 4 /\ Len(P.outer) + Len(P.inner) = r
  /\ \A d \in 1 .. r : w[d] \in 1 .. r
  /\ \A d \in 1 .. r : \A e \in d + 1 .. r : w[d] # w[e]
  /\ \A d \in 1 .. r : Loop(P, w[d]).count = shape[d]

(* The position of an iteration in dimension d. *)
IndexAlong(P, w, r, x, i, d) == IF d <= r THEN Turn(P, x, i, w[d]) ELSE 0

Pos(P, w, r, x, i) ==
  <<IndexAlong(P, w, r, x, i, 1), IndexAlong(P, w, r, x, i, 2),
    IndexAlong(P, w, r, x, i, 3), IndexAlong(P, w, r, x, i, 4)>>

Box(r, shape) ==
  LET along(d) == IF d <= r THEN 0 .. shape[d] - 1 ELSE {0}
  IN  {<<p1, p2, p3, p4>> : p1 \in along(1), p2 \in along(2), p3 \in along(3), p4 \in along(4)}

LEMMA PosIs ==
  ASSUME NEW P, NEW w, NEW r, NEW x, NEW i, NEW d \in 1 .. 4
  PROVE  Pos(P, w, r, x, i)[d] = IndexAlong(P, w, r, x, i, d)
<1>1. d = 1 \/ d = 2 \/ d = 3 \/ d = 4
  OBVIOUS
<1> QED
  BY <1>1 DEF Pos

(* Each loop is that of one dimension. *)
LEMMA LoopHasDimension ==
  ASSUME NEW P, NEW w, NEW r, NEW shape, Walks(P, w, r, shape), NEW j \in 1 .. r
  PROVE  \E d \in 1 .. r : w[d] = j
<1>1. r \in 0 .. 4
  BY DEF Walks
<1>2. /\ \A d \in 1 .. r : w[d] \in 1 .. r
      /\ \A d \in 1 .. r : \A e \in d + 1 .. r : w[d] # w[e]
  BY Zenon DEF Walks
<1> QED
  BY <1>1, <1>2, EachDimensionOccurs

(* A loop takes the values up to its count. *)
LEMMA TurnInside ==
  ASSUME NEW P, NEW w, NEW r, NEW shape, Walks(P, w, r, shape),
         NEW x \in 0 .. Iterations(P.outer) - 1, NEW i \in 0 .. Iterations(P.inner) - 1,
         NEW j \in 1 .. r
  PROVE  Turn(P, x, i, j) \in 0 .. Loop(P, j).count - 1
<1>1. NestCounts(P.outer) /\ NestCounts(P.inner)
  BY NestIsCounted DEF Walks
<1>2. Len(P.outer) \in 0 .. 4 /\ Len(P.inner) \in 0 .. 4 /\ Len(P.outer) + Len(P.inner) = r
      /\ r \in 1 .. 4
  BY DEF Walks, IsNest
<1>3. CASE j <= Len(P.outer)
  <2>1. j \in 1 .. 4 /\ j \in 1 .. Len(P.outer)
    BY <1>2, <1>3
  <2>2. Dig(P.outer, j, x) \in 0 .. Count(P.outer, j) - 1
    BY <1>1, <2>1, Zenon DEF NestCounts
  <2> QED
    BY <1>3, <2>1, <2>2, Zenon DEF Turn, Loop, Count
<1>4. CASE ~(j <= Len(P.outer))
  <2> DEFINE e == j - Len(P.outer)
  <2>1. e \in 1 .. 4 /\ e \in 1 .. Len(P.inner)
    <3> DEFINE a == Len(P.outer)
               b == Len(P.inner)
    <3>1. a \in 0 .. 4 /\ b \in 0 .. 4 /\ a + b = r /\ r \in 1 .. 4 /\ ~(j <= a)
      BY <1>2, <1>4
    <3> HIDE DEF a, b
    <3>2. j - a \in 1 .. 4 /\ j - a \in 1 .. b
      BY <3>1
    <3> QED
      BY <3>2 DEF a, b
  <2>2. Dig(P.inner, e, i) \in 0 .. Count(P.inner, e) - 1
    BY <1>1, <2>1, Zenon DEF NestCounts
  <2> QED
    BY <1>4, <2>1, <2>2, Zenon DEF Turn, Loop, Count
<1> QED
  BY <1>3, <1>4

(* A walk stays within the shape. *)
LEMMA WalkInside ==
  ASSUME NEW P, NEW w, NEW r, NEW shape, Walks(P, w, r, shape),
         NEW x \in 0 .. Iterations(P.outer) - 1, NEW i \in 0 .. Iterations(P.inner) - 1
  PROVE  /\ Pos(P, w, r, x, i) \in Box(r, shape)
         /\ \A d \in 1 .. 4 : d <= r => Pos(P, w, r, x, i)[d] \in 0 .. shape[d] - 1
<1>1. ASSUME NEW d \in 1 .. 4
      PROVE  IndexAlong(P, w, r, x, i, d) \in IF d <= r THEN 0 .. shape[d] - 1 ELSE {0}
  <2>1. CASE d <= r
    <3>1. d \in 1 .. r /\ w[d] \in 1 .. r /\ Loop(P, w[d]).count = shape[d]
      BY <2>1 DEF Walks
    <3>2. Turn(P, x, i, w[d]) \in 0 .. Loop(P, w[d]).count - 1
      BY <3>1, TurnInside
    <3> QED
      BY <2>1, <3>1, <3>2, Zenon DEF IndexAlong
  <2>2. CASE ~(d <= r)
    BY <2>2, Zenon DEF IndexAlong
  <2> QED
    BY <2>1, <2>2
<1> DEFINE along(d) == IF d <= r THEN 0 .. shape[d] - 1 ELSE {0}
           p(d) == IndexAlong(P, w, r, x, i, d)
<1>2. p(1) \in along(1) /\ p(2) \in along(2) /\ p(3) \in along(3) /\ p(4) \in along(4)
  BY <1>1
<1>3. Pos(P, w, r, x, i) \in Box(r, shape)
  <2>1. Box(r, shape) = {<<p1, p2, p3, p4>> : p1 \in along(1), p2 \in along(2),
                                              p3 \in along(3), p4 \in along(4)}
    BY DEF Box
  <2>2. Pos(P, w, r, x, i) = <<p(1), p(2), p(3), p(4)>>
    BY DEF Pos
  <2> HIDE DEF along, p
  <2> QED
    BY <1>2, <2>1, <2>2
<1>4. ASSUME NEW d \in 1 .. 4, d <= r
      PROVE  Pos(P, w, r, x, i)[d] \in 0 .. shape[d] - 1
  BY <1>1, <1>4, PosIs
<1> QED
  BY <1>3, <1>4

(* Two iterations are at different positions. *)
LEMMA WalkApart ==
  ASSUME NEW P, NEW w, NEW r, NEW shape, Walks(P, w, r, shape),
         NEW x \in 0 .. Iterations(P.outer) - 1, NEW i \in 0 .. Iterations(P.inner) - 1,
         NEW y \in 0 .. Iterations(P.outer) - 1, NEW l \in 0 .. Iterations(P.inner) - 1,
         \A d \in 1 .. r : Pos(P, w, r, x, i)[d] = Pos(P, w, r, y, l)[d]
  PROVE  x = y /\ i = l
<1>1. NestCounts(P.outer) /\ NestCounts(P.inner)
  BY NestIsCounted DEF Walks
<1>2. Len(P.outer) \in 0 .. 4 /\ Len(P.inner) \in 0 .. 4 /\ Len(P.outer) + Len(P.inner) = r
      /\ r \in 1 .. 4
  BY DEF Walks, IsNest
<1>3. ASSUME NEW j \in 1 .. r
      PROVE  Turn(P, x, i, j) = Turn(P, y, l, j)
  <2>1. PICK d \in 1 .. r : w[d] = j
    BY LoopHasDimension
  <2>2. d \in 1 .. 4 /\ d <= r
    BY <1>2
  <2>3. /\ Pos(P, w, r, x, i)[d] = IndexAlong(P, w, r, x, i, d)
        /\ Pos(P, w, r, y, l)[d] = IndexAlong(P, w, r, y, l, d)
    BY <2>2, PosIs
  <2>4. /\ IndexAlong(P, w, r, x, i, d) = Turn(P, x, i, j)
        /\ IndexAlong(P, w, r, y, l, d) = Turn(P, y, l, j)
    BY <2>1, <2>2, Zenon DEF IndexAlong
  <2> QED
    BY <2>3, <2>4
<1>4. ASSUME NEW d \in 1 .. 4
      PROVE  Dig(P.outer, d, x) = Dig(P.outer, d, y)
  <2>1. CASE d <= Len(P.outer)
    <3>1. d \in 1 .. r
      <4> DEFINE a == Len(P.outer)
                 b == Len(P.inner)
      <4>1. a \in 0 .. 4 /\ b \in 0 .. 4 /\ a + b = r /\ r \in 1 .. 4 /\ d <= a
        BY <1>2, <2>1
      <4> HIDE DEF a, b
      <4> QED
        BY <4>1
    <3> QED
      BY <1>3, <2>1, <3>1, Zenon DEF Turn
  <2>2. CASE ~(d <= Len(P.outer))
    <3>1. Count(P.outer, d) = 1
      BY <1>2, <2>2 DEF Count
    <3>2. Dig(P.outer, d, x) \in 0 .. 1 - 1 /\ Dig(P.outer, d, y) \in 0 .. 1 - 1
      BY <1>1, <3>1, Zenon DEF NestCounts
    <3> QED
      BY <3>2
  <2> QED
    BY <2>1, <2>2
<1>5. ASSUME NEW d \in 1 .. 4
      PROVE  Dig(P.inner, d, i) = Dig(P.inner, d, l)
  <2>1. CASE d <= Len(P.inner)
    <3> DEFINE j == d + Len(P.outer)
    <3>1. j \in 1 .. r /\ ~(j <= Len(P.outer)) /\ j - Len(P.outer) = d
      <4> DEFINE a == Len(P.outer)
                 b == Len(P.inner)
      <4>1. a \in 0 .. 4 /\ b \in 0 .. 4 /\ a + b = r /\ r \in 1 .. 4 /\ d <= b
        BY <1>2, <2>1
      <4> HIDE DEF a, b, j
      <4>2. d + a \in 1 .. r /\ ~(d + a <= a) /\ (d + a) - a = d
        BY <4>1
      <4> QED
        BY <4>2 DEF a, b, j
    <3> QED
      BY <1>3, <3>1, Zenon DEF Turn
  <2>2. CASE ~(d <= Len(P.inner))
    <3>1. Count(P.inner, d) = 1
      BY <1>2, <2>2 DEF Count
    <3>2. Dig(P.inner, d, i) \in 0 .. 1 - 1 /\ Dig(P.inner, d, l) \in 0 .. 1 - 1
      BY <1>1, <3>1, Zenon DEF NestCounts
    <3> QED
      BY <3>2
  <2> QED
    BY <2>1, <2>2
<1> QED
  BY <1>1, <1>4, <1>5, Zenon DEF NestCounts

LEMMA Distinct ==
  ASSUME NEW r \in 1 .. 4, NEW w, \A d \in 1 .. r : \A e \in d + 1 .. r : w[d] # w[e],
         NEW d \in 1 .. r, NEW e \in 1 .. r, w[d] = w[e]
  PROVE  d = e
<1>1. ~(d < e)
  BY \A f \in 1 .. r : \A g \in f + 1 .. r : w[f] # w[g]
<1>2. ~(e < d)
  BY \A f \in 1 .. r : \A g \in f + 1 .. r : w[f] # w[g]
<1> QED
  BY <1>1, <1>2

LEMMA NestReaches ==
  ASSUME NEW loops, NestCounts(loops),
         NEW q1 \in 0 .. Count(loops, 1) - 1, NEW q2 \in 0 .. Count(loops, 2) - 1,
         NEW q3 \in 0 .. Count(loops, 3) - 1, NEW q4 \in 0 .. Count(loops, 4) - 1
  PROVE  \E x \in 0 .. Iterations(loops) - 1 :
           /\ Dig(loops, 1, x) = q1 /\ Dig(loops, 2, x) = q2
           /\ Dig(loops, 3, x) = q3 /\ Dig(loops, 4, x) = q4
BY DEF NestCounts

(* Every position is visited. *)
LEMMA WalkReaches ==
  ASSUME NEW P, NEW w, NEW r, NEW shape, Walks(P, w, r, shape), NEW p \in Box(r, shape)
  PROVE  \E x \in 0 .. Iterations(P.outer) - 1, i \in 0 .. Iterations(P.inner) - 1 :
           p = Pos(P, w, r, x, i)
<1> DEFINE a == Len(P.outer)
           b == Len(P.inner)
           at(j) == CHOOSE d \in 1 .. r : w[d] = j
           v(j) == p[at(j)]
           along(d) == IF d <= r THEN 0 .. shape[d] - 1 ELSE {0}
           o(e) == IF e <= a THEN v(e) ELSE 0
           f(e) == IF e <= b THEN v(e + a) ELSE 0
<1>1. a \in 0 .. 4 /\ b \in 0 .. 4 /\ a + b = r /\ r \in 1 .. 4
  BY DEF Walks, IsNest
<1>2. PICK p1 \in along(1), p2 \in along(2), p3 \in along(3), p4 \in along(4) :
        p = <<p1, p2, p3, p4>>
  <2>1. Box(r, shape) = {<<p1, p2, p3, p4>> : p1 \in along(1), p2 \in along(2),
                                              p3 \in along(3), p4 \in along(4)}
    BY DEF Box
  <2> HIDE DEF along
  <2> QED
    BY <2>1
<1>3. p[1] = p1 /\ p[2] = p2 /\ p[3] = p3 /\ p[4] = p4
  BY <1>2
<1>4. ASSUME NEW d \in 1 .. 4 PROVE p[d] \in along(d)
  <2>1. d = 1 \/ d = 2 \/ d = 3 \/ d = 4
    OBVIOUS
  <2> HIDE DEF along
  <2> QED
    BY <1>3, <2>1
<1>5. ASSUME NEW j \in 1 .. r
      PROVE  at(j) \in 1 .. r /\ w[at(j)] = j
  <2>1. \E d \in 1 .. r : w[d] = j
    BY LoopHasDimension
  <2> QED
    BY <2>1, Zenon
<1>6. ASSUME NEW j \in 1 .. r
      PROVE  v(j) \in 0 .. Loop(P, j).count - 1
  <2> DEFINE d == at(j)
  <2>1. d \in 1 .. r /\ w[d] = j
    BY <1>5
  <2> HIDE DEF d
  <2>2. Loop(P, j).count = shape[d]
    BY <2>1, Zenon DEF Walks
  <2>3. d \in 1 .. 4 /\ d <= r
    BY <1>1, <2>1
  <2>4. p[d] \in 0 .. shape[d] - 1
    BY <1>4, <2>3
  <2> QED
    BY <2>2, <2>4, Zenon DEF d
<1> HIDE DEF at, along
<1>7. ASSUME NEW e \in 1 .. 4
      PROVE  o(e) \in 0 .. Count(P.outer, e) - 1
  <2> HIDE DEF v
  <2>1. CASE e <= a
    <3>1. e \in 1 .. r /\ e \in 1 .. a
      <4> HIDE DEF a, b
      <4> QED
        BY <1>1, <2>1
    <3>2. Loop(P, e).count = Count(P.outer, e)
      BY <2>1, <3>1, Zenon DEF Loop, Count
    <3>3. o(e) = v(e)
      BY <2>1, Zenon
    <3> HIDE DEF o
    <3> QED
      BY <1>6, <3>1, <3>2, <3>3, Zenon
  <2>2. CASE ~(e <= a)
    <3>1. Count(P.outer, e) = 1 /\ o(e) = 0
      BY <2>2 DEF Count
    <3> HIDE DEF o
    <3> QED
      BY <3>1
  <2> QED
    BY <2>1, <2>2
<1>8. ASSUME NEW e \in 1 .. 4
      PROVE  f(e) \in 0 .. Count(P.inner, e) - 1
  <2> HIDE DEF v
  <2>1. CASE e <= b
    <3>1. e + a \in 1 .. r /\ ~(e + a <= a) /\ (e + a) - a = e /\ e \in 1 .. b
      <4> HIDE DEF a, b
      <4> QED
        BY <1>1, <2>1
    <3>2. Loop(P, e + a).count = Count(P.inner, e)
      BY <3>1, Zenon DEF Loop, Count
    <3>3. f(e) = v(e + a)
      BY <2>1, Zenon
    <3> HIDE DEF f
    <3> QED
      BY <1>6, <3>1, <3>2, <3>3, Zenon
  <2>2. CASE ~(e <= b)
    <3>1. Count(P.inner, e) = 1 /\ f(e) = 0
      BY <2>2 DEF Count
    <3> HIDE DEF f
    <3> QED
      BY <3>1
  <2> QED
    BY <2>1, <2>2
<1>9. NestCounts(P.outer) /\ NestCounts(P.inner)
  BY NestIsCounted DEF Walks
<1>10. PICK x \in 0 .. Iterations(P.outer) - 1 :
         /\ Dig(P.outer, 1, x) = o(1) /\ Dig(P.outer, 2, x) = o(2)
         /\ Dig(P.outer, 3, x) = o(3) /\ Dig(P.outer, 4, x) = o(4)
  <2>1. /\ o(1) \in 0 .. Count(P.outer, 1) - 1 /\ o(2) \in 0 .. Count(P.outer, 2) - 1
        /\ o(3) \in 0 .. Count(P.outer, 3) - 1 /\ o(4) \in 0 .. Count(P.outer, 4) - 1
    <3> HIDE DEF o
    <3> QED
      BY <1>7
  <2> HIDE DEF o
  <2> QED
    BY <1>9, <2>1, NestReaches
<1>11. PICK i \in 0 .. Iterations(P.inner) - 1 :
         /\ Dig(P.inner, 1, i) = f(1) /\ Dig(P.inner, 2, i) = f(2)
         /\ Dig(P.inner, 3, i) = f(3) /\ Dig(P.inner, 4, i) = f(4)
  <2>1. /\ f(1) \in 0 .. Count(P.inner, 1) - 1 /\ f(2) \in 0 .. Count(P.inner, 2) - 1
        /\ f(3) \in 0 .. Count(P.inner, 3) - 1 /\ f(4) \in 0 .. Count(P.inner, 4) - 1
    <3> HIDE DEF f
    <3> QED
      BY <1>8
  <2> HIDE DEF f
  <2> QED
    BY <1>9, <2>1, NestReaches
<1>12. ASSUME NEW j \in 1 .. r
       PROVE  Turn(P, x, i, j) = v(j)
  <2>1. CASE j <= a
    <3>1. j = 1 \/ j = 2 \/ j = 3 \/ j = 4
      <4> HIDE DEF a, b
      <4> QED
        BY <1>1
    <3>2. Dig(P.outer, j, x) = o(j)
      <4> HIDE DEF o
      <4> QED
        BY <1>10, <3>1, Zenon
    <3> QED
      BY <2>1, <3>2, Zenon DEF Turn
  <2>2. CASE ~(j <= a)
    <3> DEFINE e == j - a
    <3>1. (e = 1 \/ e = 2 \/ e = 3 \/ e = 4) /\ e <= b /\ e + a = j
      <4> HIDE DEF a, b
      <4> QED
        BY <1>1, <2>2
    <3>2. Dig(P.inner, e, i) = f(e)
      <4> HIDE DEF f, e
      <4> QED
        BY <1>11, <3>1, Zenon
    <3>3. f(e) = v(j)
      <4> HIDE DEF v, e
      <4> QED
        BY <3>1, Zenon
    <3> HIDE DEF f, v
    <3> QED
      BY <2>2, <3>2, <3>3, Zenon DEF Turn
  <2> QED
    BY <2>1, <2>2
<1>13. ASSUME NEW d \in 1 .. 4
       PROVE  IndexAlong(P, w, r, x, i, d) = p[d]
  <2>1. CASE d <= r
    <3>1. d \in 1 .. r /\ w[d] \in 1 .. r
      BY <1>1, <2>1 DEF Walks
    <3>2. at(w[d]) \in 1 .. r /\ w[at(w[d])] = w[d]
      BY <1>5, <3>1
    <3>3. at(w[d]) = d
      <4> DEFINE e == at(w[d])
      <4>1. e \in 1 .. r /\ w[e] = w[d]
        BY <3>2
      <4> HIDE DEF e
      <4>2. \A j \in 1 .. r : \A l \in j + 1 .. r : w[j] # w[l]
        BY Zenon DEF Walks
      <4>3. e = d
        BY <1>1, <3>1, <4>1, <4>2, Distinct
      <4> QED
        BY <4>3 DEF e
    <3> QED
      BY <1>12, <2>1, <3>1, <3>3, Zenon DEF IndexAlong
  <2>2. CASE ~(d <= r)
    <3>1. p[d] = 0 /\ IndexAlong(P, w, r, x, i, d) = 0
      BY <1>4, <2>2 DEF along, IndexAlong
    <3> QED
      BY <3>1
  <2> QED
    BY <2>1, <2>2
<1>14. p = Pos(P, w, r, x, i)
  <2>1. /\ IndexAlong(P, w, r, x, i, 1) = p1 /\ IndexAlong(P, w, r, x, i, 2) = p2
        /\ IndexAlong(P, w, r, x, i, 3) = p3 /\ IndexAlong(P, w, r, x, i, 4) = p4
    BY <1>3, <1>13
  <2> QED
    BY <1>2, <2>1, Zenon DEF Pos
<1> QED
  BY <1>14

(* A sum over the loops of both nests. *)
LEMMA BothSums ==
  ASSUME NEW a \in 0 .. 4, NEW b \in 0 .. 4, NEW r \in 1 .. 4, a + b = r,
         NEW F, \A j \in 1 .. r : F[j] \in Int
  PROVE  ((IF 1 <= a THEN F[1] ELSE 0) + (IF 2 <= a THEN F[2] ELSE 0)
            + (IF 3 <= a THEN F[3] ELSE 0) + (IF 4 <= a THEN F[4] ELSE 0))
         + ((IF 1 <= b THEN F[1 + a] ELSE 0) + (IF 2 <= b THEN F[2 + a] ELSE 0)
              + (IF 3 <= b THEN F[3 + a] ELSE 0) + (IF 4 <= b THEN F[4 + a] ELSE 0))
         = (IF 1 <= r THEN F[1] ELSE 0) + (IF 2 <= r THEN F[2] ELSE 0)
             + (IF 3 <= r THEN F[3] ELSE 0) + (IF 4 <= r THEN F[4] ELSE 0)
<1>1. CASE a = 0
  BY <1>1
<1>2. CASE a = 1
  BY <1>2
<1>3. CASE a = 2
  BY <1>3
<1>4. CASE a = 3
  BY <1>4
<1>5. CASE a = 4
  BY <1>5
<1> QED
  BY <1>1, <1>2, <1>3, <1>4, <1>5
(* The places of both nests add up to the offset that strides s give the   *)
(* position.                                                               *)
AtStrides(r, s, p) ==
  (IF 1 <= r THEN p[1] * s[1] ELSE 0) + (IF 2 <= r THEN p[2] * s[2] ELSE 0)
    + (IF 3 <= r THEN p[3] * s[3] ELSE 0) + (IF 4 <= r THEN p[4] * s[4] ELSE 0)

Stepped(P, w, r, k, s) ==
  \A d \in 1 .. r : s[d] \in Int /\ Loop(P, w[d]).step[k] = s[d]

(* The steps of all loops lead to the element of the position. *)
LEMMA WalkPlaces ==
  ASSUME NEW P, NEW w, NEW r, NEW shape, Walks(P, w, r, shape),
         NEW x \in 0 .. Iterations(P.outer) - 1, NEW i \in 0 .. Iterations(P.inner) - 1,
         NEW k, NEW s, Stepped(P, w, r, k, s)
  PROVE  Place(P.outer, k, x) + Place(P.inner, k, i) = AtStrides(r, s, Pos(P, w, r, x, i))
<1>0. \A d \in 1 .. r : s[d] \in Int /\ Loop(P, w[d]).step[k] = s[d]
  BY Zenon DEF Stepped
<1> DEFINE a == Len(P.outer)
           b == Len(P.inner)
           F == [j \in 1 .. r |-> Turn(P, x, i, j) * Loop(P, j).step[k]]
           po(d) == Part(P.outer, k, d, x)
           pi(d) == Part(P.inner, k, d, i)
           p == Pos(P, w, r, x, i)
<1>1. a \in 0 .. 4 /\ b \in 0 .. 4 /\ a + b = r /\ r \in 1 .. 4 /\ r \in 0 .. 4
  <2>1. a \in 0 .. 4 /\ b \in 0 .. 4 /\ a + b = r /\ r \in 1 .. 4
    BY Zenon DEF Walks, IsNest
  <2> HIDE DEF a, b
  <2> QED
    BY <2>1
<1>2. /\ \A d \in 1 .. r : w[d] \in 1 .. r
      /\ \A d \in 1 .. r : \A e \in d + 1 .. r : w[d] # w[e]
      /\ IsNest(P.outer) /\ IsNest(P.inner)
  BY Zenon DEF Walks
<1>3. ASSUME NEW j \in 1 .. r PROVE F[j] \in Int
  <2>1. PICK d \in 1 .. r : w[d] = j
    BY LoopHasDimension
  <2>2. Loop(P, j).step[k] \in Int
    BY <1>0, <2>1
  <2>3. Turn(P, x, i, j) \in Int
    <3>1. Turn(P, x, i, j) \in 0 .. Loop(P, j).count - 1
      BY TurnInside
    <3> QED
      BY <3>1
  <2> QED
    BY <2>2, <2>3
<1>4. ASSUME NEW d \in 1 .. 4
      PROVE  po(d) = IF d <= a THEN F[d] ELSE 0
  <2>1. CASE d <= a
    <3>1. d \in 1 .. r
      <4> HIDE DEF a, b
      <4> QED
        BY <1>1, <2>1
    <3>2. F[d] = Dig(P.outer, d, x) * P.outer[d].step[k]
      BY <2>1, <3>1 DEF Turn, Loop
    <3> HIDE DEF F
    <3> QED
      BY <2>1, <3>2, Zenon DEF Part
  <2>2. CASE ~(d <= a)
    BY <2>2, Zenon DEF Part
  <2> QED
    BY <2>1, <2>2
<1>5. ASSUME NEW d \in 1 .. 4
      PROVE  pi(d) = IF d <= b THEN F[d + a] ELSE 0
  <2>1. CASE d <= b
    <3>1. d + a \in 1 .. r /\ ~(d + a <= a) /\ (d + a) - a = d
      <4> HIDE DEF a, b
      <4> QED
        BY <1>1, <2>1
    <3>2. F[d + a] = Turn(P, x, i, d + a) * Loop(P, d + a).step[k]
      <4> HIDE DEF a
      <4> QED
        BY <3>1
    <3>3. Turn(P, x, i, d + a) = Dig(P.inner, d, i) /\ Loop(P, d + a) = P.inner[d]
      BY <3>1, Zenon DEF Turn, Loop
    <3> HIDE DEF F, a
    <3> QED
      BY <2>1, <3>2, <3>3, Zenon DEF Part
  <2>2. CASE ~(d <= b)
    BY <2>2, Zenon DEF Part
  <2> QED
    BY <2>1, <2>2
<1>6. /\ Place(P.outer, k, x) = po(1) + po(2) + po(3) + po(4)
      /\ Place(P.inner, k, i) = pi(1) + pi(2) + pi(3) + pi(4)
  BY <1>2, PlaceIsSum
<1> HIDE DEF a, b, po, pi
<1>7. /\ po(1) = (IF 1 <= a THEN F[1] ELSE 0) /\ po(2) = (IF 2 <= a THEN F[2] ELSE 0)
      /\ po(3) = (IF 3 <= a THEN F[3] ELSE 0) /\ po(4) = (IF 4 <= a THEN F[4] ELSE 0)
      /\ pi(1) = (IF 1 <= b THEN F[1 + a] ELSE 0) /\ pi(2) = (IF 2 <= b THEN F[2 + a] ELSE 0)
      /\ pi(3) = (IF 3 <= b THEN F[3 + a] ELSE 0) /\ pi(4) = (IF 4 <= b THEN F[4 + a] ELSE 0)
  <2> HIDE DEF F
  <2> QED
    BY <1>4, <1>5
<1>8. ASSUME NEW d \in 1 .. r PROVE F[w[d]] = p[d] * s[d] /\ d \in 1 .. 4 /\ d <= r
  <2>1. w[d] \in 1 .. r /\ Loop(P, w[d]).step[k] = s[d] /\ d \in 1 .. 4 /\ d <= r
    BY <1>0, <1>1, <1>2
  <2>2. F[w[d]] = Turn(P, x, i, w[d]) * s[d]
    BY <2>1
  <2>3. p[d] = Turn(P, x, i, w[d])
    <3>1. p[d] = IndexAlong(P, w, r, x, i, d)
      BY <2>1, PosIs
    <3> QED
      BY <2>1, <3>1, Zenon DEF IndexAlong
  <2> HIDE DEF F, p
  <2> QED
    BY <2>1, <2>2, <2>3
<1> HIDE DEF F, p
<1>9. Place(P.outer, k, x) + Place(P.inner, k, i)
        = (IF 1 <= r THEN F[1] ELSE 0) + (IF 2 <= r THEN F[2] ELSE 0)
            + (IF 3 <= r THEN F[3] ELSE 0) + (IF 4 <= r THEN F[4] ELSE 0)
  <2>1. ((IF 1 <= a THEN F[1] ELSE 0) + (IF 2 <= a THEN F[2] ELSE 0)
            + (IF 3 <= a THEN F[3] ELSE 0) + (IF 4 <= a THEN F[4] ELSE 0))
         + ((IF 1 <= b THEN F[1 + a] ELSE 0) + (IF 2 <= b THEN F[2 + a] ELSE 0)
              + (IF 3 <= b THEN F[3 + a] ELSE 0) + (IF 4 <= b THEN F[4 + a] ELSE 0))
         = (IF 1 <= r THEN F[1] ELSE 0) + (IF 2 <= r THEN F[2] ELSE 0)
             + (IF 3 <= r THEN F[3] ELSE 0) + (IF 4 <= r THEN F[4] ELSE 0)
    BY <1>1, <1>3, BothSums
  <2> QED
    BY <1>6, <1>7, <2>1
<1>10. (IF 1 <= r THEN F[w[1]] ELSE 0) + (IF 2 <= r THEN F[w[2]] ELSE 0)
         + (IF 3 <= r THEN F[w[3]] ELSE 0) + (IF 4 <= r THEN F[w[4]] ELSE 0)
        = (IF 1 <= r THEN F[1] ELSE 0) + (IF 2 <= r THEN F[2] ELSE 0)
            + (IF 3 <= r THEN F[3] ELSE 0) + (IF 4 <= r THEN F[4] ELSE 0)
  <2>1. /\ r \in 0 .. 4 /\ \A d \in 1 .. r : w[d] \in 1 .. r
        /\ \A d \in 1 .. r : \A e \in d + 1 .. r : w[d] # w[e]
    BY <1>1, <1>2
  <2> QED
    BY <1>3, <2>1, SumInAnyOrder
<1>11. /\ (1 <= r => F[w[1]] = p[1] * s[1]) /\ (2 <= r => F[w[2]] = p[2] * s[2])
       /\ (3 <= r => F[w[3]] = p[3] * s[3]) /\ (4 <= r => F[w[4]] = p[4] * s[4])
  BY <1>1, <1>8
<1>12. (IF 1 <= r THEN F[w[1]] ELSE 0) + (IF 2 <= r THEN F[w[2]] ELSE 0)
         + (IF 3 <= r THEN F[w[3]] ELSE 0) + (IF 4 <= r THEN F[w[4]] ELSE 0)
        = AtStrides(r, s, p)
  <2>1. /\ (IF 1 <= r THEN F[w[1]] ELSE 0) = (IF 1 <= r THEN p[1] * s[1] ELSE 0)
        /\ (IF 2 <= r THEN F[w[2]] ELSE 0) = (IF 2 <= r THEN p[2] * s[2] ELSE 0)
        /\ (IF 3 <= r THEN F[w[3]] ELSE 0) = (IF 3 <= r THEN p[3] * s[3] ELSE 0)
        /\ (IF 4 <= r THEN F[w[4]] ELSE 0) = (IF 4 <= r THEN p[4] * s[4] ELSE 0)
    BY <1>11, Zenon
  <2> QED
    BY <2>1, Zenon DEF AtStrides
<1> QED
  BY <1>9, <1>10, <1>12 DEF p

-----------------------------------------------------------------------------
(* Nests that walk alike.                                                  *)

(* Two nests make the same steps through the tensors K. *)
SameWalk(l1, l2, K) ==
  /\ Iterations(l1) = Iterations(l2)
  /\ \A k \in K : \A x \in 0 .. Iterations(l1) - 1 : Place(l1, k, x) = Place(l2, k, x)

(* Loop for loop the same. *)
LEMMA AlikeWalk ==
  ASSUME NEW l1, NEW l2, NEW K, IsNest(l1), Len(l2) = Len(l1),
         \A d \in 1 .. Len(l1) : /\ l2[d].count = l1[d].count
                                 /\ \A k \in K : l2[d].step[k] = l1[d].step[k]
  PROVE  IsNest(l2) /\ SameWalk(l1, l2, K)
<1>1. IsNest(l2)
  BY DEF IsNest
<1>2. \A d \in 1 .. 4 : Count(l1, d) = Count(l2, d)
  BY DEF Count
<1>3. \A d \in 1 .. 5 : Inner(l1, d) = Inner(l2, d)
  <2>1. /\ Inner(l1, 5) = 1 /\ Inner(l2, 5) = 1
        /\ \A d \in 1 .. 4 : Inner(l1, d) = Count(l1, d) * Inner(l1, d + 1)
        /\ \A d \in 1 .. 4 : Inner(l2, d) = Count(l2, d) * Inner(l2, d + 1)
    BY <1>1, InnerBlocks DEF Block
  <2>2. Inner(l1, 4) = Inner(l2, 4)
    BY <1>2, <2>1
  <2>3. Inner(l1, 3) = Inner(l2, 3)
    BY <1>2, <2>1, <2>2
  <2>4. Inner(l1, 2) = Inner(l2, 2)
    BY <1>2, <2>1, <2>3
  <2>5. Inner(l1, 1) = Inner(l2, 1)
    BY <1>2, <2>1, <2>4
  <2> QED
    BY <2>1, <2>2, <2>3, <2>4, <2>5
<1>4. ASSUME NEW k \in K, NEW x PROVE Place(l1, k, x) = Place(l2, k, x)
  <2>1. ASSUME NEW d \in 1 .. 4 PROVE Part(l1, k, d, x) = Part(l2, k, d, x)
    <3>1. Inner(l1, d + 1) = Inner(l2, d + 1)
      BY <1>3
    <3>2. Dig(l1, d, x) = Dig(l2, d, x)
      BY <1>2, <3>1, Zenon DEF Dig
    <3>3. Len(l1) \in 0 .. 4
      BY DEF IsNest
    <3>4. d <= Len(l1) => l2[d].step[k] = l1[d].step[k]
      BY <3>3
    <3> QED
      BY <3>2, <3>4, Zenon DEF Part
  <2>2. /\ Part(l1, k, 1, x) = Part(l2, k, 1, x) /\ Part(l1, k, 2, x) = Part(l2, k, 2, x)
        /\ Part(l1, k, 3, x) = Part(l2, k, 3, x) /\ Part(l1, k, 4, x) = Part(l2, k, 4, x)
    BY <2>1
  <2>3. /\ Place(l1, k, x) = Part(l1, k, 1, x) + Part(l1, k, 2, x) + Part(l1, k, 3, x) + Part(l1, k, 4, x)
        /\ Place(l2, k, x) = Part(l2, k, 1, x) + Part(l2, k, 2, x) + Part(l2, k, 3, x) + Part(l2, k, 4, x)
    BY <1>1, PlaceIsSum
  <2> QED
    BY <2>2, <2>3, Zenon
<1> QED
  BY <1>1, <1>3, <1>4 DEF SameWalk, Iterations

(* Loops of a kernel: each has a step in each of the tensors K, and the    *)
(* innermost one goes from element to element.                             *)
NestOver(loops, K) ==
  /\ IsNest(loops) /\ Len(loops) \in 1 .. 4
  /\ \A d \in 1 .. Len(loops) :
       /\ DOMAIN loops[d].step = K
       /\ \A k \in K : loops[d].step[k] \in Int
  /\ \A k \in K : loops[Len(loops)].step[k] = 1

(* What is left of an iteration inside of loop d. *)
LEMMA RestOf ==
  ASSUME NEW loops, IsNest(loops), NEW x \in 0 .. Iterations(loops) - 1, NEW d \in 1 .. 4
  PROVE  /\ x % Inner(loops, d)
              = Dig(loops, d, x) * Inner(loops, d + 1) + (x % Inner(loops, d + 1))
         /\ Dig(loops, d, x) * Inner(loops, d + 1) \in Nat
         /\ x % Inner(loops, d + 1) \in Nat /\ Dig(loops, d, x) \in Nat
<1>1. Block(Count(loops, d), Inner(loops, d + 1), Inner(loops, d))
  BY InnerBlocks
<1>2. x \in Nat
  BY NestIsCounted DEF NestCounts
<1>3. DigitRest(x, Inner(loops, d + 1), Count(loops, d), Inner(loops, d))
  BY <1>1, <1>2, DigitAndRest
<1>4. /\ x % Inner(loops, d)
           = Dig(loops, d, x) * Inner(loops, d + 1) + (x % Inner(loops, d + 1))
      /\ Dig(loops, d, x) * Inner(loops, d + 1) \in Nat
      /\ x % Inner(loops, d + 1) \in 0 .. Inner(loops, d + 1) - 1
      /\ Dig(loops, d, x) \in 0 .. Count(loops, d) - 1
  BY <1>3, Zenon DEF DigitRest, Dig
<1> QED
  BY <1>4

(* Where squashing starts. *)
LEMMA SquashFrom ==
  ASSUME NEW last \in 1 .. 4, NEW J
  PROVE  \E m \in 1 .. last :
           /\ \A d \in m .. last - 1 : J[d]
           /\ m > 1 => ~J[m - 1]
<1> DEFINE g(m) == (\A d \in m .. last - 1 : J[d]) /\ (m > 1 => ~J[m - 1])
<1>1. CASE last = 1
  <2>1. g(1)
    BY <1>1
  <2> QED
    BY <2>1
<1>2. CASE last = 2
  <2>1. J[1] => g(1)
    BY <1>2
  <2>2. ~J[1] => g(2)
    BY <1>2
  <2> QED
    BY <1>2, <2>1, <2>2
<1>3. CASE last = 3
  <2>1. J[2] /\ J[1] => g(1)
    BY <1>3
  <2>2. J[2] /\ ~J[1] => g(2)
    BY <1>3
  <2>3. ~J[2] => g(3)
    BY <1>3
  <2> QED
    BY <1>3, <2>1, <2>2, <2>3
<1>4. CASE last = 4
  <2>1. J[3] /\ J[2] /\ J[1] => g(1)
    BY <1>4
  <2>2. J[3] /\ J[2] /\ ~J[1] => g(2)
    BY <1>4
  <2>3. J[3] /\ ~J[2] => g(3)
    BY <1>4
  <2>4. ~J[3] => g(4)
    BY <1>4
  <2> QED
    BY <1>4, <2>1, <2>2, <2>3, <2>4
<1> QED
  BY <1>1, <1>2, <1>3, <1>4

(* The loops from f on, joined to one. *)
SquashedAt(loops, f) ==
  [d \in 1 .. f |->
     IF d < f \/ f = Len(loops) THEN loops[d]
     ELSE [count |-> Inner(loops, d), step |-> [k \in DOMAIN loops[Len(loops)].step |-> 1]]]

(* Squash joins the loops from some loop on. *)
LEMMA SquashIs ==
  ASSUME NEW loops, Len(loops) \in 1 .. 4
  PROVE  \E f \in 1 .. Len(loops) :
           /\ Squash(loops) = SquashedAt(loops, f)
           /\ \A d \in f .. Len(loops) - 1 : Joined(loops, d)
<1> DEFINE last == Len(loops)
           J == [d \in 1 .. 4 |-> Joined(loops, d)]
           from == CHOOSE m \in 1 .. last :
                     /\ \A d \in m .. last - 1 : Joined(loops, d)
                     /\ m > 1 => ~Joined(loops, m - 1)
<1>1. \E m \in 1 .. last : (\A d \in m .. last - 1 : J[d]) /\ (m > 1 => ~J[m - 1])
  <2> HIDE DEF J, last
  <2> QED
    BY SquashFrom DEF last
<1>2. \E m \in 1 .. last : /\ \A d \in m .. last - 1 : Joined(loops, d)
                           /\ m > 1 => ~Joined(loops, m - 1)
  <2>1. PICK m \in 1 .. last : (\A d \in m .. last - 1 : J[d]) /\ (m > 1 => ~J[m - 1])
    BY <1>1
  <2>2. ASSUME NEW d \in m .. last - 1 PROVE Joined(loops, d)
    <3>1. d \in 1 .. 4
      <4>1. last \in 1 .. 4
        OBVIOUS
      <4> HIDE DEF last
      <4> QED
        BY <4>1
    <3>2. J[d] = Joined(loops, d)
      BY <3>1
    <3> QED
      BY <2>1, <3>2, Zenon
  <2>3. ASSUME m > 1 PROVE ~Joined(loops, m - 1)
    <3>1. m - 1 \in 1 .. 4
      <4>1. last \in 1 .. 4
        OBVIOUS
      <4> HIDE DEF last
      <4> QED
        BY <2>3, <4>1
    <3>2. J[m - 1] = Joined(loops, m - 1)
      BY <3>1
    <3> QED
      BY <2>1, <2>3, <3>2, Zenon
  <2> QED
    BY <2>2, <2>3, Zenon
<1>3. from \in 1 .. last /\ \A d \in from .. last - 1 : Joined(loops, d)
  BY <1>2, Zenon
<1>4. Squash(loops) = SquashedAt(loops, from)
  BY Zenon DEF Squash, SquashedAt
<1> HIDE DEF from
<1> QED
  BY <1>3, <1>4, Zenon

(* The squashed nest counts the same iterations, outside like before.      *)
CountsAlike(loops, f, sq) ==
  /\ IsNest(sq) /\ Len(sq) = f
  /\ \A d \in 1 .. f - 1 : sq[d] = loops[d] /\ Count(sq, d) = Count(loops, d)
  /\ sq[f] = [count |-> Inner(loops, f), step |-> [k \in DOMAIN loops[Len(loops)].step |-> 1]]
  /\ Count(sq, f) = Inner(loops, f)
  /\ \A d \in 1 .. f : Inner(sq, d) = Inner(loops, d)
  /\ Inner(sq, f + 1) = 1

(* Joined loops have the iterations of the loops they stand for. *)
LEMMA SquashedCounts ==
  ASSUME NEW loops, IsNest(loops), NEW f \in 1 .. 4, f < Len(loops),
         NEW sq, sq = SquashedAt(loops, f)
  PROVE  CountsAlike(loops, f, sq)
<1> DEFINE last == Len(loops)
           B(d) == Inner(loops, d)
           S(d) == Inner(sq, d)
           one == [k \in DOMAIN loops[last].step |-> 1]
<1>1. last \in 1 .. 4 /\ f < last /\ f # last
  BY DEF IsNest
<1>2. /\ B(5) = 1
      /\ \A d \in 1 .. 4 : Block(Count(loops, d), B(d + 1), B(d))
  BY InnerBlocks
<1>3. \A d \in 1 .. 5 : B(d) \in Nat \ {0}
  <2>1. /\ Block(Count(loops, 1), B(1 + 1), B(1)) /\ Block(Count(loops, 2), B(2 + 1), B(2))
        /\ Block(Count(loops, 3), B(3 + 1), B(3)) /\ Block(Count(loops, 4), B(4 + 1), B(4))
    BY <1>2
  <2>2. B(1) \in Nat \ {0} /\ B(2) \in Nat \ {0} /\ B(3) \in Nat \ {0} /\ B(4) \in Nat \ {0}
        /\ B(5) \in Nat \ {0}
    BY <1>2, <2>1 DEF Block
  <2> HIDE DEF B
  <2> QED
    BY <2>2
<1>4. Len(sq) = f
  <2>1. sq = [d \in 1 .. f |-> sq[d]] /\ f \in Nat
    BY DEF SquashedAt
  <2> QED
    BY <2>1, LenIs
<1>5. \A d \in 1 .. f - 1 : sq[d] = loops[d]
  <2> TAKE d \in 1 .. f - 1
  <2>1. d \in 1 .. f /\ d < f
    OBVIOUS
  <2> QED
    BY <2>1, Zenon DEF SquashedAt
<1>6. sq[f] = [count |-> B(f), step |-> one]
  <2>1. f \in 1 .. f /\ ~(f < f)
    OBVIOUS
  <2> QED
    BY <1>1, <2>1, Zenon DEF SquashedAt
<1>7. sq[f].count = B(f)
  BY <1>6
<1>8. IsNest(sq)
  <2>1. ASSUME NEW d \in 1 .. f PROVE sq[d].count \in Nat \ {0}
    <3>1. CASE d < f
      <4>1. d \in 1 .. f - 1 /\ d \in 1 .. last
        BY <1>1, <3>1
      <4> HIDE DEF last
      <4>2. loops[d].count \in Nat \ {0}
        BY <4>1 DEF IsNest, last
      <4> QED
        BY <1>5, <4>1, <4>2
    <3>2. CASE d = f
      <4> HIDE DEF B
      <4> QED
        BY <1>3, <1>7, <3>2
    <3> QED
      BY <3>1, <3>2
  <2> QED
    BY <1>4, <2>1 DEF IsNest
<1>9. \A d \in 1 .. f - 1 : Count(sq, d) = Count(loops, d)
  <2> TAKE d \in 1 .. f - 1
  <2>1. d \in 1 .. Len(sq) /\ d \in 1 .. last
    BY <1>1, <1>4
  <2> QED
    BY <1>5, <2>1, Zenon DEF Count
<1>10. Count(sq, f) = B(f)
  <2>1. f \in 1 .. Len(sq)
    BY <1>4
  <2> QED
    BY <1>7, <2>1, Zenon DEF Count
<1>11. /\ S(5) = 1
       /\ \A d \in 1 .. 4 : S(d) = Count(sq, d) * S(d + 1)
       /\ \A d \in 1 .. 4 : B(d) = Count(loops, d) * B(d + 1)
  BY <1>2, <1>8, InnerBlocks DEF Block
<1>12. \A d \in 1 .. 4 : d > f => Count(sq, d) = 1
  BY <1>4 DEF Count
<1> HIDE DEF B, S, last, one
<1>13. S(f + 1) = 1
  <2>1. /\ S(4) = Count(sq, 4) * S(5) /\ S(3) = Count(sq, 3) * S(4) /\ S(2) = Count(sq, 2) * S(3)
    BY <1>11
  <2>2. CASE f = 1
    BY <1>11, <1>12, <2>1, <2>2
  <2>3. CASE f = 2
    BY <1>11, <1>12, <2>1, <2>3
  <2>4. CASE f = 3
    BY <1>11, <1>12, <2>1, <2>4
  <2> QED
    BY <1>1, <2>2, <2>3, <2>4
<1>14. S(f) = B(f)
  <2>1. S(f) = B(f) * S(f + 1) /\ B(f) \in Nat
    BY <1>3, <1>10, <1>11
  <2> QED
    BY <1>13, <2>1
<1>15. \A d \in 1 .. f - 1 : S(d + 1) = B(d + 1) => S(d) = B(d)
  <2> TAKE d \in 1 .. f - 1
  <2>1. d \in 1 .. 4
    OBVIOUS
  <2> QED
    BY <1>9, <1>11, <2>1
<1>16. \A d \in 1 .. f : S(d) = B(d)
  <2>1. CASE f = 1
    BY <1>14, <2>1
  <2>2. CASE f = 2
    BY <1>14, <1>15, <2>2
  <2>3. CASE f = 3
    <3>1. S(2) = B(2)
      BY <1>14, <1>15, <2>3
    <3>2. S(1) = B(1)
      BY <1>15, <2>3, <3>1
    <3> QED
      BY <1>14, <2>3, <3>1, <3>2
  <2> QED
    BY <1>1, <2>1, <2>2, <2>3
<1> QED
  BY <1>4, <1>5, <1>6, <1>8, <1>9, <1>10, <1>13, <1>16, Zenon DEF CountsAlike, B, S, one, last
(* Squashed loops walk through the tensors like the loops they are made    *)
(* of: if the rows follow each other, what is left of an iteration is the  *)
(* number of the element.                                                  *)
LEMMA SquashWalks ==
  ASSUME NEW loops, NEW K, NestOver(loops, K)
  PROVE  /\ NestOver(Squash(loops), K)
         /\ SameWalk(loops, Squash(loops), K)
<1> DEFINE last == Len(loops)
           sq == Squash(loops)
<1>1. /\ IsNest(loops) /\ last \in 1 .. 4
      /\ \A d \in 1 .. last : DOMAIN loops[d].step = K /\ \A k \in K : loops[d].step[k] \in Int
      /\ \A k \in K : loops[last].step[k] = 1
  BY Zenon DEF NestOver
<1>2. PICK f \in 1 .. last : /\ sq = SquashedAt(loops, f)
                             /\ \A d \in f .. last - 1 : Joined(loops, d)
  BY <1>1, SquashIs
<1> HIDE DEF sq, last
<1>3. CASE f = last
  <2>1. sq = [d \in 1 .. last |-> loops[d]]
    <3>1. sq = [d \in 1 .. last |-> IF d < f \/ f = last THEN loops[d]
                 ELSE [count |-> Inner(loops, d), step |-> [k \in DOMAIN loops[last].step |-> 1]]]
      BY <1>2, <1>3, Zenon DEF SquashedAt, last
    <3> QED
      BY <1>3, <3>1
  <2>2. Len(sq) = last
    <3>1. last \in Nat /\ sq = [d \in 1 .. last |-> sq[d]]
      BY <1>1, <2>1
    <3> QED
      BY <3>1, LenIs
  <2>3. \A d \in 1 .. last : sq[d] = loops[d]
    BY <2>1
  <2>4. Len(sq) = Len(loops) /\ \A d \in 1 .. Len(loops) : sq[d] = loops[d]
    BY <2>2, <2>3 DEF last
  <2>5. IsNest(sq) /\ SameWalk(loops, sq, K)
    BY <1>1, <2>4, AlikeWalk
  <2>6. NestOver(sq, K)
    <3>1. last \in 1 .. last
      BY <1>1
    <3> QED
      BY <1>1, <2>2, <2>3, <2>5, <3>1, Zenon DEF NestOver
  <2> QED
    BY <2>5, <2>6 DEF sq
<1>4. CASE f # last
  <2>1. f \in 1 .. 4 /\ f < last /\ f <= 3
    BY <1>1, <1>4
  <2>2. /\ IsNest(sq) /\ Len(sq) = f
        /\ \A d \in 1 .. f - 1 : sq[d] = loops[d] /\ Count(sq, d) = Count(loops, d)
        /\ sq[f] = [count |-> Inner(loops, f), step |-> [k \in DOMAIN loops[last].step |-> 1]]
        /\ Count(sq, f) = Inner(loops, f)
        /\ \A d \in 1 .. f : Inner(sq, d) = Inner(loops, d)
        /\ Inner(sq, f + 1) = 1
    <3>1. CountsAlike(loops, f, sq)
      BY <1>1, <1>2, <2>1, SquashedCounts DEF last
    <3> QED
      BY <3>1, Zenon DEF CountsAlike, last
  <2>3. DOMAIN sq[f].step = K /\ \A k \in K : sq[f].step[k] = 1
    <3>1. DOMAIN loops[last].step = K
      BY <1>1
    <3>2. sq[f].step = [k \in K |-> 1]
      BY <2>2, <3>1
    <3> QED
      BY <3>2
  <2>4. NestOver(sq, K)
    <3>1. ASSUME NEW d \in 1 .. f
          PROVE  DOMAIN sq[d].step = K /\ \A k \in K : sq[d].step[k] \in Int
      <4>1. CASE d = f
        BY <2>3, <4>1
      <4>2. CASE d # f
        <5>1. d \in 1 .. f - 1 /\ d \in 1 .. last
          BY <1>1, <2>1, <4>2
        <5>2. sq[d] = loops[d]
          BY <2>2, <5>1
        <5> QED
          BY <1>1, <5>1, <5>2, Zenon
      <4> QED
        BY <4>1, <4>2
    <3> QED
      BY <2>1, <2>2, <2>3, <3>1, Zenon DEF NestOver
  <2>5. Iterations(sq) = Iterations(loops)
    BY <2>1, <2>2 DEF Iterations
  <2>6. ASSUME NEW k \in K, NEW x \in 0 .. Iterations(loops) - 1
        PROVE  Place(loops, k, x) = Place(sq, k, x)
    <3> DEFINE P(d) == Part(loops, k, d, x)
               Q(d) == Part(sq, k, d, x)
               B(d) == Inner(loops, d)
               R(d) == x % B(d)
               E(d) == Dig(loops, d, x) * B(d + 1)
    <3>1. x \in Nat
      BY <1>1, NestIsCounted DEF NestCounts
    <3>2. B(5) = 1 /\ R(5) = 0
      BY <1>1, <3>1, InnerBlocks
    <3>3. ASSUME NEW d \in 1 .. 4
          PROVE  R(d) = E(d) + R(d + 1) /\ E(d) \in Nat /\ R(d + 1) \in Nat
      BY <1>1, RestOf
    <3>4. ASSUME NEW d \in 1 .. 4, d >= f
          PROVE  P(d) = E(d)
      <4>1. CASE d < last
        <5>1. d \in f .. last - 1 /\ d \in 1 .. last /\ d <= Len(loops)
          BY <1>1, <2>1, <3>4, <4>1 DEF last
        <5>2. loops[d].step[k] = B(d + 1)
          <6>1. Joined(loops, d) /\ DOMAIN loops[d].step = K
            BY <1>1, <1>2, <5>1
          <6> QED
            BY <6>1, Zenon DEF Joined
        <5> QED
          BY <5>1, <5>2, Zenon DEF Part
      <4>2. CASE d = last
        <5>1. loops[d].step[k] = 1 /\ d <= Len(loops)
          BY <1>1, <4>2 DEF last
        <5>2. B(d + 1) = 1
          <6>1. CASE d = 4
            BY <3>2, <6>1
          <6>2. CASE d < 4
            <7>1. d + 1 \in 1 .. 4 /\ d + 2 \in 1 .. 5 /\ (d + 1) + 1 = d + 2
              BY <6>2
            <7>2. ASSUME NEW e \in 1 .. 4, e > last PROVE B(e) = B(e + 1)
              <8>1. Count(loops, e) = 1
                BY <1>1, <7>2 DEF Count, last
              <8>2. Block(Count(loops, e), B(e + 1), B(e))
                BY <1>1, InnerBlocks
              <8> HIDE DEF B
              <8> QED
                BY <8>1, <8>2 DEF Block
            <7> HIDE DEF B
            <7>3. CASE d = 3
              <8>1. B(4) = B(4 + 1)
                BY <4>2, <7>2, <7>3
              <8> QED
                BY <3>2, <7>3, <8>1
            <7>4. CASE d = 2
              <8>1. B(4) = B(4 + 1) /\ B(3) = B(3 + 1)
                BY <4>2, <7>2, <7>4
              <8> QED
                BY <3>2, <7>4, <8>1
            <7>5. CASE d = 1
              <8>1. B(4) = B(4 + 1) /\ B(3) = B(3 + 1) /\ B(2) = B(2 + 1)
                BY <4>2, <7>2, <7>5
              <8> QED
                BY <3>2, <7>5, <8>1
            <7> QED
              BY <6>2, <7>3, <7>4, <7>5
          <6> QED
            BY <6>1, <6>2
        <5> HIDE DEF B
        <5>3. P(d) = Dig(loops, d, x) * 1 /\ E(d) = Dig(loops, d, x) * 1
          BY <5>1, <5>2, Zenon DEF Part
        <5> QED
          BY <5>3
      <4>3. CASE d > last
        <5>1. ~(d <= Len(loops)) /\ Count(loops, d) = 1
          BY <1>1, <4>3 DEF last, Count
        <5>2. Dig(loops, d, x) \in 0 .. 1 - 1
          <6>1. NestCounts(loops)
            BY <1>1, NestIsCounted
          <6> QED
            BY <5>1, <6>1, Zenon DEF NestCounts
        <5>3. B(d + 1) \in Nat
          <6>1. Block(Count(loops, d), B(d + 1), B(d))
            BY <1>1, InnerBlocks
          <6> QED
            BY <6>1 DEF Block
        <5> HIDE DEF B
        <5>4. E(d) = 0
          BY <5>2, <5>3
        <5>5. P(d) = 0
          BY <5>1, Zenon DEF Part
        <5> QED
          BY <5>4, <5>5
      <4> QED
        BY <1>1, <4>1, <4>2, <4>3
    <3>5. \A d \in 1 .. 4 : d < f => P(d) = Q(d)
      <4> SUFFICES ASSUME NEW d \in 1 .. 4, d < f PROVE P(d) = Q(d)
        OBVIOUS
      <4>1. d \in 1 .. f - 1 /\ d + 1 \in 1 .. f /\ d <= Len(loops) /\ d <= Len(sq)
        BY <1>1, <2>1, <2>2 DEF last
      <4>2. /\ sq[d] = loops[d] /\ Count(sq, d) = Count(loops, d)
            /\ Inner(sq, d + 1) = Inner(loops, d + 1)
        BY <2>2, <4>1
      <4> QED
        BY <4>1, <4>2, Zenon DEF Part, Dig
    <3>6. Q(f) = R(f)
      <4>1. f <= Len(sq) /\ f \in 1 .. f
        BY <2>1, <2>2
      <4>2. Dig(sq, f, x) = (x \div 1) % B(f)
        BY <2>2, Zenon DEF Dig
      <4>3. (x \div 1) = x
        BY <3>1
      <4>4. Q(f) = (x % B(f)) * 1
        BY <2>3, <4>1, <4>2, <4>3, Zenon DEF Part
      <4>5. x % B(f) \in Int
        <5>1. Block(Count(loops, f), B(f + 1), B(f))
          BY <1>1, <2>1, InnerBlocks
        <5>2. B(f) \in Nat \ {0}
          BY <5>1 DEF Block
        <5> HIDE DEF B
        <5> QED
          BY <3>1, <5>2
      <4> HIDE DEF B
      <4> QED
        BY <4>4, <4>5
    <3>7. \A d \in 1 .. 4 : d > f => Q(d) = 0
      BY <2>2 DEF Part
    <3>8. /\ Place(loops, k, x) = P(1) + P(2) + P(3) + P(4)
          /\ Place(sq, k, x) = Q(1) + Q(2) + Q(3) + Q(4)
      BY <1>1, <2>2, PlaceIsSum
    <3>9. \A d \in 1 .. 4 : d < f => P(d) \in Int
      <4> SUFFICES ASSUME NEW d \in 1 .. 4, d < f PROVE P(d) \in Int
        OBVIOUS
      <4>1. d \in 1 .. last /\ d <= Len(loops)
        BY <1>1, <2>1 DEF last
      <4>2. loops[d].step[k] \in Int /\ Dig(loops, d, x) \in Nat
        BY <1>1, <4>1, RestOf
      <4>3. P(d) = Dig(loops, d, x) * loops[d].step[k]
        BY <4>1, Zenon DEF Part
      <4> QED
        BY <4>2, <4>3
    <3>10. /\ R(1) = E(1) + R(2) /\ R(2) = E(2) + R(3) /\ R(3) = E(3) + R(4) /\ R(4) = E(4) + R(5)
           /\ E(1) \in Nat /\ E(2) \in Nat /\ E(3) \in Nat /\ E(4) \in Nat
      <4>1. /\ R(1) = E(1) + R(1 + 1) /\ R(2) = E(2) + R(2 + 1)
            /\ R(3) = E(3) + R(3 + 1) /\ R(4) = E(4) + R(4 + 1)
            /\ E(1) \in Nat /\ E(2) \in Nat /\ E(3) \in Nat /\ E(4) \in Nat
        <5> HIDE DEF R, E
        <5> QED
          BY <3>3
      <4> HIDE DEF R, E
      <4> QED
        BY <4>1
    <3> HIDE DEF P, Q, R, E
    <3>11. CASE f = 1
      <4>1. P(1) = E(1) /\ P(2) = E(2) /\ P(3) = E(3) /\ P(4) = E(4)
        BY <3>4, <3>11
      <4>2. Q(1) = R(1) /\ Q(2) = 0 /\ Q(3) = 0 /\ Q(4) = 0
        BY <3>6, <3>7, <3>11
      <4> QED
        BY <3>2, <3>8, <3>10, <4>1, <4>2
    <3>12. CASE f = 2
      <4>1. P(2) = E(2) /\ P(3) = E(3) /\ P(4) = E(4) /\ P(1) = Q(1) /\ P(1) \in Int
        BY <3>4, <3>5, <3>9, <3>12
      <4>2. Q(2) = R(2) /\ Q(3) = 0 /\ Q(4) = 0
        BY <3>6, <3>7, <3>12
      <4> QED
        BY <3>2, <3>8, <3>10, <4>1, <4>2
    <3>13. CASE f = 3
      <4>1. /\ P(3) = E(3) /\ P(4) = E(4) /\ P(1) = Q(1) /\ P(1) \in Int
            /\ P(2) = Q(2) /\ P(2) \in Int
        BY <3>4, <3>5, <3>9, <3>13
      <4>2. Q(3) = R(3) /\ Q(4) = 0
        BY <3>6, <3>7, <3>13
      <4> QED
        BY <3>2, <3>8, <3>10, <4>1, <4>2
    <3> QED
      BY <2>1, <3>11, <3>12, <3>13
  <2> QED
    BY <2>4, <2>5, <2>6, Zenon DEF SameWalk, sq
<1> QED
  BY <1>3, <1>4

(* Pointers that are incremented in the innermost loop go the same way.    *)
LEMMA AdjacentWalks ==
  ASSUME NEW loops, NEW K, NestOver(loops, K),
         DOMAIN loops = 1 .. Len(loops), \A d \in 1 .. Len(loops) : {"count", "step"} \subseteq DOMAIN loops[d]
  PROVE  /\ DOMAIN Adjacent(loops) = 1 .. Len(loops) /\ Len(Adjacent(loops)) = Len(loops)
         /\ \A d \in 1 .. Len(loops) : /\ Adjacent(loops)[d].count = loops[d].count
                                       /\ \A k \in K : Adjacent(loops)[d].step[k] = loops[d].step[k]
         /\ IsNest(Adjacent(loops)) /\ SameWalk(loops, Adjacent(loops), K)
<1> DEFINE last == Len(loops)
           ad == Adjacent(loops)
           one == [k \in K |-> 1]
<1>1. /\ IsNest(loops) /\ last \in 1 .. 4 /\ last \in 1 .. last
      /\ DOMAIN loops[last].step = K
      /\ \A k \in K : loops[last].step[k] = 1
  BY DEF NestOver
<1>2. ad = [loops EXCEPT ![last] = [loops[last] EXCEPT !.step = one]]
  BY <1>1 DEF Adjacent
<1> HIDE DEF ad
<1>3. DOMAIN ad = 1 .. last /\ ad = [d \in 1 .. last |-> ad[d]]
  BY <1>2
<1>4. Len(ad) = last
  BY <1>1, <1>3, LenIs
<1>5. ad[last].count = loops[last].count /\ ad[last].step = one
  <2>1. ad[last] = [loops[last] EXCEPT !.step = one]
    BY <1>1, <1>2
  <2> HIDE DEF one
  <2> QED
    BY <1>1, <2>1
<1>6. \A d \in 1 .. last : d # last => ad[d] = loops[d]
  BY <1>2
<1>7. \A d \in 1 .. last : /\ ad[d].count = loops[d].count
                           /\ \A k \in K : ad[d].step[k] = loops[d].step[k]
  <2> SUFFICES ASSUME NEW d \in 1 .. last
               PROVE  /\ ad[d].count = loops[d].count
                      /\ \A k \in K : ad[d].step[k] = loops[d].step[k]
    OBVIOUS
  <2>1. CASE d = last
    <3>1. \A k \in K : one[k] = 1
      OBVIOUS
    <3> HIDE DEF one
    <3> QED
      BY <1>1, <1>5, <2>1, <3>1, Zenon
  <2>2. CASE d # last
    BY <1>6, <2>2, Zenon
  <2> QED
    BY <2>1, <2>2
<1>8. IsNest(ad) /\ SameWalk(loops, ad, K)
  <2>1. Len(ad) = Len(loops)
    BY <1>4
  <2>2. \A d \in 1 .. Len(loops) : /\ ad[d].count = loops[d].count
                                   /\ \A k \in K : ad[d].step[k] = loops[d].step[k]
    BY <1>7
  <2> QED
    BY <1>1, <2>1, <2>2, AlikeWalk
<1> QED
  BY <1>3, <1>4, <1>7, <1>8 DEF ad

-----------------------------------------------------------------------------
(* Calls.                                                                  *)

(* The descriptors have the fields the kernels use, and the products that  *)
(* the checks compute fit 32 bits.  The parameters that permute copies are *)
(* not kept among the elements of the result.                              *)
SizedCall(c) ==
  /\ Descriptor(c.in1) /\ Descriptor(c.in2) /\ Descriptor(c.out)
  /\ {"rank", "shape", "mem_stride", "capacity", "elem", "dim", "params"} \subseteq DOMAIN c.out
  /\ {"rank", "shape", "mem_stride"} \subseteq DOMAIN c.in1
  /\ NoWrap(c.in1) /\ NoWrap(c.in2) /\ NoWrap(Strided4(c, Filled(c)))
  /\ c.kind = "permute" => c.out.params # c.buffer.out

(* The kind of a call, but that a slope of the whole tensor makes prelu    *)
(* leaky.                                                                  *)
LEMMA Kinded ==
  ASSUME NEW c \in Calls
  PROVE  /\ Kind(c) \in Kinds
         /\ Kind(c) = "eltwise" => c.kind = "eltwise"
         /\ Kind(c) = "relu" => c.kind = "relu"
         /\ Kind(c) = "lut" => c.kind = "lut"
         /\ Kind(c) = "leaky" => c.kind = "leaky" \/ (c.kind = "prelu" /\ c.axis = 0)
         /\ Kind(c) = "prelu" => c.kind = "prelu" /\ c.axis # 0
         /\ Kind(c) = "softmax" => c.kind = "softmax"
         /\ Kind(c) = "l2" => c.kind = "l2"
         /\ Kind(c) = "permute" => c.kind = "permute"
BY CallsAssumption DEF Kind, Kinds

(* The output descriptor that the kernel fills in. *)
LEMMA FilledIs ==
  ASSUME NEW c \in Calls, SizedCall(c)
  PROVE  /\ Filled(c).mem_stride = c.out.mem_stride
         /\ Filled(c).capacity = c.out.capacity /\ Filled(c).elem = c.out.elem
         /\ Filled(c).params = c.out.params
         /\ {"rank", "shape", "mem_stride", "dim", "params"} \subseteq DOMAIN Filled(c)
         /\ Kind(c) = "permute" =>
              /\ Filled(c).rank = c.in1.rank
              /\ Filled(c).shape = [d \in 1 .. MaxRank |->
                                      IF d <= c.in1.rank THEN c.in1.shape[c.perm[d]] ELSE 1]
         /\ Kind(c) # "permute" =>
              LET from == IF Kind(c) = "eltwise" /\ ElemNum(c.in1) <= ElemNum(c.in2)
                          THEN c.in2 ELSE c.in1
              IN  /\ Filled(c).rank = from.rank
                  /\ Filled(c).shape = [d \in 1 .. MaxRank |->
                                          IF d <= from.rank THEN from.shape[d] ELSE c.out.shape[d]]
<1>1. {"rank", "shape", "mem_stride", "capacity", "elem", "dim", "params"} \subseteq DOMAIN c.out
  BY DEF SizedCall
<1>2. CASE Kind(c) = "permute"
  <2> DEFINE turned == [d \in 1 .. MaxRank |->
                          IF d <= c.in1.rank THEN c.in1.shape[c.perm[d]] ELSE 1]
  <2>1. Filled(c) = [c.out EXCEPT !.rank = c.in1.rank, !.shape = turned]
    BY <1>2 DEF Filled
  <2> HIDE DEF turned
  <2>2. /\ Filled(c).mem_stride = c.out.mem_stride
        /\ Filled(c).capacity = c.out.capacity /\ Filled(c).elem = c.out.elem
        /\ Filled(c).params = c.out.params
        /\ {"rank", "shape", "mem_stride", "dim", "params"} \subseteq DOMAIN Filled(c)
        /\ Filled(c).rank = c.in1.rank /\ Filled(c).shape = turned
    BY <1>1, <2>1
  <2> QED
    BY <1>2, <2>2 DEF turned
<1>3. CASE Kind(c) # "permute"
  <2> DEFINE from == IF Kind(c) = "eltwise" /\ ElemNum(c.in1) <= ElemNum(c.in2)
                     THEN c.in2 ELSE c.in1
             shaped == [d \in 1 .. MaxRank |->
                          IF d <= from.rank THEN from.shape[d] ELSE c.out.shape[d]]
  <2>1. Filled(c) = [c.out EXCEPT !.rank = from.rank, !.shape = shaped]
    BY <1>1, <1>3, Zenon DEF Filled
  <2> HIDE DEF shaped, from
  <2>2. /\ Filled(c).mem_stride = c.out.mem_stride
        /\ Filled(c).capacity = c.out.capacity /\ Filled(c).elem = c.out.elem
        /\ Filled(c).params = c.out.params
        /\ {"rank", "shape", "mem_stride", "dim", "params"} \subseteq DOMAIN Filled(c)
        /\ Filled(c).rank = from.rank /\ Filled(c).shape = shaped
    BY <1>1, <2>1
  <2> QED
    BY <1>3, <2>2, Zenon DEF from, shaped
<1> QED
  BY <1>2, <1>3

(* The output as the kernel walks through it. *)
OutFits(c, o, oo) ==
  /\ Descriptor(oo) /\ CheckLayout(oo) = "OK" /\ NoWrap(oo)
  /\ oo.rank = o.rank /\ oo.shape = o.shape
  /\ oo.capacity = c.out.capacity /\ oo.elem = c.out.elem
  /\ o.rank \in 1 .. 4 /\ oo.mem_stride[o.rank] = 1
  /\ \A d \in 1 .. o.rank : o.shape[d] \in Nat \ {0} /\ oo.mem_stride[d] \in Nat \ {0}

(* The order that permute accepts. *)
Reorders(c) ==
  /\ c.in1.rank \in 0 .. 4
  /\ \A d \in 1 .. c.in1.rank : c.perm[d] \in 1 .. c.in1.rank
  /\ \A d \in 1 .. c.in1.rank : \A e \in d + 1 .. c.in1.rank : c.perm[d] # c.perm[e]

(* mli_chk_permute lets only orders of the dimensions pass. *)
LEMMA OrderAccepted ==
  ASSUME NEW c \in Calls, Kind(c) = "permute", Descriptor(c.in1), Check(c) = "OK"
  PROVE  Reorders(c)
<1>1. CheckPermute(c) = "OK"
  BY Kinded DEF Check
<1>2. /\ CheckTensor(c.in1) = "OK"
      /\ ~(\E d \in Dims(c.in1) :
             \/ c.perm[d] > c.in1.rank
             \/ \E e \in d + 1 .. c.in1.rank : c.perm[d] = c.perm[e])
  BY <1>1 DEF CheckPermute
<1>3. c.in1.rank \in 0 .. 4
  BY <1>2, TensorHasLayout, Accepted DEF MaxRank
<1>4. \A d \in 1 .. c.in1.rank : c.perm[d] \in 1 .. c.in1.rank
  <2> TAKE d \in 1 .. c.in1.rank
  <2>1. c.perm[d] \in Nat \ {0} /\ ~(c.perm[d] > c.in1.rank)
    BY <1>2, CallsAssumption DEF Dims
  <2> QED BY <1>3, <2>1
<1> QED
  BY <1>2, <1>3, <1>4 DEF Reorders, Dims

(* The output descriptor passes the checks of a tensor, with strides as    *)
(* given or computed.                                                      *)
LEMMA OutputFits ==
  ASSUME NEW c \in Calls, SizedCall(c), Documented(c), Check(c) = "OK"
  PROVE  OutFits(c, Filled(c), Strided4(c, Filled(c)))
<1> DEFINE o == Filled(c)
           oo == Strided4(c, Filled(c))
<1>1. /\ oo.rank > 0 /\ CheckLayout(oo) = "OK" /\ Innermost(oo) /\ NoWrap(oo)
  BY DEF Documented, SizedCall
<1>2. /\ oo.rank = o.rank /\ oo.shape = o.shape /\ oo.capacity = o.capacity /\ oo.elem = o.elem
      /\ oo.mem_stride = IF Kind(c) = "permute" THEN Increments(o) ELSE o.mem_stride
  <2>1. {"rank", "shape", "mem_stride", "dim", "params"} \subseteq DOMAIN o
    BY FilledIs
  <2> DEFINE inc == Increments(o)
  <2>2. CASE Kind(c) = "permute"
    <3>1. oo = [o EXCEPT !.mem_stride = inc]
      BY <2>2 DEF Strided4
    <3> HIDE DEF inc, o, oo
    <3> QED
      BY <2>1, <2>2, <3>1 DEF inc
  <2>3. CASE Kind(c) # "permute"
    <3>1. oo = o
      BY <2>3 DEF Strided4
    <3> QED
      BY <2>3, <3>1, Zenon
  <2> QED
    BY <2>2, <2>3
<1>3. /\ o.mem_stride = c.out.mem_stride /\ o.capacity = c.out.capacity /\ o.elem = c.out.elem
  BY FilledIs
<1>4. /\ c.in1.rank \in Nat /\ c.in2.rank \in Nat
      /\ c.in1.shape \in [1 .. 4 -> Nat] /\ c.in2.shape \in [1 .. 4 -> Nat]
      /\ c.out.shape \in [1 .. 4 -> Nat] /\ c.out.mem_stride \in [1 .. 4 -> Int]
      /\ c.out.capacity \in Nat /\ c.out.elem \in Nat \ {0}
  BY DEF SizedCall, Descriptor, MaxRank
<1> HIDE DEF o, oo
<1>5. oo.rank \in 0 .. 4 /\ o.rank \in 1 .. 4
  <2>1. o.rank \in Nat
    <3>1. CASE Kind(c) = "permute"
      BY <1>4, <3>1, FilledIs DEF o
    <3>2. CASE Kind(c) # "permute"
      <4>1. o.rank = c.in1.rank \/ o.rank = c.in2.rank
        BY <3>2, FilledIs DEF o
      <4> QED
        BY <1>4, <4>1
    <3> QED
      BY <3>1, <3>2
  <2>2. oo.rank <= 4
    BY <1>1, Zenon DEF CheckLayout, Shaped, MaxRank
  <2> QED
    BY <1>1, <1>2, <2>1, <2>2
<1>6. \A d \in 1 .. o.rank : oo.mem_stride[d] > 0 /\ oo.shape[d] > 0
  BY <1>1, <1>2, Zenon DEF CheckLayout, Shaped, Dims
<1>7. o.shape \in [1 .. 4 -> Nat]
  <2>1. CASE Kind(c) = "permute"
    <3>1. o.rank = c.in1.rank
          /\ o.shape = [d \in 1 .. 4 |-> IF d <= c.in1.rank THEN c.in1.shape[c.perm[d]] ELSE 1]
      BY <2>1, FilledIs DEF o, MaxRank
    <3>2. Reorders(c)
      BY <2>1, OrderAccepted DEF SizedCall
    <3>3. ASSUME NEW d \in 1 .. 4
          PROVE  (IF d <= c.in1.rank THEN c.in1.shape[c.perm[d]] ELSE 1) \in Nat
      <4>1. ASSUME d <= c.in1.rank
            PROVE  c.perm[d] \in 1 .. 4
        <5>1. c.in1.rank \in 0 .. 4 /\ \A e \in 1 .. c.in1.rank : c.perm[e] \in 1 .. c.in1.rank
          BY <3>2, Zenon DEF Reorders
        <5>2. c.perm[d] \in 1 .. c.in1.rank
          BY <4>1, <5>1
        <5> QED
          BY <5>1, <5>2
      <4> QED
        BY <1>4, <4>1
    <3> QED
      BY <3>1, <3>3
  <2>2. CASE Kind(c) # "permute"
    <3>1. PICK from \in {c.in1, c.in2} :
            o.shape = [d \in 1 .. 4 |-> IF d <= from.rank THEN from.shape[d] ELSE c.out.shape[d]]
      BY <2>2, FilledIs DEF o, MaxRank
    <3>2. from.shape \in [1 .. 4 -> Nat]
      BY <1>4
    <3> QED
      BY <1>4, <3>1, <3>2
  <2> QED
    BY <2>1, <2>2
<1>8. oo.mem_stride \in [1 .. 4 -> Int]
  <2>1. o.mem_stride \in [1 .. 4 -> Int]
    BY <1>3, <1>4
  <2>2. Increments(o) \in [1 .. 4 -> Int]
    <3> DEFINE none == <<0, 0, 0, 0>>
    <3>0. none \in [1 .. MaxRank -> Int] /\ o.shape \in [1 .. MaxRank -> Nat]
          /\ o.rank \in 0 .. MaxRank
      BY <1>5, <1>7 DEF MaxRank
    <3> HIDE DEF none
    <3>9. Strides(none, o.shape, o.rank) \in [1 .. MaxRank -> Int]
      BY <3>0, StridesAreInts, Zenon
    <3>1. Strides(<<0, 0, 0, 0>>, o.shape, o.rank) \in [1 .. 4 -> Int]
      BY <3>9 DEF none, MaxRank
    <3> QED
      BY <2>1, <3>1 DEF Increments
  <2> QED
    BY <1>2, <2>1, <2>2
<1>9. Descriptor(oo)
  BY <1>2, <1>3, <1>4, <1>5, <1>7, <1>8 DEF Descriptor, MaxRank
<1>10. \A d \in 1 .. o.rank : o.shape[d] \in Nat \ {0} /\ oo.mem_stride[d] \in Nat \ {0}
  <2> SUFFICES ASSUME NEW d \in 1 .. o.rank
               PROVE  o.shape[d] \in Nat \ {0} /\ oo.mem_stride[d] \in Nat \ {0}
    OBVIOUS
  <2>1. d \in 1 .. 4
    BY <1>5
  <2>2. o.shape[d] \in Nat /\ oo.mem_stride[d] \in Int
    BY <1>7, <1>8, <2>1
  <2>3. o.shape[d] > 0 /\ oo.mem_stride[d] > 0
    BY <1>2, <1>6
  <2> QED
    BY <2>2, <2>3
<1>11. oo.mem_stride[o.rank] = 1
  BY <1>1, <1>2 DEF Innermost
<1> QED
  BY <1>1, <1>2, <1>3, <1>5, <1>9, <1>10, <1>11, Zenon DEF OutFits, o, oo

(* A full operand has the shape of the result. *)
Alike(t, o) ==
  /\ CheckLayout(t) = "OK" /\ t.rank = o.rank /\ t.mem_stride[t.rank] = 1
  /\ \A d \in 1 .. o.rank : t.shape[d] = o.shape[d]

(* Only a shape of ones has one element. *)
LEMMA ElemNumIs ==
  ASSUME NEW t, Descriptor(t), CheckLayout(t) = "OK"
  PROVE  /\ ElemNum(t) \in Nat \ {0}
         /\ ElemNum(t) = 1 => \A d \in 1 .. t.rank : t.shape[d] = 1
<1>1. t.rank \in 0 .. 4 /\ \A d \in 1 .. t.rank : t.shape[d] \in Nat \ {0}
  BY Accepted DEF MaxRank, Dims
<1> DEFINE size(d) == IF d <= t.rank THEN t.shape[d] ELSE 1
<1>2. ElemNum(t) = size(1) * size(2) * size(3) * size(4)
  BY DEF ElemNum
<1>3. \A d \in 1 .. 4 : size(d) \in Nat \ {0}
  BY <1>1
<1>4. \A d \in 1 .. t.rank : t.shape[d] = size(d) /\ d \in 1 .. 4
  BY <1>1
<1> HIDE DEF size
<1>5. ASSUME NEW a \in Nat \ {0}, NEW b \in Nat \ {0}
      PROVE  a * b \in Nat \ {0} /\ (a * b = 1 => a = 1 /\ b = 1)
  <2>1. a * b \in Nat /\ (a * b = a \/ a * b >= 2 * a)
    <3>1. CASE b = 1
      BY <3>1
    <3>2. CASE b >= 2
      <4>1. b * a >= 2 * a /\ b * a \in Nat
        BY <3>2, ProductGrows
      <4>2. a * b = b * a
        OBVIOUS
      <4> QED BY <4>1, <4>2
    <3> QED BY <3>1, <3>2
  <2>2. a * b = b * a /\ (b * a = b \/ b * a >= 2 * b)
    <3>1. CASE a = 1
      BY <3>1
    <3>2. CASE a >= 2
      <4>1. a * b >= 2 * b /\ a * b \in Nat
        BY <3>2, ProductGrows
      <4>2. a * b = b * a
        OBVIOUS
      <4> QED BY <4>1, <4>2
    <3> QED BY <3>1, <3>2
  <2> DEFINE m == a * b
  <2>3. m \in Nat /\ (m = a \/ m >= 2 * a) /\ (m = b \/ m >= 2 * b)
    BY <2>1, <2>2
  <2> HIDE DEF m
  <2>4. m \in Nat \ {0} /\ (m = 1 => a = 1 /\ b = 1)
    BY <2>3
  <2> QED BY <2>4 DEF m
<1> DEFINE m2 == size(1) * size(2)
           m3 == m2 * size(3)
<1>6. m2 \in Nat \ {0} /\ (m2 = 1 => size(1) = 1 /\ size(2) = 1)
  BY <1>3, <1>5
<1> HIDE DEF m2
<1>7. m3 \in Nat \ {0} /\ (m3 = 1 => m2 = 1 /\ size(3) = 1)
  BY <1>3, <1>5, <1>6
<1> HIDE DEF m3
<1>8. m3 * size(4) \in Nat \ {0} /\ (m3 * size(4) = 1 => m3 = 1 /\ size(4) = 1)
  BY <1>3, <1>5, <1>7
<1>9. ElemNum(t) = m3 * size(4)
  BY <1>2 DEF m3, m2
<1>10. ElemNum(t) = 1 => \A d \in 1 .. 4 : size(d) = 1
  BY <1>6, <1>7, <1>8, <1>9
<1> QED
  BY <1>4, <1>8, <1>9, <1>10

(* Which operands are walked through. *)
LEMMA WalkedIs ==
  ASSUME NEW c \in Calls
  PROVE  /\ Kind(c) = "eltwise" =>
              Walked(c) = {k \in {"in1", "in2"} : ~IsScalar(c[k])} \cup {"out"}
         /\ Kind(c) \in {"relu", "lut", "leaky", "softmax", "l2", "permute"} => Walked(c) = {"in1", "out"}
         /\ Kind(c) = "prelu" => Walked(c) = {"in1", "in2", "out"}
         /\ "out" \in Walked(c) /\ Walked(c) \subseteq Names
<1>1. Kind(c) \in Kinds
  BY Kinded
<1> QED
  BY <1>1 DEF Kinds, Walked, Scalars, Binary, Names

(* An operand that is walked through has the shape of the output. *)
LEMMA FullOperand ==
  ASSUME NEW c \in Calls, SizedCall(c), Documented(c), Check(c) = "OK",
         NEW k \in Walked(c), k # "out", Kind(c) # "permute", ~(Kind(c) = "prelu" /\ k = "in2")
  PROVE  Alike(c[k], Filled(c))
<1> DEFINE o == Filled(c)
<1>1. /\ Descriptor(c.in1) /\ Descriptor(c.in2)
      /\ Valid(c, "in1") /\ (Kind(c) \in Binary => Valid(c, "in2"))
  BY DEF SizedCall, Documented
<1>2. ASSUME NEW t \in {c.in1, c.in2}, CheckLayout(t) = "OK", Innermost(t), o.rank = t.rank,
             o.shape = [d \in 1 .. MaxRank |-> IF d <= t.rank THEN t.shape[d] ELSE c.out.shape[d]]
      PROVE  Alike(t, o)
  <2>1. t.rank \in 0 .. 4
    BY <1>1, <1>2, Accepted DEF MaxRank
  <2> HIDE DEF o
  <2>2. \A d \in 1 .. t.rank : t.shape[d] = o.shape[d]
    BY <1>2, <2>1 DEF MaxRank
  <2> QED
    BY <1>2, <2>2 DEF Alike, Innermost
<1>3. CASE Kind(c) = "eltwise"
  <2>1. c.kind = "eltwise" /\ CheckEltwise(c) = "OK" /\ k \in {"in1", "in2"} /\ ~IsScalar(c[k])
        /\ Kind(c) \in Binary
    BY <1>3, Kinded, WalkedIs DEF Check, Binary
  <2>2. /\ \A j \in {"in1", "in2"} : ~IsScalar(c[j]) => CheckTensor(c[j]) = "OK" /\ Innermost(c[j])
        /\ \A j \in {"in1", "in2"} : IsScalar(c[j]) => ElemNum(c[j]) = 1
        /\ ~IsScalar(c.in1) /\ ~IsScalar(c.in2) =>
             c.in1.rank = c.in2.rank /\ \A d \in Dims(c.in1) : c.in1.shape[d] = c.in2.shape[d]
    <3> DEFINE full == {t \in {c.in1, c.in2} : ~IsScalar(t)}
    <3>1. /\ ~(\E t \in full : ~Innermost(t))
          /\ ~(/\ {c.in1, c.in2} = full
               /\ \/ c.in1.rank # c.in2.rank
                  \/ \E d \in Dims(c.in1) : c.in1.shape[d] # c.in2.shape[d])
      BY <2>1 DEF CheckEltwise
    <3>2. \A j \in {"in1", "in2"} : ~IsScalar(c[j]) => CheckTensor(c[j]) = "OK"
      BY <1>1, <1>3, <2>1 DEF Valid, Scalars
    <3>3. \A j \in {"in1", "in2"} : ~IsScalar(c[j]) => c[j] \in full
      OBVIOUS
    <3>4. \A j \in {"in1", "in2"} : IsScalar(c[j]) => ElemNum(c[j]) = 1
      BY <1>1 DEF IsScalar, ElemNum, Descriptor
    <3>5. ~IsScalar(c.in1) /\ ~IsScalar(c.in2) => {c.in1, c.in2} = full
      OBVIOUS
    <3> HIDE DEF full
    <3> QED
      BY <3>1, <3>2, <3>3, <3>4, <3>5
  <2>3. \A j \in {"in1", "in2"} : ~IsScalar(c[j]) =>
          CheckLayout(c[j]) = "OK" /\ ElemNum(c[j]) \in Nat \ {0, 1}
    <3> SUFFICES ASSUME NEW j \in {"in1", "in2"}, ~IsScalar(c[j])
                 PROVE  CheckLayout(c[j]) = "OK" /\ ElemNum(c[j]) \in Nat \ {0, 1}
      OBVIOUS
    <3>1. CheckLayout(c[j]) = "OK" /\ Descriptor(c[j])
      BY <1>1, <2>2, TensorHasLayout
    <3>2. ElemNum(c[j]) \in Nat \ {0} /\ ElemNum(c[j]) # 1
      BY <3>1, ElemNumIs DEF IsScalar
    <3> QED
      BY <3>1, <3>2
  <2>4. PICK from \in {c.in1, c.in2} :
          /\ from = IF ElemNum(c.in1) <= ElemNum(c.in2) THEN c.in2 ELSE c.in1
          /\ o.rank = from.rank
          /\ o.shape = [d \in 1 .. MaxRank |-> IF d <= from.rank THEN from.shape[d] ELSE c.out.shape[d]]
    BY <1>3, FilledIs
  <2> SUFFICES Alike(c[k], o)
    OBVIOUS
  <2> HIDE DEF o
  <2>5. CASE from = c[k]
    <3>1. CheckLayout(c[k]) = "OK" /\ Innermost(c[k]) /\ c[k] \in {c.in1, c.in2}
      BY <2>1, <2>2, <2>3
    <3> QED
      BY <1>2, <2>4, <2>5, <3>1
  <2>6. CASE ~IsScalar(c.in1) /\ ~IsScalar(c.in2)
    <3>1. CheckLayout(from) = "OK" /\ Innermost(from) /\ CheckLayout(c[k]) = "OK" /\ Innermost(c[k])
      BY <2>1, <2>2, <2>3, <2>6
    <3>2. Alike(from, o)
      BY <1>2, <2>4, <3>1
    <3>3. c[k].rank = from.rank /\ \A d \in 1 .. from.rank : c[k].shape[d] = from.shape[d]
      BY <2>1, <2>2, <2>6 DEF Dims
    <3> QED
      BY <3>1, <3>2, <3>3 DEF Alike, Innermost
  <2>7. CASE IsScalar(c.in1) \/ IsScalar(c.in2)
    <3>1. CASE k = "in1"
      <4>1. ElemNum(c.in2) = 1 /\ ElemNum(c.in1) \in Nat \ {0, 1}
        BY <2>1, <2>2, <2>3, <2>7, <3>1
      <4>2. from = c[k]
        BY <2>4, <3>1, <4>1
      <4> QED
        BY <2>5, <4>2
    <3>2. CASE k = "in2"
      <4>1. ElemNum(c.in1) = 1 /\ ElemNum(c.in2) \in Nat \ {0, 1}
        BY <2>1, <2>2, <2>3, <2>7, <3>2
      <4>2. from = c[k]
        BY <2>4, <3>2, <4>1
      <4> QED
        BY <2>5, <4>2
    <3> QED
      BY <2>1, <3>1, <3>2
  <2> QED
    BY <2>6, <2>7
<1>4. CASE Kind(c) # "eltwise"
  <2>1. k = "in1"
    BY <1>4, Kinded, WalkedIs DEF Kinds
  <2>2. CheckLayout(c.in1) = "OK"
    BY <1>1, <1>4, TensorHasLayout, Kinded DEF Valid, Scalars, Kinds
  <2>3. Innermost(c.in1)
    <3>1. CASE c.kind = "prelu"
      <4>1. CheckPrelu(c) = "OK"
        BY <3>1 DEF Check
      <4> QED
        BY <4>1 DEF CheckPrelu
    <3>2. CASE c.kind # "prelu"
      <4>1. c.kind \notin {"eltwise", "prelu", "permute"}
        BY <1>4, <3>2, Kinded DEF Kinds, Kind
      <4>2. CheckActivation(c) = "OK"
        BY <4>1 DEF Check
      <4> QED
        BY <4>2 DEF CheckActivation
    <3> QED
      BY <3>1, <3>2
  <2>4. /\ o.rank = c.in1.rank
        /\ o.shape = [d \in 1 .. MaxRank |-> IF d <= c.in1.rank THEN c.in1.shape[d] ELSE c.out.shape[d]]
    BY <1>4, FilledIs
  <2> QED
    BY <1>2, <2>1, <2>2, <2>3, <2>4
<1> QED
  BY <1>3, <1>4

-----------------------------------------------------------------------------
(* Loops along the dimensions of the result, with strides s for the        *)
(* tensors in K.                                                           *)
Nest(r, shape, s, K) ==
  [d \in 1 .. r |-> [count |-> shape[d], step |-> [k \in K |-> s[k][d]]]]

(* Loops over tensors of one shape. *)
LEMMA LoopsAre ==
  ASSUME NEW ts, NEW r, NEW shape, NEW s, NEW operand,
         operand = IF "in1" \in DOMAIN ts THEN ts.in1 ELSE ts.in2,
         operand.rank = r,
         \A d \in 1 .. r : operand.shape[d] = shape[d],
         \A d \in 1 .. r : \A k \in DOMAIN ts : ts[k].mem_stride[d] = s[k][d]
  PROVE  Loops(ts) = Nest(r, shape, s, DOMAIN ts)
<1> DEFINE K == DOMAIN ts
           a(d) == [count |-> operand.shape[d], step |-> [k \in K |-> ts[k].mem_stride[d]]]
           b(d) == [count |-> shape[d], step |-> [k \in K |-> s[k][d]]]
<1>1. Loops(ts) = [d \in 1 .. r |-> a(d)]
  BY DEF Loops, Dims
<1>2. \A d \in 1 .. r : a(d) = b(d)
  OBVIOUS
<1>3. Nest(r, shape, s, K) = [d \in 1 .. r |-> b(d)]
  BY DEF Nest
<1> HIDE DEF a, b
<1>4. [d \in 1 .. r |-> a(d)] = [d \in 1 .. r |-> b(d)]
  BY <1>2
<1> QED
  BY <1>1, <1>3, <1>4

NestFacts(r, shape, s, K, S) ==
  /\ IsNest(S) /\ Len(S) = r /\ DOMAIN S = 1 .. r
  /\ \A d \in 1 .. r : /\ S[d].count = shape[d] /\ DOMAIN S[d].step = K
                       /\ {"count", "step"} \subseteq DOMAIN S[d]
                       /\ \A k \in K : S[d].step[k] = s[k][d]
  /\ (\A k \in K : \A d \in 1 .. r : s[k][d] \in Int) /\ (\A k \in K : s[k][r] = 1) => NestOver(S, K)

LEMMA NestIs ==
  ASSUME NEW r \in 1 .. 4, NEW shape, \A d \in 1 .. r : shape[d] \in Nat \ {0}, NEW s, NEW K
  PROVE  NestFacts(r, shape, s, K, Nest(r, shape, s, K))
<1> DEFINE S == Nest(r, shape, s, K)
<1>1. DOMAIN S = 1 .. r /\ S = [d \in 1 .. r |-> S[d]]
  BY DEF Nest
<1>2. \A d \in 1 .. r : S[d] = [count |-> shape[d], step |-> [k \in K |-> s[k][d]]]
  BY DEF Nest
<1> HIDE DEF S
<1>3. Len(S) = r
  BY <1>1, LenIs
<1>4. \A d \in 1 .. r : /\ S[d].count = shape[d] /\ DOMAIN S[d].step = K
                        /\ {"count", "step"} \subseteq DOMAIN S[d]
                        /\ \A k \in K : S[d].step[k] = s[k][d]
  <2> TAKE d \in 1 .. r
  <2> DEFINE f == [k \in K |-> s[k][d]]
  <2>1. S[d] = [count |-> shape[d], step |-> f]
    BY <1>2
  <2>2. DOMAIN f = K /\ \A k \in K : f[k] = s[k][d]
    OBVIOUS
  <2> HIDE DEF f
  <2>3. S[d].count = shape[d] /\ S[d].step = f /\ {"count", "step"} \subseteq DOMAIN S[d]
    BY <2>1
  <2> QED
    BY <2>2, <2>3
<1>5. IsNest(S)
  BY <1>3, <1>4 DEF IsNest
<1>6. (\A k \in K : \A d \in 1 .. r : s[k][d] \in Int) /\ (\A k \in K : s[k][r] = 1) => NestOver(S, K)
  BY <1>3, <1>4, <1>5 DEF NestOver
<1> QED
  BY <1>1, <1>3, <1>4, <1>5, <1>6 DEF NestFacts, S

-----------------------------------------------------------------------------
(* The ways in which the kernels nest the loops of a result.               *)

Straight4 == <<1, 2, 3, 4>>
AxisInside(r, a) == [d \in 1 .. 4 |-> IF d < a THEN d ELSE IF d = a THEN r ELSE d - 1]
AxisOutside(r, a) == [d \in 1 .. 4 |-> IF d = a THEN 1 ELSE IF d < a THEN d + 1 ELSE d]

WalksBy(U, w, r, shape, S) ==
  Walks(U, w, r, shape) /\ \A d \in 1 .. r : Loop(U, w[d]) = S[d]

LEMMA NoLoops == IsNest(<<>>) /\ Len(<<>>) = 0
BY DEF IsNest

(* All loops are outer loops. *)
LEMMA AllOutside ==
  ASSUME NEW S, IsNest(S), NEW r \in 1 .. 4, Len(S) = r,
         NEW shape, \A d \in 1 .. r : S[d].count = shape[d]
  PROVE  WalksBy([outer |-> S, inner |-> <<>>], Straight4, r, shape, S)
<1> DEFINE U == [outer |-> S, inner |-> <<>>]
<1>1. U.outer = S /\ U.inner = <<>>
  OBVIOUS
<1> HIDE DEF U
<1>2. \A d \in 1 .. r : Straight4[d] = d
  BY DEF Straight4
<1>3. \A d \in 1 .. r : Loop(U, Straight4[d]) = S[d]
  BY <1>1, <1>2 DEF Loop
<1>4. Walks(U, Straight4, r, shape)
  BY <1>1, <1>2, <1>3, NoLoops DEF Walks
<1> QED
  BY <1>3, <1>4 DEF WalksBy, U

(* All loops are inner loops. *)
LEMMA AllInside ==
  ASSUME NEW S, IsNest(S), NEW r \in 1 .. 4, Len(S) = r,
         NEW shape, \A d \in 1 .. r : S[d].count = shape[d]
  PROVE  WalksBy([outer |-> <<>>, inner |-> S], Straight4, r, shape, S)
<1> DEFINE U == [outer |-> <<>>, inner |-> S]
<1>1. U.outer = <<>> /\ U.inner = S
  OBVIOUS
<1> HIDE DEF U
<1>2. \A d \in 1 .. r : Straight4[d] = d
  BY DEF Straight4
<1>3. \A d \in 1 .. r : Loop(U, Straight4[d]) = S[d]
  <2> SUFFICES ASSUME NEW d \in 1 .. r PROVE Loop(U, d) = S[d]
    BY <1>2
  <2>1. ~(d <= Len(U.outer)) /\ d - Len(U.outer) = d
    BY <1>1, NoLoops
  <2> QED
    BY <1>1, <2>1 DEF Loop
<1>4. Walks(U, Straight4, r, shape)
  BY <1>1, <1>2, <1>3, NoLoops DEF Walks
<1> QED
  BY <1>3, <1>4 DEF WalksBy, U

(* The other dimensions keep their order. *)
LEMMA AlongIs ==
  ASSUME NEW S, NEW r \in 1 .. 4, Len(S) = r, NEW a \in 1 .. r
  PROVE  /\ Len(Along(S, a)) = r - 1
         /\ \A d \in 1 .. r - 1 : Along(S, a)[d] = IF d < a THEN S[d] ELSE S[d + 1]
<1> DEFINE A == Along(S, a)
<1>1. A = [d \in 1 .. r - 1 |-> IF d < a THEN S[d] ELSE S[d + 1]]
  BY DEF Along
<1>2. A = [d \in 1 .. r - 1 |-> A[d]]
  BY <1>1
<1>3. \A d \in 1 .. r - 1 : A[d] = IF d < a THEN S[d] ELSE S[d + 1]
  BY <1>1
<1> HIDE DEF A
<1>4. Len(A) = r - 1
  BY <1>2, LenIs
<1> QED
  BY <1>3, <1>4 DEF A

(* The axis is the inner loop, the other dimensions are the outer ones. *)
LEMMA AxisWithin ==
  ASSUME NEW S, IsNest(S), NEW r \in 1 .. 4, Len(S) = r, NEW a \in 1 .. r,
         NEW shape, \A d \in 1 .. r : S[d].count = shape[d]
  PROVE  /\ WalksBy([outer |-> Along(S, a), inner |-> <<S[a]>>], AxisInside(r, a), r, shape, S)
         /\ IsNest(Along(S, a)) /\ IsNest(<<S[a]>>)
<1> DEFINE U == [outer |-> Along(S, a), inner |-> <<S[a]>>]
           w == AxisInside(r, a)
           one == S[a]
<1>1. U.outer = Along(S, a) /\ U.inner = <<one>>
  OBVIOUS
<1>2. \A d \in 1 .. r : w[d] = IF d < a THEN d ELSE IF d = a THEN r ELSE d - 1
  BY DEF AxisInside
<1>3. \A d \in 1 .. r : S[d].count \in Nat \ {0}
  BY DEF IsNest
<1>4. one.count \in Nat \ {0}
  BY <1>3
<1> HIDE DEF U, w
<1> DEFINE A == Along(S, a)
<1>51. /\ Len(A) = r - 1
       /\ \A d \in 1 .. r - 1 : A[d] = IF d < a THEN S[d] ELSE S[d + 1]
  BY AlongIs, Zenon
<1>52. U.outer = A
  BY <1>1
<1> HIDE DEF A
<1>5. /\ Len(U.outer) = r - 1
      /\ \A d \in 1 .. r - 1 : U.outer[d] = IF d < a THEN S[d] ELSE S[d + 1]
  BY <1>51, <1>52, Zenon
<1> HIDE DEF one
<1>6. Len(U.inner) = 1 /\ U.inner[1] = one
  BY <1>1
<1>7. IsNest(U.outer)
  BY <1>3, <1>5 DEF IsNest
<1>8. IsNest(U.inner)
  BY <1>4, <1>6 DEF IsNest
<1>9. ASSUME NEW d \in 1 .. r
      PROVE  w[d] \in 1 .. r /\ Loop(U, w[d]) = S[d]
  <2>1. CASE d < a
    <3>1. w[d] = d /\ d \in 1 .. r - 1
      BY <1>2, <2>1
    <3> QED BY <1>5, <2>1, <3>1 DEF Loop
  <2>2. CASE d = a
    <3>1. w[d] = r /\ ~(r <= Len(U.outer)) /\ r - Len(U.outer) = 1
      BY <1>2, <1>5, <2>2
    <3> QED BY <1>6, <2>2, <3>1 DEF Loop, one
  <2>3. CASE d > a
    <3>1. w[d] = d - 1 /\ d - 1 \in 1 .. r - 1 /\ ~(d - 1 < a) /\ (d - 1) + 1 = d
      BY <1>2, <2>3
    <3> QED BY <1>5, <3>1 DEF Loop
  <2> QED BY <2>1, <2>2, <2>3
<1>10. \A d \in 1 .. r : \A e \in d + 1 .. r : w[d] # w[e]
  BY <1>2
<1>11. Walks(U, w, r, shape)
  BY <1>5, <1>6, <1>7, <1>8, <1>9, <1>10 DEF Walks
<1> QED
  BY <1>1, <1>7, <1>8, <1>9, <1>11 DEF WalksBy, U, w, one

FirstFacts(A, S, r, a) ==
  /\ Len(A) = r
  /\ \A d \in 1 .. r : A[d] = IF d = 1 THEN S[a] ELSE IF d <= a THEN S[d - 1] ELSE S[d]

LEMMA AxisFirstIs ==
  ASSUME NEW S, NEW r \in 1 .. 4, Len(S) = r, DOMAIN S = 1 .. r, NEW a \in 1 .. r
  PROVE  FirstFacts(AxisFirst(S, a), S, r, a)
<1> DEFINE A == AxisFirst(S, a)
<1>1. A = [d \in 1 .. r |-> IF d = 1 THEN S[a] ELSE Along(S, a)[d - 1]]
  BY DEF AxisFirst
<1>2. A = [d \in 1 .. r |-> A[d]]
  BY <1>1
<1>3. ASSUME NEW d \in 1 .. r
      PROVE  A[d] = IF d = 1 THEN S[a] ELSE IF d <= a THEN S[d - 1] ELSE S[d]
  <2>1. CASE d = 1
    BY <1>1, <2>1
  <2>2. CASE d # 1
    <3>1. d - 1 \in 1 .. r - 1 /\ (d - 1 < a <=> d <= a) /\ (d - 1) + 1 = d
      BY <2>2
    <3>2. Along(S, a)[d - 1] = IF d - 1 < a THEN S[d - 1] ELSE S[(d - 1) + 1]
      BY <3>1, AlongIs
    <3>3. A[d] = Along(S, a)[d - 1]
      BY <1>1, <2>2
    <3> HIDE DEF A
    <3> QED BY <2>2, <3>1, <3>2, <3>3
  <2> QED BY <2>1, <2>2
<1> HIDE DEF A
<1>4. Len(A) = r
  BY <1>2, LenIs
<1>5. FirstFacts(A, S, r, a)
  BY <1>3, <1>4, Zenon DEF FirstFacts
<1> QED
  BY <1>5 DEF A

(* The axis is the outermost loop. *)
LEMMA AxisOutermost ==
  ASSUME NEW S, IsNest(S), NEW r \in 1 .. 4, Len(S) = r, DOMAIN S = 1 .. r, NEW a \in 1 .. r,
         NEW shape, \A d \in 1 .. r : S[d].count = shape[d]
  PROVE  /\ WalksBy([outer |-> AxisFirst(S, a), inner |-> <<>>], AxisOutside(r, a), r, shape, S)
         /\ IsNest(AxisFirst(S, a))
<1> DEFINE U == [outer |-> AxisFirst(S, a), inner |-> <<>>]
           w == AxisOutside(r, a)
<1>1. U.outer = AxisFirst(S, a) /\ U.inner = <<>>
  OBVIOUS
<1>2. \A d \in 1 .. r : w[d] = IF d = a THEN 1 ELSE IF d < a THEN d + 1 ELSE d
  BY DEF AxisOutside
<1>3. \A d \in 1 .. r : S[d].count \in Nat \ {0}
  BY DEF IsNest
<1> HIDE DEF U, w
<1> DEFINE A == AxisFirst(S, a)
<1>4. /\ Len(A) = r
      /\ \A d \in 1 .. r : A[d] = IF d = 1 THEN S[a] ELSE IF d <= a THEN S[d - 1] ELSE S[d]
  <2>1. FirstFacts(AxisFirst(S, a), S, r, a)
    BY AxisFirstIs, Zenon
  <2> QED BY <2>1, Zenon DEF FirstFacts
<1>41. U.outer = A
  BY <1>1
<1> HIDE DEF A
<1>5. /\ Len(U.outer) = r
      /\ \A d \in 1 .. r : U.outer[d] = IF d = 1 THEN S[a] ELSE IF d <= a THEN S[d - 1] ELSE S[d]
  BY <1>4, <1>41, Zenon
<1>7. IsNest(U.outer)
  <2>1. \A d \in 1 .. r : U.outer[d].count \in Nat \ {0}
    <3> TAKE d \in 1 .. r
    <3>1. \E e \in 1 .. r : U.outer[d] = S[e]
      <4>1. CASE d = 1
        BY <1>5, <4>1
      <4>2. CASE d # 1 /\ d <= a
        <5>1. d - 1 \in 1 .. r /\ U.outer[d] = S[d - 1]
          BY <1>5, <4>2
        <5> QED BY <5>1
      <4>3. CASE d # 1 /\ ~(d <= a)
        BY <1>5, <4>3
      <4> QED BY <4>1, <4>2, <4>3
    <3> QED BY <1>3, <3>1
  <2> QED BY <1>5, <2>1 DEF IsNest
<1>9. ASSUME NEW d \in 1 .. r
      PROVE  w[d] \in 1 .. r /\ Loop(U, w[d]) = S[d]
  <2>1. CASE d < a
    <3>1. w[d] = d + 1 /\ d + 1 \in 1 .. r /\ d + 1 # 1 /\ d + 1 <= a /\ (d + 1) - 1 = d
      BY <1>2, <2>1
    <3> QED BY <1>5, <3>1 DEF Loop
  <2>2. CASE d = a
    <3>1. w[d] = 1
      BY <1>2, <2>2
    <3> QED BY <1>5, <2>2, <3>1 DEF Loop
  <2>3. CASE d > a
    <3>1. w[d] = d /\ d # 1 /\ ~(d <= a)
      BY <1>2, <2>3
    <3> QED BY <1>5, <3>1 DEF Loop
  <2> QED BY <2>1, <2>2, <2>3
<1>10. \A d \in 1 .. r : \A e \in d + 1 .. r : w[d] # w[e]
  BY <1>2
<1>11. Walks(U, w, r, shape)
  BY <1>1, <1>5, <1>7, <1>9, <1>10, NoLoops DEF Walks
<1> QED
  BY <1>1, <1>7, <1>9, <1>11 DEF WalksBy, U, w

-----------------------------------------------------------------------------
(* How far apart two neighbours in dimension d of the result are in the    *)
(* tensors that are walked through.                                        *)
StepOf(c, k, d) ==
  IF k = "out" THEN Strided4(c, Filled(c)).mem_stride[d]
  ELSE IF Kind(c) = "permute" THEN c.in1.mem_stride[c.perm[d]]
  ELSE IF Kind(c) = "prelu" /\ k = "in2" THEN IF d = c.axis THEN 1 ELSE 0
  ELSE c[k].mem_stride[d]

Steps(c) == [k \in Names |-> [d \in 1 .. 4 |-> StepOf(c, k, d)]]

NestOf(c, K) == Nest(Filled(c).rank, Filled(c).shape, Steps(c), K)

(* The call is one whose result has to be right. *)
Good(c) == SizedCall(c) /\ Documented(c) /\ Check(c) = "OK"

LEMMA StepIs ==
  ASSUME NEW c, NEW k \in Names, NEW d \in 1 .. 4
  PROVE  Steps(c)[k][d] = StepOf(c, k, d)
BY DEF Steps

LEMMA GoodOutput ==
  ASSUME NEW c \in Calls, Good(c)
  PROVE  /\ Filled(c).rank \in 1 .. 4
         /\ \A d \in 1 .. Filled(c).rank : Filled(c).shape[d] \in Nat \ {0}
         /\ \A d \in 1 .. Filled(c).rank : Steps(c)["out"][d] \in Nat \ {0}
         /\ Steps(c)["out"][Filled(c).rank] = 1
<1> DEFINE o == Filled(c)
           oo == Strided4(c, Filled(c))
<1>1. /\ o.rank \in 1 .. 4 /\ oo.mem_stride[o.rank] = 1
      /\ \A d \in 1 .. o.rank : o.shape[d] \in Nat \ {0} /\ oo.mem_stride[d] \in Nat \ {0}
  BY OutputFits DEF Good, OutFits
<1>2. \A d \in 1 .. 4 : Steps(c)["out"][d] = oo.mem_stride[d]
  BY StepIs DEF StepOf, Names
<1> HIDE DEF o, oo
<1>3. \A d \in 1 .. o.rank : d \in 1 .. 4
  BY <1>1
<1> QED
  BY <1>1, <1>2, <1>3, Zenon DEF o

(* All but permute and the slope have elements that are adjacent in the    *)
(* innermost dimension.                                                    *)
LEMMA StepsFit ==
  ASSUME NEW c \in Calls, Good(c), NEW k \in Walked(c)
  PROVE  /\ \A d \in 1 .. Filled(c).rank : Steps(c)[k][d] \in Int
         /\ Kind(c) # "permute" /\ ~(Kind(c) = "prelu" /\ k = "in2") => Steps(c)[k][Filled(c).rank] = 1
<1> DEFINE o == Filled(c)
<1>1. o.rank \in 1 .. 4 /\ k \in Names
  BY GoodOutput, WalkedIs
<1>2. /\ c.in1.mem_stride \in [1 .. 4 -> Int] /\ c.in2.mem_stride \in [1 .. 4 -> Int]
      /\ Descriptor(c.in1)
  BY DEF Good, SizedCall, Descriptor, MaxRank
<1> HIDE DEF o
<1>3. \A d \in 1 .. o.rank : d \in 1 .. 4
  BY <1>1
<1>4. \A d \in 1 .. o.rank : Steps(c)[k][d] = StepOf(c, k, d)
  BY <1>1, <1>3, StepIs
<1>5. CASE k = "out"
  BY <1>1, <1>3, <1>5, GoodOutput DEF o
<1>6. CASE k # "out" /\ Kind(c) = "permute"
  <2>1. Reorders(c)
    BY <1>2, <1>6, OrderAccepted DEF Good
  <2>2. o.rank = c.in1.rank
    BY <1>6, FilledIs DEF Good, o
  <2>3. \A d \in 1 .. o.rank : c.perm[d] \in 1 .. 4
    BY <2>1, <2>2 DEF Reorders
  <2>4. \A d \in 1 .. o.rank : StepOf(c, k, d) \in Int
    BY <1>2, <1>6, <2>3 DEF StepOf
  <2> QED
    BY <1>4, <1>6, <2>4 DEF o
<1>7. CASE Kind(c) = "prelu" /\ k = "in2"
  <2>1. \A d \in 1 .. o.rank : StepOf(c, k, d) \in Int
    BY <1>7 DEF StepOf
  <2> QED
    BY <1>4, <1>7, <2>1 DEF o
<1>8. CASE k # "out" /\ Kind(c) # "permute" /\ ~(Kind(c) = "prelu" /\ k = "in2")
  <2>1. \A d \in 1 .. o.rank : StepOf(c, k, d) = c[k].mem_stride[d]
    BY <1>8 DEF StepOf
  <2>2. c[k].mem_stride \in [1 .. 4 -> Int]
    BY <1>1, <1>2, <1>8 DEF Names
  <2>3. c[k].mem_stride[o.rank] = 1
    BY <1>8, FullOperand DEF Good, Alike, o
  <2>4. o.rank \in 1 .. o.rank
    BY <1>1
  <2>5. Steps(c)[k][o.rank] = 1
    BY <1>4, <2>1, <2>3, <2>4
  <2>6. \A d \in 1 .. o.rank : Steps(c)[k][d] \in Int
    BY <1>3, <1>4, <2>1, <2>2
  <2> QED
    BY <2>5, <2>6 DEF o
<1> QED
  BY <1>5, <1>6, <1>7, <1>8

(* The loops over the dimensions of the result, for the tensors in K. *)
LEMMA NestOfIs ==
  ASSUME NEW c \in Calls, Good(c), NEW K \in SUBSET Walked(c)
  PROVE  /\ NestFacts(Filled(c).rank, Filled(c).shape, Steps(c), K, NestOf(c, K))
         /\ Kind(c) # "permute" /\ ~(Kind(c) = "prelu" /\ "in2" \in K) => NestOver(NestOf(c, K), K)
<1> DEFINE r == Filled(c).rank
           shape == Filled(c).shape
           s == Steps(c)
<1>1. r \in 1 .. 4 /\ \A d \in 1 .. r : shape[d] \in Nat \ {0}
  BY GoodOutput
<1>2. /\ \A k \in K : \A d \in 1 .. r : s[k][d] \in Int
      /\ \A k \in K : Kind(c) # "permute" /\ ~(Kind(c) = "prelu" /\ k = "in2") => s[k][r] = 1
  BY StepsFit
<1> HIDE DEF r, shape, s
<1>3. NestFacts(r, shape, s, K, Nest(r, shape, s, K))
  BY <1>1, NestIs, Zenon
<1>4. Kind(c) # "permute" /\ ~(Kind(c) = "prelu" /\ "in2" \in K) => NestOver(Nest(r, shape, s, K), K)
  BY <1>2, <1>3 DEF NestFacts
<1> QED
  BY <1>3, <1>4 DEF NestOf, r, shape, s

-----------------------------------------------------------------------------
(* Loops that walk the same way.                                           *)
LEMMA SameWalkRefl ==
  ASSUME NEW l, NEW K
  PROVE  SameWalk(l, l, K)
BY DEF SameWalk

LEMMA SameWalkTrans ==
  ASSUME NEW l1, NEW l2, NEW l3, NEW K, SameWalk(l1, l2, K), SameWalk(l2, l3, K)
  PROVE  SameWalk(l1, l3, K)
BY DEF SameWalk

(* Squashed loops walk as the loops of all dimensions, and in steps of 1. *)
LEMMA SquashedAdjacent ==
  ASSUME NEW S, NEW K, NestOver(S, K), \A d \in 1 .. Len(S) : {"count", "step"} \subseteq DOMAIN S[d]
  PROVE  SameWalk(S, Adjacent(Squash(S)), K)
<1> DEFINE sq == Squash(S)
<1>1. NestOver(sq, K) /\ SameWalk(S, sq, K)
  BY SquashWalks
<1>2. Len(S) \in 1 .. 4
  BY DEF NestOver
<1>3. PICK f \in 1 .. Len(S) : sq = SquashedAt(S, f)
  BY <1>2, SquashIs
<1> HIDE DEF sq
<1>4. DOMAIN sq = 1 .. f
  BY <1>3 DEF SquashedAt
<1>5. Len(sq) = f
  <2>1. sq = [d \in 1 .. f |-> sq[d]]
    BY <1>3 DEF SquashedAt
  <2>2. f \in Nat
    BY <1>2
  <2> QED BY <2>1, <2>2, LenIs
<1>6. \A d \in 1 .. f : {"count", "step"} \subseteq DOMAIN sq[d]
  <2> TAKE d \in 1 .. f
  <2> DEFINE rec == [count |-> Inner(S, d), step |-> [k \in DOMAIN S[Len(S)].step |-> 1]]
  <2>1. sq[d] = IF d < f \/ f = Len(S) THEN S[d] ELSE rec
    BY <1>3 DEF SquashedAt
  <2>2. {"count", "step"} \subseteq DOMAIN rec
    OBVIOUS
  <2>3. d \in 1 .. Len(S)
    BY <1>2
  <2> HIDE DEF rec
  <2> QED BY <2>1, <2>2, <2>3
<1>7. SameWalk(sq, Adjacent(sq), K)
  BY <1>1, <1>4, <1>5, <1>6, AdjacentWalks
<1> QED
  BY <1>1, <1>7, SameWalkTrans DEF sq

-----------------------------------------------------------------------------
(* What the plan of a kernel walks along.                                  *)
WalksAs(c, P, U, w) ==
  /\ Walks(U, w, Filled(c).rank, Filled(c).shape)
  /\ SameWalk(U.outer, P.outer, Walked(c)) /\ SameWalk(U.inner, P.inner, Walked(c))
  /\ \A k \in Walked(c) : \A d \in 1 .. Filled(c).rank : Loop(U, w[d]).step[k] = Steps(c)[k][d]
  /\ Kind(c) \in Normalizing =>
       \/ c.axis = 0 /\ U.outer = <<>>
       \/ c.axis \in 1 .. Filled(c).rank /\ Len(U.inner) = 1 /\ w[c.axis] = Filled(c).rank

(* A plan of outer loops that walks as the loops of all dimensions. *)
LEMMA WalksOutside ==
  ASSUME NEW c \in Calls, Good(c), NEW P, P.inner = <<>>, Kind(c) \notin Normalizing,
         SameWalk(NestOf(c, Walked(c)), P.outer, Walked(c))
  PROVE  \E U, w : WalksAs(c, P, U, w)
<1> DEFINE K == Walked(c)
           S == NestOf(c, K)
           U == [outer |-> S, inner |-> <<>>]
           r == Filled(c).rank
           shape == Filled(c).shape
<1>1. NestFacts(r, shape, Steps(c), K, S) /\ r \in 1 .. 4
  BY NestOfIs, GoodOutput
<1>2. U.outer = S /\ U.inner = <<>> /\ SameWalk(S, P.outer, K)
  OBVIOUS
<1> HIDE DEF S, r, shape
<1>3. /\ IsNest(S) /\ Len(S) = r /\ \A d \in 1 .. r : S[d].count = shape[d]
      /\ \A d \in 1 .. r : \A k \in K : S[d].step[k] = Steps(c)[k][d]
  BY <1>1 DEF NestFacts
<1>4. WalksBy(U, Straight4, r, shape, S)
  BY <1>1, <1>3, AllOutside
<1> HIDE DEF U, K
<1>5. /\ Walks(U, Straight4, r, shape)
      /\ \A k \in K : \A d \in 1 .. r : Loop(U, Straight4[d]).step[k] = Steps(c)[k][d]
  BY <1>3, <1>4 DEF WalksBy
<1>6. SameWalk(U.outer, P.outer, K) /\ SameWalk(U.inner, P.inner, K)
  BY <1>2, SameWalkRefl
<1>7. WalksAs(c, P, U, Straight4)
  BY <1>5, <1>6, Zenon DEF WalksAs, K, r, shape
<1> QED
  BY <1>7

(* The plan of each kind of kernel. *)
One(c, o) == Loops([in1 |-> c.in1, out |-> o])

(* The plan by kind. *)
LEMMA PlanIs ==
  ASSUME NEW c, NEW o
  PROVE  /\ Kind(c) = "eltwise" =>
              Plan(c, o) = [outer |-> IF Scalars(c) = {"in1", "in2"} THEN <<>>
                                      ELSE Adjacent(Squash(Loops([k \in Walked(c) |-> IF k = "out" THEN o ELSE c[k]]))),
                            inner |-> <<>>]
         /\ Kind(c) \in {"relu", "leaky"} => Plan(c, o) = [outer |-> Adjacent(Squash(One(c, o))), inner |-> <<>>]
         /\ Kind(c) = "lut" => Plan(c, o) = [outer |-> Squash(One(c, o)), inner |-> <<>>]
         /\ Kind(c) = "prelu" =>
              Plan(c, o) = [outer |-> AxisFirst(Sloped(c, IF c.axis = o.rank THEN One(c, o)
                                                          ELSE Adjacent(One(c, o))), c.axis),
                            inner |-> <<>>]
         /\ Kind(c) = "permute" =>
              Plan(c, o) = [outer |-> Loops([in1 |-> Turned(c, o),
                                             out |-> [o EXCEPT !.mem_stride = Increments(o)]]),
                            inner |-> <<>>]
         /\ Kind(c) \in Normalizing =>
              Plan(c, o) = [outer |-> Along(One(c, o), c.axis),
                            inner |-> IF c.axis > 0 THEN <<One(c, o)[c.axis]>>
                                      ELSE IF Kind(c) = "l2" THEN Squash(One(c, o)) ELSE One(c, o)]
<1> DEFINE one == Loops([in1 |-> c.in1, out |-> o])
           walked == Loops([k \in Walked(c) |-> IF k = "out" THEN o ELSE c[k]])
           sloped == Sloped(c, IF c.axis = o.rank THEN one ELSE Adjacent(one))
           turned == Loops([in1 |-> Turned(c, o), out |-> [o EXCEPT !.mem_stride = Increments(o)]])
           slice == <<one[c.axis]>>
<1>1. Plan(c, o) =
        CASE Kind(c) = "eltwise" ->
               IF Scalars(c) = {"in1", "in2"} THEN [outer |-> <<>>, inner |-> <<>>]
               ELSE [outer |-> Adjacent(Squash(walked)), inner |-> <<>>]
          [] Kind(c) \in {"relu", "leaky"} -> [outer |-> Adjacent(Squash(one)), inner |-> <<>>]
          [] Kind(c) = "lut" -> [outer |-> Squash(one), inner |-> <<>>]
          [] Kind(c) = "prelu" -> [outer |-> AxisFirst(sloped, c.axis), inner |-> <<>>]
          [] Kind(c) = "permute" -> [outer |-> turned, inner |-> <<>>]
          [] Kind(c) \in Normalizing ->
               [outer |-> Along(one, c.axis),
                inner |-> IF c.axis > 0 THEN slice
                          ELSE IF Kind(c) = "l2" THEN Squash(one) ELSE one]
  BY Zenon DEF Plan
<1>2. One(c, o) = one
  BY DEF One
<1> HIDE DEF one, walked, sloped, turned, slice
<1>3. Kind(c) = "eltwise" => Plan(c, o) = [outer |-> IF Scalars(c) = {"in1", "in2"} THEN <<>>
                                      ELSE Adjacent(Squash(walked)), inner |-> <<>>]
  BY <1>1, SMT DEF Normalizing
<1>4. Kind(c) \in {"relu", "leaky"} => Plan(c, o) = [outer |-> Adjacent(Squash(one)), inner |-> <<>>]
  BY <1>1, SMT DEF Normalizing
<1>5. Kind(c) = "lut" => Plan(c, o) = [outer |-> Squash(one), inner |-> <<>>]
  BY <1>1, SMT DEF Normalizing
<1>6. Kind(c) = "prelu" => Plan(c, o) = [outer |-> AxisFirst(sloped, c.axis), inner |-> <<>>]
  BY <1>1, SMT DEF Normalizing
<1>7. Kind(c) = "permute" => Plan(c, o) = [outer |-> turned, inner |-> <<>>]
  BY <1>1, SMT DEF Normalizing
<1>8. Kind(c) \in Normalizing =>
               Plan(c, o) = [outer |-> Along(one, c.axis),
                inner |-> IF c.axis > 0 THEN slice
                          ELSE IF Kind(c) = "l2" THEN Squash(one) ELSE one]
  BY <1>1, SMT DEF Normalizing
<1> QED
  BY <1>2, <1>3, <1>4, <1>5, <1>6, <1>7, <1>8, Zenon DEF walked, sloped, turned, slice

LEMMA OneIs ==
  ASSUME NEW c \in Calls, Good(c), Kind(c) \notin {"eltwise", "permute"}
  PROVE  /\ One(c, Filled(c)) = NestOf(c, {"in1", "out"})
         /\ {"in1", "out"} \subseteq Walked(c)
<1> DEFINE o == Filled(c)
           ts == [in1 |-> c.in1, out |-> o]
           s == Steps(c)
<1>1. DOMAIN ts = {"in1", "out"} /\ ts.in1 = c.in1 /\ ts.out = o
      /\ ts["in1"] = c.in1 /\ ts["out"] = o
  OBVIOUS
<1>2. Walked(c) \in {{"in1", "out"}, {"in1", "in2", "out"}}
  BY Kinded, WalkedIs DEF Kinds
<1>3. Alike(c.in1, o)
  BY <1>2, FullOperand DEF Good
<1>4. o.rank \in 1 .. 4
  BY GoodOutput
<1>5. \A d \in 1 .. 4 : s["in1"][d] = c.in1.mem_stride[d] /\ s["out"][d] = o.mem_stride[d]
  BY StepIs DEF StepOf, Names, Strided4
<1> HIDE DEF ts, o, s
<1>6. \A d \in 1 .. o.rank : \A k \in DOMAIN ts : ts[k].mem_stride[d] = s[k][d]
  <2> TAKE d \in 1 .. o.rank
  <2>1. d \in 1 .. 4
    BY <1>4
  <2> QED BY <1>1, <1>5, <2>1
<1>7. c.in1.rank = o.rank /\ \A d \in 1 .. o.rank : c.in1.shape[d] = o.shape[d]
  BY <1>3 DEF Alike
<1>8. c.in1 = IF "in1" \in DOMAIN ts THEN ts.in1 ELSE ts.in2
  BY <1>1
<1>9. Loops(ts) = Nest(o.rank, o.shape, s, DOMAIN ts)
  BY <1>6, <1>7, <1>8, LoopsAre
<1> QED
  BY <1>1, <1>2, <1>9 DEF NestOf, One, ts, o, s

LEMMA NestOfParts ==
  ASSUME NEW c \in Calls, Good(c), NEW K \in SUBSET Walked(c)
  PROVE  \A d \in 1 .. Len(NestOf(c, K)) : {"count", "step"} \subseteq DOMAIN NestOf(c, K)[d]
<1> DEFINE S == NestOf(c, K)
<1>1. NestFacts(Filled(c).rank, Filled(c).shape, Steps(c), K, S)
  BY NestOfIs
<1> HIDE DEF S
<1> QED
  BY <1>1 DEF NestFacts, S

(* RELU and leaky RELU, also that of a parametric RELU with one slope, and *)
(* the activations that look up a table.                                   *)
LEMMA ReluWalks ==
  ASSUME NEW c \in Calls, Good(c), Kind(c) \in {"relu", "leaky", "lut"}
  PROVE  \E U, w : WalksAs(c, Plan(c, Filled(c)), U, w)
<1> DEFINE one == One(c, Filled(c))
           P == Plan(c, Filled(c))
           S == NestOf(c, {"in1", "out"})
<1>1. Walked(c) = {"in1", "out"} /\ one = S
  BY OneIs, WalkedIs
<1>2. NestOver(S, {"in1", "out"}) /\ \A d \in 1 .. Len(S) : {"count", "step"} \subseteq DOMAIN S[d]
  BY <1>1, NestOfIs, NestOfParts
<1>3. CASE Kind(c) \in {"relu", "leaky"}
  <2>1. P = [outer |-> Adjacent(Squash(one)), inner |-> <<>>]
    BY <1>3, PlanIs
  <2> HIDE DEF P, S, one
  <2>2. SameWalk(S, Adjacent(Squash(S)), {"in1", "out"})
    BY <1>2, SquashedAdjacent
  <2>3. P.inner = <<>> /\ SameWalk(S, P.outer, {"in1", "out"})
    BY <1>1, <2>1, <2>2
  <2> QED
    BY <1>1, <1>3, <2>3, WalksOutside DEF Normalizing, P, S
<1>4. CASE Kind(c) = "lut"
  <2>1. P = [outer |-> Squash(one), inner |-> <<>>]
    BY <1>4, PlanIs
  <2> HIDE DEF P, S, one
  <2>2. SameWalk(S, Squash(S), {"in1", "out"})
    BY <1>2, SquashWalks
  <2>3. P.inner = <<>> /\ SameWalk(S, P.outer, {"in1", "out"})
    BY <1>1, <2>1, <2>2
  <2> QED
    BY <1>1, <1>4, <2>3, WalksOutside DEF Normalizing, P, S
<1> QED
  BY <1>3, <1>4

(* Permute goes through the input in the order of the output.              *)
LEMMA PermuteWalks ==
  ASSUME NEW c \in Calls, Good(c), Kind(c) = "permute"
  PROVE  \E U, w : WalksAs(c, Plan(c, Filled(c)), U, w)
<1> DEFINE o == Filled(c)
           P == Plan(c, o)
           in == Turned(c, o)
           to == [o EXCEPT !.mem_stride = Increments(o)]
           ts == [in1 |-> in, out |-> to]
           s == Steps(c)
<1>1. P = [outer |-> Loops(ts), inner |-> <<>>]
  BY PlanIs, Zenon
<1>2. DOMAIN ts = {"in1", "out"} /\ ts.in1 = in
      /\ ts["in1"] = in /\ ts["out"] = to
  OBVIOUS
<1>3. o.rank \in 1 .. 4 /\ o.rank = c.in1.rank
  BY GoodOutput, FilledIs DEF Good
<1>4. to = Strided4(c, o)
  BY DEF Strided4
<1>5. \A d \in 1 .. 4 : s["in1"][d] = c.in1.mem_stride[c.perm[d]] /\ s["out"][d] = to.mem_stride[d]
  <2> SUFFICES ASSUME NEW d \in 1 .. 4
               PROVE  s["in1"][d] = c.in1.mem_stride[c.perm[d]] /\ s["out"][d] = to.mem_stride[d]
    OBVIOUS
  <2>1. s["in1"][d] = StepOf(c, "in1", d) /\ s["out"][d] = StepOf(c, "out", d)
    BY StepIs DEF Names
  <2>2. StepOf(c, "in1", d) = c.in1.mem_stride[c.perm[d]]
    BY DEF StepOf
  <2>3. StepOf(c, "out", d) = Strided4(c, o).mem_stride[d]
    BY DEF StepOf
  <2> HIDE DEF s, to, o
  <2> QED BY <1>4, <2>1, <2>2, <2>3
<1>6. {"rank", "shape", "mem_stride"} \subseteq DOMAIN c.in1
  BY DEF Good, SizedCall
<1>7. /\ in.rank = c.in1.rank /\ in.shape = o.shape
      /\ \A d \in 1 .. 4 : d <= o.rank => in.mem_stride[d] = c.in1.mem_stride[c.perm[d]]
  <2> DEFINE turned == [d \in 1 .. MaxRank |-> IF d <= o.rank THEN c.in1.mem_stride[c.perm[d]] ELSE 0]
  <2>1. in = [c.in1 EXCEPT !.shape = o.shape, !.mem_stride = turned]
    BY <1>6 DEF Turned
  <2>2. \A d \in 1 .. 4 : d <= o.rank => turned[d] = c.in1.mem_stride[c.perm[d]]
    BY DEF MaxRank
  <2> HIDE DEF turned, o, in
  <2> QED
    BY <1>6, <2>1, <2>2
<1> HIDE DEF o, P, in, to, ts, s
<1>8. \A d \in 1 .. o.rank : \A k \in DOMAIN ts : ts[k].mem_stride[d] = s[k][d]
  <2> TAKE d \in 1 .. o.rank
  <2>1. d \in 1 .. 4 /\ d <= o.rank
    BY <1>3
  <2> QED BY <1>2, <1>5, <1>7, <2>1
<1>9. in.rank = o.rank /\ \A d \in 1 .. o.rank : in.shape[d] = o.shape[d]
  BY <1>3, <1>7
<1>10. in = IF "in1" \in DOMAIN ts THEN ts.in1 ELSE ts.in2
  BY <1>2
<1>11. Loops(ts) = Nest(o.rank, o.shape, s, DOMAIN ts)
  BY <1>8, <1>9, <1>10, LoopsAre
<1>12. Walked(c) = {"in1", "out"}
  BY WalkedIs
<1>13. Loops(ts) = NestOf(c, Walked(c))
  BY <1>2, <1>11, <1>12 DEF NestOf, o, s
<1>14. P.inner = <<>> /\ P.outer = Loops(ts)
  BY <1>1
<1>15. SameWalk(NestOf(c, Walked(c)), P.outer, Walked(c))
  BY <1>13, <1>14, SameWalkRefl
<1> QED
  BY <1>14, <1>15, WalksOutside DEF Normalizing, P, o

(* The normalizations: the axis inside of the other dimensions, or all of  *)
(* them in one iteration.                                                  *)
LEMMA NormalizingWalks ==
  ASSUME NEW c \in Calls, Good(c), Kind(c) \in Normalizing
  PROVE  \E U, w : WalksAs(c, Plan(c, Filled(c)), U, w)
<1> DEFINE one == One(c, Filled(c))
           P == Plan(c, Filled(c))
           K == {"in1", "out"}
           S == NestOf(c, K)
           r == Filled(c).rank
           shape == Filled(c).shape
<1>1. Walked(c) = K /\ one = S
  BY OneIs, WalkedIs DEF Normalizing
<1>2. NestOver(S, K) /\ NestFacts(r, shape, Steps(c), K, S) /\ r \in 1 .. 4
  BY <1>1, NestOfIs, GoodOutput DEF Normalizing
<1>3. c.axis \in 0 .. r
  <2>1. Alike(c.in1, Filled(c))
    BY <1>1, FullOperand DEF Good, Normalizing
  <2>2. c.kind \in Normalizing /\ CheckActivation(c) = "OK"
    BY Kinded DEF Normalizing, Check, Good
  <2>3. ~(c.axis > c.in1.rank)
    BY <2>2 DEF CheckActivation
  <2>4. c.axis \in Nat
    BY CallsAssumption
  <2> QED BY <1>2, <2>1, <2>3, <2>4 DEF Alike
<1>4. P = [outer |-> Along(one, c.axis),
           inner |-> IF c.axis > 0 THEN <<one[c.axis]>>
                     ELSE IF Kind(c) = "l2" THEN Squash(one) ELSE one]
  BY PlanIs, Zenon
<1> HIDE DEF P, S, r, shape, one, K
<1>5. /\ IsNest(S) /\ Len(S) = r /\ \A d \in 1 .. r : S[d].count = shape[d]
      /\ \A d \in 1 .. r : \A k \in K : S[d].step[k] = Steps(c)[k][d]
  BY <1>2 DEF NestFacts
<1>6. CASE c.axis = 0
  <2> DEFINE U == [outer |-> <<>>, inner |-> S]
  <2>1. U.outer = <<>> /\ U.inner = S
    OBVIOUS
  <2>2. WalksBy(U, Straight4, r, shape, S)
    BY <1>2, <1>5, AllInside
  <2> HIDE DEF U
  <2>3. P.outer = <<>> /\ P.inner \in {S, Squash(S)}
    BY <1>1, <1>4, <1>6 DEF Along
  <2>4. SameWalk(U.outer, P.outer, K) /\ SameWalk(U.inner, P.inner, K)
    BY <1>2, <2>1, <2>3, SquashWalks, SameWalkRefl
  <2>5. /\ Walks(U, Straight4, r, shape)
        /\ \A k \in K : \A d \in 1 .. r : Loop(U, Straight4[d]).step[k] = Steps(c)[k][d]
    BY <1>5, <2>2 DEF WalksBy
  <2>6. WalksAs(c, P, U, Straight4)
    BY <1>1, <1>6, <2>1, <2>4, <2>5, Zenon DEF WalksAs, r, shape
  <2> QED
    BY <2>6 DEF P
<1>7. CASE c.axis \in 1 .. r
  <2> DEFINE a == c.axis
             U == [outer |-> Along(S, a), inner |-> <<S[a]>>]
             w == AxisInside(r, a)
  <2>1. U.outer = Along(S, a) /\ U.inner = <<S[a]>> /\ Len(U.inner) = 1
    OBVIOUS
  <2>2. WalksBy(U, w, r, shape, S)
    BY <1>2, <1>5, <1>7, AxisWithin
  <2>3. P = [outer |-> Along(S, a), inner |-> <<S[a]>>]
    BY <1>1, <1>4, <1>7
  <2>4. w[a] = r
    BY <1>2, <1>7 DEF AxisInside
  <2> HIDE DEF U, w
  <2>5. P = U
    BY <2>3 DEF U
  <2>6. SameWalk(U.outer, P.outer, K) /\ SameWalk(U.inner, P.inner, K)
    BY <2>5, SameWalkRefl
  <2>7. /\ Walks(U, w, r, shape)
        /\ \A k \in K : \A d \in 1 .. r : Loop(U, w[d]).step[k] = Steps(c)[k][d]
    BY <1>5, <2>2 DEF WalksBy
  <2>8. WalksAs(c, P, U, w)
    BY <1>1, <1>7, <2>1, <2>4, <2>6, <2>7, Zenon DEF WalksAs, r, shape
  <2> QED
    BY <2>8 DEF P
<1> QED
  BY <1>2, <1>3, <1>6, <1>7

(* Loops of one iteration each walk nowhere.                               *)
LEMMA SingleWalk ==
  ASSUME NEW S, IsNest(S), \A d \in 1 .. Len(S) : S[d].count = 1, NEW K,
         \A d \in 1 .. Len(S) : \A k \in K : S[d].step[k] \in Int
  PROVE  SameWalk(S, <<>>, K)
<1>1. Len(S) \in 0 .. 4
  BY DEF IsNest
<1>2. \A d \in 1 .. 4 : Count(S, d) = 1
  BY DEF Count
<1>3. /\ Inner(S, 5) = 1
      /\ \A d \in 1 .. 4 : Block(Count(S, d), Inner(S, d + 1), Inner(S, d))
  BY InnerBlocks
<1>4. Iterations(S) = 1
  <2>1. /\ Inner(S, 4) = 1 * Inner(S, 5) /\ Inner(S, 3) = 1 * Inner(S, 4)
        /\ Inner(S, 2) = 1 * Inner(S, 3) /\ Inner(S, 1) = 1 * Inner(S, 2)
    BY <1>2, <1>3 DEF Block
  <2> QED BY <1>3, <2>1 DEF Iterations
<1>5. Iterations(<<>>) = 1
  <2>1. Inner(<<>>, 5) = 1 /\ \A d \in 1 .. 4 : Block(Count(<<>>, d), Inner(<<>>, d + 1), Inner(<<>>, d))
    BY InnerBlocks, NoLoops
  <2>2. \A d \in 1 .. 4 : Count(<<>>, d) = 1
    BY NoLoops DEF Count
  <2>3. /\ Inner(<<>>, 4) = 1 * Inner(<<>>, 5) /\ Inner(<<>>, 3) = 1 * Inner(<<>>, 4)
        /\ Inner(<<>>, 2) = 1 * Inner(<<>>, 3) /\ Inner(<<>>, 1) = 1 * Inner(<<>>, 2)
    BY <2>1, <2>2 DEF Block
  <2> QED BY <2>1, <2>3 DEF Iterations
<1>6. ASSUME NEW k \in K
      PROVE  Place(S, k, 0) = 0 /\ Place(<<>>, k, 0) = 0
  <2>1. \A d \in 1 .. 4 : Part(S, k, d, 0) = 0
    <3> TAKE d \in 1 .. 4
    <3>1. CASE d <= Len(S)
      <4>1. Dig(S, d, 0) \in 0 .. Count(S, d) - 1
        BY <1>4, NestIsCounted DEF NestCounts
      <4>2. Dig(S, d, 0) = 0 /\ S[d].step[k] \in Int
        BY <1>1, <1>2, <3>1, <4>1
      <4> QED BY <3>1, <4>2 DEF Part
    <3>2. CASE ~(d <= Len(S))
      BY <3>2 DEF Part
    <3> QED BY <3>1, <3>2
  <2>2. \A d \in 1 .. 4 : Part(<<>>, k, d, 0) = 0
    BY NoLoops DEF Part
  <2> QED BY <2>1, <2>2, PlaceIsSum, NoLoops
<1>7. \A x \in 0 .. Iterations(S) - 1 : x = 0
  BY <1>4
<1> QED
  BY <1>4, <1>5, <1>6, <1>7, Zenon DEF SameWalk

(* Operations on two operands.                                             *)
LEMMA EltwiseWalks ==
  ASSUME NEW c \in Calls, Good(c), Kind(c) = "eltwise"
  PROVE  \E U, w : WalksAs(c, Plan(c, Filled(c)), U, w)
<1> DEFINE o == Filled(c)
           P == Plan(c, o)
           K == Walked(c)
           S == NestOf(c, K)
           ts == [k \in K |-> IF k = "out" THEN o ELSE c[k]]
           s == Steps(c)
<1>1. P = [outer |-> IF Scalars(c) = {"in1", "in2"} THEN <<>> ELSE Adjacent(Squash(Loops(ts))),
           inner |-> <<>>]
  BY PlanIs, Zenon
<1>2. Scalars(c) = {k \in {"in1", "in2"} : IsScalar(c[k])}
  BY DEF Scalars
<1>3. K = {k \in {"in1", "in2"} : ~IsScalar(c[k])} \cup {"out"}
  BY WalkedIs
<1>4. /\ NestFacts(o.rank, o.shape, s, K, S) /\ NestOver(S, K)
      /\ \A d \in 1 .. Len(S) : {"count", "step"} \subseteq DOMAIN S[d]
  BY NestOfIs, NestOfParts
<1>5. CASE Scalars(c) = {"in1", "in2"}
  <2>1. IsScalar(c.in1) /\ IsScalar(c.in2)
    BY <1>2, <1>5
  <2>2. /\ Descriptor(c.in1) /\ Descriptor(c.in2) /\ CheckScalar(c.in2) = "OK"
    BY <1>5 DEF Good, SizedCall, Documented, Valid, Binary
  <2>3. ElemNum(c.in1) = 1 /\ ElemNum(c.in2) = 1
    BY <2>1, <2>2 DEF IsScalar, ElemNum, Descriptor
  <2>4. /\ o.rank = c.in2.rank
        /\ o.shape = [d \in 1 .. MaxRank |-> IF d <= c.in2.rank THEN c.in2.shape[d] ELSE c.out.shape[d]]
    <3>1. PICK from \in {c.in1, c.in2} :
            /\ from = IF ElemNum(c.in1) <= ElemNum(c.in2) THEN c.in2 ELSE c.in1
            /\ o.rank = from.rank
            /\ o.shape = [d \in 1 .. MaxRank |-> IF d <= from.rank THEN from.shape[d] ELSE c.out.shape[d]]
      BY FilledIs DEF Good
    <3> HIDE DEF o
    <3>2. from = c.in2
      BY <2>3, <3>1
    <3> QED BY <3>1, <3>2
  <2>5. o.rank \in 1 .. 4
    BY GoodOutput
  <2> HIDE DEF o
  <2>6. CheckLayout(c.in2) = "OK"
    BY <2>2, <2>4, <2>5, TensorHasLayout DEF CheckScalar
  <2>7. \A d \in 1 .. o.rank : o.shape[d] = 1
    BY <2>2, <2>3, <2>4, <2>5, <2>6, ElemNumIs DEF MaxRank
  <2>8. /\ IsNest(S) /\ \A d \in 1 .. Len(S) : S[d].count = 1
        /\ \A d \in 1 .. Len(S) : \A k \in K : S[d].step[k] \in Int
    BY <1>4, <2>7 DEF NestFacts, NestOver
  <2> HIDE DEF S, P, ts
  <2>9. SameWalk(S, <<>>, K)
    BY <2>8, SingleWalk
  <2>10. P.outer = <<>> /\ P.inner = <<>>
    BY <1>1, <1>5
  <2> QED
    BY <2>9, <2>10, WalksOutside DEF Normalizing, P, S, o
<1>6. CASE Scalars(c) # {"in1", "in2"}
  <2>1. DOMAIN ts = K /\ \A k \in K : ts[k] = IF k = "out" THEN o ELSE c[k]
    OBVIOUS
  <2>2. \A k \in K : \A d \in 1 .. 4 : s[k][d] = IF k = "out" THEN o.mem_stride[d] ELSE c[k].mem_stride[d]
    BY WalkedIs, StepIs DEF StepOf, Strided4
  <2>3. o.rank \in 1 .. 4 /\ \A k \in K : k # "out" => Alike(c[k], o)
    BY GoodOutput, FullOperand DEF Good
  <2>4. "in1" \in K \/ "in2" \in K
    BY <1>2, <1>3, <1>6
  <2> DEFINE operand == IF "in1" \in K THEN c["in1"] ELSE c["in2"]
  <2>5. operand = IF "in1" \in DOMAIN ts THEN ts.in1 ELSE ts.in2
    <3>1. "in1" \in K => ts["in1"] = c["in1"]
      BY <2>1
    <3>2. "in2" \in K => ts["in2"] = c["in2"]
      BY <2>1
    <3> HIDE DEF ts, K
    <3> QED BY <2>1, <2>4, <3>1, <3>2
  <2>6. Alike(operand, o)
    BY <2>3, <2>4
  <2> HIDE DEF ts, o, s, S, P, K, operand
  <2>7. \A d \in 1 .. o.rank : \A k \in DOMAIN ts : ts[k].mem_stride[d] = s[k][d]
    <3> TAKE d \in 1 .. o.rank
    <3>1. d \in 1 .. 4
      BY <2>3
    <3> QED BY <2>1, <2>2, <3>1
  <2>8. operand.rank = o.rank /\ \A d \in 1 .. o.rank : operand.shape[d] = o.shape[d]
    BY <2>6 DEF Alike
  <2>9. Loops(ts) = Nest(o.rank, o.shape, s, DOMAIN ts)
    BY <2>5, <2>7, <2>8, LoopsAre
  <2>10. Loops(ts) = S
    BY <2>1, <2>9 DEF NestOf, S, o, s
  <2>11. P.outer = Adjacent(Squash(S)) /\ P.inner = <<>>
    BY <1>1, <1>6, <2>10
  <2>12. SameWalk(S, P.outer, K)
    BY <1>4, <2>11, SquashedAdjacent
  <2> QED
    BY <2>11, <2>12, WalksOutside DEF Normalizing, P, S, o, K
<1> QED
  BY <1>5, <1>6

(* Parametric RELU with a slope for each index of the axis.                *)
LEMMA PreluWalks ==
  ASSUME NEW c \in Calls, Good(c), Kind(c) = "prelu"
  PROVE  \E U, w : WalksAs(c, Plan(c, Filled(c)), U, w)
<1> DEFINE o == Filled(c)
           r == o.rank
           a == c.axis
           P == Plan(c, o)
           H == {"in1", "out"}
           one == One(c, o)
           S == NestOf(c, Names)
           s == Steps(c)
           loops == IF a = r THEN one ELSE Adjacent(one)
           sloped == Sloped(c, loops)
<1>1. P = [outer |-> AxisFirst(sloped, a), inner |-> <<>>]
  BY PlanIs, Zenon
<1>2. Walked(c) = Names /\ one = NestOf(c, H)
  BY OneIs, WalkedIs DEF Names
<1>3. /\ NestFacts(r, o.shape, s, Names, S)
      /\ NestFacts(r, o.shape, s, H, one) /\ NestOver(one, H)
      /\ r \in 1 .. 4
  BY <1>2, NestOfIs, GoodOutput DEF Names
<1>4. a \in 1 .. r
  <2>1. Alike(c.in1, o)
    BY <1>2, FullOperand DEF Good, Names
  <2>2. a \in 1 .. c.in1.rank
    BY DEF Good, Documented, Dims
  <2> QED BY <2>1, <2>2 DEF Alike
<1>5. \A d \in 1 .. 4 : s["in2"][d] = IF d = a THEN 1 ELSE 0
  BY StepIs DEF StepOf, Names
<1> HIDE DEF one, S, s, o
<1>6. /\ DOMAIN loops = 1 .. r
      /\ \A d \in 1 .. r : /\ loops[d].count = o.shape[d]
                           /\ \A k \in H : loops[d].step[k] = s[k][d]
  <2>1. CASE a = r
    BY <1>3, <2>1 DEF NestFacts
  <2>2. CASE a # r
    <3>1. /\ DOMAIN one = 1 .. Len(one) /\ Len(one) = r
          /\ \A d \in 1 .. r : /\ one[d].count = o.shape[d] /\ {"count", "step"} \subseteq DOMAIN one[d]
                               /\ \A k \in H : one[d].step[k] = s[k][d]
      BY <1>3 DEF NestFacts
    <3>2. /\ DOMAIN Adjacent(one) = 1 .. r
          /\ \A d \in 1 .. r : /\ Adjacent(one)[d].count = one[d].count
                               /\ \A k \in H : Adjacent(one)[d].step[k] = one[d].step[k]
      BY <1>3, <3>1, AdjacentWalks
    <3>3. loops = Adjacent(one)
      BY <2>2
    <3> HIDE DEF loops, H
    <3> QED BY <3>1, <3>2, <3>3
  <2> QED BY <2>1, <2>2
<1> HIDE DEF loops
<1>7. /\ DOMAIN sloped = 1 .. r
      /\ \A d \in 1 .. r : /\ sloped[d].count = S[d].count
                           /\ \A k \in Names : sloped[d].step[k] = S[d].step[k]
  <2>1. sloped = [d \in 1 .. r |->
          [count |-> loops[d].count,
           step |-> [k \in Names |-> IF k # "in2" THEN loops[d].step[k] ELSE IF d = a THEN 1 ELSE 0]]]
    BY <1>6 DEF Sloped
  <2>2. DOMAIN sloped = 1 .. r
    BY <2>1
  <2>3. ASSUME NEW d \in 1 .. r
        PROVE  /\ sloped[d].count = S[d].count
               /\ \A k \in Names : sloped[d].step[k] = S[d].step[k]
    <3> DEFINE f == [k \in Names |-> IF k # "in2" THEN loops[d].step[k] ELSE IF d = a THEN 1 ELSE 0]
    <3>1. sloped[d] = [count |-> loops[d].count, step |-> f]
      BY <2>1
    <3>2. \A k \in Names : f[k] = s[k][d]
      <4>1. d \in 1 .. 4
        BY <1>3
      <4>2. \A k \in Names : f[k] = IF k # "in2" THEN loops[d].step[k] ELSE IF d = a THEN 1 ELSE 0
        OBVIOUS
      <4> HIDE DEF f
      <4> QED BY <1>5, <1>6, <4>1, <4>2 DEF Names
    <3> HIDE DEF f, sloped
    <3>3. sloped[d].count = loops[d].count /\ sloped[d].step = f
      BY <3>1
    <3>4. S[d].count = o.shape[d] /\ \A k \in Names : S[d].step[k] = s[k][d]
      BY <1>3 DEF NestFacts
    <3> QED BY <1>6, <3>2, <3>3, <3>4
  <2> QED BY <2>2, <2>3
<1>8. Len(sloped) = r
  <2>1. sloped = [d \in 1 .. r |-> sloped[d]]
    BY <1>6 DEF Sloped
  <2> HIDE DEF sloped
  <2> QED BY <1>3, <2>1, LenIs
<1>9. /\ IsNest(S) /\ Len(S) = r /\ DOMAIN S = 1 .. r
      /\ \A d \in 1 .. r : /\ S[d].count = o.shape[d]
                           /\ \A k \in Names : S[d].step[k] = s[k][d]
  BY <1>3 DEF NestFacts
<1> HIDE DEF sloped, r, a, P, H
<1>91. /\ WalksBy([outer |-> AxisFirst(S, a), inner |-> <<>>], AxisOutside(r, a), r, o.shape, S)
       /\ IsNest(AxisFirst(S, a))
  <2>1. \A d \in 1 .. r : S[d].count = o.shape[d]
    BY <1>9
  <2>2. IsNest(S) /\ Len(S) = r /\ DOMAIN S = 1 .. r
    BY <1>9
  <2> QED BY <1>3, <1>4, <2>1, <2>2, AxisOutermost
<1> DEFINE F == AxisFirst(S, a)
           G == AxisFirst(sloped, a)
           U == [outer |-> F, inner |-> <<>>]
           w == AxisOutside(r, a)
           shape == o.shape
<1>10. WalksBy(U, w, r, shape, S) /\ IsNest(F)
  BY <1>91, Zenon
<1>11. FirstFacts(F, S, r, a) /\ FirstFacts(G, sloped, r, a)
  BY <1>3, <1>4, <1>7, <1>8, <1>9, AxisFirstIs
<1>12. U.outer = F /\ U.inner = <<>>
  OBVIOUS
<1>13. P.outer = G /\ P.inner = <<>>
  BY <1>1
<1> HIDE DEF F, G, U, w, shape
<1>14. /\ Len(G) = Len(F) /\ Len(F) = r
       /\ \A d \in 1 .. r : \E e \in 1 .. r : F[d] = S[e] /\ G[d] = sloped[e]
  <2>1. Len(G) = Len(F) /\ Len(F) = r
    BY <1>11 DEF FirstFacts
  <2>2. ASSUME NEW d \in 1 .. r
        PROVE  \E e \in 1 .. r : F[d] = S[e] /\ G[d] = sloped[e]
    <3>1. /\ F[d] = IF d = 1 THEN S[a] ELSE IF d <= a THEN S[d - 1] ELSE S[d]
          /\ G[d] = IF d = 1 THEN sloped[a] ELSE IF d <= a THEN sloped[d - 1] ELSE sloped[d]
      BY <1>11, Zenon DEF FirstFacts
    <3>2. CASE d = 1
      BY <1>4, <3>1, <3>2
    <3>3. CASE d # 1 /\ d <= a
      <4>1. d - 1 \in 1 .. r
        BY <1>3, <3>3
      <4> QED BY <3>1, <3>3, <4>1
    <3>4. CASE d # 1 /\ ~(d <= a)
      BY <3>1, <3>4
    <3> QED BY <3>2, <3>3, <3>4
  <2> QED BY <2>1, <2>2
<1>15. \A d \in 1 .. Len(F) : /\ G[d].count = F[d].count
                              /\ \A k \in Names : G[d].step[k] = F[d].step[k]
  <2> TAKE d \in 1 .. Len(F)
  <2>1. PICK e \in 1 .. r : F[d] = S[e] /\ G[d] = sloped[e]
    BY <1>14
  <2> QED BY <1>7, <2>1
<1>16. SameWalk(F, G, Names)
  BY <1>10, <1>14, <1>15, AlikeWalk
<1>17. SameWalk(U.outer, P.outer, Names) /\ SameWalk(U.inner, P.inner, Names)
  BY <1>12, <1>13, <1>16, SameWalkRefl
<1>18. /\ Walks(U, w, r, shape)
       /\ \A k \in Names : \A d \in 1 .. r : Loop(U, w[d]).step[k] = s[k][d]
  BY <1>9, <1>10 DEF WalksBy
<1>19. Kind(c) \notin Normalizing
  BY DEF Normalizing
<1>20. WalksAs(c, P, U, w)
  BY <1>2, <1>17, <1>18, <1>19, Zenon DEF WalksAs, r, shape, s, o
<1> QED
  BY <1>20 DEF P, o

(* Every kernel walks along the dimensions of its result. *)
LEMMA PlanWalks ==
  ASSUME NEW c \in Calls, Good(c)
  PROVE  \E U, w : WalksAs(c, Plan(c, Filled(c)), U, w)
<1>1. Kind(c) \in Kinds
  BY Kinded
<1>2. CASE Kind(c) = "eltwise"
  BY <1>2, EltwiseWalks, Zenon
<1>3. CASE Kind(c) \in {"relu", "leaky", "lut"}
  BY <1>3, ReluWalks, Zenon
<1>4. CASE Kind(c) = "prelu"
  BY <1>4, PreluWalks, Zenon
<1>5. CASE Kind(c) = "permute"
  BY <1>5, PermuteWalks, Zenon
<1>6. CASE Kind(c) \in Normalizing
  BY <1>6, NormalizingWalks, Zenon
<1> QED
  BY <1>1, <1>2, <1>3, <1>4, <1>5, <1>6, Zenon DEF Kinds, Normalizing

-----------------------------------------------------------------------------
(* Positions of the result, in the order in which they are handled.        *)

Outer(c) == 0 .. Iterations(Plan(c, Filled(c)).outer) - 1
Within(c) == 0 .. Iterations(Plan(c, Filled(c)).inner) - 1

Spot(c, k, x, i) ==
  Place(Plan(c, Filled(c)).outer, k, x) + Place(Plan(c, Filled(c)).inner, k, i)

BoxOf(c) == Box(Filled(c).rank, Filled(c).shape)

SliceOf(c, p) == {q \in BoxOf(c) : c.axis = 0 \/ \A d \in 1 .. 4 : d # c.axis => q[d] = p[d]}

VisitsBox(c, f) == \A x \in Outer(c) : \A i \in Within(c) : f[x][i] \in BoxOf(c)

VisitsOnce(c, f) ==
  \A x, y \in Outer(c) : \A i, l \in Within(c) :
    (\A d \in 1 .. Filled(c).rank : f[x][i][d] = f[y][l][d]) => x = y /\ i = l

VisitsAll(c, f) == \A p \in BoxOf(c) : \E x \in Outer(c) : \E i \in Within(c) : p = f[x][i]

VisitsSpots(c, f) ==
  \A k \in Walked(c) : \A x \in Outer(c) : \A i \in Within(c) :
    Spot(c, k, x, i) = AtStrides(Filled(c).rank, Steps(c)[k], f[x][i])

VisitsSlices(c, f) ==
  Kind(c) \in Normalizing =>
    \A x \in Outer(c) : \A i \in Within(c) :
      {f[x][j] : j \in Within(c)} = SliceOf(c, f[x][i])

(* Each position of the result is handled once. *)
Visits(c, f) ==
  VisitsBox(c, f) /\ VisitsOnce(c, f) /\ VisitsAll(c, f) /\ VisitsSpots(c, f) /\ VisitsSlices(c, f)

(* Iterations of the loop along the axis inside of the others.             *)
LEMMA AxisInsideTurns ==
  ASSUME NEW P, NEW w, NEW r, NEW shape, Walks(P, w, r, shape), NEW a \in 1 .. r,
         Len(P.inner) = 1, w[a] = r, NEW x, NEW y, NEW i, NEW l
  PROVE  /\ \A d \in 1 .. 4 : d # a => Pos(P, w, r, x, i)[d] = Pos(P, w, r, x, l)[d]
         /\ Pos(P, w, r, x, i)[a] = Pos(P, w, r, y, i)[a]
<1>1. /\ r \in 1 .. 4 /\ Len(P.outer) + Len(P.inner) = r /\ Len(P.outer) \in 0 .. 4
      /\ \A d \in 1 .. r : w[d] \in 1 .. r
      /\ \A d \in 1 .. r : \A e \in d + 1 .. r : w[d] # w[e]
  BY DEF Walks, IsNest
<1>2. Len(P.outer) = r - 1
  BY <1>1
<1>3. ASSUME NEW d \in 1 .. 4, d # a
      PROVE  IndexAlong(P, w, r, x, i, d) = IndexAlong(P, w, r, x, l, d)
  <2>1. CASE d <= r
    <3>1. d \in 1 .. r
      BY <1>1, <2>1
    <3>2. w[d] # w[a]
      BY <1>1, <1>3, <3>1, Distinct
    <3>3. w[d] <= Len(P.outer)
      BY <1>1, <1>2, <3>1, <3>2
    <3> QED
      BY <2>1, <3>3 DEF IndexAlong, Turn
  <2>2. CASE ~(d <= r)
    BY <2>2 DEF IndexAlong
  <2> QED
    BY <2>1, <2>2
<1>4. IndexAlong(P, w, r, x, i, a) = IndexAlong(P, w, r, y, i, a)
  <2>1. ~(w[a] <= Len(P.outer))
    BY <1>1, <1>2
  <2> QED
    BY <2>1 DEF IndexAlong, Turn
<1>5. a \in 1 .. 4
  BY <1>1
<1> QED
  BY <1>3, <1>4, <1>5, PosIs

(* Every kernel handles each position of its result once, in slices along  *)
(* its axis.                                                               *)
LEMMA PlanVisits ==
  ASSUME NEW c \in Calls, Good(c)
  PROVE  \E f : Visits(c, f)
<1> DEFINE P == Plan(c, Filled(c))
           r == Filled(c).rank
           shape == Filled(c).shape
           K == Walked(c)
           O == Outer(c)
           I == Within(c)
           B == BoxOf(c)
<1>1. PICK U, w : WalksAs(c, P, U, w)
  BY PlanWalks
<1> DEFINE f == [x \in O |-> [i \in I |-> Pos(U, w, r, x, i)]]
<1>2. /\ Walks(U, w, r, shape)
      /\ SameWalk(U.outer, P.outer, K) /\ SameWalk(U.inner, P.inner, K)
      /\ \A k \in K : \A d \in 1 .. r : Loop(U, w[d]).step[k] = Steps(c)[k][d]
      /\ Kind(c) \in Normalizing =>
           (c.axis = 0 /\ U.outer = <<>>) \/ (c.axis \in 1 .. r /\ Len(U.inner) = 1 /\ w[c.axis] = r)
  BY <1>1, Zenon DEF WalksAs
<1>3. /\ O = 0 .. Iterations(U.outer) - 1 /\ I = 0 .. Iterations(U.inner) - 1
      /\ \A k \in K : \A x \in O : Place(U.outer, k, x) = Place(P.outer, k, x)
      /\ \A k \in K : \A i \in I : Place(U.inner, k, i) = Place(P.inner, k, i)
  BY <1>2, Zenon DEF SameWalk, Outer, Within
<1>4. \A x \in O : \A i \in I : f[x][i] = Pos(U, w, r, x, i)
  OBVIOUS
<1>5. r \in 1 .. 4 /\ B = Box(r, shape)
  BY GoodOutput DEF BoxOf
<1>6. \A k \in K : \A x \in O : \A i \in I :
        Spot(c, k, x, i) = Place(P.outer, k, x) + Place(P.inner, k, i)
  BY DEF Spot
<1>7. \A k \in K : \A d \in 1 .. r : Steps(c)[k][d] \in Int
  BY StepsFit
<1> HIDE DEF P, r, shape, K, O, I, B, f
<1>8. \A x \in O : \A i \in I : f[x][i] \in B
  BY <1>2, <1>3, <1>4, <1>5, WalkInside
<1>9. \A x, y \in O : \A i, l \in I :
        (\A d \in 1 .. r : f[x][i][d] = f[y][l][d]) => x = y /\ i = l
  <2> SUFFICES ASSUME NEW x \in O, NEW y \in O, NEW i \in I, NEW l \in I,
                      \A d \in 1 .. r : f[x][i][d] = f[y][l][d]
               PROVE  x = y /\ i = l
    OBVIOUS
  <2>1. /\ Walks(U, w, r, shape)
        /\ x \in 0 .. Iterations(U.outer) - 1 /\ y \in 0 .. Iterations(U.outer) - 1
        /\ i \in 0 .. Iterations(U.inner) - 1 /\ l \in 0 .. Iterations(U.inner) - 1
    BY <1>2, <1>3
  <2>2. \A d \in 1 .. r : Pos(U, w, r, x, i)[d] = Pos(U, w, r, y, l)[d]
    BY <1>4
  <2> QED
    BY <2>1, <2>2, WalkApart
<1>10. \A p \in B : \E x \in O : \E i \in I : p = f[x][i]
  <2> TAKE p \in B
  <2>1. \E x \in O, i \in I : p = Pos(U, w, r, x, i)
    BY <1>2, <1>3, <1>5, WalkReaches
  <2> QED
    BY <1>4, <2>1
<1>11. \A k \in K : \A x \in O : \A i \in I :
         Spot(c, k, x, i) = AtStrides(r, Steps(c)[k], f[x][i])
  <2> SUFFICES ASSUME NEW k \in K, NEW x \in O, NEW i \in I
               PROVE  Spot(c, k, x, i) = AtStrides(r, Steps(c)[k], f[x][i])
    OBVIOUS
  <2> DEFINE s == Steps(c)[k]
  <2>1. \A d \in 1 .. r : s[d] \in Int /\ Loop(U, w[d]).step[k] = s[d]
    BY <1>2, <1>7
  <2> HIDE DEF s
  <2>3. Stepped(U, w, r, k, s)
    BY <2>1, Zenon DEF Stepped
  <2>2. Place(U.outer, k, x) + Place(U.inner, k, i) = AtStrides(r, s, Pos(U, w, r, x, i))
    <3>1. /\ Walks(U, w, r, shape)
          /\ x \in 0 .. Iterations(U.outer) - 1 /\ i \in 0 .. Iterations(U.inner) - 1
      BY <1>2, <1>3
    <3> QED
      BY <2>3, <3>1, WalkPlaces
  <2> QED
    BY <1>3, <1>4, <1>6, <2>2 DEF s
<1>12. ASSUME Kind(c) \in Normalizing, NEW x \in O, NEW i \in I
       PROVE  {f[x][j] : j \in I} = SliceOf(c, f[x][i])
  <2>1. SliceOf(c, f[x][i]) = {q \in B : c.axis = 0 \/ \A d \in 1 .. 4 : d # c.axis => q[d] = f[x][i][d]}
    BY DEF SliceOf, B
  <2>2. CASE c.axis = 0 /\ U.outer = <<>>
    <3>1. Iterations(<<>>) = 1
      <4>1. Len(<<>>) = 0
        BY NoLoops
      <4> QED BY <4>1 DEF Iterations, Inner
    <3>2. \A y \in O : y = x
      BY <1>3, <2>2, <3>1
    <3>3. \A q \in B : \E j \in I : q = f[x][j]
      BY <1>10, <3>2
    <3> QED
      BY <1>8, <2>1, <2>2, <3>3
  <2>3. CASE c.axis \in 1 .. r /\ Len(U.inner) = 1 /\ w[c.axis] = r
    <3>1. c.axis # 0
      BY <1>5, <2>3
    <3>2. \A j \in I : f[x][j] \in SliceOf(c, f[x][i])
      <4> TAKE j \in I
      <4>1. \A d \in 1 .. 4 : d # c.axis => f[x][j][d] = f[x][i][d]
        BY <1>2, <1>4, <2>3, AxisInsideTurns
      <4> QED BY <1>8, <2>1, <4>1
    <3>3. \A q \in SliceOf(c, f[x][i]) : \E j \in I : q = f[x][j]
      <4> TAKE q \in SliceOf(c, f[x][i])
      <4>1. q \in B /\ \A d \in 1 .. 4 : d # c.axis => q[d] = f[x][i][d]
        BY <2>1, <3>1
      <4>2. PICK y \in O : \E j \in I : q = f[y][j]
        BY <1>10, <4>1
      <4>3. PICK l \in I : q = f[y][l]
        BY <4>2
      <4>4. /\ \A d \in 1 .. 4 : d # c.axis => f[x][l][d] = f[x][i][d]
            /\ f[x][l][c.axis] = f[y][l][c.axis]
        BY <1>2, <1>4, <2>3, AxisInsideTurns
      <4>5. \A d \in 1 .. r : f[x][l][d] = f[y][l][d]
        <5> TAKE d \in 1 .. r
        <5>1. d \in 1 .. 4
          BY <1>5
        <5> QED BY <4>1, <4>3, <4>4, <5>1
      <4>6. x = y
        BY <1>9, <4>5
      <4> QED BY <4>3, <4>6
    <3> QED
      BY <3>2, <3>3
  <2> QED
    BY <1>2, <1>12, <2>2, <2>3
<1>13. VisitsBox(c, f) /\ VisitsAll(c, f)
  BY <1>8, <1>10, Zenon DEF VisitsBox, VisitsAll, O, I, B
<1>14. VisitsOnce(c, f)
  BY <1>9, Zenon DEF VisitsOnce, r, O, I
<1>15. VisitsSpots(c, f)
  BY <1>11, Zenon DEF VisitsSpots, r, K, O, I
<1>16. VisitsSlices(c, f)
  BY <1>12, Zenon DEF VisitsSlices, O, I
<1> QED
  BY <1>13, <1>14, <1>15, <1>16, Zenon DEF Visits

-----------------------------------------------------------------------------
(* Positions and addresses.                                                *)

(* A position has an index for each dimension. *)
LEMMA BoxPosition ==
  ASSUME NEW r \in 1 .. 4, NEW shape, \A d \in 1 .. r : shape[d] \in Nat \ {0}, NEW p \in Box(r, shape)
  PROVE  /\ p \in [1 .. 4 -> Int]
         /\ \A d \in 1 .. r : p[d] \in 0 .. shape[d] - 1 /\ p[d] \in Nat
         /\ \A d \in 1 .. 4 : d > r => p[d] = 0
<1> DEFINE along(d) == IF d <= r THEN 0 .. shape[d] - 1 ELSE {0}
<1>1. PICK p1 \in along(1), p2 \in along(2), p3 \in along(3), p4 \in along(4) : p = <<p1, p2, p3, p4>>
  <2>1. Box(r, shape) = {<<p1, p2, p3, p4>> : p1 \in along(1), p2 \in along(2),
                                              p3 \in along(3), p4 \in along(4)}
    BY DEF Box
  <2> HIDE DEF along
  <2> QED
    BY <2>1
<1>2. \A d \in 1 .. 4 : along(d) \subseteq Nat
  OBVIOUS
<1>3. \A d \in 1 .. r : along(d) = 0 .. shape[d] - 1 /\ d \in 1 .. 4
  OBVIOUS
<1>4. \A d \in 1 .. 4 : d > r => along(d) = {0}
  OBVIOUS
<1> HIDE DEF along
<1>5. p1 \in Nat /\ p2 \in Nat /\ p3 \in Nat /\ p4 \in Nat
  BY <1>1, <1>2
<1>6. p \in [1 .. 4 -> Int]
  BY <1>1, <1>5
<1>7. p[1] = p1 /\ p[2] = p2 /\ p[3] = p3 /\ p[4] = p4
  BY <1>1
<1>8. \A d \in 1 .. 4 : p[d] \in along(d)
  BY <1>1, <1>7
<1>9. \A d \in 1 .. r : p[d] \in 0 .. shape[d] - 1 /\ p[d] \in Nat
  BY <1>2, <1>3, <1>8
<1>10. \A d \in 1 .. 4 : d > r => p[d] = 0
  BY <1>4, <1>8
<1> QED
  BY <1>6, <1>9, <1>10

LEMMA OffsetAtStrides ==
  ASSUME NEW t, NEW r \in 1 .. 4, t.rank = r, NEW s, \A d \in 1 .. r : s[d] = t.mem_stride[d], NEW p
  PROVE  AtStrides(r, s, p) = Offset(t, p)
<1>1. Offset(t, p) = Term(t, p, 1) + Term(t, p, 2) + Term(t, p, 3) + Term(t, p, 4)
  BY OffsetIsSum
<1>2. \A d \in 1 .. 4 : Term(t, p, d) = IF d <= r THEN p[d] * s[d] ELSE 0
  <2> TAKE d \in 1 .. 4
  <2>1. CASE d <= r
    <3>1. d \in 1 .. r
      BY <2>1
    <3>2. s[d] = t.mem_stride[d]
      BY <3>1
    <3> QED
      BY <2>1, <3>2 DEF Term
  <2>2. CASE ~(d <= r)
    BY <2>2 DEF Term
  <2> QED
    BY <2>1, <2>2
<1> QED
  BY <1>1, <1>2 DEF AtStrides

(* An element that ends within the capacity is one of the buffer. *)
LEMMA QuotientFits ==
  ASSUME NEW e \in Nat \ {0}, NEW cap \in Nat, NEW off \in Nat, (off + 1) * e <= cap
  PROVE  off \in 0 .. (cap \div e) - 1
<1> DEFINE q == cap \div e
           s == cap % e
<1>1. q \in Int /\ s \in 0 .. e - 1 /\ cap = q * e + s
  BY Division
<1> HIDE DEF q, s
<1>2. off + 1 \in Int /\ q * e \in Int /\ (off + 1) * e \in Int
  BY <1>1
<1>3. q < off + 1 => q * e + e <= (off + 1) * e
  BY <1>1, <1>2, Monotone
<1>4. ~(q < off + 1)
  <2> DEFINE A == q * e
             B == (off + 1) * e
  <2>1. A \in Int /\ B \in Int /\ B <= cap /\ cap = A + s /\ (q < off + 1 => A + e <= B)
    BY <1>1, <1>2, <1>3
  <2> HIDE DEF A, B
  <2> QED
    BY <1>1, <2>1
<1> QED
  BY <1>1, <1>4 DEF q

(* The elements of an accepted tensor are in its buffer. *)
LEMMA AddressInside ==
  ASSUME NEW c, NEW k \in Names, c[k].rank > 0, NEW t, Descriptor(t), CheckLayout(t) = "OK", NoWrap(t),
         t.capacity = c[k].capacity, t.elem = c[k].elem, NEW p, IsPosition(t, p)
  PROVE  At(c, k, Offset(t, p)) \in Allocated(c)
<1> DEFINE off == Offset(t, p)
           cells(j) == {At(c, j, i) : i \in 0 .. (c[j].capacity \div c[j].elem) - 1}
           data == UNION {cells(j) : j \in {j \in Names : c[j].rank > 0}}
<1>1. 0 <= off /\ (off + 1) * t.elem <= t.capacity
  BY PositionInside
<1>2. t.elem \in Nat \ {0} /\ t.capacity \in Nat
  BY DEF Descriptor
<1>3. off \in Int
  <2>1. \A d \in 1 .. 4 : Term(t, p, d) \in Nat
    BY TermBounds DEF MaxRank
  <2> QED
    BY <2>1, OffsetIsSum
<1> HIDE DEF off
<1>4. off \in 0 .. (t.capacity \div t.elem) - 1
  <2> DEFINE e == t.elem
             cap == t.capacity
  <2>1. e \in Nat \ {0} /\ cap \in Nat /\ off \in Nat /\ (off + 1) * e <= cap
    BY <1>1, <1>2, <1>3
  <2> HIDE DEF e, cap
  <2>2. off \in 0 .. (cap \div e) - 1
    BY <2>1, QuotientFits
  <2> QED
    BY <2>2 DEF e, cap
<1>5. At(c, k, off) \in cells(k)
  BY <1>4
<1>6. data \subseteq Allocated(c)
  BY Zenon DEF Allocated
<1>7. cells(k) \subseteq data
  OBVIOUS
<1> HIDE DEF cells, data
<1> QED
  BY <1>5, <1>6, <1>7 DEF off

-----------------------------------------------------------------------------
(* Where the element of an operand for position p of the result is.        *)
SlopeAt(c, p) == [d \in 1 .. 4 |-> IF d = c.axis THEN p[d] ELSE 0]

BackAt(c, p) ==
  [d \in 1 .. 4 |->
     IF d <= c.in1.rank THEN p[CHOOSE e \in 1 .. c.in1.rank : c.perm[e] = d] ELSE 0]

SourceAt(c, k, p) ==
  IF Kind(c) = "permute" THEN BackAt(c, p)
  ELSE IF Kind(c) = "prelu" /\ k = "in2" THEN SlopeAt(c, p) ELSE p

Address(c, k, p) == AtStrides(Filled(c).rank, Steps(c)[k], p)

(* An operand is an accepted tensor that has the element. *)
Supplies(c, k, p) ==
  /\ CheckLayout(c[k]) = "OK" /\ Descriptor(c[k]) /\ NoWrap(c[k]) /\ c[k].rank > 0
  /\ IsPosition(c[k], SourceAt(c, k, p))
  /\ Address(c, k, p) = Offset(c[k], SourceAt(c, k, p))

(* An operand of the shape of the result has the element of the position. *)
LEMMA StraightSupplies ==
  ASSUME NEW c \in Calls, Good(c), NEW k \in Walked(c), k # "out",
         Kind(c) # "permute", ~(Kind(c) = "prelu" /\ k = "in2"), NEW p \in BoxOf(c)
  PROVE  Supplies(c, k, p)
<1> DEFINE o == Filled(c)
           t == c[k]
           s == Steps(c)[k]
<1>1. /\ o.rank \in 1 .. 4 /\ \A d \in 1 .. o.rank : o.shape[d] \in Nat \ {0}
  BY GoodOutput
<1>2. Alike(t, o)
  BY FullOperand DEF Good
<1>3. k \in {"in1", "in2"} /\ Descriptor(t) /\ NoWrap(t)
  BY WalkedIs DEF Good, SizedCall, Names
<1>4. \A d \in 1 .. 4 : s[d] = t.mem_stride[d]
  BY <1>3, StepIs DEF StepOf, Names
<1>5. /\ p \in [1 .. 4 -> Int] /\ \A d \in 1 .. o.rank : p[d] \in 0 .. o.shape[d] - 1
  BY <1>1, BoxPosition DEF BoxOf
<1>6. SourceAt(c, k, p) = p
  BY DEF SourceAt
<1>7. Address(c, k, p) = AtStrides(o.rank, s, p)
  BY DEF Address
<1> HIDE DEF o, t, s
<1>8. t.rank = o.rank /\ CheckLayout(t) = "OK" /\ \A d \in 1 .. o.rank : t.shape[d] = o.shape[d]
  BY <1>2 DEF Alike
<1>9. \A d \in 1 .. o.rank : s[d] = t.mem_stride[d]
  <2> TAKE d \in 1 .. o.rank
  <2>1. d \in 1 .. 4
    BY <1>1
  <2> QED
    BY <1>4, <2>1
<1>10. AtStrides(o.rank, s, p) = Offset(t, p)
  BY <1>1, <1>8, <1>9, OffsetAtStrides
<1>11. IsPosition(t, p)
  BY <1>5, <1>8 DEF IsPosition, HasPosition, MaxRank, Dims
<1>12. t.rank > 0
  BY <1>1, <1>8
<1> QED
  BY <1>3, <1>6, <1>7, <1>8, <1>10, <1>11, <1>12, Zenon DEF Supplies, t

(* The slope of an index of the axis. *)
LEMMA SlopeSupplies ==
  ASSUME NEW c \in Calls, Good(c), Kind(c) = "prelu", NEW p \in BoxOf(c)
  PROVE  Supplies(c, "in2", p)
<1> DEFINE o == Filled(c)
           r == o.rank
           t == c["in2"]
           a == c.axis
           s == Steps(c)["in2"]
           q == SlopeAt(c, p)
<1>1. /\ r \in 1 .. 4 /\ \A d \in 1 .. r : o.shape[d] \in Nat \ {0}
  BY GoodOutput
<1>2. /\ Descriptor(t) /\ NoWrap(t) /\ a \in Dims(c.in1) /\ a \in 1 .. t.rank
      /\ t.mem_stride[a] = 1 /\ CheckTensor(t) = "OK"
  BY DEF Good, SizedCall, Documented, Dims, Valid, Binary, Scalars
<1>3. Alike(c["in1"], o)
  BY FullOperand, WalkedIs DEF Good
<1>4. CheckLayout(t) = "OK"
  BY <1>2, TensorHasLayout
<1>5. c.kind = "prelu" /\ a # 0
  BY Kinded
<1>6. t.shape[a] = c.in1.shape[a]
  <2>1. CheckPrelu(c) = "OK"
    BY <1>5 DEF Good, Check
  <2>2. a > 0
    BY <1>5, CallsAssumption
  <2>3. ~(\E d \in Dims(c.in1) : c.in2.shape[d] # (IF d = c.axis THEN c.in1.shape[d] ELSE 1))
    BY <2>1, <2>2 DEF CheckPrelu
  <2> QED
    BY <1>2, <2>3
<1>7. /\ p \in [1 .. 4 -> Int] /\ \A d \in 1 .. r : p[d] \in 0 .. o.shape[d] - 1
  BY <1>1, BoxPosition DEF BoxOf
<1>8. q = [d \in 1 .. 4 |-> IF d = a THEN p[d] ELSE 0]
  BY DEF SlopeAt
<1>9. \A d \in 1 .. 4 : s[d] = IF d = a THEN 1 ELSE 0
  BY StepIs DEF StepOf, Names
<1>10. SourceAt(c, "in2", p) = q /\ Address(c, "in2", p) = AtStrides(r, s, p)
  BY DEF SourceAt, Address
<1>11. a \in 1 .. r /\ o.shape[a] = t.shape[a]
  BY <1>2, <1>3, <1>6 DEF Alike, Dims
<1> HIDE DEF o, t, s, q, r, a
<1>12. t.rank \in 1 .. 4 /\ \A d \in 1 .. t.rank : t.shape[d] \in Nat \ {0}
  BY <1>2, <1>4, Accepted DEF MaxRank, Dims
<1>13. q \in [1 .. 4 -> Int]
  BY <1>7, <1>8
<1>14. \A d \in 1 .. t.rank : q[d] \in 0 .. t.shape[d] - 1
  <2> TAKE d \in 1 .. t.rank
  <2>1. d \in 1 .. 4 /\ q[d] = IF d = a THEN p[d] ELSE 0
    BY <1>8, <1>12
  <2>2. CASE d = a
    BY <1>7, <1>11, <2>1, <2>2
  <2>3. CASE d # a
    BY <1>12, <2>1, <2>3
  <2> QED
    BY <2>2, <2>3
<1>15. IsPosition(t, q)
  BY <1>13, <1>14 DEF IsPosition, HasPosition, MaxRank, Dims
<1>16. AtStrides(r, s, p) = p[a]
  <2> DEFINE g(d) == IF d <= r THEN p[d] * s[d] ELSE 0
  <2>1. \A d \in 1 .. 4 : g(d) = IF d = a THEN p[a] ELSE 0
    <3> TAKE d \in 1 .. 4
    <3>1. p[d] \in Int /\ p[d] * 1 = p[d] /\ p[d] * 0 = 0
      BY <1>7
    <3>2. a <= r
      BY <1>11
    <3> QED
      BY <1>9, <3>1, <3>2
  <2>2. AtStrides(r, s, p) = g(1) + g(2) + g(3) + g(4)
    BY DEF AtStrides
  <2>3. a \in 1 .. 4 /\ p[a] \in Int
    BY <1>1, <1>7, <1>11
  <2> HIDE DEF g
  <2>4. /\ g(1) = (IF 1 = a THEN p[a] ELSE 0) /\ g(2) = (IF 2 = a THEN p[a] ELSE 0)
        /\ g(3) = (IF 3 = a THEN p[a] ELSE 0) /\ g(4) = (IF 4 = a THEN p[a] ELSE 0)
    BY <2>1
  <2> QED
    BY <2>2, <2>3, <2>4
<1>17. Offset(t, q) = p[a]
  <2>1. \A d \in 1 .. 4 : Term(t, q, d) = IF d = a THEN p[a] ELSE 0
    <3> TAKE d \in 1 .. 4
    <3>1. q[d] = IF d = a THEN p[d] ELSE 0
      BY <1>8
    <3>2. CASE d = a
      <4>1. Term(t, q, d) = p[a] * 1
        BY <1>2, <3>1, <3>2 DEF Term
      <4>2. p[a] \in Int
        BY <1>7, <3>2
      <4> QED
        BY <3>2, <4>1, <4>2
    <3>3. CASE d # a
      <4>1. t.mem_stride[d] \in Int
        BY <1>2 DEF Descriptor, MaxRank
      <4> QED
        BY <3>1, <3>3, <4>1 DEF Term
    <3> QED
      BY <3>2, <3>3
  <2>2. a \in 1 .. 4 /\ p[a] \in Int
    BY <1>1, <1>7, <1>11
  <2>3. Offset(t, q) = Term(t, q, 1) + Term(t, q, 2) + Term(t, q, 3) + Term(t, q, 4)
    BY OffsetIsSum
  <2>4. /\ Term(t, q, 1) = (IF 1 = a THEN p[a] ELSE 0) /\ Term(t, q, 2) = (IF 2 = a THEN p[a] ELSE 0)
        /\ Term(t, q, 3) = (IF 3 = a THEN p[a] ELSE 0) /\ Term(t, q, 4) = (IF 4 = a THEN p[a] ELSE 0)
    BY <2>1
  <2> QED
    BY <2>2, <2>3, <2>4
<1>18. t.rank > 0
  BY <1>12
<1> QED
  BY <1>2, <1>4, <1>10, <1>15, <1>16, <1>17, <1>18, Zenon DEF Supplies, t

(* The element of permute's input that goes to a position of the output. *)
LEMMA PermuteSupplies ==
  ASSUME NEW c \in Calls, Good(c), Kind(c) = "permute", NEW p \in BoxOf(c)
  PROVE  Supplies(c, "in1", p)
<1> DEFINE o == Filled(c)
           r == o.rank
           t == c["in1"]
           w == c.perm
           s == Steps(c)["in1"]
           q == BackAt(c, p)
           at(e) == CHOOSE d \in 1 .. t.rank : w[d] = e
<1>1. /\ r \in 1 .. 4 /\ \A d \in 1 .. r : o.shape[d] \in Nat \ {0}
  BY GoodOutput
<1>2. /\ Descriptor(t) /\ NoWrap(t) /\ CheckTensor(t) = "OK"
  BY DEF Good, SizedCall, Documented, Valid, Scalars
<1>3. CheckLayout(t) = "OK"
  BY <1>2, TensorHasLayout
<1>4. r = t.rank /\ o.shape = [d \in 1 .. MaxRank |-> IF d <= r THEN t.shape[w[d]] ELSE 1]
  BY FilledIs DEF Good
<1>5. /\ \A d \in 1 .. r : w[d] \in 1 .. r
      /\ \A d \in 1 .. r : \A e \in d + 1 .. r : w[d] # w[e]
  BY <1>2, <1>4, OrderAccepted DEF Good, Reorders
<1>6. /\ p \in [1 .. 4 -> Int] /\ \A d \in 1 .. r : p[d] \in 0 .. o.shape[d] - 1
  BY <1>1, BoxPosition DEF BoxOf
<1>7. q = [e \in 1 .. 4 |-> IF e <= t.rank THEN p[at(e)] ELSE 0]
  BY Zenon DEF BackAt
<1>8. \A d \in 1 .. 4 : s[d] = t.mem_stride[w[d]]
  BY StepIs DEF StepOf, Names
<1>9. SourceAt(c, "in1", p) = q /\ Address(c, "in1", p) = AtStrides(r, s, p)
  BY DEF SourceAt, Address
<1> HIDE DEF o, t, s, q, r, w
<1>10. \A e \in 1 .. r : at(e) \in 1 .. r /\ w[at(e)] = e
  <2> TAKE e \in 1 .. r
  <2>1. r \in 0 .. 4
    BY <1>1
  <2>2. \E d \in 1 .. r : w[d] = e
    BY <1>5, <2>1, EachDimensionOccurs
  <2> QED
    BY <1>4, <2>2
<1> HIDE DEF at
<1>11. \A d \in 1 .. r : at(w[d]) = d
  <2> TAKE d \in 1 .. r
  <2>1. w[d] \in 1 .. r /\ at(w[d]) \in 1 .. r /\ w[at(w[d])] = w[d]
    BY <1>5, <1>10
  <2> QED
    BY <1>1, <1>5, <2>1, Distinct
<1>12. \A e \in 1 .. 4 : q[e] = IF e <= r THEN p[at(e)] ELSE 0
  BY <1>4, <1>7
<1>13. \A d \in 1 .. r : d \in 1 .. 4 /\ o.shape[d] = t.shape[w[d]] /\ p[d] \in Int
  BY <1>1, <1>4, <1>6 DEF MaxRank
<1>14. \A e \in 1 .. 4 : q[e] \in Int
  <2> TAKE e \in 1 .. 4
  <2>1. CASE e <= r
    <3>1. e \in 1 .. r
      BY <1>1, <2>1
    <3> QED
      BY <1>10, <1>12, <1>13, <2>1, <3>1
  <2>2. CASE ~(e <= r)
    BY <1>12, <2>2
  <2> QED
    BY <2>1, <2>2
<1>15. q \in [1 .. 4 -> Int]
  BY <1>7, <1>14
<1>16. \A e \in 1 .. r : q[e] \in 0 .. t.shape[e] - 1
  <2> TAKE e \in 1 .. r
  <2>1. at(e) \in 1 .. r /\ w[at(e)] = e
    BY <1>10
  <2>2. q[e] = p[at(e)]
    BY <1>1, <1>12
  <2>3. o.shape[at(e)] = t.shape[e]
    BY <1>13, <2>1
  <2> QED
    BY <1>6, <2>1, <2>2, <2>3
<1>17. IsPosition(t, q)
  BY <1>4, <1>15, <1>16 DEF IsPosition, HasPosition, MaxRank, Dims
<1> DEFINE F == [e \in 1 .. r |-> Term(t, q, e)]
<1>18. \A e \in 1 .. r : F[e] \in Int /\ e \in 1 .. 4
  <2> TAKE e \in 1 .. r
  <2>1. e \in 1 .. 4
    BY <1>1
  <2>2. Term(t, q, e) \in Nat
    BY <1>2, <1>3, <1>17, <2>1, TermBounds DEF MaxRank
  <2> QED
    BY <2>1, <2>2
<1>19. \A d \in 1 .. r : F[w[d]] = p[d] * s[d]
  <2> TAKE d \in 1 .. r
  <2>1. w[d] \in 1 .. r /\ d \in 1 .. 4 /\ w[d] \in 1 .. 4 /\ w[d] <= r
    BY <1>5, <1>13, <1>18
  <2>2. q[w[d]] = p[d]
    BY <1>11, <1>12, <2>1
  <2>3. Term(t, q, w[d]) = q[w[d]] * t.mem_stride[w[d]]
    BY <1>4, <2>1 DEF Term
  <2>4. s[d] = t.mem_stride[w[d]]
    BY <1>8, <2>1
  <2> QED
    BY <2>1, <2>2, <2>3, <2>4
<1>20. \A e \in 1 .. 4 : Term(t, q, e) = IF e <= r THEN F[e] ELSE 0
  <2> TAKE e \in 1 .. 4
  <2>1. CASE e <= r
    BY <1>1, <2>1
  <2>2. CASE ~(e <= r)
    BY <1>4, <2>2 DEF Term
  <2> QED
    BY <2>1, <2>2
<1> HIDE DEF F
<1>21. (IF 1 <= r THEN F[w[1]] ELSE 0) + (IF 2 <= r THEN F[w[2]] ELSE 0)
         + (IF 3 <= r THEN F[w[3]] ELSE 0) + (IF 4 <= r THEN F[w[4]] ELSE 0)
        = (IF 1 <= r THEN F[1] ELSE 0) + (IF 2 <= r THEN F[2] ELSE 0)
            + (IF 3 <= r THEN F[3] ELSE 0) + (IF 4 <= r THEN F[4] ELSE 0)
  <2>1. r \in 0 .. 4 /\ \A e \in 1 .. r : F[e] \in Int
    BY <1>1, <1>18
  <2> QED
    BY <1>5, <2>1, SumInAnyOrder
<1>22. AtStrides(r, s, p) = (IF 1 <= r THEN F[w[1]] ELSE 0) + (IF 2 <= r THEN F[w[2]] ELSE 0)
         + (IF 3 <= r THEN F[w[3]] ELSE 0) + (IF 4 <= r THEN F[w[4]] ELSE 0)
  <2>1. /\ (1 <= r => F[w[1]] = p[1] * s[1]) /\ (2 <= r => F[w[2]] = p[2] * s[2])
        /\ (3 <= r => F[w[3]] = p[3] * s[3]) /\ (4 <= r => F[w[4]] = p[4] * s[4])
    BY <1>1, <1>19
  <2>2. /\ (IF 1 <= r THEN F[w[1]] ELSE 0) = (IF 1 <= r THEN p[1] * s[1] ELSE 0)
        /\ (IF 2 <= r THEN F[w[2]] ELSE 0) = (IF 2 <= r THEN p[2] * s[2] ELSE 0)
        /\ (IF 3 <= r THEN F[w[3]] ELSE 0) = (IF 3 <= r THEN p[3] * s[3] ELSE 0)
        /\ (IF 4 <= r THEN F[w[4]] ELSE 0) = (IF 4 <= r THEN p[4] * s[4] ELSE 0)
    BY <2>1, Zenon
  <2> QED
    BY <2>2, Zenon DEF AtStrides
<1>23. Offset(t, q) = (IF 1 <= r THEN F[1] ELSE 0) + (IF 2 <= r THEN F[2] ELSE 0)
            + (IF 3 <= r THEN F[3] ELSE 0) + (IF 4 <= r THEN F[4] ELSE 0)
  <2>1. Offset(t, q) = Term(t, q, 1) + Term(t, q, 2) + Term(t, q, 3) + Term(t, q, 4)
    BY OffsetIsSum
  <2> QED
    BY <1>20, <2>1
<1>24. AtStrides(r, s, p) = Offset(t, q)
  BY <1>21, <1>22, <1>23, SMT
<1>25. t.rank > 0
  BY <1>1, <1>4
<1> QED
  BY <1>2, <1>3, <1>9, <1>17, <1>24, <1>25, Zenon DEF Supplies, t

(* Every operand that is walked through has the element a result needs. *)
LEMMA OperandSupplies ==
  ASSUME NEW c \in Calls, Good(c), NEW k \in Walked(c), k # "out", NEW p \in BoxOf(c)
  PROVE  Supplies(c, k, p)
<1>1. CASE Kind(c) = "permute"
  <2>1. k = "in1"
    BY <1>1, WalkedIs
  <2> QED
    BY <1>1, <2>1, PermuteSupplies
<1>2. CASE Kind(c) = "prelu" /\ k = "in2"
  BY <1>2, SlopeSupplies
<1>3. CASE Kind(c) # "permute" /\ ~(Kind(c) = "prelu" /\ k = "in2")
  BY <1>3, StraightSupplies
<1> QED
  BY <1>1, <1>2, <1>3

(* The output has a place for the result of a position. *)
Receives(c, p) ==
  /\ IsPosition(Strided4(c, Filled(c)), p)
  /\ Address(c, "out", p) = Offset(Strided4(c, Filled(c)), p)

LEMMA OutputReceives ==
  ASSUME NEW c \in Calls, Good(c), NEW p \in BoxOf(c)
  PROVE  Receives(c, p)
<1> DEFINE o == Filled(c)
           t == Strided4(c, Filled(c))
           s == Steps(c)["out"]
<1>1. /\ o.rank \in 1 .. 4 /\ \A d \in 1 .. o.rank : o.shape[d] \in Nat \ {0}
  BY GoodOutput
<1>2. t.rank = o.rank /\ t.shape = o.shape
  BY OutputFits DEF Good, OutFits
<1>3. \A d \in 1 .. 4 : s[d] = t.mem_stride[d]
  BY StepIs DEF StepOf, Names
<1>4. p \in [1 .. 4 -> Int] /\ \A d \in 1 .. o.rank : p[d] \in 0 .. o.shape[d] - 1
  BY <1>1, BoxPosition DEF BoxOf
<1>5. Address(c, "out", p) = AtStrides(o.rank, s, p)
  BY DEF Address
<1> HIDE DEF o, t, s
<1>6. \A d \in 1 .. o.rank : s[d] = t.mem_stride[d]
  <2> TAKE d \in 1 .. o.rank
  <2>1. d \in 1 .. 4
    BY <1>1
  <2> QED
    BY <1>3, <2>1
<1>7. AtStrides(o.rank, s, p) = Offset(t, p)
  BY <1>1, <1>2, <1>6, OffsetAtStrides
<1>8. IsPosition(t, p)
  BY <1>2, <1>4 DEF IsPosition, HasPosition, MaxRank, Dims
<1> QED
  BY <1>5, <1>7, <1>8 DEF Receives, t

(* Two positions of the result are apart. *)
LEMMA ResultsApart ==
  ASSUME NEW c \in Calls, Good(c), NEW p \in BoxOf(c), NEW q \in BoxOf(c),
         Address(c, "out", p) = Address(c, "out", q)
  PROVE  \A d \in 1 .. Filled(c).rank : p[d] = q[d]
<1> DEFINE t == Strided4(c, Filled(c))
<1>1. /\ Descriptor(t) /\ CheckLayout(t) = "OK" /\ NoWrap(t) /\ t.rank = Filled(c).rank
  BY OutputFits DEF Good, OutFits
<1>2. /\ IsPosition(t, p) /\ Address(c, "out", p) = Offset(t, p)
      /\ IsPosition(t, q) /\ Address(c, "out", q) = Offset(t, q)
  BY OutputReceives DEF Receives
<1> HIDE DEF t
<1>3. ~(\E d \in Dims(t) : p[d] # q[d])
  BY <1>1, <1>2, PositionsApart
<1> QED
  BY <1>1, <1>3 DEF Dims

(* In place, an operand has each element where its result goes. *)
LEMMA InPlaceMeets ==
  ASSUME NEW c \in Calls, Good(c), NEW k \in Walked(c), k # "out", c.buffer[k] = c.buffer.out, NEW p
  PROVE  Address(c, k, p) = Address(c, "out", p)
<1> DEFINE o == Filled(c)
           t == c[k]
<1>1. k \in {"in1", "in2"}
  BY WalkedIs DEF Names
<1>2. Kind(c) # "permute" /\ (k \in Scalars(c) \/ SameStrides(t, Strided4(c, o)))
  BY <1>1 DEF Good, Documented
<1>3. k \notin Scalars(c)
  BY DEF Walked
<1>4. Strided4(c, o) = o
  BY <1>2 DEF Strided4
<1>5. ~(Kind(c) = "prelu" /\ k = "in2")
  BY DEF Good, Documented
<1>6. Alike(t, o)
  BY <1>2, <1>5, FullOperand DEF Good
<1>7. o.rank \in 1 .. 4
  BY GoodOutput
<1>8. \A d \in 1 .. 4 : Steps(c)[k][d] = t.mem_stride[d] /\ Steps(c)["out"][d] = o.mem_stride[d]
  <2> TAKE d \in 1 .. 4
  <2>1. Steps(c)[k][d] = StepOf(c, k, d) /\ Steps(c)["out"][d] = StepOf(c, "out", d)
    BY <1>1, StepIs DEF Names
  <2>2. StepOf(c, "out", d) = o.mem_stride[d]
    BY <1>4 DEF StepOf
  <2>3. StepOf(c, k, d) = t.mem_stride[d]
    BY <1>1, <1>2, <1>5 DEF StepOf
  <2> QED
    BY <2>1, <2>2, <2>3
<1> HIDE DEF o, t
<1>9. \A d \in 1 .. o.rank : Steps(c)[k][d] = Steps(c)["out"][d]
  <2> TAKE d \in 1 .. o.rank
  <2>1. d \in 1 .. 4 /\ d \in 1 .. t.rank
    BY <1>6, <1>7 DEF Alike
  <2>2. t.mem_stride[d] = o.mem_stride[d]
    BY <1>2, <1>3, <1>4, <2>1 DEF SameStrides, Dims
  <2> QED
    BY <1>8, <2>1, <2>2
<1>10. AtStrides(o.rank, Steps(c)[k], p) = AtStrides(o.rank, Steps(c)["out"], p)
  BY <1>7, <1>9 DEF AtStrides
<1> QED
  BY <1>10 DEF Address, o

-----------------------------------------------------------------------------
(* The cells of an iteration.                                              *)

Cell(c, k, x, i) == At(c, k, Spot(c, k, x, i))

CellsGood(c) ==
  /\ \A k \in Walked(c) : \A x \in Outer(c) : \A i \in Within(c) : Cell(c, k, x, i) \in Allocated(c)
  /\ \A k \in Walked(c) : \A x, y \in Outer(c) : \A i, l \in Within(c) :
       Cell(c, k, x, i) = Cell(c, "out", y, l) => x = y /\ i = l
  /\ \A k \in Scalars(c) : c[k].rank > 0 => At(c, k, 0) \in Allocated(c)

(* A scalar in memory is in its buffer. *)
LEMMA ScalarInside ==
  ASSUME NEW c \in Calls, Good(c), NEW k \in Scalars(c), c[k].rank > 0
  PROVE  At(c, k, 0) \in Allocated(c)
<1> DEFINE t == c[k]
           zero == [d \in 1 .. 4 |-> 0]
<1>1. k \in {"in1", "in2"} /\ CheckScalar(t) = "OK" /\ Descriptor(t) /\ NoWrap(t)
  <2>1. k \in {"in1", "in2"} /\ (Kind(c) \in Binary \/ k = "in1")
    BY DEF Scalars, Binary
  <2>2. Valid(c, k)
    BY <2>1 DEF Good, Documented
  <2> QED
    BY <2>1, <2>2 DEF Good, SizedCall, Valid
<1> HIDE DEF t
<1>2. CheckLayout(t) = "OK"
  BY <1>1, TensorHasLayout DEF CheckScalar, t
<1>3. t.rank \in 0 .. 4 /\ \A d \in 1 .. t.rank : t.shape[d] \in Nat \ {0} /\ t.mem_stride[d] \in Int
  BY <1>1, <1>2, Accepted DEF Dims, MaxRank
<1>4. IsPosition(t, zero)
  <2>1. \A d \in 1 .. t.rank : zero[d] = 0
    BY <1>3
  <2>2. zero \in [1 .. 4 -> Int]
    OBVIOUS
  <2> HIDE DEF zero
  <2> QED
    BY <1>3, <2>1, <2>2 DEF IsPosition, HasPosition, MaxRank, Dims
<1>5. Offset(t, zero) = 0
  <2>1. \A d \in 1 .. 4 : Term(t, zero, d) = 0
    <3> TAKE d \in 1 .. 4
    <3>1. CASE d <= t.rank
      <4>1. t.mem_stride[d] \in Int
        BY <1>3, <3>1
      <4> QED
        BY <3>1, <4>1 DEF Term
    <3>2. CASE ~(d <= t.rank)
      BY <3>2 DEF Term
    <3> QED
      BY <3>1, <3>2
  <2> HIDE DEF zero
  <2> QED
    BY <2>1, OffsetIsSum
<1> HIDE DEF zero
<1>6. At(c, k, Offset(t, zero)) \in Allocated(c)
  BY <1>1, <1>2, <1>4, AddressInside DEF t, Names
<1> QED
  BY <1>5, <1>6

LEMMA CellIs ==
  ASSUME NEW c, NEW f, Visits(c, f), NEW k \in Walked(c), NEW x \in Outer(c), NEW i \in Within(c)
  PROVE  Cell(c, k, x, i) = At(c, k, Address(c, k, f[x][i])) /\ f[x][i] \in BoxOf(c)
<1>1. Spot(c, k, x, i) = AtStrides(Filled(c).rank, Steps(c)[k], f[x][i])
  BY Zenon DEF Visits, VisitsSpots
<1>2. f[x][i] \in BoxOf(c)
  BY Zenon DEF Visits, VisitsBox
<1> QED
  BY <1>1, <1>2 DEF Cell, Address

(* What an iteration reads was not written by another one, and no two      *)
(* write one element.                                                      *)
LEMMA CellsAreGood ==
  ASSUME NEW c \in Calls, Good(c)
  PROVE  CellsGood(c)
<1>1. PICK f : Visits(c, f)
  BY PlanVisits
<1>2. ASSUME NEW k \in Walked(c), NEW x \in Outer(c), NEW i \in Within(c)
      PROVE  Cell(c, k, x, i) \in Allocated(c)
  <2> DEFINE p == f[x][i]
  <2>1. Cell(c, k, x, i) = At(c, k, Address(c, k, p)) /\ p \in BoxOf(c) /\ k \in Names
    BY <1>1, CellIs, WalkedIs
  <2> HIDE DEF p
  <2>2. CASE k = "out"
    <3> DEFINE t == Strided4(c, Filled(c))
    <3>1. /\ Descriptor(t) /\ CheckLayout(t) = "OK" /\ NoWrap(t)
          /\ t.capacity = c["out"].capacity /\ t.elem = c["out"].elem
      BY OutputFits DEF Good, OutFits
    <3>2. c["out"].rank > 0
      BY CallsAssumption DEF MaxRank
    <3>3. IsPosition(t, p) /\ Address(c, "out", p) = Offset(t, p)
      BY <2>1, OutputReceives DEF Receives
    <3> HIDE DEF t
    <3>4. At(c, "out", Offset(t, p)) \in Allocated(c)
      BY <3>1, <3>2, <3>3, AddressInside DEF Names
    <3> QED
      BY <2>1, <2>2, <3>3, <3>4
  <2>3. CASE k # "out"
    <3>1. Supplies(c, k, p)
      BY <2>1, <2>3, OperandSupplies
    <3> DEFINE t == c[k]
               q == SourceAt(c, k, p)
    <3>2. /\ Descriptor(t) /\ CheckLayout(t) = "OK" /\ NoWrap(t) /\ t.rank > 0
          /\ IsPosition(t, q) /\ Address(c, k, p) = Offset(t, q)
      BY <3>1 DEF Supplies
    <3>3. t.capacity = c[k].capacity /\ t.elem = c[k].elem /\ c[k].rank > 0
      BY <3>2
    <3> HIDE DEF t, q
    <3>4. At(c, k, Offset(t, q)) \in Allocated(c)
      BY <2>1, <3>2, <3>3, AddressInside
    <3> QED
      BY <2>1, <3>2, <3>4
  <2> QED
    BY <2>2, <2>3
<1>3. ASSUME NEW k \in Walked(c), NEW x \in Outer(c), NEW y \in Outer(c),
             NEW i \in Within(c), NEW l \in Within(c), Cell(c, k, x, i) = Cell(c, "out", y, l)
      PROVE  x = y /\ i = l
  <2> DEFINE p == f[x][i]
             q == f[y][l]
  <2>1. /\ Cell(c, k, x, i) = At(c, k, Address(c, k, p)) /\ p \in BoxOf(c)
        /\ Cell(c, "out", y, l) = At(c, "out", Address(c, "out", q)) /\ q \in BoxOf(c)
    BY <1>1, CellIs, WalkedIs
  <2> HIDE DEF p, q
  <2>2. c.buffer[k] = c.buffer.out /\ Address(c, k, p) = Address(c, "out", q)
    BY <1>3, <2>1 DEF At
  <2>3. Address(c, "out", p) = Address(c, "out", q)
    BY <2>2, InPlaceMeets
  <2>4. \A d \in 1 .. Filled(c).rank : p[d] = q[d]
    BY <2>1, <2>3, ResultsApart
  <2>5. VisitsOnce(c, f)
    BY <1>1, Zenon DEF Visits
  <2> DEFINE r == Filled(c).rank
  <2>6. (\A d \in 1 .. r : f[x][i][d] = f[y][l][d]) => x = y /\ i = l
    BY <2>5 DEF VisitsOnce
  <2> HIDE DEF r
  <2> QED
    BY <2>4, <2>6 DEF p, q, r
<1>4. \A k \in Scalars(c) : c[k].rank > 0 => At(c, k, 0) \in Allocated(c)
  BY ScalarInside
<1> QED
  BY <1>2, <1>3, <1>4, Zenon DEF CellsGood

-----------------------------------------------------------------------------
(* What a call computes.                                                   *)

LEMMA Turns ==
  ASSUME NEW c \in Calls, Good(c)
  PROVE  /\ Iterations(Plan(c, Filled(c)).outer) \in Nat \ {0}
         /\ Iterations(Plan(c, Filled(c)).inner) \in Nat \ {0}
<1> DEFINE P == Plan(c, Filled(c))
<1>1. PICK U, w : WalksAs(c, P, U, w)
  BY PlanWalks
<1> HIDE DEF P
<1>2. Walks(U, w, Filled(c).rank, Filled(c).shape)
  BY <1>1, Zenon DEF WalksAs
<1>3. SameWalk(U.outer, P.outer, Walked(c)) /\ SameWalk(U.inner, P.inner, Walked(c))
  BY <1>1, Zenon DEF WalksAs
<1>4. IsNest(U.outer) /\ IsNest(U.inner)
  BY <1>2, Zenon DEF Walks
<1>5. Iterations(U.outer) \in Nat \ {0} /\ Iterations(U.inner) \in Nat \ {0}
  BY <1>4, NestIsCounted, Zenon DEF NestCounts
<1>6. Iterations(U.outer) = Iterations(P.outer) /\ Iterations(U.inner) = Iterations(P.inner)
  BY <1>3, Zenon DEF SameWalk
<1> QED
  BY <1>5, <1>6 DEF P

(* An operand as it was before the call. *)
ScalarOf(c, k) == IF c[k].rank = 0 THEN <<k, "descriptor">> ELSE At(c, k, 0)

Given(c, k, x, i) == IF k \in Scalars(c) THEN ScalarOf(c, k) ELSE Cell(c, k, x, i)

Want(c, x, i) ==
  CASE Kind(c) \in Binary -> <<Kind(c), Given(c, "in1", x, i), Given(c, "in2", x, i)>>
    [] Kind(c) \in Normalizing ->
         <<Kind(c), Given(c, "in1", x, i), {Given(c, "in1", x, j) : j \in Within(c)}>>
    [] Kind(c) = "permute" -> Given(c, "in1", x, i)
    [] OTHER -> <<Kind(c), Given(c, "in1", x, i)>>

LEMMA OperandsKnown ==
  ASSUME NEW c \in Calls
  PROVE  /\ "in1" \in Walked(c) \cup Scalars(c)
         /\ Kind(c) \in Binary => "in2" \in Walked(c) \cup Scalars(c)
         /\ Scalars(c) \subseteq {"in1", "in2"}
BY DEF Walked, Scalars, Binary

(* What the checks answer is not taken for a state of the call. *)
LEMMA CheckAnswers ==
  ASSUME NEW c
  PROVE  Check(c) \notin {"called", "running"}
<1>1. ASSUME NEW t
      PROVE  /\ CheckTensor(t) \notin {"called", "running"}
             /\ CheckScalar(t) \notin {"called", "running"}
  BY DEF CheckScalar, CheckTensor, CheckLayout
<1>2. CheckEltwise(c) \notin {"called", "running"}
  BY <1>1 DEF CheckEltwise
<1>3. CheckPrelu(c) \notin {"called", "running"}
  BY <1>1 DEF CheckPrelu
<1>4. CheckPermute(c) \notin {"called", "running"}
  BY <1>1 DEF CheckPermute
<1>5. CheckActivation(c) \notin {"called", "running"}
  BY <1>1 DEF CheckActivation
<1> QED
  BY <1>2, <1>3, <1>4, <1>5 DEF Check

-----------------------------------------------------------------------------
(* The results of the first m iterations are as wanted, and all other      *)
(* elements as they were, but for those of the arrays in P.                *)
Computed(c, m0, m) ==
  /\ Allocated(c) \subseteq DOMAIN m0
  /\ \A x \in Outer(c) : \A i \in Within(c) : x < m => m0[Cell(c, "out", x, i)] = Want(c, x, i)

NotWritten(c, a, m) == \A x \in Outer(c) : \A i \in Within(c) : x < m => a # Cell(c, "out", x, i)

Kept(c, m0, m, P) == \A a \in DOMAIN m0 : a[1] \notin P /\ NotWritten(c, a, m) => m0[a] = a

ShapedAs(c, o) ==
  /\ o.rank = Filled(c).rank /\ o.shape = Filled(c).shape
  /\ Strided4(c, o).rank = o.rank
  /\ Strided4(c, o).mem_stride = Strided4(c, Filled(c)).mem_stride

Running ==
  /\ out = Filled(call) /\ plan = Plan(call, Filled(call))
  /\ scalar = [k \in Scalars(call) |-> ScalarOf(call, k)]
  /\ n \in 0 .. Iterations(Plan(call, Filled(call)).outer)
  /\ Computed(call, mem, n) /\ Kept(call, mem, n, {})

Finished ==
  /\ ShapedAs(call, out)
  /\ Computed(call, mem, Iterations(Plan(call, Filled(call)).outer))
  /\ Kept(call, mem, Iterations(Plan(call, Filled(call)).outer), {out.params})

ExactInv ==
  /\ call \in Calls
  /\ status = "called" => out = call.out /\ n = 0 /\ mem = [a \in Allocated(call) |-> a]
  /\ status \in {"running", "OK"} => Check(call) = "OK"
  /\ Good(call) /\ status = "running" => Running
  /\ Good(call) /\ status = "OK" => Finished

LEMMA FilledShaped ==
  ASSUME NEW c \in Calls, SizedCall(c)
  PROVE  ShapedAs(c, Filled(c))
<1> DEFINE o == Filled(c)
           inc == Increments(o)
<1>1. {"rank", "shape", "mem_stride", "dim", "params"} \subseteq DOMAIN o
  BY FilledIs
<1>2. Strided4(c, o) = IF Kind(c) = "permute" THEN [o EXCEPT !.mem_stride = inc] ELSE o
  BY DEF Strided4
<1> HIDE DEF o, inc
<1>3. Strided4(c, o).rank = o.rank
  <2>1. CASE Kind(c) = "permute"
    BY <1>1, <1>2, <2>1
  <2>2. CASE Kind(c) # "permute"
    BY <1>2, <2>2
  <2> QED
    BY <2>1, <2>2
<1> QED
  BY <1>3 DEF ShapedAs, o

LEMMA PrepareRuns ==
  ASSUME ExactInv, Good(call), Prepare
  PROVE  Running'
<1> DEFINE c == call
<1>1. /\ c \in Calls /\ mem = [a \in Allocated(c) |-> a] /\ n = 0
      /\ call' = c /\ out' = Filled(c) /\ plan' = Plan(c, Filled(c)) /\ n' = n /\ mem' = mem
      /\ scalar' = [k \in Scalars(c) |-> Single(c, k, mem)]
  BY DEF ExactInv, Prepare
<1>2. CellsGood(c)
  BY <1>1, CellsAreGood
<1>3. \A k \in Scalars(c) : Single(c, k, mem) = ScalarOf(c, k)
  <2> TAKE k \in Scalars(c)
  <2>1. c[k].rank \in Nat
    BY <1>1, OperandsKnown DEF Good, SizedCall, Descriptor
  <2>2. c[k].rank > 0 => At(c, k, 0) \in Allocated(c)
    BY <1>2 DEF CellsGood
  <2> QED
    BY <1>1, <2>1, <2>2 DEF Single, ScalarOf
<1>4. scalar' = [k \in Scalars(c) |-> ScalarOf(c, k)]
  BY <1>1, <1>3
<1>5. n' \in 0 .. Iterations(Plan(c, Filled(c)).outer)
  BY <1>1, Turns
<1>6. Computed(c, mem, 0)
  BY <1>1 DEF Computed, Outer
<1>7. Kept(c, mem, 0, {})
  BY <1>1 DEF Kept
<1>8. Computed(c, mem', n')
  BY <1>1, <1>6
<1>9. Kept(c, mem', n', {})
  BY <1>1, <1>7
<1> QED
  BY <1>1, <1>4, <1>5, <1>8, <1>9 DEF Running

(* What an iteration computes. *)
LEMMA IterationComputes ==
  ASSUME ExactInv, Good(call), status = "running", n < Iterations(plan.outer)
  PROVE  /\ n \in Outer(call) /\ Elements = Within(call)
         /\ \A k \in Walked(call) : \A i \in Within(call) : At(call, k, Here(k, i)) = Cell(call, k, n, i)
         /\ \A i \in Within(call) : Result(i) = Want(call, n, i)
<1> DEFINE c == call
<1>1. /\ c \in Calls /\ plan = Plan(c, Filled(c)) /\ n \in 0 .. Iterations(plan.outer)
      /\ scalar = [k \in Scalars(c) |-> ScalarOf(c, k)]
      /\ Computed(c, mem, n) /\ Kept(c, mem, n, {})
  BY DEF ExactInv, Running
<1>2. Iterations(plan.outer) \in Nat
  BY <1>1, Turns
<1>3. n \in Outer(c)
  BY <1>1, <1>2 DEF Outer
<1>4. Elements = Within(c)
  BY <1>1 DEF Elements, Within
<1>5. \A k, i : At(c, k, Here(k, i)) = Cell(c, k, n, i)
  BY <1>1 DEF Here, Cell, Spot
<1>6. CellsGood(c)
  BY <1>1, CellsAreGood
<1>7. ASSUME NEW k \in Walked(c) \cup Scalars(c), NEW i \in Within(c)
      PROVE  Operand(k, i) = Given(c, k, n, i)
  <2>1. CASE k \in Scalars(c)
    BY <1>1, <2>1 DEF Operand, Given
  <2>2. CASE k \notin Scalars(c)
    <3> DEFINE a == Cell(c, k, n, i)
    <3>1. a \in Allocated(c)
      BY <1>3, <1>6, <1>7, <2>2 DEF CellsGood
    <3>2. NotWritten(c, a, n)
      <4> SUFFICES ASSUME NEW x \in Outer(c), NEW l \in Within(c), x < n, a = Cell(c, "out", x, l)
                   PROVE  FALSE
        BY DEF NotWritten
      <4>1. n = x
        BY <1>3, <1>6, <1>7, <2>2 DEF CellsGood
      <4> QED
        BY <1>1, <1>2, <4>1
    <3>3. a \in DOMAIN mem
      BY <1>1, <3>1 DEF Computed
    <3> HIDE DEF a
    <3>4. mem[a] = a
      BY <1>1, <3>2, <3>3 DEF Kept
    <3>5. Operand(k, i) = Read(a)
      BY <1>1, <1>5, <2>2 DEF Operand, a
    <3> QED
      BY <2>2, <3>3, <3>4, <3>5 DEF Read, Given, a
  <2> QED
    BY <2>1, <2>2
<1>8. /\ "in1" \in Walked(c) \cup Scalars(c)
      /\ Kind(c) \in Binary => "in2" \in Walked(c) \cup Scalars(c)
  BY <1>1, OperandsKnown
<1>9. ASSUME NEW i \in Within(c)
      PROVE  Result(i) = Want(c, n, i)
  <2> DEFINE first == Operand("in1", i)
             all == {Operand("in1", j) : j \in Elements}
  <2>1. first = Given(c, "in1", n, i)
    BY <1>7, <1>8
  <2>2. Kind(c) \in Binary => Operand("in2", i) = Given(c, "in2", n, i)
    BY <1>7, <1>8
  <2>3. all = {Given(c, "in1", n, j) : j \in Within(c)}
    BY <1>4, <1>7, <1>8
  <2>4. Result(i) =
         CASE Kind(c) \in Binary -> <<Kind(c), first, Operand("in2", i)>>
           [] Kind(c) \in Normalizing -> <<Kind(c), first, all>>
           [] Kind(c) = "permute" -> first
           [] OTHER -> <<Kind(c), first>>
    BY Zenon DEF Result
  <2> DEFINE wanted == {Given(c, "in1", n, j) : j \in Within(c)}
  <2>5. Want(c, n, i) =
         CASE Kind(c) \in Binary -> <<Kind(c), Given(c, "in1", n, i), Given(c, "in2", n, i)>>
           [] Kind(c) \in Normalizing -> <<Kind(c), Given(c, "in1", n, i), wanted>>
           [] Kind(c) = "permute" -> Given(c, "in1", n, i)
           [] OTHER -> <<Kind(c), Given(c, "in1", n, i)>>
    BY Zenon DEF Want
  <2> HIDE DEF first, all, wanted
  <2>6. all = wanted
    BY <2>3 DEF wanted
  <2>7. CASE Kind(c) \in Binary
    BY <2>1, <2>2, <2>4, <2>5, <2>7 DEF Binary, Normalizing
  <2>8. CASE Kind(c) \notin Binary
    BY <2>1, <2>4, <2>5, <2>6, <2>8 DEF Binary, Normalizing
  <2> QED
    BY <2>7, <2>8
<1> QED
  BY <1>3, <1>4, <1>5, <1>9

LEMMA IterateRuns ==
  ASSUME ExactInv, Good(call), Iterate
  PROVE  Running'
<1> DEFINE c == call
           place == {At(c, "out", Here("out", i)) : i \in Elements}
           value(a) == Result(CHOOSE i \in Elements : a = At(c, "out", Here("out", i)))
           new == [a \in place |-> value(a)]
<1>1. /\ status = "running" /\ n < Iterations(plan.outer)
      /\ mem' = Written(mem, new) /\ n' = n + 1
      /\ call' = c /\ out' = out /\ plan' = plan /\ scalar' = scalar
  BY DEF Iterate
<1>2. /\ c \in Calls /\ plan = Plan(c, Filled(c)) /\ n \in 0 .. Iterations(plan.outer)
      /\ scalar = [k \in Scalars(c) |-> ScalarOf(c, k)] /\ out = Filled(c)
      /\ Computed(c, mem, n) /\ Kept(c, mem, n, {})
  BY <1>1 DEF ExactInv, Running
<1>3. /\ n \in Outer(c) /\ Elements = Within(c)
      /\ \A k \in Walked(c) : \A i \in Within(c) : At(c, k, Here(k, i)) = Cell(c, k, n, i)
      /\ \A i \in Within(c) : Result(i) = Want(c, n, i)
  BY <1>1, IterationComputes
<1>4. CellsGood(c) /\ "out" \in Walked(c)
  BY <1>2, CellsAreGood, WalkedIs
<1>5. place = {Cell(c, "out", n, i) : i \in Within(c)}
  BY <1>3, <1>4
<1>6. \A i, l \in Within(c) : \A x \in Outer(c) :
        Cell(c, "out", x, i) = Cell(c, "out", n, l) => x = n /\ i = l
  BY <1>3, <1>4 DEF CellsGood
<1>7. ASSUME NEW i \in Within(c)
      PROVE  Cell(c, "out", n, i) \in place /\ new[Cell(c, "out", n, i)] = Want(c, n, i)
  <2> DEFINE a == Cell(c, "out", n, i)
             j == CHOOSE l \in Elements : a = At(c, "out", Here("out", l))
  <2>1. j \in Elements /\ a = At(c, "out", Here("out", j))
    BY <1>3, <1>4
  <2> HIDE DEF j
  <2>2. j = i
    BY <1>3, <1>4, <1>6, <2>1
  <2>3. a \in place
    BY <1>5
  <2>4. value(a) = Result(j)
    BY DEF j
  <2>5. new[a] = value(a)
    BY <2>3
  <2> HIDE DEF a, new, value, place
  <2> QED
    BY <1>3, <2>2, <2>3, <2>4, <2>5 DEF a
<1>8. DOMAIN new = place
  OBVIOUS
<1> HIDE DEF place, value, new
<1>9. Iterations(plan.outer) \in Nat
  BY <1>2, Turns
<1>10. n' \in 0 .. Iterations(plan.outer)
  BY <1>1, <1>2, <1>9
<1>11. \A a \in DOMAIN mem : a \in DOMAIN mem' /\ (a \notin place => mem'[a] = mem[a])
  BY <1>1, <1>8 DEF Written
<1>12. \A a \in place : mem'[a] = new[a]
  BY <1>1, <1>8 DEF Written
<1>13. Computed(c, mem', n')
  <2>1. Allocated(c) \subseteq DOMAIN mem'
    BY <1>2, <1>11 DEF Computed
  <2>2. ASSUME NEW x \in Outer(c), NEW i \in Within(c), x < n'
        PROVE  mem'[Cell(c, "out", x, i)] = Want(c, x, i)
    <3>1. CASE x = n
      BY <1>7, <1>12, <3>1
    <3>2. CASE x # n
      <4>1. x < n
        BY <1>1, <1>2, <2>2, <3>2 DEF Outer
      <4>2. mem[Cell(c, "out", x, i)] = Want(c, x, i)
        BY <1>2, <4>1 DEF Computed
      <4>3. Cell(c, "out", x, i) \in DOMAIN mem
        BY <1>2, <1>4 DEF Computed, CellsGood
      <4>4. Cell(c, "out", x, i) \notin place
        BY <1>5, <1>6, <3>2
      <4> QED
        BY <1>11, <4>2, <4>3, <4>4
    <3> QED
      BY <3>1, <3>2
  <2> QED
    BY <2>1, <2>2 DEF Computed
<1>14. Kept(c, mem', n', {})
  <2> SUFFICES ASSUME NEW a \in DOMAIN mem', NotWritten(c, a, n')
               PROVE  mem'[a] = a
    BY DEF Kept
  <2>1. a \notin place
    <3>1. n < n'
      BY <1>1, <1>2
    <3> QED
      BY <1>3, <1>5, <3>1 DEF NotWritten
  <2>2. a \in DOMAIN mem
    BY <1>1, <1>8, <2>1 DEF Written
  <2>3. NotWritten(c, a, n)
    <3>1. \A x \in Outer(c) : x < n => x < n'
      BY <1>1, <1>2 DEF Outer
    <3> QED
      BY <3>1 DEF NotWritten
  <2>4. mem[a] = a
    BY <1>2, <2>2, <2>3 DEF Kept
  <2> QED
    BY <1>11, <2>1, <2>2, <2>4
<1> QED
  BY <1>1, <1>2, <1>10, <1>13, <1>14 DEF Running

(* The parameters that permute copies are in another array. *)
LEMMA ReturnFinishes ==
  ASSUME ExactInv, Good(call), Return
  PROVE  Finished'
<1> DEFINE c == call
           m == Iterations(Plan(c, Filled(c)).outer)
<1>1. /\ status = "running" /\ n = Iterations(plan.outer) /\ call' = c
      /\ c \in Calls /\ plan = Plan(c, Filled(c)) /\ out = Filled(c)
      /\ Computed(c, mem, n) /\ Kept(c, mem, n, {})
  BY DEF ExactInv, Running, Return
<1>2. n = m
  BY <1>1
<1>3. ShapedAs(c, out)
  BY <1>1, FilledShaped DEF Good
<1>4. CASE Kind(c) # "permute"
  <2>1. out' = out /\ mem' = mem
    BY <1>4 DEF Return
  <2>2. Computed(c, mem', m)
    BY <1>1, <1>2, <2>1
  <2>3. Kept(c, mem', m, {out'.params})
    BY <1>1, <1>2, <2>1 DEF Kept
  <2> QED
    BY <1>1, <1>3, <2>1, <2>2, <2>3 DEF Finished
<1>5. CASE Kind(c) = "permute"
  <2> DEFINE new == [a \in {<<out.params, i>> : i \in Copied(c, out)} |-> mem[<<c.in1.params, a[2]>>]]
             o == out'
             at == CHOOSE d \in Dims(c.in1) : c.perm[d] = c.in1.dim
  <2>1. out' = PermutedParams(c, out) /\ mem' = Written(mem, new)
    BY <1>5 DEF Return
  <2>2. /\ {"rank", "shape", "mem_stride", "dim", "params"} \subseteq DOMAIN out
        /\ out.params = c.out.params /\ c.out.params # c.buffer.out
    BY <1>1, <1>5, FilledIs, Kinded DEF Good, SizedCall
  <2>3. /\ out'.rank = out.rank /\ out'.shape = out.shape /\ out'.mem_stride = out.mem_stride
        /\ {"rank", "shape", "mem_stride", "dim", "params"} \subseteq DOMAIN out'
        /\ Copied(c, out) # {} => out'.params = out.params
    <3>1. CASE c.in1.dim = 0
      <4>1. out' = [out EXCEPT !.dim = 0]
        BY <2>1, <3>1 DEF PermutedParams
      <4> QED
        BY <2>2, <4>1
    <3>2. CASE c.in1.dim # 0
      <4>1. out' = [out EXCEPT !.dim = at, !.params = IF @ = "null" THEN c.in1.params ELSE @]
        BY <2>1, <3>2 DEF PermutedParams
      <4> HIDE DEF at
      <4>2. Copied(c, out) # {} => out.params # "null"
        BY DEF Copied
      <4> QED
        BY <2>2, <4>1, <4>2
    <3> QED
      BY <3>1, <3>2
  <2>4. DOMAIN new = {<<out.params, i>> : i \in Copied(c, out)}
    OBVIOUS
  <2>5. Strided4(c, out') = [out' EXCEPT !.mem_stride = Increments(out')]
        /\ Strided4(c, out) = [out EXCEPT !.mem_stride = Increments(out)]
    BY <1>5 DEF Strided4
  <2>6. Increments(out') = Increments(out)
    BY <2>3, Zenon DEF Increments
  <2> HIDE DEF new, at
  <2>7. ShapedAs(c, out')
    <3> DEFINE inc == Increments(out)
    <3>1. Strided4(c, out') = [out' EXCEPT !.mem_stride = inc]
          /\ Strided4(c, out) = [out EXCEPT !.mem_stride = inc]
      BY <2>5, <2>6
    <3> HIDE DEF inc
    <3>2. Strided4(c, out').rank = out'.rank /\ Strided4(c, out').mem_stride = inc
          /\ Strided4(c, out).mem_stride = inc
      BY <2>2, <2>3, <3>1
    <3> QED
      BY <1>1, <1>3, <2>3, <3>2 DEF ShapedAs
  <2>8. CellsGood(c) /\ "out" \in Walked(c)
    BY <1>1, CellsAreGood, WalkedIs
  <2>9. \A x \in Outer(c) : \A i \in Within(c) : Cell(c, "out", x, i) \notin DOMAIN new
    BY <2>2, <2>4 DEF Cell, At
  <2>10. /\ \A a \in DOMAIN mem : a \in DOMAIN mem' /\ (a \notin DOMAIN new => mem'[a] = mem[a])
         /\ \A a \in DOMAIN mem' : a \in DOMAIN new \/ (a \in DOMAIN mem /\ mem'[a] = mem[a])
    BY <2>1 DEF Written
  <2>11. Computed(c, mem', m)
    <3>1. Allocated(c) \subseteq DOMAIN mem'
      BY <1>1, <2>10 DEF Computed
    <3>2. ASSUME NEW x \in Outer(c), NEW i \in Within(c), x < m
          PROVE  mem'[Cell(c, "out", x, i)] = Want(c, x, i)
      <4> DEFINE a == Cell(c, "out", x, i)
      <4>1. mem[a] = Want(c, x, i) /\ a \in DOMAIN mem
        BY <1>1, <1>2, <2>8, <3>2 DEF Computed, CellsGood
      <4>2. a \notin DOMAIN new
        BY <2>9
      <4> QED
        BY <2>10, <4>1, <4>2
    <3> QED
      BY <3>1, <3>2, Zenon DEF Computed
  <2>12. Kept(c, mem', m, {out'.params})
    <3> SUFFICES ASSUME NEW a \in DOMAIN mem', a[1] # out'.params, NotWritten(c, a, m)
                 PROVE  mem'[a] = a
      BY DEF Kept
    <3>1. a \notin DOMAIN new
      <4>1. \A i \in Copied(c, out) : a # <<out.params, i>>
        BY <2>3
      <4> QED
        BY <2>4, <4>1
    <3>2. a \in DOMAIN mem /\ mem'[a] = mem[a]
      BY <2>10, <3>1
    <3> QED
      BY <1>1, <1>2, <3>2 DEF Kept
  <2> QED
    BY <1>1, <2>7, <2>11, <2>12 DEF Finished
<1> QED
  BY <1>4, <1>5

LEMMA ExactInvariance == Spec => []ExactInv
<1>1. Init => ExactInv
  BY DEF Init, ExactInv
<1>2. ExactInv /\ [Next]_vars => ExactInv'
  <2> SUFFICES ASSUME ExactInv, [Next]_vars PROVE ExactInv'
    OBVIOUS
  <2>1. call \in Calls /\ call' = call
    BY DEF ExactInv, Next, Refuse, Prepare, Iterate, Return, vars
  <2>2. Good(call)' = Good(call) /\ Check(call)' = Check(call)
    BY <2>1
  <2>3. CASE Refuse
    <3>1. status' \notin {"called", "running", "OK"}
      BY <2>3, CheckAnswers DEF Refuse
    <3> QED
      BY <2>1, <3>1 DEF ExactInv
  <2>4. CASE Prepare
    <3>1. status' = "running" /\ Check(call) = "OK"
      BY <2>4 DEF Prepare
    <3>2. Good(call) => Running'
      BY <2>4, PrepareRuns
    <3> QED
      BY <2>1, <2>2, <3>1, <3>2 DEF ExactInv
  <2>5. CASE Iterate
    <3>1. status' = "running" /\ status = "running"
      BY <2>5 DEF Iterate
    <3>2. Good(call) => Running'
      BY <2>5, IterateRuns
    <3> QED
      BY <2>1, <2>2, <3>1, <3>2 DEF ExactInv
  <2>6. CASE Return
    <3>1. status' = "OK" /\ status = "running"
      BY <2>6 DEF Return
    <3>2. Good(call) => Finished'
      BY <2>6, ReturnFinishes
    <3> QED
      BY <2>1, <2>2, <3>1, <3>2 DEF ExactInv
  <2>7. CASE UNCHANGED vars
    <3>1. /\ out' = out /\ plan' = plan /\ scalar' = scalar /\ n' = n /\ mem' = mem /\ status' = status
      BY <2>7 DEF vars
    <3>2. Running' = Running /\ Finished' = Finished
      BY <2>1, <3>1 DEF Running, Finished
    <3> QED
      BY <2>1, <2>2, <3>1, <3>2 DEF ExactInv
  <2> QED
    BY <2>3, <2>4, <2>5, <2>6, <2>7 DEF Next
<1> QED
  BY <1>1, <1>2, PTL DEF Spec

(* What a finished or running call shows at a position of the result.      *)
LEMMA ResultAddress ==
  ASSUME NEW c \in Calls, Good(c), NEW o, ShapedAs(c, o), NEW p \in BoxOf(c)
  PROVE  Offset(Strided4(c, o), p) = Address(c, "out", p)
<1> DEFINE t == Strided4(c, o)
           u == Strided4(c, Filled(c))
<1>1. Address(c, "out", p) = Offset(u, p)
  BY OutputReceives DEF Receives
<1>2. t.rank = o.rank /\ o.rank = Filled(c).rank /\ t.mem_stride = u.mem_stride
  BY DEF ShapedAs
<1>3. u.rank = Filled(c).rank
  BY FilledShaped DEF ShapedAs, Good
<1> HIDE DEF t, u
<1>4. \A d \in 1 .. 4 : Term(t, p, d) = Term(u, p, d)
  BY <1>2, <1>3 DEF Term
<1>5. Offset(t, p) = Offset(u, p)
  BY <1>4, OffsetIsSum
<1> QED
  BY <1>1, <1>5 DEF t

LEMMA PositionsAre ==
  ASSUME ShapedAs(call, out)
  PROVE  Positions = BoxOf(call)
<1>1. out.rank = Filled(call).rank /\ out.shape = Filled(call).shape
  BY DEF ShapedAs
<1> QED
  BY <1>1 DEF Positions, BoxOf, Box

(* The operand of a position is the one its iteration was given. *)
LEMMA OperandAt ==
  ASSUME call \in Calls, Good(call), NEW k \in Walked(call) \cup Scalars(call), k # "out",
         NEW f, Visits(call, f), NEW x \in Outer(call), NEW i \in Within(call)
  PROVE  Source(k, SourceAt(call, k, f[x][i])) = Given(call, k, x, i)
<1>1. CASE k \in Scalars(call)
  BY <1>1 DEF Source, Given, ScalarOf
<1>2. CASE k \notin Scalars(call)
  <2> DEFINE p == f[x][i]
  <2>1. Cell(call, k, x, i) = At(call, k, Address(call, k, p)) /\ p \in BoxOf(call)
    BY <1>2, CellIs
  <2> HIDE DEF p
  <2>2. Supplies(call, k, p)
    BY <1>2, <2>1, OperandSupplies
  <2> DEFINE q == SourceAt(call, k, p)
  <2>3. Address(call, k, p) = Offset(call[k], q)
    BY <2>2 DEF Supplies
  <2> HIDE DEF q
  <2>4. Source(k, q) = Cell(call, k, x, i)
    BY <1>2, <2>1, <2>3 DEF Source
  <2> QED
    BY <1>2, <2>4 DEF Given, p, q
<1> QED
  BY <1>1, <1>2

(* What the positions ask for is what the iterations computed. *)
LEMMA ExpectedIsWanted ==
  ASSUME call \in Calls, Good(call), Positions = BoxOf(call),
         NEW f, Visits(call, f), NEW x \in Outer(call), NEW i \in Within(call)
  PROVE  Expected(f[x][i]) = Want(call, x, i)
<1> DEFINE p == f[x][i]
           slice == {Source("in1", q) : q \in Slice(p)}
           given == {Given(call, "in1", x, j) : j \in Within(call)}
<1> SUFFICES Expected(p) = Want(call, x, i)
  OBVIOUS
<1>1. /\ "in1" \in Walked(call) \cup Scalars(call)
      /\ Kind(call) \in Binary => "in2" \in Walked(call) \cup Scalars(call)
      /\ Kind(call) \in Kinds
  BY OperandsKnown, Kinded
<1>2. Source("in1", SourceAt(call, "in1", p)) = Given(call, "in1", x, i)
  BY <1>1, OperandAt
<1>3. Kind(call) \in Binary => Source("in2", SourceAt(call, "in2", p)) = Given(call, "in2", x, i)
  BY <1>1, OperandAt
<1>4. Kind(call) = "permute" => SourceAt(call, "in1", p) = TurnedBack(p)
  BY DEF SourceAt, BackAt, TurnedBack, MaxRank, Dims
<1>5. Kind(call) = "prelu" => SourceAt(call, "in2", p) = Slope(p)
  BY DEF SourceAt, SlopeAt, Slope, MaxRank
<1>6. /\ Kind(call) # "permute" => SourceAt(call, "in1", p) = p
      /\ Kind(call) \in {"eltwise", "leaky"} => SourceAt(call, "in2", p) = p
  BY DEF SourceAt
<1>7. Kind(call) \in Normalizing => slice = given
  <2> SUFFICES ASSUME Kind(call) \in Normalizing PROVE slice = given
    OBVIOUS
  <2>1. VisitsSlices(call, f)
    BY Zenon DEF Visits
  <2>2. {f[x][j] : j \in Within(call)} = SliceOf(call, p)
    BY <2>1, Zenon DEF VisitsSlices, p
  <2>3. Slice(p) = SliceOf(call, p)
    BY DEF Slice, SliceOf, MaxRank
  <2>4. \A j \in Within(call) : Source("in1", f[x][j]) = Given(call, "in1", x, j)
    <3> TAKE j \in Within(call)
    <3>1. Source("in1", SourceAt(call, "in1", f[x][j])) = Given(call, "in1", x, j)
      BY <1>1, OperandAt
    <3>2. SourceAt(call, "in1", f[x][j]) = f[x][j]
      BY DEF SourceAt, Normalizing
    <3> QED
      BY <3>1, <3>2
  <2> HIDE DEF p
  <2>5. slice = {Source("in1", q) : q \in {f[x][j] : j \in Within(call)}}
    BY <2>2, <2>3
  <2> HIDE DEF slice
  <2> QED
    BY <2>4, <2>5
<1>8. Expected(p) =
        CASE Kind(call) = "prelu" -> <<"prelu", Source("in1", p), Source("in2", Slope(p))>>
          [] Kind(call) \in {"eltwise", "leaky"} -> <<Kind(call), Source("in1", p), Source("in2", p)>>
          [] Kind(call) = "permute" -> Source("in1", TurnedBack(p))
          [] Kind(call) \in Normalizing -> <<Kind(call), Source("in1", p), slice>>
          [] OTHER -> <<Kind(call), Source("in1", p)>>
  BY Zenon DEF Expected, slice
<1>9. Want(call, x, i) =
        CASE Kind(call) \in Binary -> <<Kind(call), Given(call, "in1", x, i), Given(call, "in2", x, i)>>
          [] Kind(call) \in Normalizing -> <<Kind(call), Given(call, "in1", x, i), given>>
          [] Kind(call) = "permute" -> Given(call, "in1", x, i)
          [] OTHER -> <<Kind(call), Given(call, "in1", x, i)>>
  BY Zenon DEF Want, given
<1> HIDE DEF p, slice, given
<1>10. CASE Kind(call) = "prelu"
  BY <1>2, <1>3, <1>5, <1>6, <1>8, <1>9, <1>10 DEF Binary, Normalizing
<1>11. CASE Kind(call) \in {"eltwise", "leaky"}
  BY <1>2, <1>3, <1>6, <1>8, <1>9, <1>11 DEF Binary, Normalizing
<1>12. CASE Kind(call) = "permute"
  BY <1>2, <1>4, <1>8, <1>9, <1>12 DEF Binary, Normalizing
<1>13. CASE Kind(call) \in Normalizing
  BY <1>2, <1>6, <1>7, <1>8, <1>9, <1>13 DEF Binary, Normalizing
<1>14. CASE Kind(call) \in {"relu", "lut"}
  BY <1>2, <1>6, <1>8, <1>9, <1>14 DEF Binary, Normalizing
<1> QED
  BY <1>1, <1>10, <1>11, <1>12, <1>13, <1>14 DEF Kinds, Normalizing

-----------------------------------------------------------------------------
(* The kernels, for every call that keeps to the documentation: each       *)
(* element of the result is computed from the elements of its position, of *)
(* its slope or of its slice, or from the one that permute brings there,   *)
(* as they were before the call - through squashed dimensions, gaps        *)
(* between rows and results in place of an operand.  The descriptors have  *)
(* their fields, and the sizes the checks compute do not wrap at 2^32.     *)
THEOREM ComputesExactly ==
  ASSUME \A c \in Calls : Documented(c) => SizedCall(c)
  PROVE  Spec => []ResultExact
<1>1. ExactInv => ResultExact
  <2> SUFFICES ASSUME ExactInv, status = "OK", Documented(call), NEW p \in Positions
               PROVE  mem[AtResult(p)] = Expected(p)
    BY DEF ResultExact
  <2>1. call \in Calls /\ Good(call) /\ Finished
    BY DEF ExactInv, Good
  <2>2. /\ ShapedAs(call, out)
        /\ Computed(call, mem, Iterations(Plan(call, Filled(call)).outer))
    BY <2>1 DEF Finished
  <2>3. Positions = BoxOf(call)
    BY <2>2, PositionsAre
  <2>4. PICK f : Visits(call, f)
    BY <2>1, PlanVisits
  <2>5. VisitsAll(call, f)
    BY <2>4, Zenon DEF Visits
  <2>6. PICK x \in Outer(call), i \in Within(call) : p = f[x][i]
    BY <2>3, <2>5 DEF VisitsAll
  <2>7. AtResult(p) = Cell(call, "out", x, i)
    <3>1. "out" \in Walked(call)
      BY <2>1, WalkedIs
    <3>2. Cell(call, "out", x, i) = At(call, "out", Address(call, "out", p))
      BY <2>4, <2>6, <3>1, CellIs
    <3>3. Offset(Strided4(call, out), p) = Address(call, "out", p)
      BY <2>1, <2>2, <2>3, ResultAddress
    <3> QED
      BY <3>2, <3>3 DEF AtResult
  <2>8. mem[Cell(call, "out", x, i)] = Want(call, x, i)
    <3>1. x < Iterations(Plan(call, Filled(call)).outer)
      BY <2>1, Turns DEF Outer
    <3> QED
      BY <2>2, <3>1 DEF Computed
  <2>9. Expected(p) = Want(call, x, i)
    BY <2>1, <2>3, <2>4, <2>6, ExpectedIsWanted
  <2> QED
    BY <2>7, <2>8, <2>9
<1> QED
  BY <1>1, ExactInvariance, PTL

(* The kernels write the elements of the result and, permute, those of its *)
(* parameters: nothing in the gaps between the rows of the output.         *)
THEOREM KeepsOthers ==
  ASSUME \A c \in Calls : Documented(c) => SizedCall(c)
  PROVE  Spec => []OthersKept
<1>1. ExactInv => OthersKept
  <2> SUFFICES ASSUME ExactInv, status \in {"running", "OK"}, Documented(call),
                      NEW a \in DOMAIN mem, mem[a] # a, a[1] # out.params
               PROVE  a \in {AtResult(p) : p \in Positions}
    BY DEF OthersKept
  <2>1. call \in Calls /\ Good(call)
    BY DEF ExactInv, Good
  <2>2. ShapedAs(call, out)
    BY <2>1, FilledShaped DEF ExactInv, Running, Finished, Good
  <2>3. PICK m : ~NotWritten(call, a, m)
    BY <2>1 DEF ExactInv, Running, Finished, Kept
  <2>4. PICK x \in Outer(call), i \in Within(call) : a = Cell(call, "out", x, i)
    BY <2>3 DEF NotWritten
  <2>5. PICK f : Visits(call, f)
    BY <2>1, PlanVisits
  <2>6. "out" \in Walked(call)
    BY <2>1, WalkedIs
  <2>7. Cell(call, "out", x, i) = At(call, "out", Address(call, "out", f[x][i]))
        /\ f[x][i] \in BoxOf(call)
    BY <2>5, <2>6, CellIs
  <2>8. Positions = BoxOf(call)
    BY <2>2, PositionsAre
  <2>9. a = AtResult(f[x][i])
    BY <2>1, <2>2, <2>4, <2>7, ResultAddress DEF AtResult
  <2> QED
    BY <2>7, <2>8, <2>9
<1> QED
  BY <1>1, ExactInvariance, PTL

(* No kernel reads or writes outside the buffers of its tensors, although  *)
(* it looks at no capacity after the checks.                               *)
THEOREM StaysInBuffers ==
  ASSUME \A c \in Calls : Documented(c) => SizedCall(c)
  PROVE  Spec => []InsideBuffers
<1>1. ExactInv => InsideBuffers
  <2> SUFFICES ASSUME ExactInv, status = "running", n < Iterations(plan.outer), Documented(call),
                      NEW k \in Walked(call), NEW i \in Elements
               PROVE  At(call, k, Here(k, i)) \in Allocated(call)
    BY DEF InsideBuffers
  <2>1. call \in Calls /\ Good(call)
    BY DEF ExactInv, Good
  <2>2. /\ n \in Outer(call) /\ Elements = Within(call)
        /\ At(call, k, Here(k, i)) = Cell(call, k, n, i)
    BY <2>1, IterationComputes
  <2>3. CellsGood(call)
    BY <2>1, CellsAreGood
  <2> QED
    BY <2>2, <2>3 DEF CellsGood
<1> QED
  BY <1>1, ExactInvariance, PTL

-----------------------------------------------------------------------------
(* The parameters of permute.                                              *)

(* A call of permute: the fields of the output descriptor that the kernel  *)
(* sets exist, and the parameters are not in the output's data buffer.     *)
Permutes(c) ==
  /\ c.kind = "permute"
  /\ Descriptor(c.in1) /\ c.in1.dim \in 0 .. c.in1.rank /\ c.in1.params_cap \in Nat
  /\ {"rank", "shape", "dim", "params"} \subseteq DOMAIN c.out
  /\ c.in1.params # c.buffer.out

(* The parameters of the input are where they were. *)
ParamsKept ==
  \A i \in 0 .. call.in1.params_cap - 1 :
    <<call.in1.params, i>> \in DOMAIN mem /\ mem[<<call.in1.params, i>>] = <<call.in1.params, i>>

-----------------------------------------------------------------------------
LEMMA PermuteChecked ==
  ASSUME NEW c \in Calls, Permutes(c)
  PROVE  /\ Kind(c) = "permute" /\ Check(c) = CheckPermute(c)
         /\ CheckPermute(c) \notin {"called", "running"}
PROOF
  <1>1. Kind(c) = "permute"
    BY DEF Kind, Permutes
  <1>2. Check(c) = CheckPermute(c)
    BY DEF Check, Permutes
  <1>3. CheckPermute(c) \notin {"called", "running"}
    BY DEF CheckPermute, CheckTensor, CheckLayout
  <1> QED BY <1>1, <1>2, <1>3

(* The dimension with the parameters, where an accepted order puts it.     *)
LEMMA AxisMoves ==
  ASSUME NEW c \in Calls, Permutes(c), Check(c) = "OK", c.in1.dim > 0
  PROVE  /\ \E d \in Dims(c.in1) : c.perm[d] = c.in1.dim
         /\ c.in1.shape[c.in1.dim] \in Nat /\ c.in1.shape[c.in1.dim] <= c.in1.params_cap
PROOF
  <1>1. /\ CheckTensor(c.in1) = "OK"
        /\ ~(\E d \in Dims(c.in1) :
               \/ c.perm[d] > c.in1.rank
               \/ \E e \in d + 1 .. c.in1.rank : c.perm[d] = c.perm[e])
    BY PermuteChecked DEF CheckPermute
  <1>2. c.in1.rank \in 0 .. 4 /\ c.in1.dim \in 1 .. c.in1.rank
    BY <1>1, TensorHasLayout, Accepted DEF Permutes, MaxRank
  <1>3. \A d \in 1 .. c.in1.rank : c.perm[d] \in 1 .. c.in1.rank
    <2> TAKE d \in 1 .. c.in1.rank
    <2>1. c.perm[d] \in Nat \ {0} /\ ~(c.perm[d] > c.in1.rank)
      BY <1>1, CallsAssumption DEF Dims
    <2> QED BY <1>2, <2>1
  <1>4. \E d \in Dims(c.in1) : c.perm[d] = c.in1.dim
    <2> DEFINE r == c.in1.rank
               p == c.perm
    <2>1. \A d \in 1 .. r : \A e \in d + 1 .. r : p[d] # p[e]
      BY <1>1 DEF Dims
    <2>2. r \in 0 .. 4 /\ c.in1.dim \in 1 .. r /\ \A d \in 1 .. r : p[d] \in 1 .. r
      BY <1>2, <1>3
    <2>3. Dims(c.in1) = 1 .. r
      BY DEF Dims
    <2> HIDE DEF r, p
    <2>4. \E d \in 1 .. r : p[d] = c.in1.dim
      BY <2>1, <2>2, EachDimensionOccurs
    <2> QED BY <2>3, <2>4 DEF p
  <1>5. c.in1.shape[c.in1.dim] \in Nat
    BY <1>2 DEF Permutes, Descriptor, MaxRank
  <1>6. c.in1.params_cap >= c.in1.shape[c.in1.dim]
    BY <1>1 DEF CheckTensor, Quantified
  <1> QED BY <1>2, <1>4, <1>5, <1>6 DEF Permutes

-----------------------------------------------------------------------------
ParamsInv ==
  /\ call \in Calls
  /\ Permutes(call) =>
       /\ status = "called" => ParamsKept
       /\ status = "running" => ParamsKept /\ Check(call) = "OK" /\ out = Filled(call)
       /\ ParamsFollow

LEMMA ReturnFollows ==
  ASSUME ParamsInv, Permutes(call), Return
  PROVE  ParamsFollow'
PROOF
  <1> SUFFICES ASSUME call.in1.dim > 0
               PROVE  /\ out'.shape[out'.dim] = call.in1.shape[call.in1.dim]
                      /\ call.perm[out'.dim] = call.in1.dim
                      /\ \A i \in 0 .. call.in1.shape[call.in1.dim] - 1 :
                           mem'[<<out'.params, i>>] = <<call.in1.params, i>>
    BY DEF ParamsFollow, Return
  <1> DEFINE new == [a \in {<<out.params, i>> : i \in Copied(call, out)} |->
                       mem[<<call.in1.params, a[2]>>]]
  <1>1. /\ call \in Calls /\ status = "running" /\ Check(call) = "OK" /\ out = Filled(call)
        /\ ParamsKept /\ Kind(call) = "permute"
    BY PermuteChecked DEF ParamsInv, Return
  <1>2. out' = PermutedParams(call, out) /\ mem' = Written(mem, new)
    BY <1>1 DEF Return
  <1>3. /\ \E d \in Dims(call.in1) : call.perm[d] = call.in1.dim
        /\ call.in1.shape[call.in1.dim] \in Nat
        /\ call.in1.shape[call.in1.dim] <= call.in1.params_cap
    BY <1>1, AxisMoves
  <1>4. /\ call.in1.rank \in 0 .. MaxRank /\ call.in1.params_cap \in Nat
        /\ {"rank", "shape", "dim", "params"} \subseteq DOMAIN call.out
    BY <1>1, PermuteChecked, TensorHasLayout, Accepted DEF Permutes, CheckPermute
  <1> DEFINE turned == [d \in 1 .. MaxRank |->
                          IF d <= call.in1.rank THEN call.in1.shape[call.perm[d]] ELSE 1]
             at == CHOOSE d \in Dims(call.in1) : call.perm[d] = call.in1.dim
  <1>5. /\ out = [call.out EXCEPT !.rank = call.in1.rank, !.shape = turned]
        /\ {"rank", "shape", "dim", "params"} \subseteq DOMAIN out
        /\ out.shape = turned
    <2>1. out = [call.out EXCEPT !.rank = call.in1.rank, !.shape = turned]
      BY <1>1 DEF Filled
    <2> HIDE DEF turned
    <2> QED BY <1>4, <2>1
  <1>6. at \in Dims(call.in1) /\ call.perm[at] = call.in1.dim
    BY <1>3
  <1>7. /\ out'.dim = at /\ out'.shape = turned
        /\ out'.params = IF out.params = "null" THEN call.in1.params ELSE out.params
    <2>1. out' = [out EXCEPT !.dim = at,
                             !.params = IF @ = "null" THEN call.in1.params ELSE @]
      BY <1>2 DEF PermutedParams
    <2> HIDE DEF at, turned
    <2> QED BY <1>5, <2>1
  <1> HIDE DEF at
  <1>8. turned[at] = call.in1.shape[call.in1.dim]
    <2>1. at \in 1 .. MaxRank /\ at <= call.in1.rank
      BY <1>4, <1>6 DEF Dims, MaxRank
    <2> QED BY <1>6, <2>1
  <1> HIDE DEF turned
  <1>9. ASSUME NEW i \in 0 .. call.in1.shape[call.in1.dim] - 1
        PROVE  mem'[<<out'.params, i>>] = <<call.in1.params, i>>
    <2>1. /\ <<call.in1.params, i>> \in DOMAIN mem
          /\ mem[<<call.in1.params, i>>] = <<call.in1.params, i>>
      BY <1>1, <1>3, <1>4 DEF ParamsKept
    <2>2. CASE out.params \in {"null", call.in1.params}
      <3>1. out'.params = call.in1.params /\ DOMAIN new = {}
        BY <1>7, <2>2 DEF Copied
      <3> HIDE DEF new
      <3> QED BY <1>2, <2>1, <3>1 DEF Written
    <2>3. CASE out.params \notin {"null", call.in1.params}
      <3>1. out'.params = out.params /\ i \in Copied(call, out)
        BY <1>7, <2>3 DEF Copied
      <3>2. <<out.params, i>> \in DOMAIN new
        BY <3>1
      <3>3. new[<<out.params, i>>] = mem[<<call.in1.params, i>>]
        BY <3>2
      <3> HIDE DEF new
      <3> QED BY <1>2, <2>1, <3>1, <3>2, <3>3 DEF Written
    <2> QED BY <2>2, <2>3
  <1> QED BY <1>6, <1>7, <1>8, <1>9

LEMMA IterateKeeps ==
  ASSUME ParamsInv, Permutes(call), Iterate
  PROVE  ParamsKept'
PROOF
  <1> DEFINE place == {At(call, "out", Here("out", i)) : i \in Elements}
             value(a) == Result(CHOOSE i \in Elements : a = At(call, "out", Here("out", i)))
             new == [a \in place |-> value(a)]
  <1>1. mem' = Written(mem, new) /\ call' = call /\ status = "running"
    BY DEF Iterate
  <1>2. DOMAIN new = place
    OBVIOUS
  <1>3. ASSUME NEW i \in 0 .. call.in1.params_cap - 1
        PROVE  <<call.in1.params, i>> \notin place
    BY DEF At, Permutes
  <1> HIDE DEF place, value, new
  <1>4. ParamsKept
    BY <1>1 DEF ParamsInv
  <1> QED BY <1>1, <1>2, <1>3, <1>4 DEF ParamsKept, Written

LEMMA ParamsInvariance == Spec => []ParamsInv
PROOF
  <1>1. Init => ParamsInv
    <2> SUFFICES ASSUME Init PROVE ParamsInv
      OBVIOUS
    <2>1. ParamsKept
      <3>1. mem = [a \in Allocated(call) |-> a]
        BY DEF Init
      <3>2. \A i \in 0 .. call.in1.params_cap - 1 : <<call.in1.params, i>> \in Allocated(call)
        <4> DEFINE array(t) == {<<t.params, i>> : i \in 0 .. t.params_cap - 1}
                   arrays == UNION {array(t) : t \in {call.in1, call.out}}
        <4>1. arrays \subseteq Allocated(call)
          BY DEF Allocated
        <4>2. \A i \in 0 .. call.in1.params_cap - 1 : <<call.in1.params, i>> \in array(call.in1)
          OBVIOUS
        <4>3. array(call.in1) \subseteq arrays
          OBVIOUS
        <4> HIDE DEF array, arrays
        <4> QED BY <4>1, <4>2, <4>3
      <3> QED BY <3>1, <3>2 DEF ParamsKept
    <2> QED BY <2>1 DEF Init, ParamsInv, ParamsFollow
  <1>2. ParamsInv /\ [Next]_vars => ParamsInv'
    <2> SUFFICES ASSUME ParamsInv, [Next]_vars PROVE ParamsInv'
      OBVIOUS
    <2>1. CASE Refuse
      <3>1. /\ status' = Check(call) /\ Check(call) # "OK"
            /\ call' = call /\ out' = out /\ mem' = mem
        BY <2>1 DEF Refuse
      <3>2. Permutes(call) => status' \notin {"called", "running", "OK"}
        BY <3>1, PermuteChecked DEF ParamsInv
      <3>3. Permutes(call)' = Permutes(call)
        BY <3>1
      <3> QED BY <3>1, <3>2, <3>3 DEF ParamsInv, ParamsFollow
    <2>2. CASE Prepare
      <3>1. /\ status = "called" /\ Check(call) = "OK" /\ status' = "running"
            /\ out' = Filled(call) /\ call' = call /\ mem' = mem
        BY <2>2 DEF Prepare
      <3>2. ParamsKept => ParamsKept'
        BY <3>1 DEF ParamsKept
      <3>3. ParamsFollow'
        BY <3>1 DEF ParamsFollow
      <3> QED BY <3>1, <3>2, <3>3 DEF ParamsInv
    <2>3. CASE Iterate
      <3>1. status = "running" /\ status' = status /\ call' = call /\ out' = out
        BY <2>3 DEF Iterate
      <3>2. Permutes(call) => ParamsKept'
        BY <2>3, IterateKeeps
      <3>3. ParamsFollow'
        BY <3>1 DEF ParamsFollow
      <3> QED BY <3>1, <3>2, <3>3 DEF ParamsInv
    <2>4. CASE Return
      <3>1. status' = "OK" /\ call' = call
        BY <2>4 DEF Return
      <3>2. Permutes(call) => ParamsFollow'
        BY <2>4, ReturnFollows
      <3> QED BY <3>1, <3>2 DEF ParamsInv
    <2>5. CASE UNCHANGED vars
      <3>1. call' = call /\ status' = status /\ out' = out /\ mem' = mem
        BY <2>5 DEF vars
      <3>2. ParamsKept' = ParamsKept /\ ParamsFollow' = ParamsFollow
        BY <3>1 DEF ParamsKept, ParamsFollow
      <3> QED BY <3>1, <3>2 DEF ParamsInv
    <2> QED BY <2>1, <2>2, <2>3, <2>4, <2>5 DEF Next
  <1> QED BY <1>1, <1>2, PTL DEF Spec

(* mli_krn_permute: each index of the dimension with parameters of its own *)
(* has in the output the parameters it has in the input.                   *)
THEOREM ParamsStay ==
  ASSUME \A c \in Calls : c.kind = "permute" => Permutes(c)
  PROVE  Spec => []ParamsFollow
PROOF
  <1>1. ParamsInv => ParamsFollow
    <2> SUFFICES ASSUME ParamsInv PROVE ParamsFollow
      OBVIOUS
    <2>1. CASE Permutes(call)
      BY <2>1 DEF ParamsInv
    <2>2. CASE ~Permutes(call)
      <3>1. call.kind # "permute"
        BY <2>2 DEF ParamsInv
      <3>2. Kind(call) # "permute"
        BY <3>1 DEF Kind
      <3> QED BY <3>2 DEF ParamsFollow
    <2> QED BY <2>1, <2>2
  <1> QED BY ParamsInvariance, <1>1, PTL
=============================================================================
