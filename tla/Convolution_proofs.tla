-------------------------- MODULE Convolution_proofs -------------------------
(***************************************************************************)
(* The convolutions, for sizes, strides, dilations, paddings and channels  *)
(* of every value.  First an axis: a pass of the loops computes the        *)
(* products of the reference, and the passes of a transposed convolution   *)
(* divide the output among them.  Then a whole call, whose loops leave     *)
(* behind one point of the output after the other: what was written is     *)
(* exactly the elements of these points.                                   *)
(***************************************************************************)
EXTENDS Convolution, Access_proofs, FiniteSetTheorems

IsAxis(a) ==
  /\ a.in \in Nat \ {0} /\ a.kernel \in Nat \ {0} /\ a.pre \in Nat /\ a.post \in Nat
  /\ a.stride \in Nat \ {0} /\ a.dilation \in Nat \ {0}

-----------------------------------------------------------------------------
(* conv2d, depthwise and group convolution.                                *)

(* Every output of a pass sums up the products of the convolution of the   *)
(* whole input: what prepare_and_run cuts off is not needed, and the loops *)
(* take nothing from the padding.                                          *)
THEOREM PlainAxisExact ==
  ASSUME NEW a, IsAxis(a), NEW n \in Nat, NEW o \in 0 .. n - 1
  PROVE  AxisPairs(PlainAxis(a, n), o) = AxisReference("conv2d", a, o)
<1> DEFINE p == WindowOf(a)
           q == PlainAxis(a, n)
<1>1. IsWindow(p)
  BY DEF IsAxis, IsWindow, WindowOf
<1>2. IsCut(q, p, n) /\ q.in_first = 0 /\ q.krn_first = 0 /\ q.krn_step = 1
  BY DEF IsCut, PlainAxis, WindowOf
<1>3. IsWindow(q)
  BY <1>1, <1>2, CutIsWindow
<1>4. Visited(q, o) = Met(p, o)
  BY <1>1, <1>2, <1>3, ValidAreaExact, CutInput
<1>5. \A v \in Met(p, o) : v = <<v[1], v[2]>> /\ v[1] \in Int /\ v[2] \in Int
  BY <1>1 DEF Met, IsWindow
<1> HIDE DEF p, q
<1>6. AxisPairs(q, o) = {<<q.in_first + v[1], q.krn_first + q.krn_step * v[2]>> : v \in Met(p, o)}
  BY <1>4 DEF AxisPairs
<1>7. AxisPairs(q, o) = {<<v[1], v[2]>> : v \in Met(p, o)}
  BY <1>2, <1>5, <1>6
<1>8. AxisPairs(q, o) = Met(p, o)
  BY <1>5, <1>7
<1> QED
  BY <1>8 DEF AxisReference, p, q

(* The shape a group convolution fills in passes the checks on the shape,  *)
(* and is the largest that does.                                           *)
THEOREM GroupSizeLargest ==
  ASSUME NEW a, IsAxis(a), NEW n \in Nat \ {0}, AxisFits(a, n)
  PROVE  /\ GroupSize(a) \in Nat \ {0}
         /\ AxisFits(a, GroupSize(a)) /\ ~AxisFits(a, GroupSize(a) + 1)
<1> DEFINE e == EffectiveKernel(WindowOf(a))
           t == a.in + a.pre + a.post
           x == t - e + 1
           s == a.stride
           g == GroupSize(a)
<1>1. e \in Int /\ s \in Nat \ {0} /\ t \in Int
  BY DEF IsAxis, EffectiveKernel, WindowOf
<1>2. \A m \in Int : Required(WindowOf(a), m) = m * s + e - s
  BY DEF Required, WindowOf
<1>3. n * s >= s /\ n * s \in Int
  BY <1>1, Monotone, 1 * s = s
<1>4. x \in Nat \ {0}
  <2>1. n * s + e - s <= t
    BY <1>2 DEF AxisFits
  <2> HIDE DEF e, s, t
  <2> QED
    BY <1>1, <1>3, <2>1
<1>5. g \in Nat /\ g * s >= x /\ g * s < x + s
  <2>1. a.in + a.pre + a.post - e + 1 = x
    <3> HIDE DEF e
    <3> QED
      BY <1>1 DEF IsAxis
  <2>2. g = CeilDiv(x, s)
    BY <2>1 DEF GroupSize
  <2> HIDE DEF x, s, g
  <2> QED
    BY <1>1, <1>4, <2>2, CeilDivBounds
<1> HIDE DEF e, s, t, g
<1>6. g # 0
  BY <1>1, <1>4, <1>5
<1>7. (g + 1) * s = g * s + s
  BY <1>1, <1>5
<1>8. g * s + e - s <= t
  BY <1>1, <1>5
<1>9. ~((g + 1) * s + e - s <= t)
  BY <1>1, <1>5, <1>7
<1> QED
  BY <1>2, <1>5, <1>6, <1>8, <1>9 DEF AxisFits, e, s, t, g

-----------------------------------------------------------------------------
(* Transposed convolution.                                                 *)

(* What divides into d times an integer, and the remainder.                *)
LEMMA Division ==
  ASSUME NEW x \in Int, NEW d \in Nat \ {0}
  PROVE  x % d \in 0 .. d - 1 /\ x \div d \in Int /\ x = (x \div d) * d + (x % d)
OBVIOUS

(* A factor lies strictly between its neighbours if its multiple does.     *)
LEMMA Quotient ==
  ASSUME NEW d \in Nat \ {0}, NEW i \in Int, NEW j \in Int
  PROVE  /\ i * d < j * d + d => i <= j
         /\ i * d < j * d => i < j
<1>1. i * d \in Int /\ j * d \in Int
  BY Monotone
<1>2. (j < i => j * d + d <= i * d) /\ (j <= i => j * d <= i * d)
  BY Monotone
<1> QED
  BY <1>1, <1>2

(* The numbers from 1 on, counted through in rows of r.                    *)
LEMMA RowsOf ==
  ASSUME NEW s \in Nat \ {0}, NEW r \in Nat \ {0}
  PROVE  /\ s * r \in Nat \ {0}
         /\ \A n \in 1 .. s * r : (n - 1) \div r \in 0 .. s - 1 /\ (n - 1) % r \in 0 .. r - 1
         /\ \A f \in 0 .. s - 1, g \in 0 .. r - 1 : \E n \in 1 .. s * r :
              (n - 1) \div r = f /\ (n - 1) % r = g
         /\ \A n, m \in 1 .. s * r :
              (n - 1) \div r = (m - 1) \div r /\ (n - 1) % r = (m - 1) % r => n = m
<1>1. s * r \in Nat \ {0}
  <2>1. 1 * r = r /\ 1 * r <= s * r /\ s * r \in Int
    BY Monotone
  <2> QED
    BY <2>1
<1>2. ASSUME NEW n \in 1 .. s * r
      PROVE  (n - 1) \div r \in 0 .. s - 1 /\ (n - 1) % r \in 0 .. r - 1
  <2> DEFINE x == n - 1
             q == x \div r
  <2>1. x \in Nat /\ x < s * r
    BY <1>1
  <2> HIDE DEF x
  <2>2. x % r \in 0 .. r - 1 /\ q \in Int /\ x = q * r + (x % r)
    BY <2>1, Division
  <2> HIDE DEF q
  <2>3. q * r \in Int /\ (-1) * r < q * r /\ q * r < s * r
    BY <1>1, <2>1, <2>2
  <2>4. -1 < q /\ q < s
    BY <2>2, <2>3, Quotient
  <2> QED
    BY <2>2, <2>4 DEF x, q
<1>3. ASSUME NEW f \in 0 .. s - 1, NEW g \in 0 .. r - 1
      PROVE  \E n \in 1 .. s * r : (n - 1) \div r = f /\ (n - 1) % r = g
  <2> DEFINE x == f * r + g
             q == x \div r
  <2>1. f * r \in Nat /\ f * r + r <= s * r
    BY Monotone, <1>1
  <2>2. x \in Nat /\ x < s * r
    BY <1>1, <2>1
  <2> HIDE DEF x
  <2>3. x % r \in 0 .. r - 1 /\ q \in Int /\ x = q * r + (x % r)
    BY <2>2, Division
  <2>4. q = f
    <3> HIDE DEF q
    <3>1. q * r < f * r + r /\ f * r < q * r + r /\ q * r \in Int
      BY <2>1, <2>3 DEF x
    <3>2. q <= f /\ f <= q
      BY <2>3, <3>1, Quotient
    <3> QED
      BY <2>3, <3>2
  <2>5. x % r = g
    <3> HIDE DEF q
    <3> QED
      BY <2>1, <2>3, <2>4 DEF x
  <2>6. x + 1 \in 1 .. s * r /\ (x + 1) - 1 = x
    BY <1>1, <2>2
  <2> QED
    BY <2>4, <2>5, <2>6
<1>4. ASSUME NEW n \in 1 .. s * r, NEW m \in 1 .. s * r,
             (n - 1) \div r = (m - 1) \div r, (n - 1) % r = (m - 1) % r
      PROVE  n = m
  <2>1. n - 1 \in Int /\ m - 1 \in Int
    BY <1>1
  <2>2. n - 1 = ((n - 1) \div r) * r + ((n - 1) % r) /\ m - 1 = ((m - 1) \div r) * r + ((m - 1) % r)
    BY <2>1, Division
  <2> QED
    BY <1>1, <1>4, <2>1, <2>2
<1> QED
  BY <1>1, <1>2, <1>3, <1>4

(* The numbers of a pass: m is the input element under the first element   *)
(* of its kernel at its first output, which is in_first unless this lies   *)
(* in the padding.                                                         *)
LEMMA PassNumbers ==
  ASSUME NEW a, IsAxis(a), a.pre < a.kernel, NEW size \in Nat \ {0},
         NEW offset \in 0 .. a.stride - 1,
         NEW q, q = TransposedAxis(a, size, offset)
  PROVE  /\ q.out_first \in 0 .. a.stride - 1
         /\ q.kernel \in Nat /\ q.out \in Nat /\ q.pad \in Nat /\ q.in_first \in Nat /\ q.in \in Int
         /\ q.kernel * a.stride >= a.kernel - offset
         /\ q.kernel * a.stride < a.kernel - offset + a.stride
         /\ q.out * a.stride >= size - q.out_first
         /\ q.out * a.stride < size - q.out_first + a.stride
         /\ q.in = Least((q.out + q.kernel - 1) - q.pad, a.in - q.in_first)
         /\ q.in_first = 0 \/ q.pad = 0
         /\ (q.in_first - q.pad) * a.stride = q.out_first - EffectivePad(a) + offset
<1> DEFINE s == a.stride
           e == EffectivePad(a)
           f == (s - offset + e) % s
           m == 1 - ((s - offset + e) \div s)
<1>1. s \in Nat \ {0} /\ e \in Nat /\ offset \in Int /\ a.kernel \in Nat /\ a.in \in Nat
  BY DEF IsAxis, EffectivePad
<1>2. f \in 0 .. s - 1 /\ m \in Int /\ m * s = f - e + offset
  <2> HIDE DEF s, e
  <2>1. s - offset + e \in Int
    BY <1>1
  <2>2. /\ f \in 0 .. s - 1 /\ (s - offset + e) \div s \in Int
        /\ s - offset + e = ((s - offset + e) \div s) * s + f
    BY <1>1, <2>1, Division
  <2>3. m * s = s - ((s - offset + e) \div s) * s
    BY <1>1, <2>2
  <2> QED
    BY <1>1, <2>1, <2>2, <2>3
<1>3. /\ q.out_first = f
      /\ q.kernel = CeilDiv(a.kernel - offset, s)
      /\ q.out = CeilDiv(size - f, s)
      /\ q.pad = CeilDiv(Most(0, e - f - offset), s)
      /\ q.in_first = CeilDiv(Most(0, f - e), s)
      /\ q.in = Least((q.out + q.kernel - 1) - q.pad, a.in - q.in_first)
  BY DEF TransposedAxis, PassPad
<1> HIDE DEF s, e, f, m
<1>4. q.kernel \in Nat /\ q.kernel * s >= a.kernel - offset /\ q.kernel * s < a.kernel - offset + s
  <2>1. a.kernel - offset \in Int /\ a.kernel - offset > -s
    BY <1>1 DEF s
  <2> QED
    BY <1>1, <1>3, <2>1, CeilDivBounds
<1>5. q.out \in Nat /\ q.out * s >= size - f /\ q.out * s < size - f + s
  <2>1. size - f \in Int /\ size - f > -s
    BY <1>1, <1>2
  <2> QED
    BY <1>1, <1>3, <2>1, CeilDivBounds
<1>6. q.pad \in Nat /\ q.pad = Most(0, -m)
  <2> DEFINE x == Most(0, e - f - offset)
  <2>1. x \in Nat /\ (m * s < 0 => x = -(m * s)) /\ (m * s >= 0 => x = 0)
    BY <1>1, <1>2 DEF Most
  <2>2. x \in Int /\ x > -s
    BY <1>1, <2>1
  <2> HIDE DEF x
  <2>3. q.pad \in Nat /\ q.pad * s >= x /\ q.pad * s < x + s
    BY <1>1, <1>3, <2>2, CeilDivBounds DEF x
  <2>4. -m \in Int /\ (-m) * s = -(m * s) /\ 0 * s = 0 /\ m * s \in Int
    BY <1>1, <1>2
  <2>5. (m < 0 => m * s < 0) /\ (m >= 0 => m * s >= 0)
    BY <1>1, <1>2, <2>4, Monotone
  <2>6. CASE m < 0
    <3>1. q.pad * s >= (-m) * s /\ q.pad * s < (-m) * s + s
      BY <2>1, <2>3, <2>4, <2>5, <2>6
    <3>2. q.pad <= -m /\ (q.pad < -m => q.pad * s + s <= (-m) * s)
      BY <1>1, <2>3, <2>4, <3>1, Quotient, Monotone
    <3> QED
      BY <1>1, <1>2, <2>3, <2>4, <2>6, <3>1, <3>2 DEF Most
  <2>7. CASE m >= 0
    <3>1. q.pad * s < 0 * s + s
      BY <2>1, <2>3, <2>4, <2>5, <2>7
    <3>2. q.pad <= 0
      BY <1>1, <2>3, <3>1, Quotient
    <3> QED
      BY <1>2, <2>3, <2>7, <3>2 DEF Most
  <2> QED
    BY <1>2, <2>3, <2>6, <2>7
<1>7. q.in_first \in Nat /\ q.in_first = Most(0, m)
  <2> DEFINE x == Most(0, f - e)
  <2>1. x \in Nat /\ (f - e < 0 => x = 0) /\ (f - e >= 0 => x = f - e)
    BY <1>1, <1>2 DEF Most
  <2>2. x \in Int /\ x > -s
    BY <1>1, <2>1
  <2> HIDE DEF x
  <2>3. q.in_first \in Nat /\ q.in_first * s >= x /\ q.in_first * s < x + s
    BY <1>1, <1>3, <2>2, CeilDivBounds DEF x
  <2>4. 0 * s = 0 /\ m * s \in Int /\ 0 <= offset /\ offset < s
    BY <1>1, <1>2 DEF s
  <2>5. CASE f - e > 0
    <3>1. m * s >= q.in_first * s - s + 1 /\ q.in_first * s < m * s + s
      BY <1>1, <1>2, <2>1, <2>3, <2>4, <2>5
    <3>2. q.in_first <= m /\ (q.in_first < m => q.in_first * s + s <= m * s)
      BY <1>1, <1>2, <2>3, <3>1, Quotient, Monotone
    <3> QED
      BY <1>1, <1>2, <2>1, <2>3, <2>4, <2>5, <3>1, <3>2 DEF Most
  <2>6. CASE f - e <= 0
    <3>1. q.in_first * s < 0 * s + s /\ m * s < 0 * s + s
      BY <1>1, <1>2, <2>1, <2>3, <2>4, <2>6
    <3>2. q.in_first <= 0 /\ m <= 0
      BY <1>1, <1>2, <2>3, <3>1, Quotient
    <3> QED
      BY <1>2, <2>3, <3>2 DEF Most
  <2> QED
    BY <1>1, <1>2, <2>5, <2>6
<1>8. (q.in_first = 0 \/ q.pad = 0) /\ q.in_first - q.pad = m
  BY <1>2, <1>6, <1>7 DEF Most
<1>9. q.in \in Int
  BY <1>1, <1>3, <1>4, <1>5, <1>6, <1>7 DEF Least
<1> QED
  BY <1>2, <1>3, <1>4, <1>5, <1>6, <1>7, <1>8, <1>9 DEF s, e

(* Every output of a pass sums up the products that the spread out input   *)
(* and the kernel of the transposed convolution have there.                *)
THEOREM TransposedPassExact ==
  ASSUME NEW a, IsAxis(a), a.pre < a.kernel, NEW size \in Nat \ {0},
         NEW offset \in 0 .. a.stride - 1,
         NEW q, q = TransposedAxis(a, size, offset),
         NEW o \in 0 .. q.out - 1
  PROVE  AxisPairs(q, o) = Spread(a, q.out_first + q.out_step * o)
<1> DEFINE s == a.stride
           e == EffectivePad(a)
           m == q.in_first - q.pad
           P == q.out_first + s * o
           N == q.out + q.kernel - 1
<1>1. /\ s \in Nat \ {0} /\ a.kernel \in Nat /\ a.in \in Nat /\ a.pre \in Nat
      /\ offset \in Int /\ 0 <= offset /\ offset < s
      /\ e \in Nat /\ e = a.kernel - a.pre - 1
  BY DEF IsAxis, EffectivePad
<1>2. /\ q.out_first \in Nat /\ q.kernel \in Nat /\ q.out \in Nat /\ q.pad \in Nat
      /\ q.in_first \in Nat /\ q.in \in Int
      /\ q.kernel * s >= a.kernel - offset /\ q.kernel * s < a.kernel - offset + s
      /\ q.in = Least(N - q.pad, a.in - q.in_first)
      /\ q.in_first = 0 \/ q.pad = 0
      /\ m * s = q.out_first - e + offset
  BY PassNumbers
<1>3. /\ q.stride = 1 /\ q.dilation = 1 /\ q.krn_first = a.kernel - 1 - offset
      /\ q.krn_step = 0 - s /\ q.out_step = s
  BY DEF TransposedAxis, OutStep
<1>4. o \in Nat /\ o < q.out
  BY <1>2
<1>5. Visited(q, o) = Met(q, o)
  BY <1>2, <1>3, <1>4, ValidAreaExact DEF IsWindow
<1>6. \A j \in Int : Under(q, o, j) = o - q.pad + j
  BY <1>2, <1>3, <1>4 DEF Under, Begin
<1> HIDE DEF s, e, m, P
<1> DEFINE Pair(v) == <<q.in_first + v[1], q.krn_first + q.krn_step * v[2]>>
<1>7. \A j \in Int : j * s \in Int /\ q.krn_first + q.krn_step * j = a.kernel - 1 - offset - j * s
  BY <1>1, <1>3
<1>8. P \in Int /\ P = q.out_first + o * s /\ o * s \in Int
  BY <1>1, <1>2, <1>4 DEF P
<1>9. ASSUME NEW j \in 0 .. q.kernel - 1
      PROVE  LET i == q.in_first + Under(q, o, j)
                 k == q.krn_first + q.krn_step * j
             IN  /\ i \in Int /\ i = m + o + j
                 /\ k \in 0 .. a.kernel - 1 /\ i * s + k - a.pre = P
                 /\ Under(q, o, j) \in 0 .. q.in - 1 <=> i \in 0 .. a.in - 1
  <2> DEFINE i == q.in_first + Under(q, o, j)
             k == q.krn_first + q.krn_step * j
  <2>1. j \in Nat /\ j <= q.kernel - 1 /\ j * s \in Nat
    BY <1>1, <1>2
  <2>2. Under(q, o, j) = o - q.pad + j /\ i \in Int /\ i = m + o + j /\ m \in Int
    BY <1>2, <1>4, <1>6, <2>1 DEF m
  <2>3. k \in Int /\ k = a.kernel - 1 - offset - j * s
    BY <1>1, <1>7, <2>1
  <2>4. j * s + s <= q.kernel * s /\ q.kernel * s \in Int
    BY <1>1, <1>2, <2>1, Monotone
  <2>5. k \in 0 .. a.kernel - 1
    BY <1>1, <1>2, <2>1, <2>3, <2>4
  <2>6. i * s = m * s + o * s + j * s /\ m * s \in Int
    BY <1>1, <1>4, <2>1, <2>2
  <2>7. i * s + k - a.pre = P
    BY <1>1, <1>2, <1>8, <2>1, <2>3, <2>6
  <2>8. Under(q, o, j) < N - q.pad
    BY <1>2, <1>4, <2>1, <2>2
  <2>9. Under(q, o, j) < q.in <=> i < a.in
    BY <1>1, <1>2, <1>4, <2>1, <2>2, <2>8 DEF Least
  <2>10. Under(q, o, j) >= 0 <=> i >= 0
    BY <1>2, <1>4, <2>1, <2>2 DEF m
  <2> QED
    BY <1>1, <1>2, <1>4, <2>1, <2>2, <2>5, <2>7, <2>9, <2>10
<1>10. AxisPairs(q, o) = {Pair(v) : v \in Met(q, o)}
  BY <1>5 DEF AxisPairs
<1>11. ASSUME NEW w \in AxisPairs(q, o) PROVE w \in Spread(a, P)
  <2>1. PICK v \in Met(q, o) : w = Pair(v)
    BY <1>10
  <2>2. PICK j \in 0 .. q.kernel - 1 : Under(q, o, j) \in 0 .. q.in - 1 /\ v = <<Under(q, o, j), j>>
    BY DEF Met
  <2>3. w = <<q.in_first + Under(q, o, j), q.krn_first + q.krn_step * j>>
    BY <2>1, <2>2
  <2> QED
    BY <1>9, <2>2, <2>3 DEF Spread, s
<1>12. ASSUME NEW w \in Spread(a, P) PROVE w \in AxisPairs(q, o)
  <2> DEFINE i == w[1]
             k == w[2]
             j == i - m - o
  <2>1. /\ i \in 0 .. a.in - 1 /\ k \in 0 .. a.kernel - 1
        /\ i * s + k - a.pre = P /\ w = <<i, k>>
    BY DEF Spread, s
  <2> HIDE DEF i, k
  <2>2. j \in Int /\ m \in Int /\ i = m + o + j
    BY <1>1, <1>2, <1>4, <2>1 DEF m
  <2>3. j * s = i * s - m * s - o * s /\ i * s \in Int /\ m * s \in Int /\ j * s \in Int
    BY <1>1, <1>4, <2>1, <2>2
  <2>4. j * s = a.kernel - 1 - offset - k
    BY <1>1, <1>2, <1>8, <2>1, <2>3
  <2>5. j \in 0 .. q.kernel - 1
    <3>1. (-1) * s < j * s /\ j * s < q.kernel * s
      BY <1>1, <1>2, <2>1, <2>4
    <3>2. -1 < j /\ j < q.kernel
      BY <1>1, <1>2, <2>2, <3>1, Quotient
    <3> QED
      BY <1>2, <2>2, <3>2
  <2>6. q.in_first + Under(q, o, j) = i
    BY <1>9, <2>2, <2>5
  <2>7. q.krn_first + q.krn_step * j = k
    BY <1>1, <1>7, <2>1, <2>2, <2>4
  <2>8. <<Under(q, o, j), j>> \in Met(q, o)
    BY <1>9, <2>1, <2>5, <2>6 DEF Met
  <2> QED
    BY <1>10, <2>1, <2>6, <2>7, <2>8
<1>13. q.out_first + q.out_step * o = P
  BY <1>3 DEF P
<1> QED
  BY <1>11, <1>12, <1>13

(* Each output lies in exactly one of the passes: those a pass writes are  *)
(* outputs, every output is written by a pass, and no two write the same.  *)
THEOREM PassesDivideOutput ==
  ASSUME NEW a, IsAxis(a), a.pre < a.kernel, NEW size \in Nat \ {0}
  PROVE  LET Pass(f) == TransposedAxis(a, size, f)
             At(f, o) == Pass(f).out_first + Pass(f).out_step * o
         IN  /\ \A f \in 0 .. a.stride - 1 : \A o \in 0 .. Pass(f).out - 1 :
                   At(f, o) \in 0 .. size - 1
             /\ \A n \in 0 .. size - 1 : \E f \in 0 .. a.stride - 1 :
                   \E o \in 0 .. Pass(f).out - 1 : At(f, o) = n
             /\ \A f, g \in 0 .. a.stride - 1 :
                   \A o \in 0 .. Pass(f).out - 1, r \in 0 .. Pass(g).out - 1 :
                     At(f, o) = At(g, r) => f = g /\ o = r
<1> DEFINE s == a.stride
           e == EffectivePad(a)
           Pass(f) == TransposedAxis(a, size, f)
           At(f, o) == Pass(f).out_first + Pass(f).out_step * o
<1>1. s \in Nat \ {0} /\ e \in Nat
  BY DEF IsAxis, EffectivePad
<1>2. ASSUME NEW f \in 0 .. s - 1
      PROVE  /\ Pass(f).out_first \in 0 .. s - 1 /\ Pass(f).out \in Nat /\ Pass(f).out_step = s
             /\ Pass(f).out * s >= size - Pass(f).out_first
             /\ Pass(f).out * s < size - Pass(f).out_first + s
             /\ \E x \in Int : x * s = Pass(f).out_first - e + f
  <2>1. Pass(f).out_step = s
    BY DEF TransposedAxis, OutStep
  <2>2. Pass(f).in_first - Pass(f).pad \in Int
    BY PassNumbers
  <2> QED
    BY <2>1, <2>2, PassNumbers
<1> HIDE DEF s, e, Pass
<1>3. ASSUME NEW x \in 0 .. s - 1, NEW y \in 0 .. s - 1, NEW c \in Int, c * s = x - y
      PROVE  c = 0 /\ x = y
  <2>1. (-1) * s < c * s /\ c * s < 1 * s
    BY <1>1, <1>3
  <2>2. -1 < c /\ c < 1
    BY <1>1, <2>1, Quotient
  <2>3. c = 0 /\ c * s = 0
    BY <1>1, <2>2
  <2> QED
    BY <1>1, <1>3, <2>3
<1>4. ASSUME NEW f \in 0 .. s - 1, NEW o \in 0 .. Pass(f).out - 1
      PROVE  At(f, o) \in 0 .. size - 1 /\ At(f, o) = Pass(f).out_first + o * s /\ o * s \in Nat
  <2> DEFINE x == Pass(f).out_first
             p == Pass(f).out
  <2>1. /\ x \in 0 .. s - 1 /\ p \in Nat /\ Pass(f).out_step = s
        /\ p * s < size - x + s
    BY <1>2
  <2>2. o \in Nat /\ o < p
    BY <2>1
  <2> HIDE DEF x, p
  <2>3. o * s \in Nat /\ p * s \in Int
    BY <1>1, <2>1, <2>2
  <2>4. o * s + s <= p * s
    BY <1>1, <2>1, <2>2, Monotone
  <2>5. At(f, o) = x + o * s
    BY <1>1, <2>1, <2>2 DEF x
  <2>6. x + o * s < size
    BY <1>1, <2>1, <2>3, <2>4
  <2> QED
    BY <1>1, <2>1, <2>3, <2>5, <2>6 DEF x
<1>5. ASSUME NEW n \in 0 .. size - 1
      PROVE  \E f \in 0 .. s - 1 : \E o \in 0 .. Pass(f).out - 1 : At(f, o) = n
  <2> DEFINE f == (e - n) % s
             x == n % s
             o == n \div s
  <2>1. f \in 0 .. s - 1 /\ (e - n) \div s \in Int /\ e - n = ((e - n) \div s) * s + f
    BY <1>1, Division
  <2>2. x \in 0 .. s - 1 /\ o \in Int /\ n = o * s + x
    BY <1>1, Division
  <2> DEFINE c == (e - n) \div s
  <2> HIDE DEF f, x, o, c
  <2>3. PICK z \in Int : z * s = Pass(f).out_first - e + f
    BY <1>2, <2>1
  <2>4. Pass(f).out_first = x
    <3>1. c \in Int /\ c * s \in Int /\ o * s \in Int /\ z * s \in Int
      BY <1>1, <2>1, <2>2 DEF c
    <3>2. (z + c + o) * s = z * s + c * s + o * s
      BY <1>1, <2>2, <3>1
    <3>3. (z + c + o) * s = Pass(f).out_first - x
      BY <1>1, <1>2, <2>1, <2>2, <2>3, <3>1, <3>2 DEF c
    <3> QED
      BY <1>2, <1>3, <2>1, <2>2, <3>1, <3>3
  <2>5. o \in 0 .. Pass(f).out - 1
    <3> DEFINE p == Pass(f).out
    <3>1. p \in Nat /\ p * s >= size - x
      BY <1>2, <2>1, <2>4
    <3>2. n < size /\ n >= 0 /\ x < s /\ x >= 0 /\ o * s \in Int /\ p * s \in Int
      BY <1>1, <2>2, <3>1
    <3> HIDE DEF p
    <3>3. o * s < p * s /\ (-1) * s < o * s
      BY <1>1, <2>2, <3>1, <3>2
    <3>4. o < p /\ -1 < o
      BY <1>1, <2>2, <3>1, <3>3, Quotient
    <3> QED
      BY <2>2, <3>1, <3>4 DEF p
  <2>6. At(f, o) = n
    BY <1>4, <2>1, <2>2, <2>4, <2>5
  <2> QED
    BY <2>1, <2>5, <2>6
<1>6. ASSUME NEW f \in 0 .. s - 1, NEW g \in 0 .. s - 1,
             NEW o \in 0 .. Pass(f).out - 1, NEW r \in 0 .. Pass(g).out - 1,
             At(f, o) = At(g, r)
      PROVE  f = g /\ o = r
  <2> DEFINE x == Pass(f).out_first
             y == Pass(g).out_first
  <2>1. x \in 0 .. s - 1 /\ y \in 0 .. s - 1 /\ o \in Int /\ r \in Int
    BY <1>2
  <2>2. x + o * s = y + r * s /\ o * s \in Int /\ r * s \in Int
    BY <1>4, <1>6
  <2> HIDE DEF x, y
  <2>3. (r - o) * s = x - y
    <3>1. (r - o) * s = r * s - o * s
      BY <1>1, <2>1
    <3> QED
      BY <1>1, <2>1, <2>2, <3>1
  <2>4. r - o = 0 /\ x = y
    BY <1>3, <2>1, <2>3
  <2>5. PICK z \in Int : z * s = x - e + f
    BY <1>2 DEF x
  <2>6. PICK w \in Int : w * s = y - e + g
    BY <1>2 DEF y
  <2>7. (z - w) * s = f - g
    <3>1. (z - w) * s = z * s - w * s /\ z * s \in Int /\ w * s \in Int
      BY <1>1
    <3> QED
      BY <1>1, <2>1, <2>4, <2>5, <2>6, <3>1
  <2>8. f = g
    BY <1>3, <2>7
  <2> QED
    BY <2>1, <2>4, <2>8
<1> QED
  BY <1>4, <1>5, <1>6 DEF s, Pass

-----------------------------------------------------------------------------
(* No dot product is empty.                                                *)

LEMMA PlainMeets ==
  ASSUME NEW a, IsAxis(a), NEW n \in Nat, AxisFits(a, n), KernelInInput(a), NEW o \in 0 .. n - 1
  PROVE  Met(WindowOf(a), o) # {}
<1> DEFINE p == WindowOf(a)
           e == EffectiveKernel(p)
           d == a.dilation
           s == a.stride
           q == KernelBefore(p, o)
           K == a.kernel
<1>1. /\ IsWindow(p) /\ p.dilation = d /\ p.kernel = K /\ p.in = a.in /\ p.pad = a.pre
      /\ p.stride = s /\ d \in Nat \ {0} /\ K \in Nat \ {0} /\ a.in \in Nat
      /\ a.pre \in Nat /\ a.post \in Nat /\ s \in Nat \ {0} /\ o \in Nat
  BY DEF IsAxis, IsWindow, WindowOf
<1>2. e = (K - 1) * d + 1 /\ (K - 1) * d \in Int /\ e \in Int
  BY <1>1 DEF EffectiveKernel
<1>3. /\ a.pre < e /\ a.post < e /\ e <= a.in
      /\ n * s + e - s <= a.in + a.pre + a.post
  BY <1>1 DEF AxisFits, KernelInInput, Required
<1>4. Begin(p, o) = o * s - a.pre
  BY <1>1 DEF Begin
<1>5. \A k \in Nat : Under(p, o, k) = o * s - a.pre + k * d
  BY <1>1, <1>4 DEF Under
<1>6. q \in Nat /\ \A k \in Nat : Under(p, o, k) >= 0 <=> k >= q
  BY <1>1, SkippedInFront
<1> HIDE DEF p, e, d, s, q, K
<1>7. o * s \in Nat /\ n * s \in Int /\ o * s + s <= n * s
  BY <1>1, Monotone
<1>8. SUFFICES \E k \in 0 .. K - 1 : Under(p, o, k) \in 0 .. a.in - 1
  BY <1>1 DEF Met, p
<1>9. CASE q = 0
  <2>1. Under(p, o, 0) = o * s - a.pre /\ Under(p, o, 0) >= 0
    BY <1>1, <1>5, <1>6, <1>7, <1>9
  <2>2. o * s - a.pre < a.in
    BY <1>1, <1>2, <1>3, <1>7
  <2> QED
    BY <1>1, <1>7, <2>1, <2>2
<1>10. CASE q > 0
  <2>1. Under(p, o, K - 1) >= 0 /\ K - 1 \in Nat
    <3>1. K - 1 \in Nat
      BY <1>1
    <3>2. Under(p, o, K - 1) = o * s - a.pre + (K - 1) * d
      BY <1>5, <3>1
    <3> QED
      BY <1>1, <1>2, <1>3, <1>7, <3>1, <3>2
  <2>2. q <= K - 1
    BY <1>6, <2>1
  <2>3. q - 1 \in Nat /\ ~(Under(p, o, q - 1) >= 0)
    BY <1>6, <1>10
  <2>4. /\ Under(p, o, q) = o * s - a.pre + q * d /\ Under(p, o, q - 1) = o * s - a.pre + (q - 1) * d
        /\ q * d = (q - 1) * d + d /\ (q - 1) * d \in Int
    BY <1>1, <1>5, <1>6, <2>3
  <2>5. Under(p, o, q) >= 0
    BY <1>6
  <2>6. d <= (K - 1) * d
    <3>1. 1 <= K - 1 /\ K - 1 \in Int /\ 1 * d = d
      BY <1>1, <1>6, <1>10, <2>2
    <3> QED
      BY <1>1, <3>1, Monotone
  <2>7. Under(p, o, q) \in 0 .. a.in - 1
    BY <1>1, <1>2, <1>3, <1>7, <2>3, <2>4, <2>5, <2>6
  <2> QED
    BY <1>1, <1>6, <2>2, <2>7
<1> QED
  BY <1>6, <1>9, <1>10

LEMMA TransposedMeets ==
  ASSUME NEW a, IsAxis(a), TransposedAxisFits(a), a.stride <= a.kernel,
         NEW P \in 0 .. TransposedSize(a) - 1
  PROVE  Spread(a, P) # {}
<1> DEFINE s == a.stride
           K == a.kernel
           low == P + a.pre - K + 1
           m == (a.in - 1) * s
<1>1. /\ s \in Nat \ {0} /\ K \in Nat \ {0} /\ a.in \in Nat \ {0} /\ a.pre \in Nat /\ a.post \in Nat
      /\ a.pre < K /\ a.post < K /\ s <= K /\ m \in Int
  BY DEF IsAxis, TransposedAxisFits
<1>2. TransposedSize(a) = m + K - a.pre - a.post
  <2> HIDE DEF m
  <2> QED
    BY <1>1 DEF TransposedSize, m
<1>3. P \in Nat /\ low \in Int /\ low = P + a.pre - K + 1 /\ P < m + K - a.pre - a.post
  <2> HIDE DEF m
  <2> QED
    BY <1>1, <1>2
<1>4. SUFFICES \E i \in 0 .. a.in - 1 : P + a.pre - i * s \in 0 .. K - 1
  <2>1. PICK i \in 0 .. a.in - 1 : P + a.pre - i * s \in 0 .. K - 1
    BY <1>4
  <2>2. i * s \in Int /\ i * s + (P + a.pre - i * s) - a.pre = P
    BY <1>1, <1>3
  <2>3. <<i, P + a.pre - i * s>> \in Spread(a, P)
    BY <2>1, <2>2 DEF Spread
  <2> QED
    BY <2>3
<1> HIDE DEF s, K, low, m
<1>5. CASE low <= 0
  <2>1. 0 * s = 0
    BY <1>1
  <2>2. P + a.pre - 0 * s \in 0 .. K - 1
    BY <1>1, <1>3, <1>5, <2>1
  <2> QED
    BY <1>1, <2>2
<1>6. CASE low > 0
  <2> DEFINE i == CeilDiv(low, s)
  <2>1. i \in Nat /\ i * s >= low /\ i * s < low + s
    <3>1. low \in Int /\ low > -s
      BY <1>1, <1>3, <1>6
    <3> QED
      BY <1>1, <3>1, CeilDivBounds
  <2> HIDE DEF i
  <2>2. i * s \in Int
    BY <1>1, <2>1
  <2>3. i <= a.in - 1
    <3>1. i * s < (a.in - 1) * s + s
      BY <1>1, <1>3, <2>1, <2>2 DEF m
    <3> QED
      BY <1>1, <2>1, <3>1, Quotient
  <2>4. P + a.pre - i * s \in 0 .. K - 1
    BY <1>1, <1>3, <2>1, <2>2
  <2> QED
    BY <1>1, <2>1, <2>3, <2>4
<1> QED
  BY <1>3, <1>5, <1>6

(* Where input and kernel meet, the valid area has a size, and so have     *)
(* both of them.                                                           *)
LEMMA MeetsArea ==
  ASSUME NEW q, IsWindow(q), NEW o \in Nat, Visited(q, o) # {}
  PROVE  q.in > 0 /\ q.kernel > 0 /\ AreaSize(q, o) > 0
<1>1. Visited(q, o) = Met(q, o) /\ q.in \in Int /\ q.kernel \in Nat
  BY ValidAreaExact DEF IsWindow
<1>2. q.in > 0 /\ q.kernel > 0
  BY <1>1 DEF Met
<1>3. AreaSize(q, o) \in Int
  BY <1>1, OnInput DEF AreaSize
<1>4. AreaSize(q, o) > 0
  BY <1>3 DEF Visited
<1> QED
  BY <1>2, <1>4

(* The axes of a pass of a call whose arguments were accepted. *)
PassAxis(kind, a, p) ==
  IF kind = "transpose"
  THEN TransposedAxisFits(a) /\ \E f \in 0 .. a.stride - 1 : p = TransposedAxis(a, TransposedSize(a), f)
  ELSE \E n \in Nat : AxisFits(a, n) /\ p = PlainAxis(a, n)

AxisMeets(kind, a, p, o) ==
  (IF kind = "transpose" THEN a.stride <= a.kernel ELSE KernelInInput(a))
    => p.in > 0 /\ p.kernel > 0 /\ p.pad >= 0 /\ AreaSize(p, o) > 0

LEMMA PassMeets ==
  ASSUME NEW kind, NEW a, IsAxis(a), NEW p, PassAxis(kind, a, p), NEW o \in Nat, o < p.out
  PROVE  AxisMeets(kind, a, p, o)
<1>1. CASE kind = "transpose"
  <2>1. SUFFICES ASSUME a.stride <= a.kernel
                 PROVE  p.in > 0 /\ p.kernel > 0 /\ p.pad >= 0 /\ AreaSize(p, o) > 0
    BY <1>1 DEF AxisMeets
  <2> DEFINE size == TransposedSize(a)
  <2>2. PICK f \in 0 .. a.stride - 1 : p = TransposedAxis(a, size, f)
    BY <1>1 DEF PassAxis
  <2>3. TransposedAxisFits(a) /\ a.pre < a.kernel
    BY <1>1 DEF PassAxis, TransposedAxisFits
  <2>4. size \in Int
    <3>1. (a.in - 1) * a.stride \in Int
      BY DEF IsAxis
    <3> QED
      BY <3>1 DEF TransposedSize, IsAxis
  <2>5. size > 0
    <3>1. SUFFICES ASSUME size <= 0 PROVE FALSE
      BY <2>4
    <3> DEFINE g == (a.stride - f + EffectivePad(a)) % a.stride
               x == size - g + a.stride - 1
    <3>2. p.out = CeilDiv(size - g, a.stride)
      BY <2>2 DEF TransposedAxis
    <3>3. a.stride \in Nat \ {0} /\ a.stride - f + EffectivePad(a) \in Int
      BY DEF IsAxis, EffectivePad
    <3>4. g \in 0 .. a.stride - 1
      BY <3>3, Division
    <3> HIDE DEF g
    <3>5. x \in Int /\ x < a.stride /\ CeilDiv(size - g, a.stride) = x \div a.stride
      BY <2>4, <3>1, <3>3, <3>4 DEF CeilDiv
    <3> HIDE DEF x
    <3>6. x \div a.stride \in Int /\ (x \div a.stride) * a.stride < 0 * a.stride + a.stride
      <4>1. /\ x % a.stride \in 0 .. a.stride - 1 /\ x \div a.stride \in Int
            /\ x = (x \div a.stride) * a.stride + (x % a.stride)
        BY <3>3, <3>5, Division
      <4>2. (x \div a.stride) * a.stride \in Int /\ 0 * a.stride = 0
        BY <3>3, <4>1
      <4> QED
        BY <3>3, <3>5, <4>1, <4>2
    <3>7. x \div a.stride <= 0
      BY <3>3, <3>6, Quotient
    <3> QED
      BY <3>2, <3>5, <3>6, <3>7
  <2> HIDE DEF size
  <2>6. size \in Nat \ {0}
    BY <2>4, <2>5
  <2>7. /\ p.pad \in Nat /\ p.out \in Nat /\ p.in \in Int /\ p.kernel \in Nat
        /\ p.stride = 1 /\ p.dilation = 1
    <3>1. p.pad \in Nat /\ p.out \in Nat /\ p.in \in Int /\ p.kernel \in Nat
      BY <2>2, <2>3, <2>6, PassNumbers
    <3>2. p.stride = 1 /\ p.dilation = 1
      BY <2>2 DEF TransposedAxis
    <3> QED
      BY <3>1, <3>2
  <2>8. o \in 0 .. p.out - 1
    BY <2>7
  <2> DEFINE P == p.out_first + p.out_step * o
  <2>9. P \in 0 .. size - 1
    BY <2>2, <2>3, <2>6, <2>8, PassesDivideOutput
  <2>10. AxisPairs(p, o) # {}
    BY <2>1, <2>2, <2>3, <2>6, <2>8, <2>9, TransposedPassExact, TransposedMeets DEF size
  <2>11. Visited(p, o) # {}
    BY <2>10 DEF AxisPairs
  <2>12. IsWindow(p)
    BY <2>7 DEF IsWindow
  <2> QED
    BY <2>7, <2>11, <2>12, MeetsArea
<1>2. CASE kind # "transpose"
  <2>1. SUFFICES ASSUME KernelInInput(a)
                 PROVE  p.in > 0 /\ p.kernel > 0 /\ p.pad >= 0 /\ AreaSize(p, o) > 0
    BY <1>2 DEF AxisMeets
  <2>2. PICK n \in Nat : AxisFits(a, n) /\ p = PlainAxis(a, n)
    BY <1>2 DEF PassAxis
  <2>3. p.out = n
    BY <2>2 DEF PlainAxis
  <2>4. o \in 0 .. n - 1
    BY <2>3
  <2>5. IsCut(p, WindowOf(a), n) /\ IsWindow(WindowOf(a)) /\ p.pad \in Nat
    BY <2>2 DEF IsCut, PlainAxis, WindowOf, IsAxis, IsWindow
  <2>6. IsWindow(p) /\ Visited(p, o) = Met(WindowOf(a), o)
    BY <2>4, <2>5, CutIsWindow, CutInput, ValidAreaExact
  <2>7. Visited(p, o) # {}
    BY <2>1, <2>2, <2>4, <2>6, PlainMeets
  <2> QED
    BY <2>5, <2>6, <2>7, MeetsArea
<1> QED
  BY <1>1, <1>2

PassSet(c) == {Passes(c)[n] : n \in DOMAIN Passes(c)}

LEMMA PassesAreAxes ==
  ASSUME NEW c \in Calls, Check(c) = "OK"
  PROVE  /\ IsAxis(c.h) /\ IsAxis(c.w)
         /\ Passes(c) \in Seq(PassSet(c))
         /\ \A pass \in PassSet(c) : PassAxis(c.kind, c.h, pass.h) /\ PassAxis(c.kind, c.w, pass.w)
<1>1. /\ c.kind = "transpose" => TransposedAxisFits(c.h) /\ TransposedAxisFits(c.w)
      /\ c.kind # "transpose" =>
           /\ AxisFits(c.h, c.out.shape[1]) /\ AxisFits(c.w, c.out.shape[2])
           /\ CheckLayout(c.out) = "OK"
  BY DEF Check
<1>2. IsAxis(c.h) /\ IsAxis(c.w)
  <2>1. ASSUME NEW a \in {c.h, c.w}
        PROVE  /\ a.in \in Nat \ {0} /\ a.kernel \in Nat \ {0}
               /\ a.stride \in Nat /\ a.dilation \in Nat /\ a.pre \in Nat /\ a.post \in Nat
    BY CallsAssumption
  <2>2. c.h.stride > 0 /\ c.w.stride > 0 /\ c.h.dilation > 0 /\ c.w.dilation > 0
    <3>1. CASE c.kind = "transpose"
      <4>1. c.h.dilation = 1 /\ c.w.dilation = 1 /\ c.h.stride > 0 /\ c.w.stride > 0
        BY <1>1, <3>1 DEF TransposedAxisFits
      <4> QED
        BY <4>1
    <3>2. CASE c.kind # "transpose"
      BY <1>1, <3>2 DEF AxisFits
    <3> QED
      BY <3>1, <3>2
  <2> QED
    BY <2>1, <2>2 DEF IsAxis
<1>3. CASE c.kind = "transpose"
  <2> DEFINE s == c.h.stride
             r == c.w.stride
             pass(n) == [h |-> TransposedAxis(c.h, TransposedSize(c.h), (n - 1) \div r),
                         w |-> TransposedAxis(c.w, TransposedSize(c.w), (n - 1) % r)]
  <2>1. Passes(c) = [n \in 1 .. s * r |-> pass(n)]
    BY <1>3 DEF Passes
  <2>2. s \in Nat \ {0} /\ r \in Nat \ {0} /\ s * r \in Nat
    BY <1>2 DEF IsAxis
  <2> HIDE DEF s, r
  <2>3. \A n \in 1 .. s * r : (n - 1) \div r \in 0 .. s - 1 /\ (n - 1) % r \in 0 .. r - 1
    BY <2>2, RowsOf
  <2> HIDE DEF pass
  <2>4. PassSet(c) = {pass(n) : n \in 1 .. s * r}
    BY <2>1 DEF PassSet
  <2>5. Passes(c) \in Seq(PassSet(c))
    BY <2>1, <2>2, <2>4
  <2>6. ASSUME NEW p \in PassSet(c)
        PROVE  PassAxis(c.kind, c.h, p.h) /\ PassAxis(c.kind, c.w, p.w)
    <3>1. PICK n \in 1 .. s * r : p = pass(n)
      BY <2>4
    <3>2. /\ p.h = TransposedAxis(c.h, TransposedSize(c.h), (n - 1) \div r)
          /\ p.w = TransposedAxis(c.w, TransposedSize(c.w), (n - 1) % r)
      BY <3>1 DEF pass
    <3> QED
      BY <1>1, <1>3, <2>3, <3>2 DEF PassAxis, s, r
  <2> QED
    BY <1>2, <2>5, <2>6
<1>4. CASE c.kind # "transpose"
  <2> DEFINE n == Filled(c).shape[1]
             m == Filled(c).shape[2]
             pass == [h |-> PlainAxis(c.h, n), w |-> PlainAxis(c.w, m)]
  <2>1. n \in Nat /\ AxisFits(c.h, n) /\ m \in Nat /\ AxisFits(c.w, m)
    <3>1. /\ c.out.rank = 3 /\ c.out.shape[1] \in Nat /\ c.out.shape[2] \in Nat
      BY CallsAssumption DEF MaxRank
    <3>2. c.out.shape[1] \in Nat \ {0} /\ c.out.shape[2] \in Nat \ {0}
      <4>1. Shaped(c.out)
        BY <1>1, <1>4 DEF CheckLayout
      <4>2. 1 \in Dims(c.out) /\ 2 \in Dims(c.out)
        BY <3>1 DEF Dims
      <4> QED
        BY <3>1, <4>1, <4>2 DEF Shaped
    <3>3. CASE c.kind = "group"
      <4>1. Filled(c).shape = <<GroupSize(c.h), GroupSize(c.w), c.filters, 0>>
        BY <3>3, CallsAssumption DEF Filled, WithShape
      <4> QED
        BY <1>1, <1>2, <1>4, <3>2, <4>1, GroupSizeLargest
    <3>4. CASE c.kind # "group"
      <4>1. Filled(c) = c.out
        BY <1>4, <3>4 DEF Filled
      <4> QED
        BY <1>1, <1>4, <3>1, <4>1
    <3> QED
      BY <3>3, <3>4
  <2>2. Passes(c) = <<pass>>
    BY <1>4 DEF Passes
  <2>3. PassAxis(c.kind, c.h, pass.h) /\ PassAxis(c.kind, c.w, pass.w)
    BY <1>4, <2>1 DEF PassAxis
  <2> HIDE DEF pass
  <2>4. PassSet(c) = {pass}
    BY <2>2 DEF PassSet
  <2>5. Passes(c) \in Seq(PassSet(c))
    BY <2>2, <2>4
  <2> QED
    BY <1>2, <2>3, <2>4, <2>5
<1> QED
  BY <1>3, <1>4

(* While the loops run, the passes still to make are passes of the call,   *)
(* whose arguments were accepted.                                          *)
Running ==
  /\ call \in Calls /\ at \in Nat \X Nat
  /\ status = "running" => Check(call) = "OK" /\ todo \in Seq(PassSet(call))

LEMMA RunningInductive == Spec => []Running
<1>1. Init => Running
  BY DEF Init, Running
<1>2. ASSUME Running, [Next]_vars PROVE Running'
  <2>1. CASE Refuse
    <3>1. Check(call) # "running"
      BY DEF Check, CheckLayout
    <3> QED
      BY <1>2, <2>1, <3>1 DEF Running, Refuse
  <2>2. CASE PrepareAndRun
    BY <1>2, <2>2, PassesAreAxes DEF Running, PrepareAndRun
  <2>3. CASE Point
    <3>1. /\ at' = NextPoint(Head(todo))
          /\ call' = call /\ todo' = todo /\ status' = status
      BY <2>3 DEF Point
    <3>2. at' \in Nat \X Nat
      BY <1>2, <3>1 DEF Running, NextPoint
    <3> QED
      BY <1>2, <3>1, <3>2 DEF Running
  <2>4. CASE EndPass
    <3>1. /\ todo # <<>> /\ todo' = Tail(todo) /\ at' = <<0, 0>> /\ call' = call
          /\ status = "running" /\ status' = status
      BY <2>4 DEF EndPass
    <3>2. Tail(todo) \in Seq(PassSet(call))
      BY <1>2, <3>1 DEF Running
    <3> QED
      BY <1>2, <3>1, <3>2 DEF Running
  <2>5. CASE Return
    BY <1>2, <2>5 DEF Running, Return
  <2>6. CASE UNCHANGED vars
    BY <1>2, <2>6 DEF Running, vars
  <2> QED
    BY <1>2, <2>1, <2>2, <2>3, <2>4, <2>5, <2>6 DEF Next
<1> QED
  BY <1>1, <1>2, PTL DEF Spec

(* No dot product is empty, where the documented condition on dilated      *)
(* kernels holds, and for transposed convolutions the stride is not larger *)
(* than the kernel: what the loops assume of the number of rows is so.     *)
THEOREM NonEmpty == Spec => []AreaNotEmpty
<1>1. Running => AreaNotEmpty
  <2>1. SUFFICES ASSUME Running, status = "running", todo # <<>>, InLoops(Head(todo))
                 PROVE  /\ AxisMeets(call.kind, call.h, Head(todo).h, at[1])
                        /\ AxisMeets(call.kind, call.w, Head(todo).w, at[2])
    BY DEF AreaNotEmpty, AxisMeets
  <2>2. Head(todo) \in PassSet(call)
    BY <2>1 DEF Running
  <2>3. /\ IsAxis(call.h) /\ PassAxis(call.kind, call.h, Head(todo).h)
        /\ IsAxis(call.w) /\ PassAxis(call.kind, call.w, Head(todo).w)
    BY <2>1, <2>2, PassesAreAxes DEF Running
  <2>4. at[1] \in Nat /\ at[2] \in Nat /\ at[1] < Head(todo).h.out /\ at[2] < Head(todo).w.out
    BY <2>1 DEF Running, InLoops
  <2> QED
    BY <2>3, <2>4, PassMeets
<1> QED
  BY <1>1, RunningInductive, PTL

-----------------------------------------------------------------------------
(* The whole call.                                                         *)

(* Every axis is divided into passes, a plain one into a single pass.      *)
AxisCount(kind, a) == IF kind = "transpose" THEN a.stride ELSE 1

AxisPass(kind, a, size, f) ==
  IF kind = "transpose" THEN TransposedAxis(a, size, f) ELSE PlainAxis(a, size)

Row(c, f) == AxisPass(c.kind, c.h, Filled(c).shape[1], f)

Column(c, f) == AxisPass(c.kind, c.w, Filled(c).shape[2], f)

(* What a caller has to see to: the output buffer has the capacity for the *)
(* shape that the kernel fills in, whose sizes do not wrap, and as many    *)
(* channels as there are filters.  The kernels check none of it, except    *)
(* for the capacity where the shape is the caller's.                       *)
SizedCall(c) ==
  Check(c) = "OK" =>
    /\ c.out.elem > 0 /\ NoWrap(Filled(c)) /\ CheckLayout(Filled(c)) = "OK"
    /\ Filled(c).shape[3] = c.filters
    /\ c.kind = "transpose" =>
         TransposedSize(c.h) \in 1 .. Modulus - 1 /\ TransposedSize(c.w) \in 1 .. Modulus - 1

(* The points of the loops: the number of the pass, H_idx and W_idx.       *)
PointsOf(c) ==
  {p \in Nat \X Nat \X Nat : /\ p[1] \in DOMAIN Passes(c)
                             /\ p[2] < Passes(c)[p[1]].h.out /\ p[3] < Passes(c)[p[1]].w.out}

(* Where a point is in the output.                                         *)
SpotRow(c, p) == Passes(c)[p[1]].h.out_first + Passes(c)[p[1]].h.out_step * p[2]

SpotColumn(c, p) == Passes(c)[p[1]].w.out_first + Passes(c)[p[1]].w.out_step * p[3]

Cell(c, p, ch) == Offset(Filled(c), <<SpotRow(c, p), SpotColumn(c, p), ch, 0>>)

(* The pass the loops are in, and the points they have left behind.        *)
This == Len(Passes(call)) - Len(todo) + 1

Before(p) ==
  \/ p[1] < This
  \/ p[1] = This /\ (p[2] < at[1] \/ (p[2] = at[1] /\ p[3] < at[2]))

Computed == {p \in PointsOf(call) : Before(p)}

(* The output holds the elements of exactly the points that were left      *)
(* behind, and what the reference says of each of them.                    *)
MemoryExact ==
  /\ DOMAIN mem = {Cell(call, p, ch) : p \in Computed, ch \in 0 .. call.filters - 1}
  /\ \A p \in Computed : \A ch \in 0 .. call.filters - 1 :
       mem[Cell(call, p, ch)] = Reference(call, SpotRow(call, p), SpotColumn(call, p), ch)
  /\ IsFiniteSet(DOMAIN mem) /\ writes = Cardinality(DOMAIN mem)

LoopInv ==
  /\ call \in Calls /\ at \in Nat \X Nat
  /\ status = "called" => at = <<0, 0>>
  /\ status \notin {"running", "OK"} => mem = <<>> /\ writes = 0
  /\ status = "OK" => todo = <<>>
  /\ status \in {"running", "OK"} =>
       /\ Check(call) = "OK" /\ out = Filled(call)
       /\ Len(todo) <= Len(Passes(call))
       /\ \A i \in 1 .. Len(todo) : todo[i] = Passes(call)[This - 1 + i]
       /\ todo # <<>> => at[2] = 0 \/ at[2] < Head(todo).w.out
       /\ MemoryExact

-----------------------------------------------------------------------------
(* The passes of an axis divide its outputs, and each output sums up the   *)
(* products of the reference.                                              *)
LEMMA AxisDivided ==
  ASSUME NEW kind, NEW a, IsAxis(a), kind = "transpose" => a.pre < a.kernel,
         NEW size \in Nat \ {0}, kind = "transpose" => size = TransposedSize(a)
  PROVE  LET F == 0 .. AxisCount(kind, a) - 1
             Pass(f) == AxisPass(kind, a, size, f)
             At(f, o) == Pass(f).out_first + Pass(f).out_step * o
         IN  /\ \A f \in F : Pass(f).out \in Nat
             /\ \A f \in F : \A o \in 0 .. Pass(f).out - 1 :
                  /\ At(f, o) \in 0 .. size - 1
                  /\ AxisPairs(Pass(f), o) = AxisReference(kind, a, At(f, o))
             /\ \A n \in 0 .. size - 1 : \E f \in F : \E o \in 0 .. Pass(f).out - 1 : At(f, o) = n
             /\ \A f, g \in F : \A o \in 0 .. Pass(f).out - 1, r \in 0 .. Pass(g).out - 1 :
                  At(f, o) = At(g, r) => f = g /\ o = r
<1>1. CASE kind = "transpose"
  <2> DEFINE Pass(f) == TransposedAxis(a, size, f)
  <2>1. \A f : AxisPass(kind, a, size, f) = Pass(f)
    BY <1>1 DEF AxisPass
  <2>2. AxisCount(kind, a) = a.stride
    BY <1>1 DEF AxisCount
  <2>3. \A f \in 0 .. a.stride - 1 :
          /\ Pass(f).out \in Nat
          /\ \A o \in 0 .. Pass(f).out - 1 :
               AxisPairs(Pass(f), o) = Spread(a, Pass(f).out_first + Pass(f).out_step * o)
    BY <1>1, PassNumbers, TransposedPassExact
  <2>4. \A x : AxisReference(kind, a, x) = Spread(a, x)
    BY <1>1 DEF AxisReference
  <2>5. /\ \A f \in 0 .. a.stride - 1 : \A o \in 0 .. Pass(f).out - 1 :
             Pass(f).out_first + Pass(f).out_step * o \in 0 .. size - 1
        /\ \A n \in 0 .. size - 1 : \E f \in 0 .. a.stride - 1 : \E o \in 0 .. Pass(f).out - 1 :
             Pass(f).out_first + Pass(f).out_step * o = n
        /\ \A f, g \in 0 .. a.stride - 1 :
             \A o \in 0 .. Pass(f).out - 1, r \in 0 .. Pass(g).out - 1 :
               Pass(f).out_first + Pass(f).out_step * o = Pass(g).out_first + Pass(g).out_step * r
                 => f = g /\ o = r
    BY <1>1, PassesDivideOutput
  <2> DEFINE At(f, o) == AxisPass(kind, a, size, f).out_first + AxisPass(kind, a, size, f).out_step * o
  <2> HIDE DEF Pass
  <2>6. \A f \in 0 .. a.stride - 1 :
          /\ AxisPass(kind, a, size, f).out \in Nat
          /\ \A o \in 0 .. AxisPass(kind, a, size, f).out - 1 :
               /\ At(f, o) \in 0 .. size - 1
               /\ AxisPairs(AxisPass(kind, a, size, f), o) = AxisReference(kind, a, At(f, o))
    BY <2>1, <2>3, <2>4, <2>5
  <2>7. \A n \in 0 .. size - 1 : \E f \in 0 .. a.stride - 1 :
          \E o \in 0 .. AxisPass(kind, a, size, f).out - 1 : At(f, o) = n
    BY <2>1, <2>5
  <2>8. \A f, g \in 0 .. a.stride - 1 :
          \A o \in 0 .. AxisPass(kind, a, size, f).out - 1,
             r \in 0 .. AxisPass(kind, a, size, g).out - 1 :
            At(f, o) = At(g, r) => f = g /\ o = r
    BY <2>1, <2>5
  <2> HIDE DEF At
  <2> QED
    BY <2>2, <2>6, <2>7, <2>8 DEF At
<1>2. CASE kind # "transpose"
  <2> DEFINE q == PlainAxis(a, size)
  <2>1. \A f : AxisPass(kind, a, size, f) = q
    BY <1>2 DEF AxisPass
  <2>2. AxisCount(kind, a) = 1
    BY <1>2 DEF AxisCount
  <2>3. q.out = size /\ q.out_first = 0 /\ q.out_step = 1
    BY DEF PlainAxis
  <2>4. \A o \in 0 .. size - 1 : AxisPairs(q, o) = AxisReference(kind, a, o)
    <3>1. \A o : AxisReference(kind, a, o) = AxisReference("conv2d", a, o)
      BY <1>2 DEF AxisReference
    <3> QED
      BY <3>1, PlainAxisExact
  <2>5. \A f : f \in 0 .. 1 - 1 <=> f = 0
    OBVIOUS
  <2> DEFINE At(f, o) == AxisPass(kind, a, size, f).out_first + AxisPass(kind, a, size, f).out_step * o
  <2> HIDE DEF q
  <2>6. \A f : AxisPass(kind, a, size, f).out = size /\ \A o \in Int : At(f, o) = o
    BY <2>1, <2>3
  <2>7. \A f : \A o \in 0 .. size - 1 :
          /\ At(f, o) \in 0 .. size - 1
          /\ AxisPairs(AxisPass(kind, a, size, f), o) = AxisReference(kind, a, At(f, o))
    BY <2>1, <2>4, <2>6
  <2> HIDE DEF At
  <2>8. \A n \in 0 .. size - 1 : At(0, n) = n
    BY <2>6
  <2>9. \A f, g : \A o \in 0 .. size - 1, x \in 0 .. size - 1 : At(f, o) = At(g, x) => o = x
    BY <2>6
  <2> QED
    BY <2>2, <2>5, <2>6, <2>7, <2>8, <2>9 DEF At
<1> QED
  BY <1>1, <1>2

(* What holds of the descriptor a kernel fills in.                         *)
LEMMA FilledIn ==
  ASSUME NEW c \in Calls, Check(c) = "OK", SizedCall(c)
  PROVE  LET t == Filled(c)
         IN  /\ Descriptor(t) /\ t.rank = 3
             /\ t.elem = c.out.elem /\ t.capacity = c.out.capacity
             /\ t.shape[1] \in Nat \ {0} /\ t.shape[2] \in Nat \ {0} /\ t.shape[3] = c.filters
             /\ c.kind = "transpose" =>
                  /\ c.h.pre < c.h.kernel /\ c.w.pre < c.w.kernel
                  /\ t.shape[1] = TransposedSize(c.h) /\ t.shape[2] = TransposedSize(c.w)
<1> DEFINE t == Filled(c)
<1>1. /\ c.kind \in {"conv2d", "depthwise", "group", "transpose"} /\ c.filters \in Nat \ {0}
      /\ c.out \in [rank : {3}, shape : [1 .. MaxRank -> Nat], mem_stride : [1 .. MaxRank -> Int],
                    elem : Nat, capacity : Nat]
  BY CallsAssumption
<1>2. c.out.elem > 0 /\ CheckLayout(t) = "OK" /\ t.shape[3] = c.filters
  BY DEF SizedCall
<1>3. \A x \in Nat, y \in Nat : <<x, y, c.filters, 0>> \in [1 .. MaxRank -> Nat]
  BY <1>1 DEF MaxRank
<1>4. /\ Descriptor(t) /\ t.rank = 3 /\ t.elem = c.out.elem /\ t.capacity = c.out.capacity
      /\ c.kind = "transpose" =>
           /\ c.h.pre < c.h.kernel /\ c.w.pre < c.w.kernel
           /\ t.shape[1] = TransposedSize(c.h) /\ t.shape[2] = TransposedSize(c.w)
  <2>1. CASE c.kind = "transpose"
    <3>1. TransposedAxisFits(c.h) /\ TransposedAxisFits(c.w)
      BY <2>1 DEF Check
    <3>2. TransposedSize(c.h) \in 0 .. Modulus - 1 /\ TransposedSize(c.w) \in 0 .. Modulus - 1
      BY <2>1 DEF SizedCall
    <3>3. TransposedSize(c.h) % Modulus = TransposedSize(c.h) /\ TransposedSize(c.w) % Modulus = TransposedSize(c.w)
      BY <3>2, NotReduced
    <3>4. t = WithShape(c.out, TransposedSize(c.h), TransposedSize(c.w), c.filters)
      BY <2>1, <3>3 DEF Filled, TransposedOut
    <3> DEFINE s == <<TransposedSize(c.h), TransposedSize(c.w), c.filters, 0>>
    <3>5. s \in [1 .. MaxRank -> Nat] /\ s[1] = TransposedSize(c.h) /\ s[2] = TransposedSize(c.w)
      BY <1>3, <3>2
    <3>6. t = [c.out EXCEPT !.shape = s]
      BY <3>4 DEF WithShape
    <3> HIDE DEF s, t
    <3> QED
      BY <1>1, <1>2, <3>1, <3>5, <3>6 DEF Descriptor, TransposedAxisFits
  <2>2. CASE c.kind = "group"
    <3>1. AxisFits(c.h, c.out.shape[1]) /\ AxisFits(c.w, c.out.shape[2]) /\ Shaped(c.out)
      BY <2>2 DEF Check, CheckLayout
    <3>2. c.out.shape[1] \in Nat \ {0} /\ c.out.shape[2] \in Nat \ {0}
      BY <1>1, <3>1 DEF Shaped, Dims, MaxRank
    <3>3. GroupSize(c.h) \in Nat /\ GroupSize(c.w) \in Nat
      BY <3>1, <3>2, GroupSizeLargest, PassesAreAxes
    <3> DEFINE s == <<GroupSize(c.h), GroupSize(c.w), c.filters, 0>>
    <3>4. s \in [1 .. MaxRank -> Nat]
      BY <1>3, <3>3
    <3>5. t = [c.out EXCEPT !.shape = s]
      BY <2>2 DEF Filled, WithShape
    <3> HIDE DEF s, t
    <3> QED
      BY <1>1, <1>2, <2>2, <3>4, <3>5 DEF Descriptor
  <2>3. CASE c.kind \notin {"group", "transpose"}
    <3>1. t = c.out
      BY <1>1, <2>3 DEF Filled
    <3> HIDE DEF t
    <3> QED
      BY <1>1, <1>2, <2>3, <3>1 DEF Descriptor
  <2> QED
    BY <2>1, <2>2, <2>3
<1> HIDE DEF t
<1>5. t.shape[1] \in Nat \ {0} /\ t.shape[2] \in Nat \ {0}
  <2>1. 1 \in Dims(t) /\ 2 \in Dims(t)
    BY <1>4 DEF Dims
  <2> QED
    BY <1>2, <1>4, <2>1, Accepted
<1> QED
  BY <1>2, <1>4, <1>5 DEF t

(* Passes takes the passes of the columns once for each one of the rows.   *)
LEMMA PassesCross ==
  ASSUME NEW c \in Calls, Check(c) = "OK", SizedCall(c)
  PROVE  LET r == AxisCount(c.kind, c.w)
         IN  Passes(c) = [n \in 1 .. AxisCount(c.kind, c.h) * r |->
                            [h |-> Row(c, (n - 1) \div r), w |-> Column(c, (n - 1) % r)]]
<1>1. CASE c.kind = "transpose"
  <2>1. Filled(c).shape[1] = TransposedSize(c.h) /\ Filled(c).shape[2] = TransposedSize(c.w)
    BY <1>1, FilledIn
  <2> QED
    BY <1>1, <2>1 DEF Passes, AxisCount, AxisPass, Row, Column
<1>2. CASE c.kind # "transpose"
  <2> DEFINE pass == [h |-> PlainAxis(c.h, Filled(c).shape[1]), w |-> PlainAxis(c.w, Filled(c).shape[2])]
  <2>1. Passes(c) = <<pass>> /\ AxisCount(c.kind, c.h) = 1 /\ AxisCount(c.kind, c.w) = 1
    BY <1>2 DEF Passes, AxisCount
  <2>2. \A f, g : [h |-> Row(c, f), w |-> Column(c, g)] = pass
    BY <1>2 DEF AxisPass, Row, Column
  <2> HIDE DEF pass
  <2>3. <<pass>> = [n \in 1 .. 1 * 1 |-> pass]
    OBVIOUS
  <2> QED
    BY <2>1, <2>2, <2>3
<1> QED
  BY <1>1, <1>2

(* The points of all passes and the places in the output correspond one to *)
(* one, and at each one rows and columns meet as the reference says.       *)
LEMMA PointsDivideOutput ==
  ASSUME NEW c \in Calls, Check(c) = "OK", SizedCall(c)
  PROVE  /\ \A n \in DOMAIN Passes(c) : Passes(c)[n].h.out \in Nat /\ Passes(c)[n].w.out \in Nat
         /\ \A p \in PointsOf(c) :
              /\ SpotRow(c, p) \in 0 .. Filled(c).shape[1] - 1
              /\ SpotColumn(c, p) \in 0 .. Filled(c).shape[2] - 1
              /\ AxisPairs(Passes(c)[p[1]].h, p[2]) = AxisReference(c.kind, c.h, SpotRow(c, p))
              /\ AxisPairs(Passes(c)[p[1]].w, p[3]) = AxisReference(c.kind, c.w, SpotColumn(c, p))
         /\ \A x \in 0 .. Filled(c).shape[1] - 1, y \in 0 .. Filled(c).shape[2] - 1 :
              \E p \in PointsOf(c) : SpotRow(c, p) = x /\ SpotColumn(c, p) = y
         /\ \A p, q \in PointsOf(c) :
              SpotRow(c, p) = SpotRow(c, q) /\ SpotColumn(c, p) = SpotColumn(c, q) => p = q
<1> DEFINE S == AxisCount(c.kind, c.h)
           R == AxisCount(c.kind, c.w)
           H == Filled(c).shape[1]
           W == Filled(c).shape[2]
           X(f, o) == Row(c, f).out_first + Row(c, f).out_step * o
           Y(f, o) == Column(c, f).out_first + Column(c, f).out_step * o
           ps == Passes(c)
           f(n) == (n - 1) \div R
           g(n) == (n - 1) % R
<1>1. IsAxis(c.h) /\ IsAxis(c.w)
  BY PassesAreAxes
<1>2. S \in Nat \ {0} /\ R \in Nat \ {0}
  BY <1>1 DEF AxisCount, IsAxis
<1>3. /\ H \in Nat \ {0} /\ W \in Nat \ {0}
      /\ c.kind = "transpose" => /\ c.h.pre < c.h.kernel /\ H = TransposedSize(c.h)
                                 /\ c.w.pre < c.w.kernel /\ W = TransposedSize(c.w)
  BY FilledIn
<1>4. ps = [n \in 1 .. S * R |-> [h |-> Row(c, f(n)), w |-> Column(c, g(n))]]
  BY PassesCross
<1> HIDE DEF S, R, H, W, ps
<1>5. /\ \A a \in 0 .. S - 1 : Row(c, a).out \in Nat
      /\ \A a \in 0 .. S - 1 : \A o \in 0 .. Row(c, a).out - 1 :
           X(a, o) \in 0 .. H - 1 /\ AxisPairs(Row(c, a), o) = AxisReference(c.kind, c.h, X(a, o))
      /\ \A x \in 0 .. H - 1 : \E a \in 0 .. S - 1 : \E o \in 0 .. Row(c, a).out - 1 : X(a, o) = x
      /\ \A a, b \in 0 .. S - 1 : \A o \in 0 .. Row(c, a).out - 1, r \in 0 .. Row(c, b).out - 1 :
           X(a, o) = X(b, r) => a = b /\ o = r
  BY <1>1, <1>3, AxisDivided DEF Row, S, H
<1>6. /\ \A a \in 0 .. R - 1 : Column(c, a).out \in Nat
      /\ \A a \in 0 .. R - 1 : \A o \in 0 .. Column(c, a).out - 1 :
           Y(a, o) \in 0 .. W - 1 /\ AxisPairs(Column(c, a), o) = AxisReference(c.kind, c.w, Y(a, o))
      /\ \A x \in 0 .. W - 1 : \E a \in 0 .. R - 1 : \E o \in 0 .. Column(c, a).out - 1 : Y(a, o) = x
      /\ \A a, b \in 0 .. R - 1 : \A o \in 0 .. Column(c, a).out - 1, r \in 0 .. Column(c, b).out - 1 :
           Y(a, o) = Y(b, r) => a = b /\ o = r
  BY <1>1, <1>3, AxisDivided DEF Column, R, W
<1>7. /\ \A n \in 1 .. S * R : f(n) \in 0 .. S - 1 /\ g(n) \in 0 .. R - 1
      /\ \A a \in 0 .. S - 1, b \in 0 .. R - 1 : \E n \in 1 .. S * R : f(n) = a /\ g(n) = b
      /\ \A n, m \in 1 .. S * R : f(n) = f(m) /\ g(n) = g(m) => n = m
      /\ S * R \in Nat
  BY <1>2, RowsOf
<1>8. /\ DOMAIN ps = 1 .. S * R
      /\ \A n \in 1 .. S * R : ps[n].h = Row(c, f(n)) /\ ps[n].w = Column(c, g(n))
  BY <1>4
<1> HIDE DEF f, g
<1>9. \A p \in PointsOf(c) :
        /\ p[1] \in 1 .. S * R /\ p[2] \in 0 .. Row(c, f(p[1])).out - 1
        /\ p[3] \in 0 .. Column(c, g(p[1])).out - 1
        /\ SpotRow(c, p) = X(f(p[1]), p[2]) /\ SpotColumn(c, p) = Y(g(p[1]), p[3])
        /\ p = <<p[1], p[2], p[3]>>
  <2> SUFFICES ASSUME NEW p \in PointsOf(c)
               PROVE  /\ p[1] \in 1 .. S * R /\ p[2] \in 0 .. Row(c, f(p[1])).out - 1
                      /\ p[3] \in 0 .. Column(c, g(p[1])).out - 1
                      /\ SpotRow(c, p) = X(f(p[1]), p[2]) /\ SpotColumn(c, p) = Y(g(p[1]), p[3])
                      /\ p = <<p[1], p[2], p[3]>>
    OBVIOUS
  <2>1. /\ p \in Nat \X Nat \X Nat /\ p[1] \in 1 .. S * R
        /\ p[2] < ps[p[1]].h.out /\ p[3] < ps[p[1]].w.out
    BY <1>8 DEF PointsOf, ps
  <2>2. Row(c, f(p[1])).out \in Nat /\ Column(c, g(p[1])).out \in Nat
    BY <1>5, <1>6, <1>7, <2>1
  <2>3. ps[p[1]].h = Row(c, f(p[1])) /\ ps[p[1]].w = Column(c, g(p[1]))
    BY <1>8, <2>1
  <2>4. SpotRow(c, p) = X(f(p[1]), p[2]) /\ SpotColumn(c, p) = Y(g(p[1]), p[3])
    BY <2>3 DEF SpotRow, SpotColumn, ps
  <2> HIDE DEF X, Y
  <2> QED
    BY <2>1, <2>2, <2>3, <2>4
<1>10. \A n \in 1 .. S * R : \A y \in 0 .. Row(c, f(n)).out - 1, x \in 0 .. Column(c, g(n)).out - 1 :
         <<n, y, x>> \in PointsOf(c)
  <2> SUFFICES ASSUME NEW n \in 1 .. S * R, NEW y \in 0 .. Row(c, f(n)).out - 1,
                      NEW x \in 0 .. Column(c, g(n)).out - 1
               PROVE  <<n, y, x>> \in PointsOf(c)
    OBVIOUS
  <2>1. Row(c, f(n)).out \in Nat /\ Column(c, g(n)).out \in Nat
    BY <1>5, <1>6, <1>7
  <2>2. n \in Nat /\ y \in Nat /\ x \in Nat /\ y < ps[n].h.out /\ x < ps[n].w.out /\ n \in DOMAIN ps
    BY <1>7, <1>8, <2>1
  <2> QED
    BY <2>2 DEF PointsOf, ps
<1>11. \A n \in DOMAIN ps : ps[n].h.out \in Nat /\ ps[n].w.out \in Nat
  BY <1>5, <1>6, <1>7, <1>8
<1>12. ASSUME NEW p \in PointsOf(c)
       PROVE  /\ SpotRow(c, p) \in 0 .. H - 1 /\ SpotColumn(c, p) \in 0 .. W - 1
              /\ AxisPairs(ps[p[1]].h, p[2]) = AxisReference(c.kind, c.h, SpotRow(c, p))
              /\ AxisPairs(ps[p[1]].w, p[3]) = AxisReference(c.kind, c.w, SpotColumn(c, p))
  <2>1. /\ p[1] \in 1 .. S * R /\ p[2] \in 0 .. Row(c, f(p[1])).out - 1
        /\ p[3] \in 0 .. Column(c, g(p[1])).out - 1
        /\ SpotRow(c, p) = X(f(p[1]), p[2]) /\ SpotColumn(c, p) = Y(g(p[1]), p[3])
    BY <1>9
  <2>2. f(p[1]) \in 0 .. S - 1 /\ g(p[1]) \in 0 .. R - 1
    BY <1>7, <2>1
  <2>3. ps[p[1]].h = Row(c, f(p[1])) /\ ps[p[1]].w = Column(c, g(p[1]))
    BY <1>8, <2>1
  <2> HIDE DEF X, Y
  <2> QED
    BY <1>5, <1>6, <2>1, <2>2, <2>3
<1>13. ASSUME NEW x \in 0 .. H - 1, NEW y \in 0 .. W - 1
       PROVE  \E p \in PointsOf(c) : SpotRow(c, p) = x /\ SpotColumn(c, p) = y
  <2> HIDE DEF X, Y
  <2>1. PICK a \in 0 .. S - 1 : \E o \in 0 .. Row(c, a).out - 1 : X(a, o) = x
    BY <1>5
  <2>2. PICK o \in 0 .. Row(c, a).out - 1 : X(a, o) = x
    BY <2>1
  <2>3. PICK b \in 0 .. R - 1 : \E r \in 0 .. Column(c, b).out - 1 : Y(b, r) = y
    BY <1>6
  <2>4. PICK r \in 0 .. Column(c, b).out - 1 : Y(b, r) = y
    BY <2>3
  <2>5. PICK n \in 1 .. S * R : f(n) = a /\ g(n) = b
    BY <1>7
  <2>6. <<n, o, r>> \in PointsOf(c)
    BY <1>10, <2>2, <2>4, <2>5
  <2>7. SpotRow(c, <<n, o, r>>) = x /\ SpotColumn(c, <<n, o, r>>) = y
    BY <1>9, <2>2, <2>4, <2>5, <2>6
  <2> QED
    BY <2>6, <2>7
<1>14. ASSUME NEW p \in PointsOf(c), NEW q \in PointsOf(c),
              SpotRow(c, p) = SpotRow(c, q), SpotColumn(c, p) = SpotColumn(c, q)
       PROVE  p = q
  <2> HIDE DEF X, Y
  <2>1. f(p[1]) = f(q[1]) /\ p[2] = q[2]
    BY <1>5, <1>7, <1>9, <1>14
  <2>2. g(p[1]) = g(q[1]) /\ p[3] = q[3]
    BY <1>6, <1>7, <1>9, <1>14
  <2>3. p[1] = q[1]
    BY <1>7, <1>9, <2>1, <2>2
  <2> QED
    BY <1>9, <2>1, <2>2, <2>3
<1> QED
  BY <1>11, <1>12, <1>13, <1>14 DEF H, W, ps

-----------------------------------------------------------------------------
(* Filters that are divided evenly among groups: the group of a filter     *)
(* follows from the number of filters of each.                             *)
LEMMA GroupOfFilter ==
  ASSUME NEW g \in Nat \ {0}, NEW q \in Nat \ {0}, NEW ch \in 0 .. q * g - 1
  PROVE  /\ ch \div q \in 0 .. g - 1
         /\ (CHOOSE n \in 0 .. g - 1 : ch * g \in n * (q * g) .. (n + 1) * (q * g) - 1) = ch \div q
<1> DEFINE n == ch \div q
<1>1. q * g \in Nat /\ ch \in Nat
  OBVIOUS
<1>2. n \in Int /\ ch % q \in 0 .. q - 1 /\ ch = n * q + (ch % q)
  BY <1>1, Division
<1> HIDE DEF n
<1>3. n * q \in Int /\ n * q <= ch /\ ch < n * q + q
  BY <1>2
<1>4. n \in 0 .. g - 1
  <2>1. (-1) * q < n * q /\ n * q < g * q /\ g * q = q * g
    BY <1>1, <1>3
  <2>2. -1 < n /\ n < g
    BY <1>2, <2>1, Quotient
  <2> QED
    BY <1>2, <2>2
<1>5. \A m \in Int : /\ m * (q * g) = (m * q) * g /\ (m + 1) * (q * g) = (m * q + q) * g
                     /\ m * q \in Int /\ (m * q) * g \in Int /\ (m * q + q) * g \in Int
  OBVIOUS
<1>6. ASSUME NEW m \in 0 .. g - 1
      PROVE  ch * g \in m * (q * g) .. (m + 1) * (q * g) - 1 <=> m = n
  <2>1. m * q \in Int /\ ch * g \in Int
    BY <1>1
  <2>2. m = n => ch * g \in m * (q * g) .. (m + 1) * (q * g) - 1
    <3>1. (n * q) * g <= ch * g /\ ch * g < (n * q + q) * g
      <4>1. ch + 1 <= n * q + q /\ (ch + 1) * g = ch * g + g
        BY <1>1, <1>3
      <4>2. (ch + 1) * g <= (n * q + q) * g /\ (n * q) * g <= ch * g
        BY <1>1, <1>3, <4>1, Monotone
      <4> QED
        BY <1>2, <1>5, <2>1, <4>1, <4>2
    <3> QED
      BY <1>2, <1>5, <2>1, <3>1
  <2>3. ASSUME ch * g \in m * (q * g) .. (m + 1) * (q * g) - 1
        PROVE  m = n
    <3>1. (m * q) * g <= ch * g /\ ch * g < (m * q + q) * g
      BY <1>5, <2>1, <2>3
    <3>2. (m * q) * g < ch * g + g /\ m * q + q \in Int
      BY <1>5, <2>1, <3>1
    <3>3. m * q <= ch /\ ch < m * q + q
      BY <1>1, <2>1, <3>1, <3>2, Quotient
    <3>4. m * q < n * q + q /\ n * q < m * q + q
      BY <1>1, <1>3, <2>1, <3>3
    <3>5. m <= n /\ n <= m
      BY <1>2, <3>4, Quotient
    <3> QED
      BY <1>2, <3>5
  <2> QED
    BY <2>2, <2>3
<1> QED
  BY <1>4, <1>6 DEF n

(* Division without a remainder.                                           *)
LEMMA EvenDivision ==
  ASSUME NEW x \in Nat \ {0}, NEW d \in Nat \ {0}
  PROVE  /\ x % d = 0 => x \div d \in Nat \ {0} /\ x = (x \div d) * d
         /\ x % x = 0 /\ x \div x = 1 /\ x % 1 = 0 /\ x \div 1 = x
<1>1. ASSUME x % d = 0 PROVE x \div d \in Nat \ {0} /\ x = (x \div d) * d
  <2> DEFINE q == x \div d
  <2>1. q \in Int /\ x = q * d + (x % d)
    BY Division
  <2> HIDE DEF q
  <2>2. x = q * d /\ q * d \in Int /\ 0 * d < q * d
    BY <1>1, <2>1
  <2>3. 0 < q
    BY <2>1, <2>2, Quotient
  <2> QED
    BY <2>1, <2>2, <2>3 DEF q
<1>2. x % x = 0 /\ x \div x = 1
  <2> DEFINE q == x \div x
             r == x % x
  <2>1. q \in Int /\ r \in 0 .. x - 1 /\ x = q * x + r
    BY Division
  <2> HIDE DEF q, r
  <2>2. q * x \in Int /\ q * x < 1 * x + x /\ 1 * x < q * x + x
    BY <2>1
  <2>3. q <= 1 /\ 1 <= q
    BY <2>1, <2>2, Quotient
  <2>4. q = 1 /\ r = 0
    BY <2>1, <2>3
  <2> QED
    BY <2>4 DEF q, r
<1> QED
  BY <1>1, <1>2

(* All three loops over channels visit the channels of the group a filter  *)
(* belongs to, and compute every filter.                                   *)
LEMMA ChannelsExact ==
  ASSUME NEW c \in Calls, ChannelsMatch(c), NEW ch \in 0 .. c.filters - 1
  PROVE  /\ ChannelPairs(c, ch) = ChannelReference(c, ch)
         /\ ChannelReference(c, ch) \subseteq (0 .. c.in_ch - 1) \X (0 .. c.w_ch - 1)
<1> DEFINE G == Groups(c)
           q == c.filters \div G
<1>1. /\ c.kind \in {"conv2d", "depthwise", "group", "transpose"}
      /\ c.in_ch \in Nat \ {0} /\ c.w_ch \in Nat \ {0} /\ c.filters \in Nat \ {0}
      /\ c.kind = "group" => c.w_ch <= c.in_ch
  BY CallsAssumption
<1>2. /\ G \in Nat \ {0} /\ c.in_ch = G * c.w_ch
      /\ q \in Nat \ {0} /\ c.filters = q * G
      /\ c.in_ch = c.w_ch => G = 1
      /\ c.w_ch = 1 => G = c.in_ch
  <2> DEFINE x == c.in_ch
             w == c.w_ch
             y == c.filters
  <2>1. x % x = 0 /\ x \div x = 1 /\ x % 1 = 0 /\ x \div 1 = x /\ y % 1 = 0 /\ y % y = 0
    <3> HIDE DEF x, y
    <3> QED
      BY <1>1, EvenDivision DEF x, y
  <2>2. (x = w => G = 1) /\ (w = 1 => G = x)
    BY <2>1 DEF Groups
  <2>3. x % w = 0 /\ y % G = 0
    <3>1. CASE c.kind \in {"conv2d", "transpose"}
      BY <2>1, <2>2, <3>1 DEF ChannelsMatch
    <3>2. CASE c.kind = "depthwise"
      BY <2>1, <2>2, <3>2 DEF ChannelsMatch
    <3>3. CASE c.kind = "group"
      BY <3>3 DEF ChannelsMatch
    <3> QED
      BY <1>1, <3>1, <3>2, <3>3
  <2>4. G \in Nat \ {0} /\ x = G * w
    <3>1. G = x \div w
      BY DEF Groups
    <3> HIDE DEF x, w, G
    <3> QED
      BY <1>1, <2>3, <3>1, EvenDivision DEF x, w
  <2>5. q \in Nat \ {0} /\ y = q * G
    <3>1. q = y \div G
      OBVIOUS
    <3> HIDE DEF y, G, q
    <3> QED
      BY <1>1, <2>3, <2>4, <3>1, EvenDivision DEF y
  <2> QED
    BY <2>2, <2>4, <2>5
<1> DEFINE n == ch \div q
           pairs == {<<n * c.w_ch + m, m>> : m \in 0 .. c.w_ch - 1}
<1>3. n \in 0 .. G - 1 /\ ChannelReference(c, ch) = pairs
  <2> HIDE DEF q
  <2>1. ch \in 0 .. q * G - 1
    BY <1>2
  <2>2. /\ n \in 0 .. G - 1
        /\ (CHOOSE m \in 0 .. G - 1 : ch * G \in m * (q * G) .. (m + 1) * (q * G) - 1) = n
    BY <1>2, <2>1, GroupOfFilter
  <2> QED
    BY <1>2, <2>2 DEF ChannelReference, G
<1>4. pairs \subseteq (0 .. c.in_ch - 1) \X (0 .. c.w_ch - 1)
  <2> HIDE DEF n
  <2> SUFFICES ASSUME NEW m \in 0 .. c.w_ch - 1
               PROVE  n * c.w_ch + m \in 0 .. c.in_ch - 1
    OBVIOUS
  <2> HIDE DEF G, q
  <2>1. n \in Nat /\ n < G /\ c.w_ch \in Nat \ {0}
    BY <1>1, <1>2, <1>3
  <2>2. n * c.w_ch \in Nat /\ n * c.w_ch + c.w_ch <= G * c.w_ch /\ G * c.w_ch \in Int
    BY <1>2, <2>1, Monotone
  <2> QED
    BY <1>1, <1>2, <2>1, <2>2
<1>5. CASE c.in_ch = c.w_ch /\ Loops(c) = "general"
  <2>1. G = 1 /\ n = 0
    <3> HIDE DEF n
    <3> QED
      BY <1>2, <1>3, <1>5
  <2>2. \A m \in 0 .. c.w_ch - 1 : n * c.w_ch + m = m
    <3> HIDE DEF n
    <3> QED
      BY <1>1, <2>1
  <2>3. ChannelPairs(c, ch) = {<<m, m>> : m \in 0 .. c.w_ch - 1}
    BY <1>5 DEF ChannelPairs
  <2> HIDE DEF n
  <2>4. pairs = {<<m, m>> : m \in 0 .. c.w_ch - 1}
    BY <2>2
  <2> QED
    BY <1>3, <1>4, <2>3, <2>4
<1>6. CASE c.w_ch = 1 /\ c.in_ch = c.filters /\ Loops(c) = "depthwise"
  <2>1. q = 1
    <3> HIDE DEF q, G
    <3>1. q * G < 1 * G + G /\ q * G \in Int
      BY <1>1, <1>2, <1>6
    <3>2. q <= 1
      BY <1>2, <3>1, Quotient
    <3> QED
      BY <1>2, <3>2
  <2>2. n = ch
    <3> HIDE DEF q
    <3> QED
      BY <2>1
  <2>3. ChannelPairs(c, ch) = {<<ch, 0>>}
    BY <1>6 DEF ChannelPairs
  <2>4. n * c.w_ch + 0 = ch
    <3> HIDE DEF n
    <3> QED
      BY <1>6, <2>2
  <2> HIDE DEF n
  <2>5. \A m : m \in 0 .. c.w_ch - 1 <=> m = 0
    BY <1>6
  <2>6. pairs = {<<ch, 0>>}
    BY <2>4, <2>5
  <2> QED
    BY <1>3, <1>4, <2>3, <2>6
<1>7. CASE c.kind = "group" /\ Loops(c) = "group"
  <2>1. ChannelPairs(c, ch) = {<<c.w_ch * n + m, m>> : m \in 0 .. c.w_ch - 1}
    BY <1>7 DEF ChannelPairs
  <2> HIDE DEF n
  <2>2. c.w_ch * n = n * c.w_ch
    BY <1>1, <1>3
  <2> QED
    BY <1>3, <1>4, <2>1, <2>2
<1>8. \/ c.in_ch = c.w_ch /\ Loops(c) = "general"
      \/ c.w_ch = 1 /\ c.in_ch = c.filters /\ Loops(c) = "depthwise"
      \/ c.kind = "group" /\ Loops(c) = "group"
  BY <1>1 DEF ChannelsMatch, Loops
<1> QED
  BY <1>5, <1>6, <1>7, <1>8

LEMMA EveryFilter ==
  ASSUME NEW c \in Calls, ChannelsMatch(c), out.shape[3] = c.filters
  PROVE  OutChannels(c) = 0 .. c.filters - 1
<1>1. c.kind \in {"conv2d", "depthwise", "group", "transpose"}
  BY CallsAssumption
<1>2. Loops(c) = "depthwise" => c.in_ch = c.filters
  BY <1>1 DEF Loops, ChannelsMatch
<1> QED
  BY <1>2 DEF OutChannels

-----------------------------------------------------------------------------
(* Each element has a cell of its own, and it lies within the capacity.    *)
LEMMA CellsApart ==
  ASSUME NEW c \in Calls, Check(c) = "OK", SizedCall(c)
  PROVE  LET C == 0 .. c.filters - 1
         IN  /\ \A p \in PointsOf(c), ch \in C :
                  Cell(c, p, ch) >= 0 /\ (Cell(c, p, ch) + 1) * Filled(c).elem <= Filled(c).capacity
             /\ \A p, q \in PointsOf(c), ch, dh \in C :
                  Cell(c, p, ch) = Cell(c, q, dh) => p = q /\ ch = dh
<1> DEFINE t == Filled(c)
           C == 0 .. c.filters - 1
           pos(p, ch) == <<SpotRow(c, p), SpotColumn(c, p), ch, 0>>
<1>1. /\ Descriptor(t) /\ t.rank = 3
      /\ t.shape[1] \in Nat \ {0} /\ t.shape[2] \in Nat \ {0} /\ t.shape[3] = c.filters
  BY FilledIn
<1>2. NoWrap(t) /\ CheckLayout(t) = "OK"
  BY DEF SizedCall
<1>3. \A p \in PointsOf(c) :
        SpotRow(c, p) \in 0 .. t.shape[1] - 1 /\ SpotColumn(c, p) \in 0 .. t.shape[2] - 1
  BY PointsDivideOutput
<1>4. \A p, q \in PointsOf(c) :
        SpotRow(c, p) = SpotRow(c, q) /\ SpotColumn(c, p) = SpotColumn(c, q) => p = q
  BY PointsDivideOutput
<1>5. c.filters \in Nat
  BY CallsAssumption
<1> HIDE DEF t
<1>6. ASSUME NEW p \in PointsOf(c), NEW ch \in C
      PROVE  IsPosition(t, pos(p, ch))
  <2> DEFINE x == pos(p, ch)
  <2>1. SpotRow(c, p) \in 0 .. t.shape[1] - 1 /\ SpotColumn(c, p) \in 0 .. t.shape[2] - 1
    BY <1>3
  <2>2. SpotRow(c, p) \in Int /\ SpotColumn(c, p) \in Int /\ ch \in Int
    BY <1>1, <1>5, <2>1
  <2>3. x \in [1 .. MaxRank -> Int]
    BY <2>2 DEF MaxRank
  <2>4. x[1] = SpotRow(c, p) /\ x[2] = SpotColumn(c, p) /\ x[3] = ch
    OBVIOUS
  <2> HIDE DEF x
  <2>5. \A d \in Dims(t) : d = 1 \/ d = 2 \/ d = 3
    BY <1>1 DEF Dims
  <2>6. HasPosition(t, x)
    BY <1>1, <2>1, <2>4, <2>5 DEF HasPosition
  <2> QED
    BY <2>3, <2>6 DEF IsPosition, x
<1>7. \A p, ch : Cell(c, p, ch) = Offset(t, pos(p, ch))
  BY DEF Cell, t
<1>8. ASSUME NEW p \in PointsOf(c), NEW ch \in C
      PROVE  Cell(c, p, ch) >= 0 /\ (Cell(c, p, ch) + 1) * t.elem <= t.capacity
  <2>1. 0 <= Offset(t, pos(p, ch)) /\ (Offset(t, pos(p, ch)) + 1) * t.elem <= t.capacity
    BY <1>1, <1>2, <1>6, PositionInside
  <2> QED
    BY <1>7, <2>1
<1>9. ASSUME NEW p \in PointsOf(c), NEW q \in PointsOf(c), NEW ch \in C, NEW dh \in C,
             Cell(c, p, ch) = Cell(c, q, dh)
      PROVE  p = q /\ ch = dh
  <2> DEFINE x == pos(p, ch)
             y == pos(q, dh)
  <2>1. IsPosition(t, x) /\ IsPosition(t, y) /\ Offset(t, x) = Offset(t, y)
    BY <1>6, <1>7, <1>9
  <2>2. /\ x[1] = SpotRow(c, p) /\ x[2] = SpotColumn(c, p) /\ x[3] = ch
        /\ y[1] = SpotRow(c, q) /\ y[2] = SpotColumn(c, q) /\ y[3] = dh
    OBVIOUS
  <2> HIDE DEF x, y
  <2>3. \A d \in Dims(t) : x[d] = y[d]
    BY <1>1, <1>2, <2>1, PositionsApart
  <2>4. 1 \in Dims(t) /\ 2 \in Dims(t) /\ 3 \in Dims(t)
    BY <1>1 DEF Dims
  <2> QED
    BY <1>4, <2>2, <2>3, <2>4
<1> QED
  BY <1>8, <1>9 DEF t

(* A point has as many cells as there are filters.                         *)
LEMMA CellsOfPoint ==
  ASSUME NEW c \in Calls, Check(c) = "OK", SizedCall(c), NEW p \in PointsOf(c)
  PROVE  LET C == 0 .. c.filters - 1
             cells == {Cell(c, p, ch) : ch \in C}
         IN  IsFiniteSet(cells) /\ Cardinality(cells) = Cardinality(C) /\ Cardinality(C) \in Nat
<1> DEFINE C == 0 .. c.filters - 1
           cells == {Cell(c, p, ch) : ch \in C}
           f == [ch \in C |-> Cell(c, p, ch)]
<1>1. IsFiniteSet(C)
  <2>1. 0 \in Int /\ c.filters - 1 \in Int
    BY CallsAssumption
  <2> QED
    BY <2>1, FS_Interval
<1>2. \A ch, dh \in C : Cell(c, p, ch) = Cell(c, p, dh) => ch = dh
  BY CellsApart
<1> HIDE DEF C
<1>3. f \in Bijection(C, cells)
  BY <1>2 DEF Bijection, Injection, Surjection, IsInjective
<1> HIDE DEF cells, f
<1>4. ExistsBijection(C, cells)
  BY <1>3 DEF ExistsBijection
<1> QED
  BY <1>1, <1>4, FS_Bijection, FS_CardinalityType DEF C, cells

-----------------------------------------------------------------------------
(* The loops go through the points in order.                               *)

LEMMA PointsInOrder ==
  ASSUME LoopInv, Running, \A c \in Calls : SizedCall(c), Point
  PROVE  LET p == <<This, at[1], at[2]>>
         IN  /\ p \in PointsOf(call) /\ p \notin Computed
             /\ Computed' = Computed \cup {p}
             /\ Head(todo) = Passes(call)[This]
             /\ at' \in Nat \X Nat /\ (at'[2] = 0 \/ at'[2] < Head(todo).w.out)
<1> DEFINE k == This
           p == <<k, at[1], at[2]>>
           pass == Head(todo)
           n == Len(Passes(call))
<1>1. /\ call \in Calls /\ at \in Nat \X Nat /\ status = "running" /\ Check(call) = "OK"
      /\ todo \in Seq(PassSet(call)) /\ todo # <<>> /\ Len(todo) <= n
      /\ \A i \in 1 .. Len(todo) : todo[i] = Passes(call)[k - 1 + i]
      /\ InLoops(pass) /\ at' = NextPoint(pass) /\ call' = call /\ todo' = todo
  BY DEF LoopInv, Running, Point
<1>2. SizedCall(call) /\ Passes(call) \in Seq(PassSet(call))
  BY <1>1, PassesAreAxes
<1>3. k = n - Len(todo) + 1 /\ n \in Nat /\ Len(todo) \in Nat \ {0} /\ DOMAIN Passes(call) = 1 .. n
  BY <1>1, <1>2 DEF This
<1> HIDE DEF k, n
<1>4. k \in DOMAIN Passes(call) /\ k \in Nat /\ pass = Passes(call)[k]
  <2>1. 1 \in 1 .. Len(todo) /\ pass = todo[1] /\ k - 1 + 1 = k /\ k \in 1 .. n
    BY <1>1, <1>3
  <2> QED
    BY <1>1, <1>3, <2>1
<1>5. pass.h.out \in Nat /\ pass.w.out \in Nat
  BY <1>1, <1>2, <1>4, PointsDivideOutput
<1>6. at[1] \in Nat /\ at[2] \in Nat /\ at[1] < pass.h.out /\ at[2] < pass.w.out
  BY <1>1 DEF InLoops
<1> HIDE DEF pass
<1>7. p \in PointsOf(call)
  BY <1>4, <1>6 DEF PointsOf
<1>8. p[1] = k /\ p[2] = at[1] /\ p[3] = at[2]
  OBVIOUS
<1> HIDE DEF p
<1>9. p \notin Computed
  BY <1>3, <1>4, <1>6, <1>8 DEF Computed, Before, k
<1>10. This' = k
  BY <1>1 DEF This, k
<1>11. \/ at[2] + 1 < pass.w.out /\ at' = <<at[1], at[2] + 1>>
       \/ ~(at[2] + 1 < pass.w.out) /\ at' = <<at[1] + 1, 0>>
  BY <1>1 DEF NextPoint, pass
<1>12. at' \in Nat \X Nat /\ (at'[2] = 0 \/ at'[2] < pass.w.out)
  BY <1>6, <1>11
<1>13. ASSUME NEW q \in PointsOf(call)
       PROVE  Before(q)' <=> Before(q) \/ q = p
  <2>1. /\ q \in Nat \X Nat \X Nat /\ q[1] \in Nat /\ q[2] \in Nat /\ q[3] \in Nat
        /\ q[1] = k => q[2] < pass.h.out /\ q[3] < pass.w.out
    BY <1>4 DEF PointsOf
  <2>2. q = p <=> q[1] = k /\ q[2] = at[1] /\ q[3] = at[2]
    BY <1>6, <1>8, <2>1 DEF p
  <2>3. Before(q)' <=> \/ q[1] < k
                       \/ q[1] = k /\ (q[2] < at'[1] \/ (q[2] = at'[1] /\ q[3] < at'[2]))
    BY <1>10 DEF Before
  <2>4. Before(q) <=> \/ q[1] < k
                      \/ q[1] = k /\ (q[2] < at[1] \/ (q[2] = at[1] /\ q[3] < at[2]))
    BY DEF Before, k
  <2>5. CASE at[2] + 1 < pass.w.out /\ at' = <<at[1], at[2] + 1>>
    <3>1. at'[1] = at[1] /\ at'[2] = at[2] + 1
      BY <2>5
    <3> QED
      BY <1>6, <2>1, <2>2, <2>3, <2>4, <3>1
  <2>6. CASE ~(at[2] + 1 < pass.w.out) /\ at' = <<at[1] + 1, 0>>
    <3>1. at'[1] = at[1] + 1 /\ at'[2] = 0
      BY <2>6
    <3> QED
      BY <1>5, <1>6, <2>1, <2>2, <2>3, <2>4, <2>6, <3>1
  <2> QED
    BY <1>11, <2>5, <2>6
<1>14. Computed' = Computed \cup {p}
  <2>1. Computed' = {q \in PointsOf(call) : Before(q)'}
    BY <1>1 DEF Computed
  <2>2. Computed = {q \in PointsOf(call) : Before(q)}
    BY DEF Computed
  <2> QED
    BY <1>7, <1>13, <2>1, <2>2
<1> QED
  BY <1>4, <1>7, <1>9, <1>12, <1>14 DEF p, k, pass

LEMMA EndKeepsPoints ==
  ASSUME LoopInv, Running, \A c \in Calls : SizedCall(c), EndPass
  PROVE  /\ Computed' = Computed
         /\ Len(todo') <= Len(Passes(call))
         /\ \A i \in 1 .. Len(todo') : todo'[i] = Passes(call)[This' - 1 + i]
<1> DEFINE k == This
           pass == Head(todo)
           n == Len(Passes(call))
<1>1. /\ call \in Calls /\ at \in Nat \X Nat /\ status = "running" /\ Check(call) = "OK"
      /\ todo \in Seq(PassSet(call)) /\ todo # <<>> /\ Len(todo) <= n
      /\ \A i \in 1 .. Len(todo) : todo[i] = Passes(call)[k - 1 + i]
      /\ ~InLoops(pass) /\ (at[2] = 0 \/ at[2] < pass.w.out)
      /\ at' = <<0, 0>> /\ call' = call /\ todo' = Tail(todo)
  BY DEF LoopInv, Running, EndPass
<1>2. SizedCall(call) /\ Passes(call) \in Seq(PassSet(call))
  BY <1>1, PassesAreAxes
<1>3. k = n - Len(todo) + 1 /\ n \in Nat /\ Len(todo) \in Nat \ {0} /\ DOMAIN Passes(call) = 1 .. n
  BY <1>1, <1>2 DEF This
<1>4. /\ Len(todo') = Len(todo) - 1 /\ This' = k + 1
      /\ \A i \in 1 .. Len(todo') : todo'[i] = todo[i + 1]
  <2>1. Len(todo') = Len(todo) - 1 /\ \A i \in 1 .. Len(todo') : todo'[i] = todo[i + 1]
    BY <1>1
  <2> HIDE DEF k, n
  <2>2. This' = n - Len(todo') + 1
    BY <1>1 DEF This, n
  <2> QED
    BY <1>3, <2>1, <2>2
<1> HIDE DEF k, n
<1>5. k \in DOMAIN Passes(call) /\ k \in Nat /\ pass = Passes(call)[k]
  <2>1. 1 \in 1 .. Len(todo) /\ pass = todo[1] /\ k - 1 + 1 = k /\ k \in 1 .. n
    BY <1>1, <1>3
  <2> QED
    BY <1>1, <1>3, <2>1
<1>6. pass.h.out \in Nat /\ pass.w.out \in Nat
  BY <1>1, <1>2, <1>5, PointsDivideOutput
<1>7. /\ at[1] \in Nat /\ at[2] \in Nat /\ ~(at[1] < pass.h.out /\ at[2] < pass.w.out)
      /\ at[2] = 0 \/ at[2] < pass.w.out
  BY <1>1 DEF InLoops
<1> HIDE DEF pass
<1>8. ASSUME NEW q \in PointsOf(call)
      PROVE  Before(q)' <=> Before(q)
  <2>1. /\ q[1] \in Nat /\ q[2] \in Nat /\ q[3] \in Nat
        /\ q[1] = k => q[2] < pass.h.out /\ q[3] < pass.w.out
    BY <1>5 DEF PointsOf
  <2>2. at'[1] = 0 /\ at'[2] = 0
    BY <1>1
  <2>3. Before(q)' <=> \/ q[1] < k + 1
                       \/ q[1] = k + 1 /\ (q[2] < at'[1] \/ (q[2] = at'[1] /\ q[3] < at'[2]))
    BY <1>4 DEF Before
  <2>4. Before(q) <=> \/ q[1] < k
                      \/ q[1] = k /\ (q[2] < at[1] \/ (q[2] = at[1] /\ q[3] < at[2]))
    BY DEF Before, k
  <2> QED
    BY <1>5, <1>6, <1>7, <2>1, <2>2, <2>3, <2>4
<1>9. Computed' = Computed
  <2>1. Computed' = {q \in PointsOf(call) : Before(q)'}
    BY <1>1 DEF Computed
  <2>2. Computed = {q \in PointsOf(call) : Before(q)}
    BY DEF Computed
  <2> QED
    BY <1>8, <2>1, <2>2
<1>10. \A i \in 1 .. Len(todo') : todo'[i] = Passes(call)[This' - 1 + i]
  <2> SUFFICES ASSUME NEW i \in 1 .. Len(todo') PROVE todo'[i] = Passes(call)[This' - 1 + i]
    OBVIOUS
  <2>1. i + 1 \in 1 .. Len(todo) /\ k - 1 + (i + 1) = This' - 1 + i
    BY <1>3, <1>4, <1>5
  <2> QED
    BY <1>1, <1>4, <2>1
<1> QED
  BY <1>1, <1>3, <1>4, <1>9, <1>10 DEF n

(* A point adds its elements to the output, and what the reference says.   *)
LEMMA PointAdds ==
  ASSUME LoopInv, Running, \A c \in Calls : SizedCall(c), Point
  PROVE  MemoryExact'
<1> DEFINE p == <<This, at[1], at[2]>>
           C == 0 .. call.filters - 1
           pass == Head(todo)
           cells == {Cell(call, p, ch) : ch \in C}
           exact(q, ch) == Reference(call, SpotRow(call, q), SpotColumn(call, q), ch)
<1>1. /\ call \in Calls /\ Check(call) = "OK" /\ out = Filled(call) /\ MemoryExact
      /\ call' = call
  BY DEF LoopInv, Point
<1>2. SizedCall(call) /\ ChannelsMatch(call)
  BY <1>1 DEF Check
<1>3. /\ p \in PointsOf(call) /\ p \notin Computed /\ Computed' = Computed \cup {p}
      /\ pass = Passes(call)[This]
  BY PointsInOrder
<1>4. OutChannels(call) = C
  BY <1>1, <1>2, FilledIn, EveryFilter
<1>5. p[1] = This /\ p[2] = at[1] /\ p[3] = at[2]
  OBVIOUS
<1> HIDE DEF p
<1>6. ASSUME NEW ch \in C
      PROVE  Place(pass, ch) = Cell(call, p, ch) /\ Value(pass, ch) = exact(p, ch)
  <2>1. /\ AxisPairs(pass.h, at[1]) = AxisReference(call.kind, call.h, SpotRow(call, p))
        /\ AxisPairs(pass.w, at[2]) = AxisReference(call.kind, call.w, SpotColumn(call, p))
    BY <1>1, <1>2, <1>3, <1>5, PointsDivideOutput
  <2>2. ChannelPairs(call, ch) = ChannelReference(call, ch)
    BY <1>1, <1>2, ChannelsExact
  <2>3. Value(pass, ch) = exact(p, ch)
    BY <2>1, <2>2 DEF Value, Reference
  <2>4. Place(pass, ch) = Cell(call, p, ch)
    BY <1>1, <1>3, <1>5 DEF Place, Cell, SpotRow, SpotColumn
  <2> QED
    BY <2>3, <2>4
<1> HIDE DEF pass, C
<1>7. {Place(pass, ch) : ch \in OutChannels(call)} = cells
  BY <1>4, <1>6
<1> DEFINE channel(i) == CHOOSE ch \in C : Place(pass, ch) = i
<1>8. /\ mem' = [i \in DOMAIN mem \cup cells |->
                  IF i \in cells THEN Value(pass, channel(i)) ELSE mem[i]]
      /\ writes' = writes + Cardinality(C)
  <2> DEFINE With(S, T) == [i \in DOMAIN mem \cup T |->
                              IF i \in T THEN Value(pass, CHOOSE ch \in S : Place(pass, ch) = i)
                              ELSE mem[i]]
  <2>1. mem' = With(OutChannels(call), {Place(pass, ch) : ch \in OutChannels(call)})
    BY DEF Point, pass
  <2>2. writes' = writes + Cardinality(OutChannels(call))
    BY DEF Point
  <2> HIDE DEF With, cells
  <2>3. mem' = With(C, cells)
    BY <1>4, <1>7, <2>1
  <2> QED
    BY <1>4, <2>2, <2>3 DEF With
<1>9. \A ch \in C : channel(Cell(call, p, ch)) = ch
  <2> SUFFICES ASSUME NEW ch \in C PROVE channel(Cell(call, p, ch)) = ch
    OBVIOUS
  <2>1. \A dh \in C : Place(pass, dh) = Cell(call, p, ch) <=> dh = ch
    <3>1. \A dh \in C : Cell(call, p, dh) = Cell(call, p, ch) => dh = ch
      BY <1>1, <1>2, <1>3, CellsApart DEF C
    <3> QED
      BY <1>6, <3>1
  <2> QED
    BY <2>1
<1> HIDE DEF channel, exact
<1>10. DOMAIN mem = {Cell(call, q, ch) : q \in Computed, ch \in C}
  BY <1>1 DEF MemoryExact, C
<1>11. DOMAIN mem' = DOMAIN mem \cup cells
  BY <1>8
<1> HIDE DEF cells
<1>12. DOMAIN mem' = {Cell(call, q, ch) : q \in Computed', ch \in C}
  BY <1>3, <1>10, <1>11 DEF cells
<1>13. \A q \in Computed, ch \in C : Cell(call, q, ch) \notin cells
  <2>1. \A q \in Computed : q \in PointsOf(call) /\ q # p
    BY <1>3 DEF Computed
  <2>2. \A q \in PointsOf(call), ch, dh \in C : Cell(call, q, ch) = Cell(call, p, dh) => q = p
    BY <1>1, <1>2, <1>3, CellsApart DEF C
  <2> QED
    BY <2>1, <2>2 DEF cells
<1>14. \A q \in Computed', ch \in C : mem'[Cell(call, q, ch)] = exact(q, ch)
  <2> SUFFICES ASSUME NEW q \in Computed', NEW ch \in C
               PROVE  mem'[Cell(call, q, ch)] = exact(q, ch)
    OBVIOUS
  <2>1. CASE q = p
    <3>1. Cell(call, p, ch) \in cells
      BY DEF cells
    <3> QED
      BY <1>6, <1>8, <1>9, <2>1, <3>1
  <2>2. CASE q \in Computed
    <3>1. Cell(call, q, ch) \in DOMAIN mem /\ Cell(call, q, ch) \notin cells
      BY <1>10, <1>13, <2>2
    <3>2. mem[Cell(call, q, ch)] = exact(q, ch)
      BY <1>1, <2>2 DEF MemoryExact, C, exact
    <3> QED
      BY <1>8, <3>1, <3>2
  <2> QED
    BY <1>3, <2>1, <2>2
<1>15. IsFiniteSet(DOMAIN mem') /\ writes' = Cardinality(DOMAIN mem')
  <2>1. IsFiniteSet(DOMAIN mem) /\ writes = Cardinality(DOMAIN mem)
    BY <1>1 DEF MemoryExact
  <2>2. IsFiniteSet(cells) /\ Cardinality(cells) = Cardinality(C)
    BY <1>1, <1>2, <1>3, CellsOfPoint DEF cells, C
  <2>3. DOMAIN mem \cap cells = {}
    BY <1>10, <1>13
  <2>4. /\ IsFiniteSet(DOMAIN mem \cup cells)
        /\ Cardinality(DOMAIN mem \cup cells)
             = Cardinality(DOMAIN mem) + Cardinality(cells) - Cardinality(DOMAIN mem \cap cells)
    BY <2>1, <2>2, FS_Union
  <2>5. Cardinality({}) = 0 /\ Cardinality(DOMAIN mem) \in Nat /\ Cardinality(cells) \in Nat
    BY <2>1, <2>2, FS_EmptySet, FS_CardinalityType
  <2>6. Cardinality(DOMAIN mem') = Cardinality(DOMAIN mem) + Cardinality(C)
    <3> DEFINE x == Cardinality(DOMAIN mem)
               y == Cardinality(cells)
               z == Cardinality(DOMAIN mem \cup cells)
    <3>1. z = x + y - 0 /\ x \in Nat /\ y \in Nat
      BY <2>3, <2>4, <2>5
    <3>2. z = x + y
      <4> HIDE DEF x, y, z
      <4> QED
        BY <3>1
    <3> QED
      BY <1>11, <2>2, <3>2
  <2> QED
    BY <1>8, <1>11, <2>1, <2>4, <2>6
<1> QED
  BY <1>1, <1>12, <1>14, <1>15 DEF MemoryExact, C, exact

LEMMA LoopInductive ==
  ASSUME \A c \in Calls : SizedCall(c)
  PROVE  Spec => []LoopInv
<1>1. Init => LoopInv
  BY DEF Init, LoopInv
<1>2. ASSUME LoopInv, Running, [Next]_vars PROVE LoopInv'
  <2>1. CASE Refuse
    <3>1. Check(call) \notin {"called", "running", "OK"}
      BY <2>1 DEF Check, CheckLayout, Refuse
    <3> QED
      BY <1>2, <2>1, <3>1 DEF LoopInv, Refuse
  <2>2. CASE PrepareAndRun
    <3>1. /\ call \in Calls /\ Check(call) = "OK" /\ call' = call /\ at = <<0, 0>> /\ at' = at
          /\ mem = <<>> /\ mem' = mem /\ writes = 0 /\ writes' = writes
          /\ out' = Filled(call) /\ todo' = Passes(call) /\ status' = "running"
      BY <1>2, <2>2 DEF LoopInv, PrepareAndRun
    <3>2. Passes(call) \in Seq(PassSet(call))
      BY <3>1, PassesAreAxes
    <3>3. This' = 1
      BY <3>1, <3>2 DEF This
    <3>4. Computed' = {}
      <4>1. \A p \in PointsOf(call) : ~Before(p)'
        BY <3>1, <3>2, <3>3 DEF PointsOf, Before
      <4>2. Computed' = {p \in PointsOf(call) : Before(p)'}
        BY <3>1 DEF Computed
      <4> QED
        BY <4>1, <4>2
    <3>5. DOMAIN mem' = {} /\ IsFiniteSet({}) /\ Cardinality({}) = 0
      BY <3>1, FS_EmptySet
    <3>6. MemoryExact'
      BY <3>1, <3>4, <3>5 DEF MemoryExact
    <3>7. \A i \in 1 .. Len(todo') : todo'[i] = Passes(call)[This' - 1 + i]
      BY <3>1, <3>2, <3>3
    <3>8. Len(todo') <= Len(Passes(call)) /\ at \in Nat \X Nat /\ at'[2] = 0
      BY <3>1, <3>2
    <3> QED
      BY <3>1, <3>6, <3>7, <3>8 DEF LoopInv
  <2>3. CASE Point
    <3>1. /\ call' = call /\ out' = out /\ todo' = todo /\ status' = status /\ status = "running"
      BY <2>3 DEF Point
    <3>2. MemoryExact' /\ This' = This
      BY <1>2, <2>3, <3>1, PointAdds DEF This
    <3>3. at' \in Nat \X Nat /\ (at'[2] = 0 \/ at'[2] < Head(todo).w.out)
      BY <1>2, <2>3, PointsInOrder
    <3> QED
      BY <1>2, <3>1, <3>2, <3>3 DEF LoopInv
  <2>4. CASE EndPass
    <3>1. /\ call' = call /\ out' = out /\ status' = status /\ status = "running"
          /\ mem' = mem /\ writes' = writes /\ at' = <<0, 0>>
      BY <2>4 DEF EndPass
    <3>2. /\ Computed' = Computed /\ Len(todo') <= Len(Passes(call))
          /\ \A i \in 1 .. Len(todo') : todo'[i] = Passes(call)[This' - 1 + i]
      BY <1>2, <2>4, EndKeepsPoints
    <3>3. MemoryExact'
      BY <1>2, <3>1, <3>2 DEF LoopInv, MemoryExact
    <3>4. at' \in Nat \X Nat /\ at'[2] = 0
      BY <3>1
    <3> QED
      BY <1>2, <3>1, <3>2, <3>3, <3>4 DEF LoopInv
  <2>5. CASE Return
    <3>1. /\ call' = call /\ out' = out /\ status' = "OK" /\ status = "running" /\ todo = <<>>
          /\ mem' = mem /\ writes' = writes /\ at' = at /\ todo' = todo
      BY <2>5 DEF Return
    <3>2. This' = This /\ Computed' = Computed
      BY <3>1 DEF This, Computed, Before
    <3>3. MemoryExact'
      BY <1>2, <3>1, <3>2 DEF LoopInv, MemoryExact
    <3> QED
      BY <1>2, <3>1, <3>2, <3>3 DEF LoopInv
  <2>6. CASE UNCHANGED vars
    BY <1>2, <2>6 DEF vars, LoopInv, This, Computed, Before, MemoryExact
  <2> QED
    BY <1>2, <2>1, <2>2, <2>3, <2>4, <2>5, <2>6 DEF Next
<1> QED
  BY <1>1, <1>2, RunningInductive, PTL DEF Spec

-----------------------------------------------------------------------------
(* When a kernel returns OK, each element of the output sums up exactly    *)
(* the products of the reference, for every call whose output has the      *)
(* sizes it fills in.                                                      *)
THEOREM SumsExact ==
  ASSUME \A c \in Calls : SizedCall(c)
  PROVE  Spec => []ResultExact
<1>1. LoopInv => ResultExact
  <2> SUFFICES ASSUME LoopInv, status = "OK" PROVE ResultExact!2
    BY DEF ResultExact
  <2> DEFINE t == Filled(call)
             C == 0 .. call.filters - 1
  <2>1. /\ call \in Calls /\ Check(call) = "OK" /\ out = t /\ todo = <<>> /\ MemoryExact
    BY DEF LoopInv
  <2>2. SizedCall(call) /\ Passes(call) \in Seq(PassSet(call))
    BY <2>1, PassesAreAxes
  <2>3. Computed = PointsOf(call)
    <3>1. This = Len(Passes(call)) + 1 /\ DOMAIN Passes(call) = 1 .. Len(Passes(call))
      BY <2>1, <2>2 DEF This
    <3>2. \A p \in PointsOf(call) : Before(p)
      BY <2>2, <3>1 DEF PointsOf, Before
    <3> QED
      BY <3>2 DEF Computed
  <2>4. t.shape[3] = call.filters
    BY <2>1, <2>2, FilledIn
  <2>5. /\ \A p \in PointsOf(call) :
             SpotRow(call, p) \in 0 .. t.shape[1] - 1 /\ SpotColumn(call, p) \in 0 .. t.shape[2] - 1
        /\ \A x \in 0 .. t.shape[1] - 1, y \in 0 .. t.shape[2] - 1 :
             \E p \in PointsOf(call) : SpotRow(call, p) = x /\ SpotColumn(call, p) = y
    BY <2>1, <2>2, PointsDivideOutput
  <2> HIDE DEF t, C
  <2>6. OutPositions = {<<x, y, ch, 0>> : x \in 0 .. t.shape[1] - 1, y \in 0 .. t.shape[2] - 1, ch \in C}
    BY <2>1, <2>4 DEF OutPositions, C
  <2>7. \A p \in PointsOf(call), ch \in C :
          LET q == <<SpotRow(call, p), SpotColumn(call, p), ch, 0>>
          IN  q \in OutPositions /\ Offset(out, q) = Cell(call, p, ch)
    BY <2>1, <2>5, <2>6 DEF Cell, t
  <2>8. ASSUME NEW q \in OutPositions
        PROVE  \E p \in PointsOf(call), ch \in C :
                 /\ q = <<SpotRow(call, p), SpotColumn(call, p), ch, 0>>
                 /\ q[1] = SpotRow(call, p) /\ q[2] = SpotColumn(call, p) /\ q[3] = ch
                 /\ Offset(out, q) = Cell(call, p, ch)
    <3>1. PICK x \in 0 .. t.shape[1] - 1, y \in 0 .. t.shape[2] - 1, ch \in C : q = <<x, y, ch, 0>>
      BY <2>6
    <3>2. PICK p \in PointsOf(call) : SpotRow(call, p) = x /\ SpotColumn(call, p) = y
      BY <2>5
    <3> QED
      BY <2>7, <3>1, <3>2
  <2>9. DOMAIN mem = {Offset(out, q) : q \in OutPositions}
    <3>1. DOMAIN mem = {Cell(call, p, ch) : p \in PointsOf(call), ch \in C}
      BY <2>1, <2>3 DEF MemoryExact, C
    <3>2. ASSUME NEW i \in DOMAIN mem PROVE i \in {Offset(out, q) : q \in OutPositions}
      <4>1. PICK p \in PointsOf(call), ch \in C : i = Cell(call, p, ch)
        BY <3>1
      <4> DEFINE q == <<SpotRow(call, p), SpotColumn(call, p), ch, 0>>
      <4>2. q \in OutPositions /\ Offset(out, q) = i
        BY <2>7, <4>1
      <4> HIDE DEF q
      <4> QED
        BY <4>2
    <3>3. \A q \in OutPositions : Offset(out, q) \in DOMAIN mem
      BY <2>8, <3>1
    <3> QED
      BY <3>2, <3>3
  <2>10. ASSUME NEW q \in OutPositions
         PROVE  mem[Offset(out, q)] = Reference(call, q[1], q[2], q[3])
    <3>1. \A p \in PointsOf(call) : \A ch \in C :
            mem[Cell(call, p, ch)] = Reference(call, SpotRow(call, p), SpotColumn(call, p), ch)
      BY <2>1, <2>3 DEF MemoryExact, C
    <3> QED
      BY <2>8, <3>1
  <2> QED
    BY <2>9, <2>10
<1> QED
  BY <1>1, LoopInductive, PTL

(* Nothing is written outside of the output buffer, nor read that input    *)
(* and kernel do not have, at any moment of a call.                        *)
THEOREM StaysInside ==
  ASSUME \A c \in Calls : SizedCall(c)
  PROVE  Spec => []InsideBuffers
<1>1. LoopInv => InsideBuffers
  <2> SUFFICES ASSUME LoopInv, NEW i \in DOMAIN mem
               PROVE  /\ i >= 0 /\ (i + 1) * out.elem <= out.capacity
                      /\ mem[i].rows \subseteq (0 .. call.h.in - 1) \X (0 .. call.h.kernel - 1)
                      /\ mem[i].clmns \subseteq (0 .. call.w.in - 1) \X (0 .. call.w.kernel - 1)
                      /\ mem[i].channels \subseteq (0 .. call.in_ch - 1) \X (0 .. call.w_ch - 1)
                      /\ mem[i].filter < call.filters
    BY DEF InsideBuffers
  <2>1. /\ call \in Calls /\ Check(call) = "OK" /\ out = Filled(call) /\ MemoryExact
    <3>1. status \in {"running", "OK"}
      BY DEF LoopInv
    <3> QED
      BY <3>1 DEF LoopInv
  <2>2. SizedCall(call) /\ ChannelsMatch(call) /\ call.filters \in Nat
    BY <2>1, CallsAssumption DEF Check
  <2>3. PICK p \in Computed, ch \in 0 .. call.filters - 1 : i = Cell(call, p, ch)
    BY <2>1 DEF MemoryExact
  <2>4. p \in PointsOf(call)
    BY DEF Computed
  <2>5. mem[i] = Reference(call, SpotRow(call, p), SpotColumn(call, p), ch)
    BY <2>1, <2>3 DEF MemoryExact
  <2>6. i >= 0 /\ (i + 1) * out.elem <= out.capacity
    BY <2>1, <2>2, <2>3, <2>4, CellsApart
  <2>7. \A a, o : AxisReference(call.kind, a, o) \subseteq (0 .. a.in - 1) \X (0 .. a.kernel - 1)
    BY DEF AxisReference, Spread, Met, WindowOf
  <2>8. ChannelReference(call, ch) \subseteq (0 .. call.in_ch - 1) \X (0 .. call.w_ch - 1)
    BY <2>1, <2>2, ChannelsExact
  <2>9. ch < call.filters
    BY <2>2
  <2> QED
    BY <2>5, <2>6, <2>7, <2>8, <2>9 DEF Reference, Sum
<1> QED
  BY <1>1, LoopInductive, PTL

(* No element is computed twice, neither within a pass of the loops nor in *)
(* two passes of a transposed convolution.                                 *)
THEOREM NothingTwice ==
  ASSUME \A c \in Calls : SizedCall(c)
  PROVE  Spec => []ComputedOnce
<1>1. LoopInv => ComputedOnce
  <2> SUFFICES ASSUME LoopInv PROVE writes = Cardinality(DOMAIN mem)
    BY DEF ComputedOnce
  <2>1. CASE status \in {"running", "OK"}
    BY <2>1 DEF LoopInv, MemoryExact
  <2>2. CASE status \notin {"running", "OK"}
    <3>1. DOMAIN mem = {} /\ writes = 0
      BY <2>2 DEF LoopInv
    <3> QED
      BY <3>1, FS_EmptySet
  <2> QED
    BY <2>1, <2>2
<1> QED
  BY <1>1, LoopInductive, PTL
=============================================================================
