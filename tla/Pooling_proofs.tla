--------------------------- MODULE Pooling_proofs ----------------------------
(***************************************************************************)
(* That the middle and the four borders of a pooling kernel make up the    *)
(* whole output, and that each element of it comes from the window of the  *)
(* input it stands for: for every size, stride and padding of the axes.    *)
(*                                                                         *)
(* The proof follows the code.  An axis as it is used is in balance: what  *)
(* its outputs require is the input and its padding, neither more nor      *)
(* less.  An axis in balance looks the same from its other end, so a view  *)
(* that is rotated shows the windows of the output that a border writes.   *)
(***************************************************************************)
EXTENDS Pooling, Access_proofs, FiniteSetTheorems, SequenceTheorems

(* What the outputs of an axis need is what there is. *)
Balanced(a) ==
  /\ a \in [in : Nat \ {0}, kernel : Nat \ {0}, stride : Nat \ {0}, pre : Nat, post : Nat,
            out : Nat \ {0}]
  /\ a.pre < a.kernel /\ a.post < a.kernel
  /\ (a.out - 1) * a.stride + a.kernel = a.in + a.pre + a.post

(* The elements of the input in the window of an output, from the first    *)
(* one to the one behind the last.                                         *)
First(a, o) == Most(o * a.stride - a.pre, 0)

Behind(a, o) == Least(o * a.stride - a.pre + a.kernel, a.in)

(* The outputs whose window begins in front of the input, and those whose  *)
(* window ends behind it.                                                  *)
Before(a, o) == o < Border(a)

After(a, o) == o >= a.out - Border(Flip(a))

-----------------------------------------------------------------------------
(* Axes.                                                                   *)

LEMMA UsedBalanced ==
  ASSUME NEW c \in Calls, Check(c) = "OK", NEW a \in {c.h, c.w}, OutSize(a) > 0
  PROVE  /\ Balanced(Used(a)) /\ Used(a).out = OutSize(a) /\ Used(a).in <= a.in
         /\ IsCut(WindowOf(Used(a)), WindowOf(a), OutSize(a))
         /\ IsWindow(WindowOf(a))
<1> DEFINE u == Used(a)
           n == OutSize(a)
           s == a.stride
           sum == a.in + a.pre + a.post + s - a.kernel
<1>1. /\ a.in \in Nat \ {0} /\ a.kernel \in Nat \ {0} /\ a.stride \in Nat \ {0}
      /\ a.pre \in 0 .. a.kernel - 1 /\ a.post \in 0 .. a.kernel - 1
  <2>1. /\ a \in [in : Nat, kernel : Nat, stride : Nat, pre : Nat, post : Nat]
        /\ a.in > 0 /\ a.kernel > 0
    BY CallsAssumption
  <2>2. ~(a.pre >= a.kernel \/ a.post >= a.kernel \/ a.stride = 0)
    BY DEF Check
  <2> QED
    BY <2>1, <2>2
<1>2. sum \in Int /\ n = IF sum >= 0 THEN sum \div s ELSE 0 - ((0 - sum) \div s)
  BY <1>1 DEF OutSize
<1>3. sum >= 0
  <2> SUFFICES ASSUME sum < 0 PROVE FALSE
    BY <1>2
  <2>1. 0 - sum \in Nat /\ (0 - sum) \div s \in Nat
    BY <1>1, <1>2
  <2> QED
    BY <1>2, <2>1
<1>4. PICK r \in 0 .. s - 1 : sum = n * s + r
  <2>1. sum \in Nat /\ s \in Nat \ {0} /\ n = sum \div s
    BY <1>1, <1>2, <1>3
  <2> HIDE DEF sum, s, n
  <2>2. sum = (sum \div s) * s + (sum % s) /\ sum % s \in 0 .. s - 1
    BY <2>1
  <2> QED
    BY <2>1, <2>2
<1>5. n \in Nat \ {0} /\ n * s \in Nat /\ (n - 1) * s = n * s - s /\ (n - 1) * s \in Nat
  <2>1. n \in Nat \ {0}
    BY <1>1, <1>2, <1>3
  <2> QED
    BY <1>1, <2>1, OneLess
<1>6. /\ WindowOf(a).in = a.in /\ WindowOf(a).kernel = a.kernel /\ WindowOf(a).stride = s
      /\ WindowOf(a).dilation = 1 /\ WindowOf(a).pad = a.pre
  BY DEF WindowOf
<1>7. Required(WindowOf(a), n) = n * s + a.kernel - s
  BY <1>1, <1>5, <1>6 DEF Required, EffectiveKernel
<1>8. /\ u.in = UsedSize(WindowOf(a), n) /\ u.kernel = a.kernel /\ u.stride = s /\ u.pre = a.pre
      /\ u.out = n /\ u.post = Most(Required(WindowOf(a), n) - a.in - a.pre, 0)
  BY DEF Used
<1>9. u.in = IF a.post < r THEN a.in + (a.post - r) ELSE a.in
  BY <1>1, <1>4, <1>5, <1>6, <1>7, <1>8 DEF UsedSize
<1>10. u.post = IF a.post < r THEN 0 ELSE a.post - r
  BY <1>1, <1>4, <1>5, <1>7, <1>8 DEF Most
<1> HIDE DEF u, n, sum
<1>11. Balanced(u)
  <2>1. a.in + a.pre + a.post = (n - 1) * s + r + a.kernel
    BY <1>1, <1>4, <1>5 DEF sum
  <2>2. (u.out - 1) * u.stride = (n - 1) * s
    BY <1>8
  <2> DEFINE m == (n - 1) * s
  <2>3. m \in Nat /\ a.in + a.pre + a.post = m + r + a.kernel
    BY <1>5, <2>1
  <2> HIDE DEF m
  <2>4. u.in \in Nat \ {0} /\ u.post \in Nat /\ u.post < a.kernel
    BY <1>1, <1>9, <1>10, <2>3
  <2>5. u.pre + u.in + u.post = m + a.kernel
    BY <1>1, <1>8, <1>9, <1>10, <2>3
  <2>6. u \in [in : Nat \ {0}, kernel : Nat \ {0}, stride : Nat \ {0}, pre : Nat, post : Nat,
               out : Nat \ {0}]
    <3>1. u = [in |-> u.in, kernel |-> u.kernel, stride |-> u.stride, pre |-> u.pre,
               post |-> u.post, out |-> u.out]
      BY DEF u, Used
    <3> QED
      BY <1>1, <1>5, <1>8, <2>4, <3>1
  <2>7. u.pre < u.kernel /\ u.post < u.kernel
    BY <1>1, <1>8, <2>4
  <2> QED
    BY <1>1, <1>8, <2>2, <2>4, <2>5, <2>6, <2>7 DEF Balanced, m
<1>12. u.in <= a.in
  BY <1>1, <1>9
<1>13. IsCut(WindowOf(u), WindowOf(a), n) /\ IsWindow(WindowOf(a))
  BY <1>1, <1>6, <1>8 DEF IsCut, IsWindow, WindowOf
<1> QED
  BY <1>8, <1>11, <1>12, <1>13 DEF u, n

LEMMA FlipBalanced ==
  ASSUME NEW a, Balanced(a)
  PROVE  /\ Balanced(Flip(a)) /\ Flip(Flip(a)) = a
         /\ Flip(a).in = a.in /\ Flip(a).kernel = a.kernel /\ Flip(a).stride = a.stride
         /\ Flip(a).out = a.out /\ Flip(a).pre = a.post /\ Flip(a).post = a.pre
<1>1. a \in [in : Nat \ {0}, kernel : Nat \ {0}, stride : Nat \ {0}, pre : Nat, post : Nat,
             out : Nat \ {0}]
  BY DEF Balanced
<1>2. Flip(a) = [in |-> a.in, kernel |-> a.kernel, stride |-> a.stride, pre |-> a.post,
                 post |-> a.pre, out |-> a.out]
  BY <1>1 DEF Flip
<1>3. Flip(Flip(a)) = a
  BY <1>1, <1>2 DEF Flip
<1> QED
  BY <1>2, <1>3 DEF Balanced

(* Steps along an axis, and the same outputs counted from its other end.   *)
LEMMA Steps ==
  ASSUME NEW a, Balanced(a), NEW o \in Nat
  PROVE  /\ o * a.stride \in Nat /\ o <= o * a.stride
         /\ Before(a, o) <=> o * a.stride < a.pre
         /\ Border(a) \in Nat
         /\ a.in + a.pre >= a.kernel =>
              (CentreEnd(a) \in Nat /\ (o < CentreEnd(a) <=> o * a.stride - a.pre + a.kernel <= a.in))
         /\ o < a.out =>
              /\ a.out - 1 - o \in 0 .. a.out - 1
              /\ (a.out - 1 - o) * a.stride = a.in + a.pre + a.post - a.kernel - o * a.stride
<1>1. /\ a.in \in Nat \ {0} /\ a.kernel \in Nat \ {0} /\ a.stride \in Nat \ {0}
      /\ a.pre \in Nat /\ a.post \in Nat /\ a.out \in Nat \ {0}
      /\ (a.out - 1) * a.stride + a.kernel = a.in + a.pre + a.post
  BY DEF Balanced
<1>2. o * a.stride \in Nat /\ o <= o * a.stride
  <2> DEFINE s == a.stride
  <2>1. s \in Nat /\ 1 \in Nat /\ 1 <= s
    BY <1>1
  <2> HIDE DEF s
  <2>2. 1 * o <= s * o /\ s * o \in Nat
    BY <2>1, ProductGrows
  <2> QED
    BY <2>1, <2>2 DEF s
<1>3. Border(a) \in Nat /\ (o < Border(a) <=> o * a.stride < a.pre)
  BY <1>1, StepsBelow DEF Border
<1>4. ASSUME a.in + a.pre >= a.kernel
      PROVE  CentreEnd(a) \in Nat /\ (o < CentreEnd(a) <=> o * a.stride - a.pre + a.kernel <= a.in)
  <2> DEFINE x == a.in + a.pre - a.kernel + 1
  <2>1. x \in Nat
    BY <1>1, <1>4
  <2>2. CeilDiv(x, a.stride) \in Nat /\ (o < CeilDiv(x, a.stride) <=> o * a.stride < x)
    BY <1>1, <2>1, StepsBelow
  <2> QED
    BY <1>1, <1>2, <2>2 DEF CentreEnd
<1>5. ASSUME o < a.out
      PROVE  /\ a.out - 1 - o \in 0 .. a.out - 1
             /\ (a.out - 1 - o) * a.stride = a.in + a.pre + a.post - a.kernel - o * a.stride
  <2> DEFINE x == (a.out - 1 - o) * a.stride
             y == (a.out - 1) * a.stride
             z == o * a.stride
  <2>1. x = y - z /\ z \in Nat /\ x \in Int /\ y \in Int
    BY <1>1
  <2>2. y + a.kernel = a.in + a.pre + a.post
    BY <1>1
  <2>3. a.in \in Int /\ a.pre \in Int /\ a.post \in Int /\ a.kernel \in Int
    BY <1>1
  <2> HIDE DEF x, y, z
  <2>4. x = a.in + a.pre + a.post - a.kernel - z
    BY <2>1, <2>2, <2>3
  <2> QED
    BY <1>1, <1>5, <2>4 DEF x, z
<1> QED
  BY <1>2, <1>3, <1>4, <1>5 DEF Before

(* An output near the end is one near the beginning of the flipped axis,   *)
(* and its window is the flipped one.                                      *)
LEMMA Mirror ==
  ASSUME NEW a, Balanced(a), NEW o \in 0 .. a.out - 1
  PROVE  LET m == a.out - 1 - o
         IN  /\ m \in 0 .. a.out - 1
             /\ First(Flip(a), m) = a.in - Behind(a, o)
             /\ Behind(Flip(a), m) = a.in - First(a, o)
             /\ After(a, o) <=> Before(Flip(a), m)
             /\ After(a, o) <=> o * a.stride - a.pre + a.kernel > a.in
<1> DEFINE m == a.out - 1 - o
           f == Flip(a)
<1>1. /\ Balanced(f) /\ f.in = a.in /\ f.kernel = a.kernel /\ f.stride = a.stride
      /\ f.out = a.out /\ f.pre = a.post /\ f.post = a.pre
  BY FlipBalanced
<1>2. /\ a.in \in Nat \ {0} /\ a.kernel \in Nat \ {0} /\ a.stride \in Nat \ {0}
      /\ a.pre \in Nat /\ a.post \in Nat /\ a.out \in Nat \ {0} /\ o \in Nat /\ o < a.out
  BY DEF Balanced
<1>3. /\ m \in 0 .. a.out - 1 /\ m \in Nat /\ o * a.stride \in Nat
      /\ m * a.stride = a.in + a.pre + a.post - a.kernel - o * a.stride
  BY <1>2, Steps
<1>4. Before(f, m) <=> m * a.stride < a.post
  BY <1>1, <1>3, Steps
<1>5. Border(f) \in Nat
  BY <1>1, <1>2, Steps
<1>6. After(a, o) <=> Before(f, m)
  BY <1>2, <1>5 DEF After, Before
<1> HIDE DEF m, f
<1>7. First(f, m) = a.in - Behind(a, o) /\ Behind(f, m) = a.in - First(a, o)
  <2> DEFINE x == m * a.stride
             y == o * a.stride
  <2>1. x \in Int /\ y \in Nat /\ x = a.in + a.pre + a.post - a.kernel - y
    BY <1>2, <1>3
  <2>2. m * f.stride = x /\ First(a, o) = Most(y - a.pre, 0) /\ Behind(a, o) = Least(y - a.pre + a.kernel, a.in)
    BY <1>1 DEF First, Behind
  <2>3. First(f, m) = Most(x - a.post, 0) /\ Behind(f, m) = Least(x - a.post + a.kernel, a.in)
    BY <1>1, <2>2 DEF First, Behind
  <2> HIDE DEF x, y
  <2> QED
    BY <1>2, <2>1, <2>2, <2>3 DEF Most, Least
<1> QED
  BY <1>2, <1>3, <1>4, <1>6, <1>7 DEF m, f

(* The valid area of a window is its part on the input, which is not empty *)
(* for an output, nor for one that begins in front of the input.           *)
LEMMA AreaOnAxis ==
  ASSUME NEW a, Balanced(a), NEW o \in Nat
  PROVE  LET p == WindowOf(a)
         IN  /\ IsWindow(p)
             /\ Begin(p, o) + KernelBefore(p, o) = First(a, o)
             /\ AreaSize(p, o) = Behind(a, o) - First(a, o)
             /\ First(a, o) \in Nat /\ Behind(a, o) \in Int /\ Behind(a, o) <= a.in
             /\ KernelBefore(p, o) = IF Before(a, o) THEN a.pre - o * a.stride ELSE 0
             /\ Before(a, o) \/ o < a.out => First(a, o) < Behind(a, o)
             /\ o < a.out /\ ~Before(a, o) /\ ~After(a, o) =>
                  AreaSize(p, o) = a.kernel /\ First(a, o) = o * a.stride - a.pre
<1> DEFINE p == WindowOf(a)
           b == o * a.stride - a.pre
<1>1. /\ a.in \in Nat \ {0} /\ a.kernel \in Nat \ {0} /\ a.stride \in Nat \ {0}
      /\ a.pre \in Nat /\ a.post \in Nat /\ a.out \in Nat \ {0}
      /\ a.pre < a.kernel /\ a.post < a.kernel
      /\ (a.out - 1) * a.stride + a.kernel = a.in + a.pre + a.post
  BY DEF Balanced
<1>2. /\ p.in = a.in /\ p.kernel = a.kernel /\ p.stride = a.stride /\ p.dilation = 1 /\ p.pad = a.pre
  BY DEF WindowOf
<1>3. IsWindow(p)
  BY <1>1, <1>2 DEF IsWindow
<1>4. o * a.stride \in Nat /\ (Before(a, o) <=> b < 0) /\ b \in Int
  BY <1>1, Steps
<1>5. Begin(p, o) = b
  BY <1>2 DEF Begin
<1>6. \A x \in Int : CeilDiv(x, 1) = x
  BY DEF CeilDiv
<1>7. EffectiveKernel(p) = a.kernel
  BY <1>1, <1>2 DEF EffectiveKernel
<1>8. KernelBefore(p, o) = IF b < 0 THEN -b ELSE 0
  <2>1. -Least(b, 0) \in Int /\ -Least(b, 0) = IF b < 0 THEN -b ELSE 0
    BY <1>4, LeastOf
  <2> QED
    BY <1>2, <1>5, <1>6, <2>1 DEF KernelBefore
<1>9. KernelBehind(p, o) = IF b + a.kernel > a.in THEN b + a.kernel - a.in ELSE 0
  <2> DEFINE y == a.in - (b + a.kernel)
  <2>1. y \in Int
    BY <1>1, <1>4
  <2>2. -Least(y, 0) \in Int /\ -Least(y, 0) = IF y < 0 THEN -y ELSE 0
    BY <2>1, LeastOf
  <2>3. KernelBehind(p, o) = -Least(y, 0)
    BY <1>2, <1>5, <1>6, <1>7, <2>2 DEF KernelBehind
  <2> HIDE DEF y
  <2>4. KernelBehind(p, o) = IF y < 0 THEN -y ELSE 0
    BY <2>2, <2>3
  <2> QED
    BY <1>1, <1>4, <2>4 DEF y
<1>10. First(a, o) = (IF b < 0 THEN 0 ELSE b) /\ Behind(a, o) = (IF b + a.kernel > a.in THEN a.in ELSE b + a.kernel)
  BY <1>1, <1>4 DEF First, Behind, Most, Least
<1>11. ASSUME o < a.out PROVE b <= a.in + a.post - a.kernel
  <2>1. o \in Int /\ a.out - 1 \in Int /\ o <= a.out - 1
    BY <1>1, <1>11
  <2>2. o * a.stride <= (a.out - 1) * a.stride /\ (a.out - 1) * a.stride \in Int
    BY <1>1, <2>1, Monotone
  <2> QED
    BY <1>1, <1>4, <2>2
<1>12. ASSUME o < a.out PROVE After(a, o) <=> b + a.kernel > a.in
  <2>1. o \in 0 .. a.out - 1
    BY <1>1, <1>12
  <2> QED
    BY <2>1, Mirror
<1>13. AreaSize(p, o) = a.kernel - KernelBefore(p, o) - KernelBehind(p, o)
  BY <1>2 DEF AreaSize
<1>14. b >= -a.pre
  BY <1>1, <1>4
<1> HIDE DEF b, p
<1>15. /\ Begin(p, o) + KernelBefore(p, o) = First(a, o)
       /\ AreaSize(p, o) = Behind(a, o) - First(a, o)
       /\ First(a, o) \in Nat /\ Behind(a, o) \in Int /\ Behind(a, o) <= a.in
  BY <1>1, <1>4, <1>5, <1>8, <1>9, <1>10, <1>13
<1>16. Before(a, o) \/ o < a.out => First(a, o) < Behind(a, o)
  BY <1>1, <1>4, <1>10, <1>11, <1>14
<1>17. o < a.out /\ ~Before(a, o) /\ ~After(a, o) =>
         AreaSize(p, o) = a.kernel /\ First(a, o) = o * a.stride - a.pre
  BY <1>1, <1>4, <1>8, <1>9, <1>10, <1>12, <1>13 DEF b
<1>18. KernelBefore(p, o) = IF Before(a, o) THEN a.pre - o * a.stride ELSE 0
  BY <1>1, <1>4, <1>8 DEF b
<1> QED
  BY <1>3, <1>15, <1>16, <1>17, <1>18 DEF p

(* What the reference says of the original axis.                           *)
LEMMA WindowIsRange ==
  ASSUME NEW c \in Calls, Check(c) = "OK", NEW a \in {c.h, c.w}, OutSize(a) > 0,
         NEW o \in 0 .. OutSize(a) - 1
  PROVE  {v[1] : v \in Met(WindowOf(a), o)} = First(Used(a), o) .. Behind(Used(a), o) - 1
<1> DEFINE u == Used(a)
           p == WindowOf(u)
           n == OutSize(a)
<1>1. /\ Balanced(u) /\ u.out = n /\ IsCut(p, WindowOf(a), n) /\ IsWindow(WindowOf(a))
  BY UsedBalanced
<1>2. n \in Nat /\ o \in Nat /\ u.kernel \in Nat
  BY <1>1 DEF Balanced
<1> HIDE DEF u, n
<1>3. Met(WindowOf(a), o) = Met(p, o)
  BY <1>1, <1>2, CutInput DEF n
<1>4. IsWindow(p) /\ Visited(p, o) = Met(p, o)
  BY <1>1, <1>2, AreaOnAxis, ValidAreaExact
<1> DEFINE f == First(u, o)
           e == Behind(u, o)
<1>5. /\ Begin(p, o) + KernelBefore(p, o) = f /\ AreaSize(p, o) = e - f /\ f \in Nat /\ e \in Int
      /\ p.dilation = 1 /\ KernelBefore(p, o) \in Nat
  <2>1. KernelBefore(p, o) \in Nat
    BY <1>2, <1>4, OnInput
  <2> QED
    BY <1>1, <1>2, <2>1, AreaOnAxis DEF WindowOf
<1> HIDE DEF p, f, e
<1>6. Begin(p, o) \in Int
  BY <1>2, <1>4 DEF Begin, IsWindow
<1>7. Visited(p, o) = {<<f + k, KernelBefore(p, o) + k>> : k \in 0 .. e - f - 1}
  BY <1>5, <1>6 DEF Visited
<1>8. {v[1] : v \in Visited(p, o)} = {f + k : k \in 0 .. e - f - 1}
  <2>1. ASSUME NEW v \in Visited(p, o) PROVE v[1] \in {f + k : k \in 0 .. e - f - 1}
    BY <1>7
  <2>2. ASSUME NEW k \in 0 .. e - f - 1 PROVE f + k \in {v[1] : v \in Visited(p, o)}
    <3> DEFINE v == <<f + k, KernelBefore(p, o) + k>>
    <3>1. v \in Visited(p, o) /\ v[1] = f + k
      BY <1>7
    <3> HIDE DEF v
    <3> QED
      BY <3>1
  <2> QED
    BY <2>1, <2>2
<1>9. {f + k : k \in 0 .. e - f - 1} = f .. e - 1
  <2>1. \A k \in 0 .. e - f - 1 : f + k \in f .. e - 1
    BY <1>5
  <2>2. \A i \in f .. e - 1 : i - f \in 0 .. e - f - 1 /\ i = f + (i - f)
    BY <1>5
  <2> QED
    BY <2>1, <2>2
<1> QED
  BY <1>3, <1>4, <1>8, <1>9 DEF u, f, e

-----------------------------------------------------------------------------
(* Rotations.                                                              *)

(* The position that position <<i, j>> of the n-th rotation of a view has  *)
(* in the view, of as many rows and columns.                               *)
Turned(n, rows, clmns, i, j) ==
  CASE n = 0 -> <<i, j>>
    [] n = 1 -> <<j, clmns - 1 - i>>
    [] n = 2 -> <<rows - 1 - i, clmns - 1 - j>>
    [] n = 3 -> <<rows - 1 - j, i>>

(* ... and the way back.                                                   *)
Back(n, rows, clmns, x, y) ==
  CASE n = 0 -> <<x, y>>
    [] n = 1 -> <<clmns - 1 - y, x>>
    [] n = 2 -> <<rows - 1 - x, clmns - 1 - y>>
    [] n = 3 -> <<y, rows - 1 - x>>

(* One is the inverse of the other.                                        *)
ThereAndBack(n, rows, clmns, i, j) ==
  LET t == Turned(n, rows, clmns, i, j)
      b == Back(n, rows, clmns, i, j)
  IN  /\ t[1] \in Int /\ t[2] \in Int /\ t = <<t[1], t[2]>>
      /\ b[1] \in Int /\ b[2] \in Int
      /\ Back(n, rows, clmns, t[1], t[2]) = <<i, j>>
      /\ Turned(n, rows, clmns, b[1], b[2]) = <<i, j>>

LEMMA TurnedBack ==
  ASSUME NEW n \in 0 .. 3, NEW rows \in Int, NEW clmns \in Int, NEW i \in Int, NEW j \in Int
  PROVE  ThereAndBack(n, rows, clmns, i, j)
<1>1. CASE n = 0
  BY <1>1 DEF Turned, Back, ThereAndBack
<1>2. CASE n = 1
  BY <1>2 DEF Turned, Back, ThereAndBack
<1>3. CASE n = 2
  BY <1>3 DEF Turned, Back, ThereAndBack
<1>4. CASE n = 3
  BY <1>4 DEF Turned, Back, ThereAndBack
<1> QED
  BY <1>1, <1>2, <1>3, <1>4

(* mli_prv_rotate_tensor_private: a cell of a rotated view is a cell of    *)
(* the view.                                                               *)
CellTurns(n, height, width, row, col, i, j) ==
  LET t == Turned(n, height, width, i, j)
  IN  Cell(Rotate(n, View(height, width, row, col)), i, j) = t[1] * row + t[2] * col

LEMMA RotatedCell ==
  ASSUME NEW n \in 0 .. 3, NEW height \in Int, NEW width \in Int, NEW row \in Int, NEW col \in Int,
         NEW i \in Int, NEW j \in Int
  PROVE  CellTurns(n, height, width, row, col, i, j)
<1> DEFINE v == View(height, width, row, col)
           x == Cell(Rotate(n, v), i, j)
           t == Turned(n, height, width, i, j)
<1> SUFFICES x = t[1] * row + t[2] * col
  BY DEF CellTurns
<1>1. v.ptr = 0 /\ v.height = height /\ v.width = width /\ v.row = row /\ v.col = col
  BY DEF View
<1>2. /\ (height - 1 - i) * row = row * (height - 1) - i * row
      /\ (height - 1 - j) * row = row * (height - 1) - j * row
      /\ (width - 1 - i) * col = col * (width - 1) - i * col
      /\ (width - 1 - j) * col = col * (width - 1) - j * col
      /\ i * (0 - row) = -(i * row) /\ j * (0 - row) = -(j * row)
      /\ i * (0 - col) = -(i * col) /\ j * (0 - col) = -(j * col)
      /\ row * (height - 1) \in Int /\ col * (width - 1) \in Int
      /\ i * row \in Int /\ j * row \in Int /\ i * col \in Int /\ j * col \in Int
  OBVIOUS
<1>3. CASE n = 0
  <2>1. x = 0 + i * row + j * col
    BY <1>1, <1>3 DEF Rotate, Cell
  <2>2. t[1] = i /\ t[2] = j
    BY <1>3 DEF Turned
  <2> QED
    BY <1>2, <2>1, <2>2
<1>4. CASE n = 1
  <2>1. x = (0 + col * (width - 1)) + i * (0 - col) + j * row
    BY <1>1, <1>4 DEF Rotate, Cell
  <2>2. t[1] = j /\ t[2] = width - 1 - i
    BY <1>4 DEF Turned
  <2> QED
    BY <1>2, <2>1, <2>2
<1>5. CASE n = 2
  <2>1. x = (0 + col * (width - 1) + row * (height - 1)) + i * (0 - row) + j * (0 - col)
    BY <1>1, <1>5 DEF Rotate, Cell
  <2>2. t[1] = height - 1 - i /\ t[2] = width - 1 - j
    BY <1>5 DEF Turned
  <2> QED
    BY <1>2, <2>1, <2>2
<1>6. CASE n = 3
  <2>1. x = (0 + row * (height - 1)) + i * col + j * (0 - row)
    BY <1>1, <1>6 DEF Rotate, Cell
  <2>2. t[1] = height - 1 - j /\ t[2] = i
    BY <1>6 DEF Turned
  <2> QED
    BY <1>2, <2>1, <2>2
<1> QED
  BY <1>3, <1>4, <1>5, <1>6

-----------------------------------------------------------------------------
(* The passes of a call: side 0 is the middle, the others the borders.     *)

Height(c) == Used(c.h)

Width(c) == Used(c.w)

InView(c) == View(Height(c).in, Width(c).in, c.row, c.col)

OutView(c) == View(Height(c).out, Width(c).out, c.out.mem_stride[1], c.out.mem_stride[2])

Side(c, s) ==
  IF s = 0
  THEN Pass(FALSE, <<Height(c), Width(c)>>, <<Border(Height(c)), CentreEnd(Height(c))>>,
            <<Border(Width(c)), CentreEnd(Width(c))>>, InView(c), OutView(c))
  ELSE BorderPass(s - 1, Height(c), Width(c), InView(c), OutView(c))

HasSide(c, s) ==
  IF s = 0 THEN HasCentre(Height(c), Width(c)) ELSE HasBorder(s - 1, Height(c), Width(c))

(* How often the views of a side are rotated.                              *)
Quarter(s) == IF s = 0 THEN 0 ELSE s - 1

(* The points of the loops, and where each of them is in the output.       *)
Points(c) ==
  {p \in (0 .. 4) \X Nat \X Nat :
     /\ HasSide(c, p[1])
     /\ Side(c, p[1]).row_beg <= p[2] /\ p[2] < Side(c, p[1]).row_end
     /\ Side(c, p[1]).clmn_beg <= p[3] /\ p[3] < Side(c, p[1]).clmn_end}

Spot(c, p) == Turned(Quarter(p[1]), Height(c).out, Width(c).out, p[2], p[3])

(* The outputs a side has to compute.                                      *)
Serves(c, s, x, y) ==
  LET top    == Before(Height(c), x)
      bottom == After(Height(c), x)
      left   == Before(Width(c), y)
      right  == After(Width(c), y)
  IN  CASE s = 0 -> ~top /\ ~bottom /\ ~left /\ ~right
        [] s = 1 -> top /\ (left \/ ~right)
        [] s = 2 -> right /\ ~bottom
        [] s = 3 -> bottom /\ ~left
        [] s = 4 -> left /\ ~top

(* A call whose output has elements, of a number that does not wrap.       *)
HasOutput(c) ==
  /\ Check(c) = "OK"
  /\ OutSize(c.h) \in 1 .. Modulus - 1 /\ OutSize(c.w) \in 1 .. Modulus - 1

LEMMA CallBalanced ==
  ASSUME NEW c \in Calls, HasOutput(c)
  PROVE  /\ Balanced(Height(c)) /\ Balanced(Width(c))
         /\ Height(c).out = OutSize(c.h) /\ Width(c).out = OutSize(c.w)
<1>1. OutSize(c.h) > 0 /\ OutSize(c.w) > 0
  BY DEF HasOutput
<1> QED
  BY <1>1, UsedBalanced DEF HasOutput, Height, Width

(* The axes of a side.                                                     *)
LEMMA SideAxes ==
  ASSUME NEW c, NEW s \in 0 .. 4
  PROVE  LET h == Height(c)
             w == Width(c)
             side == Side(c, s)
         IN  /\ s = 0 => side.h = h /\ side.w = w /\ ~side.border
                          /\ side.row_beg = Border(h) /\ side.row_end = CentreEnd(h)
                          /\ side.clmn_beg = Border(w) /\ side.clmn_end = CentreEnd(w)
             /\ s > 0 => side.border /\ side.row_beg = 0 /\ side.row_end = Border(side.h)
                          /\ side.clmn_beg = 0
             /\ s = 1 => side.h = h /\ side.w = w
                          /\ side.clmn_end = Most(Border(w), w.out - Border(Flip(w)))
             /\ s = 2 => side.h = Flip(w) /\ side.w = h
             /\ s = 3 => side.h = Flip(h) /\ side.w = Flip(w)
             /\ s = 4 => side.h = w /\ side.w = Flip(h)
             /\ s > 1 => side.clmn_end = side.w.out - Border(Flip(side.w))
             /\ side.in = Rotate(Quarter(s), InView(c)) /\ side.to = Rotate(Quarter(s), OutView(c))
<1> DEFINE h == Height(c)
           w == Width(c)
           side == Side(c, s)
<1>1. CASE s = 0
  <2>1. \A v : Rotate(0, v) = v
    BY DEF Rotate
  <2>2. side = Pass(FALSE, <<h, w>>, <<Border(h), CentreEnd(h)>>, <<Border(w), CentreEnd(w)>>,
                    InView(c), OutView(c))
    BY <1>1 DEF Side
  <2> HIDE DEF side, h, w
  <2> QED
    BY <1>1, <2>1, <2>2 DEF Pass, Quarter, h, w, side
<1>2. CASE s > 0
  <2> DEFINE axes == Axes(s - 1, h, w)
  <2>1. side = Pass(TRUE, axes, <<0, Border(axes[1])>>, <<0, BorderEnd(s - 1, axes)>>,
                    Rotate(s - 1, InView(c)), Rotate(s - 1, OutView(c)))
    <3>0. s # 0
      BY <1>2
    <3>1. side = BorderPass(s - 1, h, w, InView(c), OutView(c))
      BY <3>0, Zenon DEF Side
    <3> HIDE DEF side, h, w
    <3> QED
      BY <3>1 DEF BorderPass
  <2>2. /\ s = 1 => axes = <<h, w>> /\ s - 1 = 0
        /\ s = 2 => axes = <<Flip(w), h>>
        /\ s = 3 => axes = <<Flip(h), Flip(w)>>
        /\ s = 4 => axes = <<w, Flip(h)>>
        /\ s > 1 => s - 1 # 0
        /\ Quarter(s) = s - 1
    <3>1. s = 1 \/ s = 2 \/ s = 3 \/ s = 4
      BY <1>2
    <3> QED
      BY <3>1 DEF Axes, Quarter
  <2> HIDE DEF axes, side, h, w
  <2>3. /\ side.border /\ side.h = axes[1] /\ side.w = axes[2] /\ side.row_beg = 0
        /\ side.row_end = Border(axes[1]) /\ side.clmn_beg = 0 /\ side.clmn_end = BorderEnd(s - 1, axes)
        /\ side.in = Rotate(s - 1, InView(c)) /\ side.to = Rotate(s - 1, OutView(c))
    BY <2>1 DEF Pass
  <2>4. BorderEnd(s - 1, axes) = IF s - 1 = 0 THEN Most(Border(axes[2]), axes[2].out - Border(Flip(axes[2])))
                                 ELSE axes[2].out - Border(Flip(axes[2]))
    BY DEF BorderEnd
  <2> QED
    BY <1>2, <2>2, <2>3, <2>4 DEF h, w, side
<1> QED
  BY <1>1, <1>2

(* The outputs between Border and CentreEnd are those whose window lies on *)
(* the input.                                                              *)
LEMMA CentreServes ==
  ASSUME NEW a, Balanced(a), NEW o \in Nat
  PROVE  /\ a.in >= a.kernel =>
              (Border(a) <= o /\ o < CentreEnd(a) <=> o < a.out /\ ~Before(a, o) /\ ~After(a, o))
         /\ o < a.out /\ ~Before(a, o) /\ ~After(a, o) => a.in >= a.kernel
<1>1. /\ a.in \in Nat \ {0} /\ a.kernel \in Nat \ {0} /\ a.stride \in Nat \ {0}
      /\ a.pre \in Nat /\ a.post \in Nat /\ a.out \in Nat \ {0}
      /\ (a.out - 1) * a.stride + a.kernel = a.in + a.pre + a.post
  BY DEF Balanced
<1> DEFINE x == o * a.stride
           l == (a.out - 1) * a.stride
<1>2. x \in Nat /\ (Before(a, o) <=> x < a.pre) /\ Border(a) \in Nat
  BY Steps
<1>3. a.in >= a.kernel => CentreEnd(a) \in Nat /\ (o < CentreEnd(a) <=> x - a.pre + a.kernel <= a.in)
  BY <1>1, Steps
<1>4. o < a.out => (After(a, o) <=> x - a.pre + a.kernel > a.in)
  <2> SUFFICES ASSUME o < a.out PROVE After(a, o) <=> x - a.pre + a.kernel > a.in
    OBVIOUS
  <2>1. o \in 0 .. a.out - 1
    BY <1>1
  <2> QED
    BY <2>1, Mirror
<1>5. o >= a.out => x > l /\ l \in Int
  <2> SUFFICES ASSUME o >= a.out PROVE x > l /\ l \in Int
    BY <1>1
  <2>1. a.out - 1 \in Int /\ o \in Int /\ a.out - 1 < o
    BY <1>1
  <2>2. l \in Int /\ l + a.stride <= x
    BY <1>1, <2>1, Monotone
  <2> QED
    BY <1>1, <1>2, <2>2
<1>6. /\ a.in \in Int /\ a.kernel \in Int /\ a.pre \in Int /\ a.post \in Nat /\ a.out \in Int
      /\ l + a.kernel = a.in + a.pre + a.post
  BY <1>1
<1> HIDE DEF x, l
<1>7. Border(a) <= o <=> ~Before(a, o)
  BY <1>2 DEF Before
<1> QED
  BY <1>2, <1>3, <1>4, <1>5, <1>6, <1>7

(* At an end of an axis, seen from both sides.                             *)
LEMMA Ends ==
  ASSUME NEW a, Balanced(a), NEW o \in 0 .. a.out - 1
  PROVE  LET m == a.out - 1 - o
         IN  /\ m \in 0 .. a.out - 1
             /\ After(a, o) <=> Before(Flip(a), m)
             /\ Before(a, o) <=> After(Flip(a), m)
             /\ Border(a) \in Nat /\ Border(Flip(a)) \in Nat
<1> DEFINE m == a.out - 1 - o
           f == Flip(a)
<1>1. Balanced(f) /\ f.out = a.out /\ Flip(f) = a
  BY FlipBalanced
<1>2. m \in 0 .. a.out - 1 /\ (After(a, o) <=> Before(f, m))
  BY Mirror
<1>3. f.out - 1 - m = o
  BY <1>1 DEF Balanced
<1>4. After(f, m) <=> Before(a, o)
  BY <1>1, <1>2, <1>3, Mirror
<1>5. Border(a) \in Nat /\ Border(f) \in Nat
  BY <1>1, Steps, 0 \in Nat
<1> QED
  BY <1>2, <1>4, <1>5

(* The positions of the output that have to be computed by a side are      *)
(* points of its pass, and, unless a border is wider than the output, the  *)
(* points of a pass are such positions.                                    *)
LEMMA SideServes ==
  ASSUME NEW c \in Calls, HasOutput(c), NEW s \in 0 .. 4, NEW i \in Nat, NEW j \in Nat,
         NEW x, NEW y, <<x, y>> = Turned(Quarter(s), Height(c).out, Width(c).out, i, j)
  PROVE  LET h == Height(c)
             w == Width(c)
             inside == x \in 0 .. h.out - 1 /\ y \in 0 .. w.out - 1
             looped == /\ HasSide(c, s)
                       /\ Side(c, s).row_beg <= i /\ i < Side(c, s).row_end
                       /\ Side(c, s).clmn_beg <= j /\ j < Side(c, s).clmn_end
         IN  /\ inside /\ Serves(c, s, x, y) => looped
             /\ looped /\ BordersFit(c) => inside /\ Serves(c, s, x, y)
<1> DEFINE h == Height(c)
           w == Width(c)
           side == Side(c, s)
           inside == x \in 0 .. h.out - 1 /\ y \in 0 .. w.out - 1
           looped == /\ HasSide(c, s)
                     /\ side.row_beg <= i /\ i < side.row_end
                     /\ side.clmn_beg <= j /\ j < side.clmn_end
           fit == BordersFit(c)
<1>1. Balanced(h) /\ Balanced(w)
  BY CallBalanced
<1>2. /\ h.out \in Nat \ {0} /\ w.out \in Nat \ {0}
      /\ Border(h) \in Nat /\ Border(w) \in Nat /\ Border(Flip(h)) \in Nat /\ Border(Flip(w)) \in Nat
      /\ Flip(h).out = h.out /\ Flip(w).out = w.out /\ Flip(Flip(h)) = h /\ Flip(Flip(w)) = w
      /\ Balanced(Flip(h)) /\ Balanced(Flip(w))
  BY <1>1, FlipBalanced, Steps, 0 \in Nat DEF Balanced
<1>3. fit => /\ Border(h) <= h.out /\ Border(w) <= w.out
             /\ Border(Flip(h)) <= h.out /\ Border(Flip(w)) <= w.out
  BY DEF BordersFit, Height, Width
<1>4. \A a, o : Balanced(a) /\ o \in Nat /\ Before(a, o) => a.pre # 0
  <2> SUFFICES ASSUME NEW a, NEW o, Balanced(a), o \in Nat, Before(a, o) PROVE a.pre # 0
    OBVIOUS
  <2>1. o * a.stride \in Nat /\ o * a.stride < a.pre
    BY Steps
  <2> QED
    BY <2>1
<1> HIDE DEF side, h, w, fit
<1>5. CASE s = 0
  <2>1. x = i /\ y = j
    BY <1>5 DEF Turned, Quarter
  <2>2. /\ side.row_beg = Border(h) /\ side.row_end = CentreEnd(h)
        /\ side.clmn_beg = Border(w) /\ side.clmn_end = CentreEnd(w)
    BY <1>5, SideAxes DEF side, h, w
  <2>3. HasSide(c, s) <=> /\ h.in >= h.kernel /\ w.in >= w.kernel
                          /\ Border(h) < CentreEnd(h) /\ Border(w) < CentreEnd(w)
    BY <1>5 DEF HasSide, HasCentre, h, w
  <2>4. Serves(c, s, x, y) <=> ~Before(h, i) /\ ~After(h, i) /\ ~Before(w, j) /\ ~After(w, j)
    BY <1>5, <2>1 DEF Serves, h, w
  <2>5. /\ h.in >= h.kernel =>
             (Border(h) <= i /\ i < CentreEnd(h) <=> i < h.out /\ ~Before(h, i) /\ ~After(h, i))
        /\ i < h.out /\ ~Before(h, i) /\ ~After(h, i) => h.in >= h.kernel
        /\ h.in >= h.kernel => CentreEnd(h) \in Nat
    <3>1. h.in >= h.kernel => h.in + h.pre >= h.kernel
      BY <1>1 DEF Balanced
    <3> QED
      BY <1>1, <3>1, CentreServes, Steps
  <2>6. /\ w.in >= w.kernel =>
             (Border(w) <= j /\ j < CentreEnd(w) <=> j < w.out /\ ~Before(w, j) /\ ~After(w, j))
        /\ j < w.out /\ ~Before(w, j) /\ ~After(w, j) => w.in >= w.kernel
        /\ w.in >= w.kernel => CentreEnd(w) \in Nat
    <3>1. w.in >= w.kernel => w.in + w.pre >= w.kernel
      BY <1>1 DEF Balanced
    <3> QED
      BY <1>1, <3>1, CentreServes, Steps
  <2>7. inside <=> i < h.out /\ j < w.out
    BY <1>2, <2>1
  <2> HIDE DEF inside
  <2>8. looped <=> /\ h.in >= h.kernel /\ w.in >= w.kernel
                   /\ Border(h) <= i /\ i < CentreEnd(h) /\ Border(w) <= j /\ j < CentreEnd(w)
    BY <1>2, <2>2, <2>3, <2>5, <2>6
  <2> HIDE DEF looped
  <2>9. inside /\ Serves(c, s, x, y) <=> looped
    BY <2>4, <2>5, <2>6, <2>7, <2>8
  <2> QED
    BY <2>9 DEF inside, looped, side, h, w
<1>6. CASE s = 1
  <2>1. x = i /\ y = j
    BY <1>6 DEF Turned, Quarter
  <2>2. /\ side.row_beg = 0 /\ side.row_end = Border(h) /\ side.clmn_beg = 0
        /\ side.clmn_end = Most(Border(w), w.out - Border(Flip(w)))
    BY <1>6, SideAxes DEF side, h, w
  <2>3. HasSide(c, s) <=> h.pre # 0
    <3>1. Axes(0, h, w)[1] = h /\ s - 1 = 0
      BY <1>6 DEF Axes
    <3> QED
      BY <1>6, <3>1 DEF HasSide, HasBorder, h, w
  <2>4. Serves(c, s, x, y) <=> Before(h, i) /\ (Before(w, j) \/ ~After(w, j))
    BY <1>6, <2>1 DEF Serves, h, w
  <2>5. j < side.clmn_end <=> Before(w, j) \/ ~After(w, j)
    BY <1>2, <2>2 DEF Most, Before, After
  <2>6. i < side.row_end <=> Before(h, i)
    BY <2>2 DEF Before
  <2>7. looped <=> Before(h, i) /\ (Before(w, j) \/ ~After(w, j))
    BY <1>1, <1>4, <2>2, <2>3, <2>5, <2>6
  <2>8. inside <=> i < h.out /\ j < w.out
    BY <1>2, <2>1
  <2>9. fit /\ looped => i < h.out /\ j < w.out
    BY <1>2, <1>3, <2>7 DEF Before, After
  <2> QED
    BY <2>4, <2>7, <2>8, <2>9 DEF side, h, w, fit
<1>7. CASE s = 2
  <2>1. x = j /\ y = w.out - 1 - i
    BY <1>7 DEF Turned, Quarter, h, w
  <2>2. /\ side.row_beg = 0 /\ side.row_end = Border(Flip(w)) /\ side.clmn_beg = 0
        /\ side.clmn_end = h.out - Border(Flip(h))
    BY <1>7, SideAxes DEF side, h, w
  <2>3. HasSide(c, s) <=> Flip(w).pre # 0
    <3>1. Axes(1, h, w)[1] = Flip(w) /\ s - 1 = 1
      BY <1>7 DEF Axes
    <3> QED
      BY <1>7, <3>1 DEF HasSide, HasBorder, h, w
  <2>4. Serves(c, s, x, y) <=> After(w, y) /\ ~After(h, j)
    BY <1>7, <2>1 DEF Serves, h, w
  <2>5. j < side.clmn_end <=> ~After(h, j)
    BY <1>2, <2>2 DEF After
  <2>6. i < side.row_end <=> Before(Flip(w), i)
    BY <2>2 DEF Before
  <2>7. looped <=> Before(Flip(w), i) /\ ~After(h, j)
    BY <1>1, <1>2, <1>4, <2>2, <2>3, <2>5, <2>6
  <2>8. inside <=> i < w.out /\ j < h.out
    BY <1>2, <2>1
  <2>9. fit /\ looped => i < w.out /\ j < h.out
    BY <1>2, <1>3, <2>7 DEF Before, After
  <2>10. i < w.out => (After(w, y) <=> Before(Flip(w), i))
    <3> SUFFICES ASSUME i < w.out PROVE After(w, y) <=> Before(Flip(w), i)
      OBVIOUS
    <3>1. y \in 0 .. w.out - 1 /\ i = w.out - 1 - y
      BY <1>2, <2>1
    <3> QED
      BY <1>1, <3>1, Ends
  <2> QED
    BY <2>4, <2>7, <2>8, <2>9, <2>10 DEF side, h, w, fit
<1>8. CASE s = 3
  <2>1. x = h.out - 1 - i /\ y = w.out - 1 - j
    BY <1>8 DEF Turned, Quarter, h, w
  <2>2. /\ side.row_beg = 0 /\ side.row_end = Border(Flip(h)) /\ side.clmn_beg = 0
        /\ side.clmn_end = w.out - Border(w)
    BY <1>2, <1>8, SideAxes DEF side, h, w
  <2>3. HasSide(c, s) <=> Flip(h).pre # 0
    <3>1. Axes(2, h, w)[1] = Flip(h) /\ s - 1 = 2
      BY <1>8 DEF Axes
    <3> QED
      BY <1>8, <3>1 DEF HasSide, HasBorder, h, w
  <2>4. Serves(c, s, x, y) <=> After(h, x) /\ ~Before(w, y)
    BY <1>8 DEF Serves, h, w
  <2>5. j < side.clmn_end <=> ~After(Flip(w), j)
    BY <1>2, <2>2 DEF After
  <2>6. i < side.row_end <=> Before(Flip(h), i)
    BY <2>2 DEF Before
  <2>7. looped <=> Before(Flip(h), i) /\ ~After(Flip(w), j)
    BY <1>1, <1>2, <1>4, <2>2, <2>3, <2>5, <2>6
  <2>8. inside <=> i < h.out /\ j < w.out
    BY <1>2, <2>1
  <2>9. fit /\ looped => i < h.out /\ j < w.out
    BY <1>2, <1>3, <2>7 DEF Before, After
  <2>10. i < h.out => (After(h, x) <=> Before(Flip(h), i))
    <3> SUFFICES ASSUME i < h.out PROVE After(h, x) <=> Before(Flip(h), i)
      OBVIOUS
    <3>1. x \in 0 .. h.out - 1 /\ i = h.out - 1 - x
      BY <1>2, <2>1
    <3> QED
      BY <1>1, <3>1, Ends
  <2>11. j < w.out => (Before(w, y) <=> After(Flip(w), j))
    <3> SUFFICES ASSUME j < w.out PROVE Before(w, y) <=> After(Flip(w), j)
      OBVIOUS
    <3>1. y \in 0 .. w.out - 1 /\ j = w.out - 1 - y
      BY <1>2, <2>1
    <3> QED
      BY <1>1, <3>1, Ends
  <2> QED
    BY <2>4, <2>7, <2>8, <2>9, <2>10, <2>11 DEF side, h, w, fit
<1>9. CASE s = 4
  <2>1. x = h.out - 1 - j /\ y = i
    BY <1>9 DEF Turned, Quarter, h, w
  <2>2. /\ side.row_beg = 0 /\ side.row_end = Border(w) /\ side.clmn_beg = 0
        /\ side.clmn_end = h.out - Border(h)
    BY <1>2, <1>9, SideAxes DEF side, h, w
  <2>3. HasSide(c, s) <=> w.pre # 0
    <3>1. Axes(3, h, w)[1] = w /\ s - 1 = 3
      BY <1>9 DEF Axes
    <3> QED
      BY <1>9, <3>1 DEF HasSide, HasBorder, h, w
  <2>4. Serves(c, s, x, y) <=> Before(w, y) /\ ~Before(h, x)
    BY <1>9 DEF Serves, h, w
  <2>5. j < side.clmn_end <=> ~After(Flip(h), j)
    BY <1>2, <2>2 DEF After
  <2>6. i < side.row_end <=> Before(w, i)
    BY <2>2 DEF Before
  <2>7. looped <=> Before(w, i) /\ ~After(Flip(h), j)
    BY <1>1, <1>2, <1>4, <2>2, <2>3, <2>5, <2>6
  <2>8. inside <=> i < w.out /\ j < h.out
    BY <1>2, <2>1
  <2>9. fit /\ looped => i < w.out /\ j < h.out
    BY <1>2, <1>3, <2>7 DEF Before, After
  <2>10. j < h.out => (Before(h, x) <=> After(Flip(h), j))
    <3> SUFFICES ASSUME j < h.out PROVE Before(h, x) <=> After(Flip(h), j)
      OBVIOUS
    <3>1. x \in 0 .. h.out - 1 /\ j = h.out - 1 - x
      BY <1>2, <2>1
    <3> QED
      BY <1>1, <3>1, Ends
  <2> QED
    BY <2>1, <2>4, <2>7, <2>8, <2>9, <2>10 DEF side, h, w, fit
<1> QED
  BY <1>5, <1>6, <1>7, <1>8, <1>9

LEMMA BackInside ==
  ASSUME NEW n \in 0 .. 3, NEW rows \in Nat, NEW clmns \in Nat,
         NEW x \in 0 .. rows - 1, NEW y \in 0 .. clmns - 1
  PROVE  LET b == Back(n, rows, clmns, x, y)
         IN  b[1] \in Nat /\ b[2] \in Nat /\ Turned(n, rows, clmns, b[1], b[2]) = <<x, y>>
<1>1. x \in Int /\ y \in Int /\ rows \in Int /\ clmns \in Int
  OBVIOUS
<1>2. Turned(n, rows, clmns, Back(n, rows, clmns, x, y)[1], Back(n, rows, clmns, x, y)[2]) = <<x, y>>
  <2>1. ThereAndBack(n, rows, clmns, x, y)
    BY <1>1, TurnedBack
  <2> QED
    BY <2>1 DEF ThereAndBack
<1>3. n = 0 \/ n = 1 \/ n = 2 \/ n = 3
  OBVIOUS
<1>4. Back(n, rows, clmns, x, y)[1] \in Nat /\ Back(n, rows, clmns, x, y)[2] \in Nat
  BY <1>3 DEF Back
<1> QED
  BY <1>2, <1>4

(* The middle and the borders share the output out: together they compute  *)
(* all of it, and nothing else unless a border is wider than the output;   *)
(* and if opposite borders do not meet, no two of them the same element.   *)
LEMMA SidesShareOutput ==
  ASSUME NEW c \in Calls, HasOutput(c)
  PROVE  LET h == Height(c)
             w == Width(c)
         IN  /\ BordersFit(c) => \A p \in Points(c) :
                  /\ Spot(c, p) = <<Spot(c, p)[1], Spot(c, p)[2]>>
                  /\ Spot(c, p)[1] \in 0 .. h.out - 1 /\ Spot(c, p)[2] \in 0 .. w.out - 1
             /\ \A x \in 0 .. h.out - 1, y \in 0 .. w.out - 1 : \E p \in Points(c) : Spot(c, p) = <<x, y>>
             /\ BordersApart(c) =>
                  BordersFit(c) /\ \A p, q \in Points(c) : Spot(c, p) = Spot(c, q) => p = q
<1> DEFINE h == Height(c)
           w == Width(c)
<1>1. /\ Balanced(h) /\ Balanced(w) /\ h.out \in Nat \ {0} /\ w.out \in Nat \ {0}
  BY CallBalanced DEF Balanced
<1>2. \A s \in 0 .. 4 : Quarter(s) \in 0 .. 3
  BY DEF Quarter
<1>3. ASSUME NEW p \in Points(c)
      PROVE  /\ p[1] \in 0 .. 4 /\ p[2] \in Nat /\ p[3] \in Nat /\ p = <<p[1], p[2], p[3]>>
             /\ Spot(c, p) = <<Spot(c, p)[1], Spot(c, p)[2]>>
             /\ Back(Quarter(p[1]), h.out, w.out, Spot(c, p)[1], Spot(c, p)[2]) = <<p[2], p[3]>>
  <2>1. p[1] \in 0 .. 4 /\ p[2] \in Nat /\ p[3] \in Nat /\ p = <<p[1], p[2], p[3]>>
    BY DEF Points
  <2>2. Quarter(p[1]) \in 0 .. 3 /\ p[2] \in Int /\ p[3] \in Int /\ h.out \in Int /\ w.out \in Int
    BY <1>1, <1>2, <2>1
  <2>3. Spot(c, p) = Turned(Quarter(p[1]), h.out, w.out, p[2], p[3])
    BY DEF Spot
  <2> HIDE DEF h, w
  <2>4. ThereAndBack(Quarter(p[1]), h.out, w.out, p[2], p[3])
    BY <2>2, TurnedBack
  <2> QED
    BY <2>1, <2>3, <2>4 DEF ThereAndBack
<1>4. ASSUME NEW p \in Points(c), BordersFit(c)
      PROVE  /\ Spot(c, p)[1] \in 0 .. h.out - 1 /\ Spot(c, p)[2] \in 0 .. w.out - 1
             /\ Serves(c, p[1], Spot(c, p)[1], Spot(c, p)[2])
  <2>1. /\ HasSide(c, p[1])
        /\ Side(c, p[1]).row_beg <= p[2] /\ p[2] < Side(c, p[1]).row_end
        /\ Side(c, p[1]).clmn_beg <= p[3] /\ p[3] < Side(c, p[1]).clmn_end
    BY DEF Points
  <2>2. /\ p[1] \in 0 .. 4 /\ p[2] \in Nat /\ p[3] \in Nat
        /\ <<Spot(c, p)[1], Spot(c, p)[2]>> =
             Turned(Quarter(p[1]), Height(c).out, Width(c).out, p[2], p[3])
    BY <1>3 DEF Spot
  <2> QED
    BY <1>4, <2>1, <2>2, SideServes
<1>5. ASSUME NEW x \in 0 .. h.out - 1, NEW y \in 0 .. w.out - 1
      PROVE  \E p \in Points(c) : Spot(c, p) = <<x, y>>
  <2>1. PICK s \in 0 .. 4 : Serves(c, s, x, y)
    <3> DEFINE top    == Before(h, x)
               bottom == After(h, x)
               left   == Before(w, y)
               right  == After(w, y)
    <3>1. CASE ~top /\ ~bottom /\ ~left /\ ~right
      BY <3>1, 0 \in 0 .. 4 DEF Serves
    <3>2. CASE top /\ (left \/ ~right)
      BY <3>2, 1 \in 0 .. 4 DEF Serves
    <3>3. CASE right /\ ~bottom
      BY <3>3, 2 \in 0 .. 4 DEF Serves
    <3>4. CASE bottom /\ ~left
      BY <3>4, 3 \in 0 .. 4 DEF Serves
    <3>5. CASE left /\ ~top
      BY <3>5, 4 \in 0 .. 4 DEF Serves
    <3> QED
      BY <3>1, <3>2, <3>3, <3>4, <3>5
  <2> DEFINE b == Back(Quarter(s), h.out, w.out, x, y)
             p == <<s, b[1], b[2]>>
  <2>2. b[1] \in Nat /\ b[2] \in Nat /\ Turned(Quarter(s), h.out, w.out, b[1], b[2]) = <<x, y>>
    <3>1. Quarter(s) \in 0 .. 3 /\ h.out \in Nat /\ w.out \in Nat
      BY <1>1, <1>2
    <3> HIDE DEF h, w
    <3> QED
      BY <3>1, BackInside
  <2> HIDE DEF b
  <2>3. /\ HasSide(c, s)
        /\ Side(c, s).row_beg <= b[1] /\ b[1] < Side(c, s).row_end
        /\ Side(c, s).clmn_beg <= b[2] /\ b[2] < Side(c, s).clmn_end
    BY <2>1, <2>2, SideServes
  <2>4. p \in (0 .. 4) \X Nat \X Nat /\ p[1] = s /\ p[2] = b[1] /\ p[3] = b[2]
    BY <2>2
  <2> HIDE DEF p
  <2>5. p \in Points(c)
    BY <2>3, <2>4 DEF Points
  <2>6. Spot(c, p) = <<x, y>>
    BY <2>2, <2>4 DEF Spot
  <2> QED
    BY <2>5, <2>6
<1>6. ASSUME BordersApart(c) PROVE BordersFit(c)
  <2>1. /\ Border(h) \in Nat /\ Border(w) \in Nat /\ Border(Flip(h)) \in Nat /\ Border(Flip(w)) \in Nat
    BY <1>1, FlipBalanced, Steps, 0 \in Nat
  <2>2. Border(h) + Border(Flip(h)) <= h.out /\ Border(w) + Border(Flip(w)) <= w.out
    BY <1>6 DEF BordersApart, Height, Width
  <2> HIDE DEF h, w
  <2>3. /\ Border(h) <= h.out /\ Border(Flip(h)) <= h.out /\ Border(w) <= w.out /\ Border(Flip(w)) <= w.out
    BY <1>1, <2>1, <2>2
  <2> QED
    BY <2>3 DEF BordersFit, h, w, Height, Width
<1>7. ASSUME BordersApart(c), NEW p \in Points(c), NEW q \in Points(c), Spot(c, p) = Spot(c, q)
      PROVE  p = q
  <2> DEFINE x == Spot(c, p)[1]
             y == Spot(c, p)[2]
  <2>1. /\ x \in 0 .. h.out - 1 /\ y \in 0 .. w.out - 1
        /\ Serves(c, p[1], x, y) /\ Serves(c, q[1], x, y)
    BY <1>4, <1>6, <1>7
  <2>2. ~(Before(h, x) /\ After(h, x)) /\ ~(Before(w, y) /\ After(w, y))
    <3>1. /\ Border(h) \in Nat /\ Border(w) \in Nat /\ Border(Flip(h)) \in Nat /\ Border(Flip(w)) \in Nat
      BY <1>1, FlipBalanced, Steps, 0 \in Nat
    <3>2. Border(h) + Border(Flip(h)) <= h.out /\ Border(w) + Border(Flip(w)) <= w.out
      BY <1>7 DEF BordersApart, Height, Width
    <3> HIDE DEF h, w, x, y
    <3> QED
      BY <1>1, <2>1, <3>1, <3>2 DEF Before, After
  <2> HIDE DEF x, y
  <2>3. p[1] = q[1]
    <3> DEFINE T == Before(h, x)
               B == After(h, x)
               L == Before(w, y)
               R == After(w, y)
    <3>1. /\ Serves(c, 0, x, y) <=> ~T /\ ~B /\ ~L /\ ~R
          /\ Serves(c, 1, x, y) <=> T /\ (L \/ ~R)
          /\ Serves(c, 2, x, y) <=> R /\ ~B
          /\ Serves(c, 3, x, y) <=> B /\ ~L
          /\ Serves(c, 4, x, y) <=> L /\ ~T
      BY DEF Serves
    <3>2. \A s \in 0 .. 4 : s = 0 \/ s = 1 \/ s = 2 \/ s = 3 \/ s = 4
      OBVIOUS
    <3> HIDE DEF h, w, T, B, L, R
    <3>3. ~(T /\ B) /\ ~(L /\ R)
      BY <2>2 DEF T, B, L, R
    <3>4. p[1] \in 0 .. 4 /\ q[1] \in 0 .. 4
      BY <1>3
    <3> QED
      BY <2>1, <3>1, <3>2, <3>3, <3>4
  <2>4. <<p[2], p[3]>> = <<q[2], q[3]>>
    BY <1>3, <1>7, <2>3
  <2>5. p[2] = q[2] /\ p[3] = q[3]
    BY <2>4
  <2> QED
    BY <1>3, <2>3, <2>5
<1> QED
  BY <1>3, <1>4, <1>5, <1>6, <1>7

-----------------------------------------------------------------------------
(* What a point of a pass reads is the window of the output it writes.     *)

LEMMA Reflected ==
  ASSUME NEW a, Balanced(a), NEW o \in 0 .. a.out - 1, NEW k \in Int
  PROVE  LET m == a.out - 1 - o
             f == Flip(a)
         IN  /\ k \in First(f, m) .. Behind(f, m) - 1 <=> a.in - 1 - k \in First(a, o) .. Behind(a, o) - 1
             /\ Behind(f, m) - First(f, m) = Behind(a, o) - First(a, o)
<1> DEFINE m == a.out - 1 - o
           f == Flip(a)
<1>1. First(f, m) = a.in - Behind(a, o) /\ Behind(f, m) = a.in - First(a, o)
  BY Mirror
<1>2. First(a, o) \in Int /\ Behind(a, o) \in Int /\ a.in \in Int
  <2>1. o \in Nat
    BY DEF Balanced
  <2> QED
    BY <2>1, AreaOnAxis DEF Balanced
<1> HIDE DEF m, f
<1>3. /\ k \in First(f, m) .. Behind(f, m) - 1 <=> a.in - 1 - k \in First(a, o) .. Behind(a, o) - 1
      /\ Behind(f, m) - First(f, m) = Behind(a, o) - First(a, o)
  BY <1>1, <1>2
<1> QED
  BY <1>3 DEF m, f

(* The valid area of a point of a side, as part of the rotated input, is   *)
(* the window of an output turned the same way.                            *)
WindowTurns(c, s, i, j, x, y) ==
  LET h == Height(c)
      w == Width(c)
      A == First(Side(c, s).h, i) .. Behind(Side(c, s).h, i) - 1
      B == First(Side(c, s).w, j) .. Behind(Side(c, s).w, j) - 1
      X == First(h, x) .. Behind(h, x) - 1
      Y == First(w, y) .. Behind(w, y) - 1
  IN  /\ Balanced(Side(c, s).h) /\ Balanced(Side(c, s).w)
      /\ i < Side(c, s).h.out /\ j < Side(c, s).w.out
      /\ \A a \in A, b \in B : LET t == Turned(Quarter(s), h.in, w.in, a, b)
                               IN  t[1] \in X /\ t[2] \in Y
      /\ \A u \in X, v \in Y : \E a \in A, b \in B : Turned(Quarter(s), h.in, w.in, a, b) = <<u, v>>
      /\ \/ /\ Behind(Side(c, s).h, i) - First(Side(c, s).h, i) = Behind(h, x) - First(h, x)
            /\ Behind(Side(c, s).w, j) - First(Side(c, s).w, j) = Behind(w, y) - First(w, y)
         \/ /\ Behind(Side(c, s).h, i) - First(Side(c, s).h, i) = Behind(w, y) - First(w, y)
            /\ Behind(Side(c, s).w, j) - First(Side(c, s).w, j) = Behind(h, x) - First(h, x)

LEMMA WindowsTurn ==
  ASSUME NEW c \in Calls, HasOutput(c), NEW s \in 0 .. 4, NEW i \in Nat, NEW j \in Nat,
         NEW x \in 0 .. Height(c).out - 1, NEW y \in 0 .. Width(c).out - 1,
         <<x, y>> = Turned(Quarter(s), Height(c).out, Width(c).out, i, j)
  PROVE  WindowTurns(c, s, i, j, x, y)
<1> DEFINE h == Height(c)
           w == Width(c)
           side == Side(c, s)
           A == First(side.h, i) .. Behind(side.h, i) - 1
           B == First(side.w, j) .. Behind(side.w, j) - 1
           X == First(h, x) .. Behind(h, x) - 1
           Y == First(w, y) .. Behind(w, y) - 1
           turn(a, b) == Turned(Quarter(s), h.in, w.in, a, b)
<1>1. /\ Balanced(h) /\ Balanced(w) /\ h.out \in Nat \ {0} /\ w.out \in Nat \ {0}
      /\ h.in \in Int /\ w.in \in Int /\ Balanced(Flip(h)) /\ Balanced(Flip(w))
      /\ Flip(h).out = h.out /\ Flip(w).out = w.out
  BY CallBalanced, FlipBalanced DEF Balanced
<1>2. x \in Nat /\ y \in Nat /\ x < h.out /\ y < w.out
  BY <1>1
<1>3. /\ First(h, x) \in Int /\ Behind(h, x) \in Int /\ First(w, y) \in Int /\ Behind(w, y) \in Int
  BY <1>1, <1>2, AreaOnAxis
<1>4. X \subseteq Int /\ Y \subseteq Int
  BY <1>3
<1> HIDE DEF h, w
<1>5. ASSUME NEW k \in Int
      PROVE  /\ k \in First(Flip(h), h.out - 1 - x) .. Behind(Flip(h), h.out - 1 - x) - 1 <=> h.in - 1 - k \in X
             /\ k \in First(Flip(w), w.out - 1 - y) .. Behind(Flip(w), w.out - 1 - y) - 1 <=> w.in - 1 - k \in Y
  BY <1>1, Reflected DEF h, w
<1>6. /\ Behind(Flip(h), h.out - 1 - x) - First(Flip(h), h.out - 1 - x) = Behind(h, x) - First(h, x)
      /\ Behind(Flip(w), w.out - 1 - y) - First(Flip(w), w.out - 1 - y) = Behind(w, y) - First(w, y)
  BY <1>1, 0 \in Int, Reflected DEF h, w
<1>7. s = 0 \/ s = 1 => i = x /\ j = y /\ side.h = h /\ side.w = w
  BY SideAxes DEF Turned, Quarter, h, w
<1>8. s = 2 => i = w.out - 1 - y /\ j = x /\ side.h = Flip(w) /\ side.w = h
  BY <1>1, SideAxes DEF Turned, Quarter, h, w
<1>9. s = 3 => i = h.out - 1 - x /\ j = w.out - 1 - y /\ side.h = Flip(h) /\ side.w = Flip(w)
  BY <1>1, SideAxes DEF Turned, Quarter, h, w
<1>10. s = 4 => i = y /\ j = h.out - 1 - x /\ side.h = w /\ side.w = Flip(h)
  BY <1>1, SideAxes DEF Turned, Quarter, h, w
<1>11. s = 0 \/ s = 1 \/ s = 2 \/ s = 3 \/ s = 4
  OBVIOUS
<1> HIDE DEF side
<1>12. Balanced(side.h) /\ Balanced(side.w) /\ i < side.h.out /\ j < side.w.out
  BY <1>1, <1>2, <1>7, <1>8, <1>9, <1>10, <1>11
<1>13. /\ First(side.h, i) \in Int /\ Behind(side.h, i) \in Int
       /\ First(side.w, j) \in Int /\ Behind(side.w, j) \in Int
  BY <1>12, AreaOnAxis
<1>14. A \subseteq Int /\ B \subseteq Int
  BY <1>13
<1>15. \/ /\ Behind(side.h, i) - First(side.h, i) = Behind(h, x) - First(h, x)
          /\ Behind(side.w, j) - First(side.w, j) = Behind(w, y) - First(w, y)
       \/ /\ Behind(side.h, i) - First(side.h, i) = Behind(w, y) - First(w, y)
          /\ Behind(side.w, j) - First(side.w, j) = Behind(h, x) - First(h, x)
  BY <1>6, <1>7, <1>8, <1>9, <1>10, <1>11
<1>16. /\ \A a \in A, b \in B : turn(a, b)[1] \in X /\ turn(a, b)[2] \in Y
       /\ \A u \in X, v \in Y : \E a \in A, b \in B : turn(a, b) = <<u, v>>
  <2>1. CASE s = 0 \/ s = 1
    <3>1. A = X /\ B = Y /\ \A a, b : turn(a, b) = <<a, b>>
      BY <1>7, <2>1 DEF Turned, Quarter
    <3> HIDE DEF A, B, X, Y, turn
    <3> QED
      BY <3>1
  <2>2. CASE s = 2
    <3>1. /\ B = X /\ \A k \in Int : k \in A <=> w.in - 1 - k \in Y
          /\ \A a, b : turn(a, b) = <<b, w.in - 1 - a>>
      BY <1>5, <1>8, <2>2 DEF Turned, Quarter
    <3> HIDE DEF A, B, X, Y, turn
    <3>2. \A v \in Y : w.in - 1 - v \in A /\ w.in - 1 - (w.in - 1 - v) = v
      BY <1>1, <1>4, <3>1
    <3> QED
      BY <1>1, <1>14, <3>1, <3>2
  <2>3. CASE s = 3
    <3>1. /\ \A k \in Int : k \in A <=> h.in - 1 - k \in X
          /\ \A k \in Int : k \in B <=> w.in - 1 - k \in Y
          /\ \A a, b : turn(a, b) = <<h.in - 1 - a, w.in - 1 - b>>
      BY <1>5, <1>9, <2>3 DEF Turned, Quarter
    <3> HIDE DEF A, B, X, Y, turn
    <3>2. \A v \in Y : w.in - 1 - v \in B /\ w.in - 1 - (w.in - 1 - v) = v
      <4> TAKE v \in Y
      <4>1. w.in - 1 - v \in Int /\ w.in - 1 - (w.in - 1 - v) = v
        BY <1>1, <1>4
      <4> QED
        BY <3>1, <4>1
    <3>3. \A u \in X : h.in - 1 - u \in A /\ h.in - 1 - (h.in - 1 - u) = u
      <4> TAKE u \in X
      <4>1. h.in - 1 - u \in Int /\ h.in - 1 - (h.in - 1 - u) = u
        BY <1>1, <1>4
      <4> QED
        BY <3>1, <4>1
    <3> QED
      BY <1>1, <1>14, <3>1, <3>2, <3>3
  <2>4. CASE s = 4
    <3>1. /\ A = Y /\ \A k \in Int : k \in B <=> h.in - 1 - k \in X
          /\ \A a, b : turn(a, b) = <<h.in - 1 - b, a>>
      BY <1>5, <1>10, <2>4 DEF Turned, Quarter
    <3> HIDE DEF A, B, X, Y, turn
    <3>2. \A u \in X : h.in - 1 - u \in B /\ h.in - 1 - (h.in - 1 - u) = u
      BY <1>1, <1>4, <3>1
    <3> QED
      BY <1>1, <1>14, <3>1, <3>2
  <2> QED
    BY <1>11, <2>1, <2>2, <2>3, <2>4
<1> QED
  BY <1>12, <1>15, <1>16 DEF WindowTurns, h, w, side

-----------------------------------------------------------------------------
(* Elements of the output.                                                 *)

(* What the checks of the tensors ask for as long as sizes do not wrap:    *)
(* rows of the input do not overlap, and the output has the capacity for   *)
(* its shape.  The result of the latter check is used by mli_krn_maxpool   *)
(* only.                                                                   *)
SizedCall(c) ==
  /\ HasOutput(c)
  /\ c.col > 0 /\ c.row >= c.w.in * c.col
  /\ NoWrap(Filled(c))

HasRoom(c) == CheckLayout(Filled(c)) = "OK"

LEMMA FilledIs ==
  ASSUME NEW c \in Calls, HasOutput(c)
  PROVE  LET t == Filled(c)
         IN  /\ Descriptor(t) /\ t.rank = 3
             /\ t.elem = c.out.elem /\ t.capacity = c.out.capacity /\ t.mem_stride = c.out.mem_stride
             /\ t.shape[1] = Height(c).out /\ t.shape[2] = Width(c).out /\ t.shape[3] = c.channels
<1> DEFINE t == Filled(c)
           s == <<OutSize(c.h) % Modulus, OutSize(c.w) % Modulus, c.channels, 0>>
<1>1. /\ c.out.shape \in [1 .. MaxRank -> Nat] /\ c.out.mem_stride \in [1 .. MaxRank -> Nat]
      /\ c.out.elem \in Nat \ {0} /\ c.out.capacity \in Nat /\ c.channels \in Nat \ {0}
      /\ {"rank", "shape", "mem_stride", "elem", "capacity", "params"} \subseteq DOMAIN c.out
  BY CallsAssumption
<1>2. /\ OutSize(c.h) % Modulus = Height(c).out /\ OutSize(c.w) % Modulus = Width(c).out
      /\ Height(c).out \in Nat /\ Width(c).out \in Nat
  <2>1. /\ OutSize(c.h) \in 0 .. Modulus - 1 /\ OutSize(c.w) \in 0 .. Modulus - 1
    BY DEF HasOutput
  <2> QED
    BY <2>1, NotReduced, CallBalanced
<1>3. /\ s \in [1 .. MaxRank -> Nat] /\ s[1] = Height(c).out /\ s[2] = Width(c).out /\ s[3] = c.channels
  BY <1>1, <1>2 DEF MaxRank
<1>4. t = [c.out EXCEPT !.rank = 3, !.shape = s,
                        !.params = IF c.type = "MAXPOOL" THEN c.params ELSE @]
  BY DEF Filled
<1> HIDE DEF s, t
<1>5. t.rank = 3 /\ t.shape = s /\ t.elem = c.out.elem /\ t.capacity = c.out.capacity /\ t.mem_stride = c.out.mem_stride
  BY <1>1, <1>4
<1> QED
  BY <1>1, <1>3, <1>5 DEF Descriptor, t

(* Where an element of the output is.                                      *)
OutCell(c, x, y, ch) == Offset(Filled(c), <<x, y, ch, 0>>)

LEMMA OutCellIs ==
  ASSUME NEW c \in Calls, HasOutput(c), NEW x \in Int, NEW y \in Int, NEW ch \in Int
  PROVE  /\ OutCell(c, x, y, ch) = x * c.out.mem_stride[1] + y * c.out.mem_stride[2] + ch
         /\ x * c.out.mem_stride[1] + y * c.out.mem_stride[2] \in Int
<1> DEFINE t == Filled(c)
           q == <<x, y, ch, 0>>
<1>1. t.rank = 3 /\ t.mem_stride = c.out.mem_stride
  BY FilledIs
<1>2. c.out.mem_stride \in [1 .. MaxRank -> Nat] /\ c.out.mem_stride[3] = 1
  BY CallsAssumption
<1>3. c.out.mem_stride[1] \in Nat /\ c.out.mem_stride[2] \in Nat
  BY <1>2 DEF MaxRank
<1>4. q[1] = x /\ q[2] = y /\ q[3] = ch
  OBVIOUS
<1> HIDE DEF t, q
<1>5. Offset(t, q) = x * t.mem_stride[1] + y * t.mem_stride[2] + ch * t.mem_stride[3] + 0
  BY <1>1, <1>4 DEF Offset
<1>6. ch * t.mem_stride[3] = ch
  BY <1>1, <1>2
<1>7. x * c.out.mem_stride[1] \in Int /\ y * c.out.mem_stride[2] \in Int
  BY <1>3
<1> QED
  BY <1>1, <1>5, <1>6, <1>7 DEF OutCell, t, q

(* Each element of an output with enough room has a cell of its own, which *)
(* lies within the capacity.                                               *)
LEMMA OutCellsApart ==
  ASSUME NEW c \in Calls, SizedCall(c), HasRoom(c),
         NEW x \in 0 .. Height(c).out - 1, NEW y \in 0 .. Width(c).out - 1, NEW ch \in 0 .. c.channels - 1
  PROVE  /\ (OutCell(c, x, y, ch) + 1) * c.out.elem <= c.out.capacity
         /\ \A u \in 0 .. Height(c).out - 1, v \in 0 .. Width(c).out - 1, dh \in 0 .. c.channels - 1 :
              OutCell(c, x, y, ch) = OutCell(c, u, v, dh) => x = u /\ y = v /\ ch = dh
<1> DEFINE t == Filled(c)
           pos(u, v, dh) == <<u, v, dh, 0>>
<1>1. /\ Descriptor(t) /\ t.rank = 3 /\ t.elem = c.out.elem /\ t.capacity = c.out.capacity
      /\ t.shape[1] = Height(c).out /\ t.shape[2] = Width(c).out /\ t.shape[3] = c.channels
  BY FilledIs DEF SizedCall
<1>2. NoWrap(t) /\ CheckLayout(t) = "OK"
  BY DEF SizedCall, HasRoom
<1>3. c.channels \in Nat /\ Height(c).out \in Nat /\ Width(c).out \in Nat
  BY CallsAssumption, CallBalanced DEF SizedCall, Balanced
<1> HIDE DEF t
<1>4. ASSUME NEW u \in 0 .. Height(c).out - 1, NEW v \in 0 .. Width(c).out - 1,
             NEW dh \in 0 .. c.channels - 1
      PROVE  /\ IsPosition(t, pos(u, v, dh)) /\ OutCell(c, u, v, dh) = Offset(t, pos(u, v, dh))
             /\ pos(u, v, dh)[1] = u /\ pos(u, v, dh)[2] = v /\ pos(u, v, dh)[3] = dh
  <2> DEFINE z == pos(u, v, dh)
  <2>1. u \in Int /\ v \in Int /\ dh \in Int
    BY <1>3
  <2>2. z \in [1 .. MaxRank -> Int]
    BY <2>1 DEF MaxRank
  <2>3. z[1] = u /\ z[2] = v /\ z[3] = dh /\ OutCell(c, u, v, dh) = Offset(t, z)
    BY DEF OutCell, t
  <2> HIDE DEF z
  <2>4. \A d \in Dims(t) : d = 1 \/ d = 2 \/ d = 3
    BY <1>1 DEF Dims
  <2>5. HasPosition(t, z)
    BY <1>1, <2>3, <2>4 DEF HasPosition
  <2> QED
    BY <2>2, <2>3, <2>5 DEF IsPosition, z
<1>5. (OutCell(c, x, y, ch) + 1) * c.out.elem <= c.out.capacity
  <2> DEFINE z == pos(x, y, ch)
  <2>1. IsPosition(t, z) /\ OutCell(c, x, y, ch) = Offset(t, z)
    BY <1>4
  <2> HIDE DEF z
  <2>2. (Offset(t, z) + 1) * t.elem <= t.capacity
    BY <1>1, <1>2, <2>1, PositionInside
  <2> QED
    BY <1>1, <2>1, <2>2
<1>6. ASSUME NEW u \in 0 .. Height(c).out - 1, NEW v \in 0 .. Width(c).out - 1,
             NEW dh \in 0 .. c.channels - 1, OutCell(c, x, y, ch) = OutCell(c, u, v, dh)
      PROVE  x = u /\ y = v /\ ch = dh
  <2> DEFINE z == pos(x, y, ch)
             r == pos(u, v, dh)
  <2>1. /\ IsPosition(t, z) /\ IsPosition(t, r) /\ Offset(t, z) = Offset(t, r)
        /\ z[1] = x /\ z[2] = y /\ z[3] = ch /\ r[1] = u /\ r[2] = v /\ r[3] = dh
    BY <1>4, <1>6
  <2> HIDE DEF z, r
  <2>2. \A d \in Dims(t) : z[d] = r[d]
    BY <1>1, <1>2, <2>1, PositionsApart
  <2>3. 1 \in Dims(t) /\ 2 \in Dims(t) /\ 3 \in Dims(t)
    BY <1>1 DEF Dims
  <2> QED
    BY <2>1, <2>2, <2>3
<1> QED
  BY <1>5, <1>6

-----------------------------------------------------------------------------
(* The elements of the input that the reference names.                     *)

LEMMA WindowElements ==
  ASSUME NEW c \in Calls, HasOutput(c), NEW x \in 0 .. Height(c).out - 1, NEW y \in 0 .. Width(c).out - 1,
         NEW ch
  PROVE  InWindow(c, x, y, ch) =
           {u * c.row + v * c.col + ch : u \in First(Height(c), x) .. Behind(Height(c), x) - 1,
                                         v \in First(Width(c), y) .. Behind(Width(c), y) - 1}
<1> DEFINE X == First(Height(c), x) .. Behind(Height(c), x) - 1
           Y == First(Width(c), y) .. Behind(Width(c), y) - 1
           M == Met(WindowOf(c.h), x)
           N == Met(WindowOf(c.w), y)
<1>1. OutSize(c.h) > 0 /\ OutSize(c.w) > 0 /\ Height(c).out = OutSize(c.h) /\ Width(c).out = OutSize(c.w)
  BY CallBalanced DEF HasOutput
<1>2. {v[1] : v \in M} = X /\ {v[1] : v \in N} = Y
  BY <1>1, WindowIsRange DEF HasOutput, Height, Width
<1>3. InWindow(c, x, y, ch) = {v[1][1] * c.row + v[2][1] * c.col + ch : v \in M \X N}
  BY DEF InWindow
<1> HIDE DEF X, Y, M, N
<1>4. ASSUME NEW e \in InWindow(c, x, y, ch)
      PROVE  e \in {u * c.row + v * c.col + ch : u \in X, v \in Y}
  <2>1. PICK v \in M \X N : e = v[1][1] * c.row + v[2][1] * c.col + ch
    BY <1>3
  <2>2. v[1][1] \in X /\ v[2][1] \in Y
    BY <1>2
  <2> QED
    BY <2>1, <2>2
<1>5. ASSUME NEW u \in X, NEW v \in Y
      PROVE  u * c.row + v * c.col + ch \in InWindow(c, x, y, ch)
  <2>1. PICK k \in M : k[1] = u
    BY <1>2
  <2>2. PICK l \in N : l[1] = v
    BY <1>2
  <2> DEFINE r == <<k, l>>
  <2>3. r \in M \X N /\ r[1][1] = u /\ r[2][1] = v
    BY <2>1, <2>2
  <2> HIDE DEF r
  <2> QED
    BY <1>3, <2>3
<1> QED
  BY <1>4, <1>5 DEF X, Y

LEMMA WindowCount ==
  ASSUME NEW c \in Calls, SizedCall(c), NEW x \in 0 .. Height(c).out - 1, NEW y \in 0 .. Width(c).out - 1,
         NEW ch \in Int
  PROVE  Cardinality(InWindow(c, x, y, ch)) =
           (Behind(Height(c), x) - First(Height(c), x)) * (Behind(Width(c), y) - First(Width(c), y))
<1> DEFINE X == First(Height(c), x) .. Behind(Height(c), x) - 1
           Y == First(Width(c), y) .. Behind(Width(c), y) - 1
           row == c.row
           col == c.col
           in == c.w.in
           S == InWindow(c, x, y, ch)
           f == [z \in X \X Y |-> z[1] * row + z[2] * col + ch]
<1>1. /\ row \in Nat \ {0} /\ col \in Nat \ {0} /\ in \in Nat \ {0} /\ row >= in * col
  <2>1. row \in Nat /\ col \in Nat \ {0} /\ in \in Nat \ {0} /\ row >= in * col
    BY CallsAssumption DEF SizedCall
  <2> HIDE DEF row, col, in
  <2>2. in * col = (in - 1) * col + col /\ (in - 1) * col \in Nat
    BY <2>1, OneLess
  <2> QED
    BY <2>1, <2>2
<1>2. /\ First(Height(c), x) \in Nat /\ Behind(Height(c), x) \in Int
      /\ First(Width(c), y) \in Nat /\ Behind(Width(c), y) \in Int /\ Behind(Width(c), y) <= in
      /\ First(Height(c), x) < Behind(Height(c), x) /\ First(Width(c), y) < Behind(Width(c), y)
  <2>1. Balanced(Height(c)) /\ Balanced(Width(c)) /\ Width(c).in <= in
    BY CallBalanced, UsedBalanced DEF SizedCall, HasOutput, Width
  <2>2. x \in Nat /\ y \in Nat /\ x < Height(c).out /\ y < Width(c).out
    BY <2>1 DEF Balanced
  <2>3. /\ First(Width(c), y) \in Nat /\ Behind(Width(c), y) \in Int /\ Behind(Width(c), y) <= Width(c).in
        /\ First(Width(c), y) < Behind(Width(c), y)
    BY <2>1, <2>2, AreaOnAxis
  <2>4. /\ First(Height(c), x) \in Nat /\ Behind(Height(c), x) \in Int
        /\ First(Height(c), x) < Behind(Height(c), x)
    BY <2>1, <2>2, AreaOnAxis
  <2>5. Width(c).in \in Int /\ in \in Int
    BY <1>1, <2>1 DEF Balanced
  <2> QED
    BY <2>1, <2>3, <2>4, <2>5
<1>3. S = {u * row + v * col + ch : u \in X, v \in Y}
  BY WindowElements DEF SizedCall
<1>4. X \subseteq Nat /\ \A v \in Y : v \in Nat /\ v <= in - 1
  BY <1>1, <1>2
<1>5. /\ IsFiniteSet(X) /\ Cardinality(X) = Behind(Height(c), x) - First(Height(c), x)
      /\ IsFiniteSet(Y) /\ Cardinality(Y) = Behind(Width(c), y) - First(Width(c), y)
  <2>1. /\ First(Height(c), x) \in Int /\ Behind(Height(c), x) - 1 \in Int
        /\ First(Width(c), y) \in Int /\ Behind(Width(c), y) - 1 \in Int
    BY <1>2
  <2>2. /\ IsFiniteSet(X) /\ IsFiniteSet(Y)
        /\ Cardinality(X) = IF First(Height(c), x) > Behind(Height(c), x) - 1 THEN 0
                            ELSE Behind(Height(c), x) - 1 - First(Height(c), x) + 1
        /\ Cardinality(Y) = IF First(Width(c), y) > Behind(Width(c), y) - 1 THEN 0
                            ELSE Behind(Width(c), y) - 1 - First(Width(c), y) + 1
    BY <2>1, FS_Interval
  <2> HIDE DEF X, Y
  <2> QED
    BY <1>2, <2>2
<1> HIDE DEF X, Y, S, row, col, in
<1>6. ASSUME NEW k \in X, NEW l \in X, NEW u \in Y, NEW v \in Y
      PROVE  /\ k * row \in Int /\ u * col \in Int
             /\ k < l => k * row + u * col < l * row + v * col
             /\ u < v => u * col < v * col
  <2>1. k \in Int /\ l \in Int /\ u \in Int /\ v \in Int /\ in \in Int /\ u + 1 \in Int /\ u + 1 <= in /\ v \in Nat
    BY <1>1, <1>4
  <2>2. k * row \in Int /\ l * row \in Int /\ (k < l => k * row + row <= l * row)
    BY <1>1, <2>1, Monotone
  <2>3. u * col \in Int /\ v * col \in Int /\ (u < v => u * col + col <= v * col)
    BY <1>1, <2>1, Monotone
  <2>4. u * col + col <= in * col /\ in * col \in Int
    <3>1. u < in
      BY <2>1
    <3> QED
      BY <1>1, <2>1, <3>1, Monotone
  <2>5. v * col >= 0
    BY <1>1, <2>1
  <2> DEFINE a == k * row
             b == l * row
             d == u * col
             e == v * col
             g == in * col
  <2>6. /\ a \in Int /\ b \in Int /\ d \in Int /\ e \in Int /\ g \in Int /\ e >= 0
        /\ (k < l => a + row <= b) /\ (u < v => d + col <= e) /\ d + col <= g /\ row >= g
    BY <1>1, <2>2, <2>3, <2>4, <2>5
  <2> HIDE DEF a, b, d, e, g
  <2>7. (k < l => a + d < b + e) /\ (u < v => d < e)
    BY <1>1, <2>6
  <2> QED
    BY <2>2, <2>3, <2>7 DEF a, b, d, e
<1>7. \A z, r \in X \X Y : f[z] = f[r] => z = r
  <2>1. ASSUME NEW k \in X, NEW u \in Y, NEW l \in X, NEW v \in Y,
               k * row + u * col + ch = l * row + v * col + ch
        PROVE  k = l /\ u = v
    <3> DEFINE a == k * row
               b == l * row
               d == u * col
               e == v * col
    <3>1. /\ a \in Int /\ b \in Int /\ d \in Int /\ e \in Int
          /\ k < l => a + d < b + e
          /\ l < k => b + e < a + d
          /\ u < v => d < e
          /\ v < u => e < d
      BY <1>6
    <3>2. k \in Int /\ l \in Int /\ u \in Int /\ v \in Int /\ (k = l => a = b)
      BY <1>4
    <3>3. a + d + ch = b + e + ch
      BY <2>1
    <3> HIDE DEF a, b, d, e
    <3> QED
      BY <3>1, <3>2, <3>3
  <2> SUFFICES ASSUME NEW z \in X \X Y, NEW r \in X \X Y, f[z] = f[r] PROVE z = r
    OBVIOUS
  <2>2. PICK k \in X, u \in Y : z = <<k, u>>
    OBVIOUS
  <2>3. PICK l \in X, v \in Y : r = <<l, v>>
    OBVIOUS
  <2>4. f[z] = k * row + u * col + ch /\ f[r] = l * row + v * col + ch
    BY <2>2, <2>3
  <2> HIDE DEF f
  <2> QED
    BY <2>1, <2>2, <2>3, <2>4
<1>8. f \in Surjection(X \X Y, S) /\ f \in Injection(X \X Y, S)
  <2>1. \A z \in X \X Y : f[z] \in S
    BY <1>3
  <2>2. \A e \in S : \E z \in X \X Y : f[z] = e
    <3> TAKE e \in S
    <3>1. PICK u \in X, v \in Y : e = u * row + v * col + ch
      BY <1>3
    <3> DEFINE z == <<u, v>>
    <3>2. z \in X \X Y /\ z[1] = u /\ z[2] = v
      OBVIOUS
    <3> HIDE DEF z
    <3> QED
      BY <3>1, <3>2
  <2>3. f \in [X \X Y -> S]
    BY <2>1
  <2> HIDE DEF f
  <2> QED
    BY <1>7, <2>2, <2>3 DEF Surjection, Injection, IsInjective
<1> HIDE DEF f
<1>9. IsFiniteSet(X \X Y) /\ Cardinality(X \X Y) = Cardinality(X) * Cardinality(Y)
  BY <1>5, FS_Product
<1>10. ExistsBijection(X \X Y, S)
  BY <1>8 DEF ExistsBijection, Bijection
<1>11. Cardinality(S) = Cardinality(X \X Y)
  BY <1>9, <1>10, FS_Bijection
<1> QED
  BY <1>5, <1>9, <1>11 DEF S

-----------------------------------------------------------------------------
(* Areas that are used again.                                              *)

LEMMA SideBalanced ==
  ASSUME NEW c \in Calls, HasOutput(c), NEW s \in 0 .. 4
  PROVE  /\ Balanced(Side(c, s).h) /\ Balanced(Side(c, s).w)
         /\ c.fixed # 0 => Side(c, s).w.kernel = c.fixed
<1>1. Balanced(Height(c)) /\ Balanced(Width(c))
  BY CallBalanced
<1>2. /\ Balanced(Flip(Height(c))) /\ Flip(Height(c)).kernel = Height(c).kernel
      /\ Balanced(Flip(Width(c))) /\ Flip(Width(c)).kernel = Width(c).kernel
  BY <1>1, FlipBalanced
<1>3. Height(c).kernel = c.h.kernel /\ Width(c).kernel = c.w.kernel
  BY DEF Height, Width, Used
<1>4. c.fixed # 0 => c.fixed = c.h.kernel /\ c.fixed = c.w.kernel
  BY CallsAssumption
<1>5. Side(c, s).h \in {Height(c), Width(c), Flip(Height(c)), Flip(Width(c))}
  BY SideAxes
<1>6. Side(c, s).w \in {Height(c), Width(c), Flip(Height(c)), Flip(Width(c))}
  BY SideAxes
<1> QED
  BY <1>1, <1>2, <1>3, <1>4, <1>5, <1>6

(* The valid area of the previous column, unless there is none.            *)
AreaKept(s) ==
  Side(call, s).border /\ at[2] > 0 =>
    area = ValidArea(Side(call, s).h, Side(call, s).w, <<at[1], at[2] - 1>>)

(* compute_avepool and its like: the area of a point is the valid area of  *)
(* its window, also where it was worked out for an earlier column.         *)
LEMMA AreaRight ==
  ASSUME call \in Calls, HasOutput(call), NEW s \in 0 .. 4, at \in Nat \X Nat,
         <<s, at[1], at[2]>> \in Points(call), AreaKept(s)
  PROVE  AreaAt(Side(call, s)) = ValidArea(Side(call, s).h, Side(call, s).w, at)
<1> DEFINE side == Side(call, s)
           h == side.h
           w == side.w
           i == at[1]
           j == at[2]
           area2 == ValidArea(h, w, at)
<1>1. /\ i \in Nat /\ j \in Nat /\ HasSide(call, s)
      /\ side.row_beg <= i /\ i < side.row_end /\ side.clmn_beg <= j /\ j < side.clmn_end
  BY DEF Points
<1>2. /\ Balanced(h) /\ Balanced(w) /\ (call.fixed # 0 => w.kernel = call.fixed)
  BY SideBalanced
<1>3. area2 = [top |-> KernelBefore(WindowOf(h), i), left |-> KernelBefore(WindowOf(w), j),
               rows |-> AreaSize(WindowOf(h), i), clmns |-> AreaSize(WindowOf(w), j),
               div |-> AreaSize(WindowOf(h), i) * AreaSize(WindowOf(w), j)]
  BY DEF ValidArea
<1>4. CASE s = 0
  <2>1. /\ h = Height(call) /\ w = Width(call) /\ ~side.border
        /\ side.row_beg = Border(h) /\ side.row_end = CentreEnd(h)
        /\ side.clmn_beg = Border(w) /\ side.clmn_end = CentreEnd(w)
    BY <1>4, SideAxes
  <2>2. h.in >= h.kernel /\ w.in >= w.kernel
    BY <1>1, <1>4, <2>1 DEF HasSide, HasCentre
  <2> HIDE DEF side, h, w, i, j
  <2>3. i < h.out /\ ~Before(h, i) /\ ~After(h, i) /\ j < w.out /\ ~Before(w, j) /\ ~After(w, j)
    BY <1>1, <1>2, <2>1, <2>2, CentreServes
  <2>4. /\ KernelBefore(WindowOf(h), i) = 0 /\ AreaSize(WindowOf(h), i) = h.kernel
        /\ KernelBefore(WindowOf(w), j) = 0 /\ AreaSize(WindowOf(w), j) = w.kernel
    BY <1>1, <1>2, <2>3, AreaOnAxis
  <2>5. AreaAt(side) = Whole(h, w)
    BY <2>1 DEF AreaAt, h, w
  <2>6. AreaAt(side) = area2
    <3> HIDE DEF area2
    <3> QED
      BY <1>3, <2>4, <2>5 DEF Whole
  <2> QED
    BY <2>6 DEF area2, side, h, w
<1>5. CASE s > 0
  <2>1. side.border /\ side.clmn_beg = 0
    BY <1>5, SideAxes
  <2>2. CASE j < side.clmn_beg + w.kernel
    BY <2>1, <2>2 DEF AreaAt
  <2>3. CASE ~(j < side.clmn_beg + w.kernel)
    <3>1. /\ w.kernel \in Nat \ {0} /\ w.stride \in Nat \ {0} /\ w.pre \in Nat /\ w.pre < w.kernel
          /\ w.out \in Nat
      BY <1>2 DEF Balanced
    <3>2. \/ side.clmn_end = Most(Border(w), w.out - Border(Flip(w)))
          \/ side.clmn_end = w.out - Border(Flip(w))
      BY <1>5, SideAxes
    <3>3. j >= w.kernel
      BY <1>1, <2>1, <2>3, <3>1
    <3>4. Border(w) \in Nat /\ Border(Flip(w)) \in Nat
      <4>1. 0 \in 0 .. w.out - 1
        BY <1>2 DEF Balanced
      <4> QED
        BY <1>2, <4>1, Ends
    <3> HIDE DEF side, h, w, i, j
    <3>5. j - 1 \in Nat /\ j - 1 >= w.pre /\ j >= w.pre
      BY <1>1, <3>1, <3>3
    <3>6. ~Before(w, j) /\ ~Before(w, j - 1)
      <4>1. /\ j <= j * w.stride /\ j * w.stride \in Nat /\ (Before(w, j) <=> j * w.stride < w.pre)
        BY <1>1, <1>2, Steps
      <4> DEFINE m == j - 1
      <4>2. m \in Nat /\ m >= w.pre
        BY <3>5
      <4> HIDE DEF m
      <4>3. /\ m <= m * w.stride /\ m * w.stride \in Nat /\ (Before(w, m) <=> m * w.stride < w.pre)
        BY <1>2, <4>2, Steps
      <4>4. ~Before(w, m)
        BY <3>1, <4>2, <4>3
      <4>5. ~Before(w, j)
        BY <1>1, <3>1, <3>5, <4>1
      <4> QED
        BY <4>4, <4>5 DEF m
    <3>7. j < w.out - Border(Flip(w))
      BY <1>1, <3>2, <3>4, <3>6, <3>1 DEF Before, Most
    <3>8. j < w.out /\ ~After(w, j) /\ j - 1 < w.out /\ ~After(w, j - 1)
      BY <1>1, <3>1, <3>4, <3>7 DEF After
    <3>9. KernelBefore(WindowOf(w), j) = 0 /\ AreaSize(WindowOf(w), j) = w.kernel
      BY <1>1, <1>2, <3>6, <3>8, AreaOnAxis
    <3>10. KernelBefore(WindowOf(w), j - 1) = 0 /\ AreaSize(WindowOf(w), j - 1) = w.kernel
      BY <1>2, <3>5, <3>6, <3>8, AreaOnAxis
    <3>11. area = ValidArea(h, w, <<i, j - 1>>)
      BY <1>1, <2>1, <3>1, <3>3 DEF AreaKept, side, h, w, i, j
    <3>12. area = area2
      BY <1>3, <3>9, <3>10, <3>11 DEF ValidArea
    <3>13. call.fixed # 0 => [area EXCEPT !.clmns = call.fixed] = area
      BY <1>2, <1>3, <3>9, <3>12
    <3> HIDE DEF area2
    <3>14. AreaAt(side) = IF call.fixed # 0 THEN [area EXCEPT !.clmns = call.fixed] ELSE area
      BY <2>1, <2>3 DEF AreaAt, j, w
    <3>15. AreaAt(side) = area2
      BY <3>12, <3>13, <3>14
    <3> QED
      BY <3>15 DEF area2, side, h, w
  <2> QED
    BY <2>2, <2>3
<1> QED
  BY <1>4, <1>5

(* compute_avepool and reduce_max2D_hwc: a point reads the window of the   *)
(* element that it writes.                                                 *)
LEMMA PointReads ==
  ASSUME call \in Calls, SizedCall(call), NEW s \in 0 .. 4, at \in Nat \X Nat, NEW ch \in Int,
         NEW x \in 0 .. Height(call).out - 1, NEW y \in 0 .. Width(call).out - 1,
         <<x, y>> = Turned(Quarter(s), Height(call).out, Width(call).out, at[1], at[2])
  PROVE  LET side == Side(call, s)
         IN  /\ Value(side, ValidArea(side.h, side.w, at), ch) = Reference(call, x, y, ch)
             /\ Cell(side.to, at[1], at[2]) + ch = OutCell(call, x, y, ch)
<1> DEFINE side == Side(call, s)
           h == side.h
           w == side.w
           i == at[1]
           j == at[2]
           a0 == First(h, i)
           a1 == Behind(h, i)
           b0 == First(w, j)
           b1 == Behind(w, j)
           X == First(Height(call), x) .. Behind(Height(call), x) - 1
           Y == First(Width(call), y) .. Behind(Width(call), y) - 1
           row == call.row
           col == call.col
           turn(a, b) == Turned(Quarter(s), Height(call).in, Width(call).in, a, b)
           read == {Cell(side.in, a0 + a, b0 + b) + ch : a \in 0 .. a1 - a0 - 1, b \in 0 .. b1 - b0 - 1}
<1>1. /\ i \in Nat /\ j \in Nat /\ HasOutput(call) /\ Quarter(s) \in 0 .. 3
      /\ row \in Int /\ col \in Int
  BY CallsAssumption DEF SizedCall, Quarter
<1>2. /\ Balanced(Height(call)) /\ Height(call).in \in Int /\ Height(call).out \in Int
      /\ Balanced(Width(call)) /\ Width(call).in \in Int /\ Width(call).out \in Int
  BY <1>1, CallBalanced DEF Balanced
<1>3a. WindowTurns(call, s, i, j, x, y)
  BY <1>1, WindowsTurn
<1>3. /\ Balanced(h) /\ Balanced(w) /\ i < h.out /\ j < w.out
      /\ \A a \in a0 .. a1 - 1, b \in b0 .. b1 - 1 : turn(a, b)[1] \in X /\ turn(a, b)[2] \in Y
      /\ \A u \in X, v \in Y : \E a \in a0 .. a1 - 1, b \in b0 .. b1 - 1 : turn(a, b) = <<u, v>>
      /\ \/ /\ a1 - a0 = Behind(Height(call), x) - First(Height(call), x)
            /\ b1 - b0 = Behind(Width(call), y) - First(Width(call), y)
         \/ /\ a1 - a0 = Behind(Width(call), y) - First(Width(call), y)
            /\ b1 - b0 = Behind(Height(call), x) - First(Height(call), x)
  BY <1>3a DEF WindowTurns
<1>4. side.in = Rotate(Quarter(s), InView(call)) /\ side.to = Rotate(Quarter(s), OutView(call))
  BY SideAxes
<1> HIDE DEF side, h, w, i, j
<1>5. /\ Begin(WindowOf(h), i) + KernelBefore(WindowOf(h), i) = a0
      /\ Begin(WindowOf(w), j) + KernelBefore(WindowOf(w), j) = b0
      /\ AreaSize(WindowOf(h), i) = a1 - a0 /\ AreaSize(WindowOf(w), j) = b1 - b0
      /\ a0 \in Int /\ a1 \in Int /\ b0 \in Int /\ b1 \in Int
  BY <1>1, <1>3, AreaOnAxis
<1>6. /\ First(Height(call), x) \in Int /\ Behind(Height(call), x) \in Int
      /\ First(Width(call), y) \in Int /\ Behind(Width(call), y) \in Int
  <2>1. x \in Nat /\ y \in Nat
    BY <1>2
  <2> QED
    BY <1>2, <2>1, AreaOnAxis
<1>7. ASSUME NEW a \in Int, NEW b \in Int
      PROVE  Cell(side.in, a, b) = turn(a, b)[1] * row + turn(a, b)[2] * col
  <2> HIDE DEF row, col
  <2>1. CellTurns(Quarter(s), Height(call).in, Width(call).in, row, col, a, b)
    BY <1>1, <1>2, RotatedCell
  <2> QED
    BY <1>4, <2>1 DEF InView, CellTurns, row, col
<1>8. Cell(side.to, i, j) = x * call.out.mem_stride[1] + y * call.out.mem_stride[2]
  <2> DEFINE t == Turned(Quarter(s), Height(call).out, Width(call).out, i, j)
             m == call.out.mem_stride[1]
             n == call.out.mem_stride[2]
  <2>1. t[1] = x /\ t[2] = y
    BY DEF i, j
  <2>2. m \in Int /\ n \in Int
    BY CallsAssumption DEF MaxRank
  <2>3. Cell(Rotate(Quarter(s), View(Height(call).out, Width(call).out, m, n)), i, j) = t[1] * m + t[2] * n
    <3> DEFINE q == Quarter(s)
               p == Height(call).out
               r == Width(call).out
    <3>1. /\ q \in 0 .. 3 /\ p \in Int /\ r \in Int /\ m \in Int /\ n \in Int
          /\ i \in Int /\ j \in Int
      BY <1>1, <1>2, <2>2
    <3> HIDE DEF t, m, n, q, p, r
    <3>2. CellTurns(q, p, r, m, n, i, j)
      BY <3>1, RotatedCell
    <3> QED
      BY <3>2 DEF CellTurns, t, p, q, r
  <2> QED
    BY <1>4, <2>1, <2>3 DEF OutView
<1>9. read = InWindow(call, x, y, ch)
  <2>1. InWindow(call, x, y, ch) = {u * row + v * col + ch : u \in X, v \in Y}
    BY <1>1, WindowElements
  <2> HIDE DEF X, Y, row, col, turn, a0, a1, b0, b1
  <2>2. ASSUME NEW e \in read PROVE e \in {u * row + v * col + ch : u \in X, v \in Y}
    <3>1. PICK k \in 0 .. a1 - a0 - 1, l \in 0 .. b1 - b0 - 1 : e = Cell(side.in, a0 + k, b0 + l) + ch
      OBVIOUS
    <3>2. a0 + k \in a0 .. a1 - 1 /\ b0 + l \in b0 .. b1 - 1 /\ a0 + k \in Int /\ b0 + l \in Int
      BY <1>5, <3>1
    <3> DEFINE a == a0 + k
               b == b0 + l
    <3>3. a \in a0 .. a1 - 1 /\ b \in b0 .. b1 - 1 /\ a \in Int /\ b \in Int /\ e = Cell(side.in, a, b) + ch
      BY <3>1, <3>2
    <3> HIDE DEF a, b
    <3>4. turn(a, b)[1] \in X /\ turn(a, b)[2] \in Y
      BY <1>3, <3>3
    <3>5. e = turn(a, b)[1] * row + turn(a, b)[2] * col + ch
      BY <1>7, <3>3
    <3> QED
      BY <3>4, <3>5
  <2>3. ASSUME NEW u \in X, NEW v \in Y PROVE u * row + v * col + ch \in read
    <3>1. PICK a \in a0 .. a1 - 1, b \in b0 .. b1 - 1 : turn(a, b) = <<u, v>>
      BY <1>3
    <3>2. a \in Int /\ b \in Int /\ a - a0 \in 0 .. a1 - a0 - 1 /\ b - b0 \in 0 .. b1 - b0 - 1
          /\ a0 + (a - a0) = a /\ b0 + (b - b0) = b
      BY <1>5
    <3>3. Cell(side.in, a, b) = u * row + v * col
      BY <1>7, <3>1, <3>2
    <3>4. Cell(side.in, a0 + (a - a0), b0 + (b - b0)) + ch \in read
      BY <3>2
    <3> QED
      BY <3>2, <3>3, <3>4
  <2> HIDE DEF read
  <2> QED
    BY <2>1, <2>2, <2>3
<1>10. Cardinality(InWindow(call, x, y, ch)) = (a1 - a0) * (b1 - b0)
  <2> DEFINE n == a1 - a0
             m == b1 - b0
             p == Behind(Height(call), x) - First(Height(call), x)
             q == Behind(Width(call), y) - First(Width(call), y)
  <2>1. Cardinality(InWindow(call, x, y, ch)) = p * q
    BY WindowCount
  <2>2. n \in Int /\ m \in Int /\ p \in Int /\ q \in Int
    BY <1>5, <1>6
  <2>3. (n = p /\ m = q) \/ (n = q /\ m = p)
    BY <1>3
  <2> HIDE DEF n, m, p, q
  <2>4. n * m = p * q
    BY <2>2, <2>3
  <2> QED
    BY <2>1, <2>4 DEF n, m
<1>11. Value(side, ValidArea(h, w, at), ch) = Reference(call, x, y, ch)
  <2> DEFINE area2 == ValidArea(h, w, at)
  <2>1. area2 = [top |-> KernelBefore(WindowOf(h), i), left |-> KernelBefore(WindowOf(w), j),
                 rows |-> a1 - a0, clmns |-> b1 - b0, div |-> (a1 - a0) * (b1 - b0)]
    BY <1>5 DEF ValidArea, i, j
  <2>2. /\ area2.rows = a1 - a0 /\ area2.clmns = b1 - b0 /\ area2.div = (a1 - a0) * (b1 - b0)
        /\ Begin(WindowOf(h), i) + area2.top = a0 /\ Begin(WindowOf(w), j) + area2.left = b0
    <3> HIDE DEF area2, a0, a1, b0, b1
    <3> QED
      BY <1>5, <2>1
  <2> HIDE DEF area2, a0, a1, b0, b1
  <2> DEFINE part(u, v, n, m) == {Cell(side.in, u + a, v + b) + ch : a \in 0 .. n - 1, b \in 0 .. m - 1}
  <2>3. Value(side, area2, ch) = [read |-> read, div |-> IF call.type = "AVEPOOL" THEN area2.div ELSE 0]
    <3>1. Value(side, area2, ch) =
            [read |-> part(Begin(WindowOf(h), i) + area2.top, Begin(WindowOf(w), j) + area2.left,
                           area2.rows, area2.clmns),
             div  |-> IF call.type = "AVEPOOL" THEN area2.div ELSE 0]
      BY DEF Value, h, w, i, j
    <3>2. read = part(a0, b0, a1 - a0, b1 - b0)
      OBVIOUS
    <3> HIDE DEF part, read
    <3> QED
      BY <2>2, <3>1, <3>2
  <2> HIDE DEF read, part
  <2>4. Value(side, area2, ch) = Reference(call, x, y, ch)
    BY <1>9, <1>10, <2>2, <2>3 DEF Reference
  <2> QED
    BY <2>4 DEF area2
<1>12. Cell(side.to, i, j) + ch = OutCell(call, x, y, ch)
  <2>1. x \in Int /\ y \in Int
    BY <1>2
  <2> QED
    BY <1>1, <1>8, <2>1, OutCellIs
<1> QED
  BY <1>11, <1>12 DEF side, h, w, i, j

-----------------------------------------------------------------------------
(* The passes one after another.                                           *)

Piece(c, s) == IF HasSide(c, s) THEN <<Side(c, s)>> ELSE <<>>

Sides(c) == {Side(c, s) : s \in 0 .. 4}

(* Concatenation, as a name the provers do not look into.                  *)
Joined(p, q) == p \o q

(* The passes from side s on.                                              *)
Rest(c, s) ==
  CASE s = 0 -> Joined(Piece(c, 0), Joined(Piece(c, 1), Joined(Piece(c, 2), Joined(Piece(c, 3), Piece(c, 4)))))
    [] s = 1 -> Joined(Piece(c, 1), Joined(Piece(c, 2), Joined(Piece(c, 3), Piece(c, 4))))
    [] s = 2 -> Joined(Piece(c, 2), Joined(Piece(c, 3), Piece(c, 4)))
    [] s = 3 -> Joined(Piece(c, 3), Piece(c, 4))
    [] s = 4 -> Piece(c, 4)
    [] s = 5 -> <<>>

LEMMA Joining ==
  ASSUME NEW S, NEW p \in Seq(S), NEW q \in Seq(S), NEW r \in Seq(S)
  PROVE  /\ Joined(p, q) \in Seq(S)
         /\ Joined(Joined(p, q), r) = Joined(p, Joined(q, r))
         /\ Joined(p, <<>>) = p /\ Joined(<<>>, p) = p
<1>1. p \o q \in Seq(S)
  BY ConcatProperties
<1>2. (p \o q) \o r = p \o (q \o r)
  BY SMTT(30), ConcatAssociative
<1>3. p \o <<>> = p /\ <<>> \o p = p
  BY ConcatEmptySeq
<1> QED
  BY <1>1, <1>2, <1>3, Zenon DEF Joined

LEMMA PassesArePieces ==
  ASSUME NEW c
  PROVE  Passes(c) = Joined(Joined(Joined(Joined(Piece(c, 0), Piece(c, 1)), Piece(c, 2)), Piece(c, 3)),
                            Piece(c, 4))
<1> DEFINE h == Used(c.h)
           w == Used(c.w)
           in == View(h.in, w.in, c.row, c.col)
           to == View(h.out, w.out, c.out.mem_stride[1], c.out.mem_stride[2])
           centre == Pass(FALSE, <<h, w>>, <<Border(h), CentreEnd(h)>>, <<Border(w), CentreEnd(w)>>, in, to)
           f == [n \in 1 .. 4 |-> BorderPass(n - 1, h, w, in, to)]
           piece(n) == IF HasBorder(n - 1, h, w) THEN <<f[n]>> ELSE <<>>
<1>1. Passes(c) = (IF HasCentre(h, w) THEN <<centre>> ELSE <<>>) \o piece(1) \o piece(2) \o piece(3) \o piece(4)
  BY Zenon DEF Passes
<1>2. Piece(c, 0) = IF HasCentre(h, w) THEN <<centre>> ELSE <<>>
  BY Zenon DEF Piece, HasSide, Side, Height, Width, InView, OutView
<1>3. \A s \in 1 .. 4 : Piece(c, s) = piece(s)
  <2> SUFFICES ASSUME NEW s \in 1 .. 4 PROVE Piece(c, s) = piece(s)
    OBVIOUS
  <2>1. s # 0
    OBVIOUS
  <2>2. f[s] = BorderPass(s - 1, h, w, in, to)
    <3> HIDE DEF h, w, in, to
    <3> QED
      OBVIOUS
  <2> HIDE DEF f
  <2> QED
    BY <2>1, <2>2, Zenon DEF Piece, HasSide, Side, Height, Width, InView, OutView
<1>4. Piece(c, 1) = piece(1) /\ Piece(c, 2) = piece(2) /\ Piece(c, 3) = piece(3) /\ Piece(c, 4) = piece(4)
  BY <1>3
<1> QED
  BY <1>1, <1>2, <1>4, Zenon DEF Joined

LEMMA RestIs ==
  ASSUME NEW c
  PROVE  /\ Passes(c) = Rest(c, 0)
         /\ \A s \in 0 .. 4 : Rest(c, s) = Joined(Piece(c, s), Rest(c, s + 1))
         /\ \A s \in 0 .. 5 : Rest(c, s) \in Seq(Sides(c))
         /\ Rest(c, 5) = <<>>
<1> DEFINE S == Sides(c)
           p0 == Piece(c, 0)
           p1 == Piece(c, 1)
           p2 == Piece(c, 2)
           p3 == Piece(c, 3)
           p4 == Piece(c, 4)
<1>1. Passes(c) = Joined(Joined(Joined(Joined(p0, p1), p2), p3), p4)
  BY PassesArePieces
<1>2. /\ Rest(c, 0) = Joined(p0, Joined(p1, Joined(p2, Joined(p3, p4))))
      /\ Rest(c, 1) = Joined(p1, Joined(p2, Joined(p3, p4)))
      /\ Rest(c, 2) = Joined(p2, Joined(p3, p4)) /\ Rest(c, 3) = Joined(p3, p4) /\ Rest(c, 4) = p4
      /\ Rest(c, 5) = <<>>
  BY DEF Rest
<1>3. \A s \in 0 .. 4 : Piece(c, s) \in Seq(S)
  <2> SUFFICES ASSUME NEW s \in 0 .. 4 PROVE Piece(c, s) \in Seq(S)
    OBVIOUS
  <2>1. Side(c, s) \in S
    BY DEF Sides
  <2> DEFINE e == Side(c, s)
  <2> HIDE DEF e, S
  <2>2. <<e>> \in Seq(S) /\ <<>> \in Seq(S)
    BY <2>1 DEF e
  <2> QED
    BY <2>2 DEF Piece, e
<1>4. p0 \in Seq(S) /\ p1 \in Seq(S) /\ p2 \in Seq(S) /\ p3 \in Seq(S) /\ p4 \in Seq(S)
  BY <1>3
<1> HIDE DEF S, p0, p1, p2, p3, p4
<1>5. Joined(p0, p1) \in Seq(S) /\ Joined(p3, p4) \in Seq(S)
  BY <1>4, Joining
<1>6. Joined(Joined(p0, p1), p2) \in Seq(S) /\ Joined(p2, Joined(p3, p4)) \in Seq(S)
  BY <1>4, <1>5, Joining
<1>7. Joined(p1, Joined(p2, Joined(p3, p4))) \in Seq(S)
  BY <1>4, <1>6, Joining
<1>8. Joined(p0, Joined(p1, Joined(p2, Joined(p3, p4)))) \in Seq(S)
  BY <1>4, <1>7, Joining
<1>9. Joined(Joined(Joined(Joined(p0, p1), p2), p3), p4) = Joined(Joined(Joined(p0, p1), p2), Joined(p3, p4))
  BY <1>4, <1>6, Joining
<1>10. Joined(Joined(Joined(p0, p1), p2), Joined(p3, p4)) = Joined(Joined(p0, p1), Joined(p2, Joined(p3, p4)))
  BY <1>4, <1>5, Joining
<1>11. Joined(Joined(p0, p1), Joined(p2, Joined(p3, p4))) = Joined(p0, Joined(p1, Joined(p2, Joined(p3, p4))))
  BY <1>4, <1>6, Joining
<1>12. Passes(c) = Rest(c, 0)
  BY <1>1, <1>2, <1>9, <1>10, <1>11
<1>13. \A s \in 0 .. 5 : Rest(c, s) \in Seq(S)
  <2> SUFFICES ASSUME NEW s \in 0 .. 5 PROVE Rest(c, s) \in Seq(S)
    OBVIOUS
  <2>1. s = 0 \/ s = 1 \/ s = 2 \/ s = 3 \/ s = 4 \/ s = 5
    OBVIOUS
  <2> QED
    BY <1>2, <1>4, <1>5, <1>6, <1>7, <1>8, <2>1, EmptySeq
<1>14. Joined(p4, <<>>) = p4
  BY <1>4, Joining
<1>15. \A s \in 0 .. 4 : Rest(c, s) = Joined(Piece(c, s), Rest(c, s + 1))
  <2> SUFFICES ASSUME NEW s \in 0 .. 4 PROVE Rest(c, s) = Joined(Piece(c, s), Rest(c, s + 1))
    OBVIOUS
  <2>1. 0 + 1 = 1 /\ 1 + 1 = 2 /\ 2 + 1 = 3 /\ 3 + 1 = 4 /\ 4 + 1 = 5
    OBVIOUS
  <2>2. s = 0 \/ s = 1 \/ s = 2 \/ s = 3 \/ s = 4
    OBVIOUS
  <2> QED
    BY <1>2, <1>14, <2>1, <2>2 DEF p0, p1, p2, p3, p4
<1> QED
  BY <1>2, <1>12, <1>13, <1>15 DEF S

(* The pass of a side comes first among those from that side on.           *)
LEMMA FirstOfRest ==
  ASSUME NEW c, NEW s \in 0 .. 4, HasSide(c, s)
  PROVE  Rest(c, s) # <<>> /\ Head(Rest(c, s)) = Side(c, s) /\ Tail(Rest(c, s)) = Rest(c, s + 1)
<1> DEFINE S == Sides(c)
           e == Side(c, s)
           r == Rest(c, s + 1)
<1>1. Rest(c, s) = Piece(c, s) \o r
  BY RestIs DEF Joined
<1>2. Piece(c, s) = <<e>>
  BY DEF Piece
<1>3. r \in Seq(S)
  <2>1. s + 1 \in 0 .. 5
    OBVIOUS
  <2> QED
    BY <2>1, RestIs
<1>4. e \in S
  BY DEF Sides
<1> HIDE DEF e, r, S
<1>5. <<e>> \o r # <<>> /\ Head(<<e>> \o r) = e /\ Tail(<<e>> \o r) = r
  BY <1>3, <1>4
<1> QED
  BY <1>1, <1>2, <1>5 DEF e, r

(* The passes that are left begin with those of a side, or there is none.  *)
Comes(c, s, t) ==
  /\ t \in s .. 5 /\ Rest(c, s) = Rest(c, t)
  /\ t = 5 \/ HasSide(c, t)
  /\ \A k \in s .. t - 1 : ~HasSide(c, k)

LEMMA NextSide ==
  ASSUME NEW c, NEW s \in 0 .. 5
  PROVE  \E t \in 0 .. 5 : Comes(c, s, t)
<1> DEFINE N(k) == \E t \in 0 .. 5 : Comes(c, k, t)
<1>1. N(5)
  <2>1. Comes(c, 5, 5)
    BY DEF Comes
  <2> QED
    BY <2>1
<1>2. ASSUME NEW k \in 0 .. 4, N(k + 1) PROVE N(k)
  <2>1. CASE HasSide(c, k)
    <3>1. Comes(c, k, k)
      BY <2>1 DEF Comes
    <3> QED
      BY <3>1
  <2>2. CASE ~HasSide(c, k)
    <3>1. PICK t \in 0 .. 5 : Comes(c, k + 1, t)
      BY <1>2
    <3>2. Rest(c, k) = Rest(c, k + 1)
      <4>1. Rest(c, k) = Joined(<<>>, Rest(c, k + 1))
        BY <2>2, RestIs DEF Piece
      <4>2. k + 1 \in 0 .. 5
        OBVIOUS
      <4>3. Rest(c, k + 1) \in Seq(Sides(c))
        BY <4>2, RestIs
      <4> QED
        BY <4>1, <4>3, Joining
    <3>3. Comes(c, k, t)
      BY <2>2, <3>1, <3>2 DEF Comes
    <3> QED
      BY <3>3
  <2> QED
    BY <2>1, <2>2
<1> HIDE DEF N
<1>3. N(4 + 1) /\ 3 + 1 = 4 /\ 2 + 1 = 3 /\ 1 + 1 = 2 /\ 0 + 1 = 1
  BY <1>1
<1>4. N(4)
  BY <1>2, <1>3
<1>5. N(3)
  BY <1>2, <1>3, <1>4
<1>6. N(2)
  BY <1>2, <1>3, <1>5
<1>7. N(1)
  BY <1>2, <1>3, <1>6
<1>8. N(0)
  BY <1>2, <1>3, <1>7
<1>9. s = 0 \/ s = 1 \/ s = 2 \/ s = 3 \/ s = 4 \/ s = 5
  OBVIOUS
<1>10. N(s)
  BY <1>1, <1>4, <1>5, <1>6, <1>7, <1>8, <1>9
<1> QED
  BY <1>10 DEF N

-----------------------------------------------------------------------------
(* The loops.                                                              *)

(* The loops of a side begin at its first row and column.                  *)
LEMMA StartOfRest ==
  ASSUME NEW c \in Calls, HasOutput(c), NEW s \in 0 .. 4, HasSide(c, s)
  PROVE  /\ Start(Rest(c, s)) = <<Side(c, s).row_beg, Side(c, s).clmn_beg>>
         /\ Side(c, s).row_beg \in Nat /\ Side(c, s).clmn_beg \in Nat
         /\ Side(c, s).border => Side(c, s).clmn_beg = 0
<1>1. Start(Rest(c, s)) = <<Side(c, s).row_beg, Side(c, s).clmn_beg>>
  <2>1. Rest(c, s) # <<>> /\ Head(Rest(c, s)) = Side(c, s)
    BY FirstOfRest
  <2> QED
    BY <2>1, Zenon DEF Start
<1>2. Border(Height(c)) \in Nat /\ Border(Width(c)) \in Nat
  <2>1. /\ Balanced(Height(c)) /\ 0 \in 0 .. Height(c).out - 1
        /\ Balanced(Width(c)) /\ 0 \in 0 .. Width(c).out - 1
    BY CallBalanced DEF Balanced
  <2> QED
    BY <2>1, Ends
<1>3. s = 0 => /\ ~Side(c, s).border
               /\ Side(c, s).row_beg = Border(Height(c)) /\ Side(c, s).clmn_beg = Border(Width(c))
  BY SideAxes
<1>4. s > 0 => Side(c, s).row_beg = 0 /\ Side(c, s).clmn_beg = 0
  BY SideAxes
<1> QED
  BY <1>1, <1>2, <1>3, <1>4

LEMMA EndsOfSide ==
  ASSUME NEW c \in Calls, HasOutput(c), NEW s \in 0 .. 4, HasSide(c, s)
  PROVE  Side(c, s).row_end \in Int /\ Side(c, s).clmn_end \in Int
<1> DEFINE h == Side(c, s).h
           w == Side(c, s).w
<1>1. /\ Balanced(h) /\ 0 \in 0 .. h.out - 1 /\ Balanced(w) /\ 0 \in 0 .. w.out - 1
      /\ h.in \in Int /\ h.pre \in Nat /\ h.kernel \in Int
      /\ w.in \in Int /\ w.pre \in Nat /\ w.kernel \in Int /\ w.out \in Int
  <2>1. Balanced(h) /\ Balanced(w)
    BY SideBalanced
  <2> HIDE DEF h, w
  <2>2. \A a : Balanced(a) => /\ a.in \in Int /\ a.pre \in Nat /\ a.kernel \in Int /\ a.out \in Int
                             /\ 0 \in 0 .. a.out - 1
    <3> SUFFICES ASSUME NEW a, Balanced(a)
                 PROVE  /\ a.in \in Int /\ a.pre \in Nat /\ a.kernel \in Int /\ a.out \in Int
                        /\ 0 \in 0 .. a.out - 1
      OBVIOUS
    <3>1. /\ a.in \in Nat \ {0} /\ a.pre \in Nat /\ a.kernel \in Nat \ {0} /\ a.out \in Nat \ {0}
      BY DEF Balanced
    <3> QED
      BY <3>1
  <2> QED
    BY <2>1, <2>2
<1>2. CASE s = 0
  <2>1. /\ h = Height(c) /\ w = Width(c)
        /\ Side(c, s).row_end = CentreEnd(h) /\ Side(c, s).clmn_end = CentreEnd(w)
    BY <1>2, SideAxes
  <2>2. h.in >= h.kernel /\ w.in >= w.kernel
    BY <1>2, <2>1 DEF HasSide, HasCentre
  <2> HIDE DEF h, w
  <2>3. h.in + h.pre >= h.kernel /\ w.in + w.pre >= w.kernel
    BY <1>1, <2>2
  <2> QED
    BY <1>1, <2>1, <2>3, Steps
<1>3. CASE s > 0
  <2>1. /\ Side(c, s).row_end = Border(h)
        /\ \/ Side(c, s).clmn_end = Most(Border(w), w.out - Border(Flip(w)))
           \/ Side(c, s).clmn_end = w.out - Border(Flip(w))
    BY <1>3, SideAxes
  <2> HIDE DEF h, w
  <2>2. Border(h) \in Nat /\ Border(w) \in Nat /\ Border(Flip(w)) \in Nat
    BY <1>1, Ends
  <2> QED
    BY <1>1, <2>1, <2>2 DEF Most
<1> QED
  BY <1>2, <1>3

(* No window of a point is empty.                                          *)
LEMMA AreaHasElements ==
  ASSUME NEW c \in Calls, HasOutput(c), NEW s \in 0 .. 4, NEW i \in Nat, NEW j \in Nat,
         <<s, i, j>> \in Points(c)
  PROVE  LET side == Side(c, s)
             a == ValidArea(side.h, side.w, <<i, j>>)
         IN  a.rows > 0 /\ a.clmns > 0
<1> DEFINE side == Side(c, s)
           h == side.h
           w == side.w
<1>1. /\ HasSide(c, s) /\ side.row_beg <= i /\ i < side.row_end /\ side.clmn_beg <= j /\ j < side.clmn_end
  BY DEF Points
<1>2. Balanced(h) /\ Balanced(w)
  BY SideBalanced
<1>3. (Before(h, i) \/ i < h.out) /\ (Before(w, j) \/ j < w.out)
  <2>1. CASE s = 0
    <3>1. /\ h = Height(c) /\ w = Width(c)
          /\ side.row_beg = Border(h) /\ side.row_end = CentreEnd(h)
          /\ side.clmn_beg = Border(w) /\ side.clmn_end = CentreEnd(w)
      BY <2>1, SideAxes
    <3>2. h.in >= h.kernel /\ w.in >= w.kernel
      BY <1>1, <2>1, <3>1 DEF HasSide, HasCentre
    <3> HIDE DEF side, h, w
    <3> QED
      BY <1>1, <1>2, <3>1, <3>2, CentreServes
  <2>2. CASE s > 0
    <3>1. /\ side.row_end = Border(h)
          /\ \/ side.clmn_end = Most(Border(w), w.out - Border(Flip(w)))
             \/ side.clmn_end = w.out - Border(Flip(w))
      BY <2>2, SideAxes
    <3>2. Border(w) \in Nat /\ Border(Flip(w)) \in Nat /\ w.out \in Int
      <4>1. 0 \in 0 .. w.out - 1
        BY <1>2 DEF Balanced
      <4>2. w.out \in Int
        BY <1>2 DEF Balanced
      <4> QED
        BY <1>2, <4>1, <4>2, Ends
    <3> HIDE DEF side, h, w
    <3> QED
      BY <1>1, <3>1, <3>2 DEF Before, Most
  <2> QED
    BY <2>1, <2>2
<1> HIDE DEF side, h, w
<1>4. AreaSize(WindowOf(h), i) > 0
  <2>1. /\ AreaSize(WindowOf(h), i) = Behind(h, i) - First(h, i)
        /\ First(h, i) \in Nat /\ Behind(h, i) \in Int /\ First(h, i) < Behind(h, i)
    BY <1>2, <1>3, AreaOnAxis
  <2> QED
    BY <2>1
<1>5. AreaSize(WindowOf(w), j) > 0
  <2>1. /\ AreaSize(WindowOf(w), j) = Behind(w, j) - First(w, j)
        /\ First(w, j) \in Nat /\ Behind(w, j) \in Int /\ First(w, j) < Behind(w, j)
    BY <1>2, <1>3, AreaOnAxis
  <2> QED
    BY <2>1
<1>6. ValidArea(h, w, <<i, j>>).rows = AreaSize(WindowOf(h), i) /\ ValidArea(h, w, <<i, j>>).clmns = AreaSize(WindowOf(w), j)
  BY DEF ValidArea
<1> QED
  BY <1>4, <1>5, <1>6 DEF side, h, w

(* The points of the loops that come before the current one of a side.     *)
Reached(s, p) ==
  p[1] < s \/ (p[1] = s /\ (p[2] < at[1] \/ (p[2] = at[1] /\ p[3] < at[2])))

Computed(s) == {p \in Points(call) : Reached(s, p)}

SpotCell(c, p, ch) == OutCell(c, Spot(c, p)[1], Spot(c, p)[2], ch)

(* What was written so far are the elements of the points so far, each as  *)
(* it should be.                                                           *)
MemoryExact(s) ==
  /\ DOMAIN mem = {SpotCell(call, p, ch) : p \in Computed(s), ch \in 0 .. call.channels - 1}
  /\ \A i \in DOMAIN mem : \E p \in Computed(s), ch \in 0 .. call.channels - 1 :
       /\ i = SpotCell(call, p, ch)
       /\ mem[i] = Reference(call, Spot(call, p)[1], Spot(call, p)[2], ch)

WritesCounted == IsFiniteSet(DOMAIN mem) /\ writes = Cardinality(DOMAIN mem)

(* The loops are in the pass of side s, or at the end of the passes.       *)
InSide(s) ==
  /\ todo = Rest(call, s)
  /\ s < 5 =>
       /\ HasSide(call, s)
       /\ at \in Nat \X Nat
       /\ Side(call, s).row_beg <= at[1] /\ Side(call, s).clmn_beg <= at[2]
       /\ at[2] = Side(call, s).clmn_beg \/ at[2] < Side(call, s).clmn_end
       /\ AreaKept(s)
  /\ SizedCall(call) /\ BordersFit(call) => MemoryExact(s)
  /\ SizedCall(call) /\ BordersApart(call) /\ HasRoom(call) => WritesCounted

LoopInv ==
  /\ call \in Calls
  /\ HasOutput(call) =>
       /\ status \in {"called", "running", "OK"}
       /\ status = "called" => mem = <<>> /\ writes = 0 /\ area = <<>>
       /\ status # "called" => out = Filled(call)
       /\ status = "running" => \E s \in 0 .. 5 : InSide(s)
       /\ status = "OK" => InSide(5)
       /\ area # <<>> => area.rows > 0 /\ area.clmns > 0

(* The current point of a side is one that was not computed yet, and the   *)
(* next one comes behind it.                                               *)
LEMMA PointsInOrder ==
  ASSUME call \in Calls, HasOutput(call), NEW s \in 0 .. 5, InSide(s), Point
  PROVE  LET p == <<s, at[1], at[2]>>
             side == Side(call, s)
         IN  /\ s < 5 /\ Head(todo) = side /\ at \in Nat \X Nat
             /\ p \in Points(call) /\ p \notin Computed(s)
             /\ Computed(s)' = Computed(s) \cup {p}
             /\ at' \in Nat \X Nat
             /\ side.row_beg <= at'[1] /\ side.clmn_beg <= at'[2]
             /\ at'[2] = side.clmn_beg \/ (at'[2] < side.clmn_end /\ at' = <<at[1], at[2] + 1>>)
<1> DEFINE side == Side(call, s)
           i == at[1]
           j == at[2]
           p == <<s, i, j>>
           a == side.row_beg
           b == side.clmn_beg
           e == side.clmn_end
<1>1. s < 5
  <2>1. todo # <<>> /\ todo = Rest(call, s) /\ Rest(call, 5) = <<>>
    BY RestIs DEF Point, InSide
  <2> QED
    BY <2>1
<1>2. /\ HasSide(call, s) /\ at \in Nat \X Nat /\ a <= i /\ b <= j /\ (j = b \/ j < e)
      /\ todo = Rest(call, s)
  BY <1>1 DEF InSide
<1>3. s \in 0 .. 4
  BY <1>1
<1>4. Head(todo) = side
  BY <1>2, <1>3, FirstOfRest
<1>5. a \in Nat /\ b \in Nat /\ e \in Int
  BY <1>2, <1>3, StartOfRest, EndsOfSide
<1>6. i < side.row_end /\ j < e /\ call' = call /\ at' = NextPoint(side)
  BY <1>4, Zenon DEF Point, InLoops
<1>7. i \in Nat /\ j \in Nat
  BY <1>2
<1>8. \/ at' = <<i, j + 1>> /\ j + 1 < e
      \/ at' = <<i + 1, b>> /\ ~(j + 1 < e)
  BY <1>6 DEF NextPoint
<1>9. p \in Points(call)
  BY <1>2, <1>3, <1>6, <1>7 DEF Points
<1> HIDE DEF side, i, j, a, b, e
<1>10. /\ at' \in Nat \X Nat /\ a <= at'[1] /\ b <= at'[2]
       /\ at'[2] = b \/ (at'[2] < e /\ at' = <<i, j + 1>>)
  BY <1>2, <1>5, <1>7, <1>8
<1>11. ASSUME NEW q \in Points(call)
       PROVE  Reached(s, q)' <=> Reached(s, q) \/ q = p
  <2>1. /\ q = <<q[1], q[2], q[3]>> /\ q[1] \in Nat /\ q[2] \in Nat /\ q[3] \in Nat
        /\ q[1] = s => b <= q[3] /\ q[3] < e
    <3>1. q \in (0 .. 4) \X Nat \X Nat /\ Side(call, q[1]).clmn_beg <= q[3] /\ q[3] < Side(call, q[1]).clmn_end
      BY DEF Points
    <3> QED
      BY <3>1 DEF side, b, e
  <2>2. q = p <=> q[1] = s /\ q[2] = i /\ q[3] = j
    <3>1. q = <<q[1], q[2], q[3]>>
      BY <2>1
    <3> QED
      BY <3>1
  <2>3. Reached(s, q)' <=> \/ q[1] < s
                           \/ q[1] = s /\ (q[2] < at'[1] \/ (q[2] = at'[1] /\ q[3] < at'[2]))
    BY DEF Reached
  <2>4. Reached(s, q) <=> \/ q[1] < s
                          \/ q[1] = s /\ (q[2] < i \/ (q[2] = i /\ q[3] < j))
    BY DEF Reached, i, j
  <2>5. CASE at' = <<i, j + 1>> /\ j + 1 < e
    <3>1. at'[1] = i /\ at'[2] = j + 1
      BY <2>5
    <3> HIDE DEF p
    <3> QED
      BY <1>7, <2>1, <2>2, <2>3, <2>4, <3>1
  <2>6. CASE at' = <<i + 1, b>> /\ ~(j + 1 < e)
    <3>1. at'[1] = i + 1 /\ at'[2] = b
      BY <2>6
    <3>2. q[1] = s => q[3] <= j
      BY <1>5, <1>7, <2>1, <2>6
    <3> HIDE DEF p
    <3> QED
      BY <1>5, <1>7, <2>1, <2>2, <2>3, <2>4, <3>1, <3>2
  <2> QED
    BY <1>8, <2>5, <2>6
<1>12. Computed(s)' = Computed(s) \cup {p}
  <2>1. Computed(s)' = {q \in Points(call) : Reached(s, q)'}
    BY <1>6 DEF Computed
  <2>2. Computed(s) = {q \in Points(call) : Reached(s, q)}
    BY DEF Computed
  <2> HIDE DEF p
  <2> QED
    BY <1>9, <1>11, <2>1, <2>2
<1>13. p \notin Computed(s)
  BY <1>7 DEF Computed, Reached, i, j
<1> QED
  BY <1>1, <1>2, <1>4, <1>9, <1>10, <1>12, <1>13 DEF side, i, j, a, b, e

(* The end of a pass changes side, but not the points computed.            *)
LEMMA EndKeepsPoints ==
  ASSUME call \in Calls, HasOutput(call), NEW s \in 0 .. 5, InSide(s), EndPass
  PROVE  \E t \in 0 .. 5 : todo' = Rest(call, t) /\ Computed(t)' = Computed(s)
                           /\ (t < 5 => /\ HasSide(call, t)
                                        /\ Side(call, t).row_beg \in Nat /\ Side(call, t).clmn_beg \in Nat
                                        /\ at' = <<Side(call, t).row_beg, Side(call, t).clmn_beg>>)
<1> DEFINE side == Side(call, s)
           i == at[1]
           j == at[2]
           a == side.row_beg
           b == side.clmn_beg
           e == side.clmn_end
<1>1. s < 5
  <2>1. todo # <<>> /\ todo = Rest(call, s) /\ Rest(call, 5) = <<>>
    BY RestIs DEF EndPass, InSide
  <2> QED
    BY <2>1
<1>2. /\ HasSide(call, s) /\ at \in Nat \X Nat /\ a <= i /\ b <= j /\ (j = b \/ j < e)
      /\ todo = Rest(call, s)
  BY <1>1 DEF InSide
<1>3. s \in 0 .. 4 /\ s + 1 \in 0 .. 5
  BY <1>1
<1>4. Head(todo) = side /\ Tail(todo) = Rest(call, s + 1)
  BY <1>2, <1>3, FirstOfRest
<1>5. /\ ~(i < side.row_end /\ j < e) /\ call' = call /\ todo' = Rest(call, s + 1)
      /\ at' = Start(Rest(call, s + 1))
  BY <1>4, Zenon DEF EndPass, InLoops
<1>6. PICK t \in 0 .. 5 : Comes(call, s + 1, t)
  BY <1>3, NextSide
<1>7. /\ t \in s + 1 .. 5 /\ Rest(call, s + 1) = Rest(call, t) /\ (t = 5 \/ HasSide(call, t))
      /\ \A k \in s + 1 .. t - 1 : ~HasSide(call, k)
  BY <1>6 DEF Comes
<1>8. t < 5 => /\ HasSide(call, t) /\ t \in 0 .. 4
               /\ Side(call, t).row_beg \in Nat /\ Side(call, t).clmn_beg \in Nat
               /\ at' = <<Side(call, t).row_beg, Side(call, t).clmn_beg>>
  <2> SUFFICES ASSUME t < 5
               PROVE  /\ HasSide(call, t) /\ t \in 0 .. 4
                      /\ Side(call, t).row_beg \in Nat /\ Side(call, t).clmn_beg \in Nat
                      /\ at' = <<Side(call, t).row_beg, Side(call, t).clmn_beg>>
    OBVIOUS
  <2>1. HasSide(call, t) /\ t \in 0 .. 4
    BY <1>7
  <2> QED
    BY <1>5, <1>7, <2>1, StartOfRest
<1>9. i \in Nat /\ j \in Nat /\ side.row_end \in Int /\ e \in Int
  BY <1>2, <1>3, EndsOfSide
<1> HIDE DEF side, i, j, a, b, e
<1>10. ASSUME NEW q \in Points(call)
       PROVE  Reached(t, q)' <=> Reached(s, q)
  <2>1. /\ q[1] \in 0 .. 4 /\ q[2] \in Nat /\ q[3] \in Nat /\ HasSide(call, q[1])
        /\ Side(call, q[1]).row_beg <= q[2] /\ Side(call, q[1]).clmn_beg <= q[3]
        /\ q[1] = s => b <= q[3] /\ q[3] < e /\ q[2] < side.row_end
    <3>1. /\ q \in (0 .. 4) \X Nat \X Nat /\ HasSide(call, q[1])
          /\ Side(call, q[1]).row_beg <= q[2] /\ q[2] < Side(call, q[1]).row_end
          /\ Side(call, q[1]).clmn_beg <= q[3] /\ q[3] < Side(call, q[1]).clmn_end
      BY DEF Points
    <3> QED
      BY <3>1 DEF side, b, e
  <2>2. Reached(t, q)' <=> \/ q[1] < t
                           \/ q[1] = t /\ (q[2] < at'[1] \/ (q[2] = at'[1] /\ q[3] < at'[2]))
    BY DEF Reached
  <2>3. Reached(s, q) <=> \/ q[1] < s
                          \/ q[1] = s /\ (q[2] < i \/ (q[2] = i /\ q[3] < j))
    BY DEF Reached, i, j
  <2>4. CASE q[1] < s
    BY <1>7, <2>1, <2>2, <2>3, <2>4
  <2>5. CASE q[1] = s
    <3>1. Reached(t, q)'
      BY <1>7, <2>1, <2>2, <2>5
    <3>2. Reached(s, q)
      <4>1. CASE ~(i < side.row_end)
        BY <1>9, <2>1, <2>3, <2>5, <4>1
      <4>2. CASE ~(j < e)
        <5>1. j = b
          BY <1>2, <4>2 DEF j, b, e
        <5> QED
          BY <1>9, <2>1, <2>5, <4>2, <5>1
      <4> QED
        BY <1>5, <4>1, <4>2 DEF i, j, e, side
    <3> QED
      BY <3>1, <3>2
  <2>6. CASE q[1] > s /\ q[1] < t
    <3>1. q[1] \in s + 1 .. t - 1
      BY <1>7, <2>1, <2>6
    <3> QED
      BY <1>7, <2>1, <3>1
  <2>7. CASE q[1] = t
    <3>1. t < 5
      BY <2>1, <2>7
    <3>2. at'[1] = Side(call, t).row_beg /\ at'[2] = Side(call, t).clmn_beg
          /\ Side(call, t).row_beg \in Nat /\ Side(call, t).clmn_beg \in Nat
      BY <1>8, <3>1
    <3> DEFINE u == Side(call, t).row_beg
               v == Side(call, t).clmn_beg
    <3>3. u <= q[2] /\ v <= q[3]
      BY <2>1, <2>7
    <3>4. at'[1] = u /\ at'[2] = v /\ u \in Nat /\ v \in Nat
      BY <3>2
    <3> HIDE DEF u, v
    <3> QED
      BY <1>7, <2>1, <2>2, <2>3, <2>7, <3>3, <3>4
  <2>8. CASE q[1] > t
    BY <1>7, <2>1, <2>2, <2>3, <2>8
  <2> QED
    BY <1>7, <2>1, <2>4, <2>5, <2>6, <2>7, <2>8
<1>11. Computed(t)' = Computed(s)
  <2>1. Computed(t)' = {q \in Points(call) : Reached(t, q)'}
    BY <1>5 DEF Computed
  <2>2. Computed(s) = {q \in Points(call) : Reached(s, q)}
    BY DEF Computed
  <2> QED
    BY <1>10, <2>1, <2>2
<1> QED
  BY <1>5, <1>7, <1>8, <1>11

(* The cells of a point lie side by side.                                  *)
LEMMA CellsOfPoint ==
  ASSUME NEW n \in Nat, NEW target \in Int
  PROVE  /\ IsFiniteSet(target .. target + n - 1) /\ Cardinality(target .. target + n - 1) = n
         /\ target .. target + n - 1 = {target + ch : ch \in 0 .. n - 1}
         /\ \A i \in target .. target + n - 1 : i - target \in 0 .. n - 1 /\ target + (i - target) = i
<1>1. target \in Int /\ target + n - 1 \in Int
  OBVIOUS
<1>2. /\ IsFiniteSet(target .. target + n - 1)
      /\ Cardinality(target .. target + n - 1)
           = IF target > target + n - 1 THEN 0 ELSE target + n - 1 - target + 1
  BY <1>1, FS_Interval
<1>3. \A i \in target .. target + n - 1 : i - target \in 0 .. n - 1 /\ target + (i - target) = i
  OBVIOUS
<1>4. ASSUME NEW ch \in 0 .. n - 1 PROVE target + ch \in target .. target + n - 1
  OBVIOUS
<1>5. target .. target + n - 1 = {target + ch : ch \in 0 .. n - 1}
  <2>1. ASSUME NEW i \in target .. target + n - 1 PROVE i \in {target + ch : ch \in 0 .. n - 1}
    BY <1>3
  <2> QED
    BY <1>4, <2>1
<1> QED
  BY <1>2, <1>3, <1>5

(* A point adds its elements to the output, and what the reference says.   *)
LEMMA PointAdds ==
  ASSUME call \in Calls, SizedCall(call), BordersFit(call), NEW s \in 0 .. 5, InSide(s), Point
  PROVE  /\ MemoryExact(s)'
         /\ BordersApart(call) /\ HasRoom(call) => WritesCounted'
<1> DEFINE p == <<s, at[1], at[2]>>
           side == Side(call, s)
           n == call.channels
           C == 0 .. n - 1
           target == Cell(side.to, at[1], at[2])
           cells == target .. target + n - 1
           x == Spot(call, p)[1]
           y == Spot(call, p)[2]
           exact(q, ch) == Reference(call, Spot(call, q)[1], Spot(call, q)[2], ch)
<1>1. /\ HasOutput(call) /\ MemoryExact(s) /\ call' = call /\ n \in Nat
      /\ BordersApart(call) /\ HasRoom(call) => WritesCounted
  BY CallsAssumption DEF SizedCall, InSide, Point
<1>2. /\ s \in 0 .. 4 /\ Head(todo) = side /\ at \in Nat \X Nat
      /\ p \in Points(call) /\ p \notin Computed(s) /\ Computed(s)' = Computed(s) \cup {p}
  BY <1>1, PointsInOrder
<1>3. AreaKept(s)
  BY <1>2 DEF InSide
<1>4. AreaAt(side) = ValidArea(side.h, side.w, at)
  BY <1>1, <1>2, <1>3, AreaRight
<1>5. x \in 0 .. Height(call).out - 1 /\ y \in 0 .. Width(call).out - 1 /\ Spot(call, p) = <<x, y>>
  BY <1>1, <1>2, SidesShareOutput
<1>6. <<x, y>> = Turned(Quarter(s), Height(call).out, Width(call).out, at[1], at[2])
  <2>1. p[1] = s /\ p[2] = at[1] /\ p[3] = at[2]
    OBVIOUS
  <2> HIDE DEF p
  <2> QED
    BY <1>5, <2>1 DEF Spot
<1> HIDE DEF x, y, p
<1>7. ASSUME NEW ch \in C
      PROVE  Value(side, AreaAt(side), ch) = exact(p, ch) /\ target + ch = SpotCell(call, p, ch)
  <2>1. ch \in Int
    BY <1>1
  <2>2. /\ Value(side, ValidArea(side.h, side.w, at), ch) = Reference(call, x, y, ch)
        /\ Cell(side.to, at[1], at[2]) + ch = OutCell(call, x, y, ch)
    BY <1>2, <1>5, <1>6, <2>1, PointReads
  <2> QED
    BY <1>4, <2>2 DEF SpotCell, x, y
<1>8. target \in Int
  <2>1. x * call.out.mem_stride[1] + y * call.out.mem_stride[2] \in Int
    <3>1. Height(call).out \in Int /\ Width(call).out \in Int
      BY <1>1, CallBalanced DEF Balanced
    <3>2. x \in Int /\ y \in Int
      BY <1>5, <3>1
    <3>3. call.out.mem_stride[1] \in Int /\ call.out.mem_stride[2] \in Int
      BY CallsAssumption DEF MaxRank
    <3> DEFINE e == call.out.mem_stride[1]
               f == call.out.mem_stride[2]
    <3> HIDE DEF e, f
    <3>4. x * e + y * f \in Int
      BY <3>2, <3>3 DEF e, f
    <3> QED
      BY <3>4 DEF e, f
  <2>2. target = x * call.out.mem_stride[1] + y * call.out.mem_stride[2]
    <3> DEFINE m == x * call.out.mem_stride[1] + y * call.out.mem_stride[2]
               ptr == side.to.ptr + at[1] * side.to.row
    <3>1. Cell(side.to, at[1], at[2]) = m
      <4>1. side.to = Rotate(Quarter(s), OutView(call))
        BY <1>2, SideAxes
      <4> DEFINE q == Quarter(s)
                 h == Height(call).out
                 w == Width(call).out
                 e == call.out.mem_stride[1]
                 f == call.out.mem_stride[2]
                 i == at[1]
                 j == at[2]
      <4>2. /\ q \in 0 .. 3 /\ h \in Int /\ w \in Int /\ e \in Int /\ f \in Int /\ i \in Int /\ j \in Int
        <5>1. h \in Int /\ w \in Int
          BY <1>1, CallBalanced DEF Balanced
        <5>2. e \in Int /\ f \in Int
          BY CallsAssumption DEF MaxRank
        <5> QED
          BY <1>2, <5>1, <5>2 DEF Quarter
      <4>3. OutView(call) = View(h, w, e, f)
        BY DEF OutView
      <4> HIDE DEF q, h, w, e, f, i, j
      <4>4. CellTurns(q, h, w, e, f, i, j)
        BY <4>2, RotatedCell
      <4>5. <<x, y>> = Turned(q, h, w, i, j)
        BY <1>6 DEF q, h, w, i, j
      <4>6. Turned(q, h, w, i, j)[1] = x /\ Turned(q, h, w, i, j)[2] = y
        BY <4>5
      <4>7. Cell(Rotate(q, View(h, w, e, f)), i, j) = x * e + y * f
        BY <4>4, <4>6 DEF CellTurns
      <4> QED
        BY <4>1, <4>3, <4>7 DEF q, e, f, i, j
    <3> QED
      BY <3>1
  <2> QED
    BY <2>1, <2>2
<1>9. /\ mem' = [i \in DOMAIN mem \cup cells |->
                  IF i \in cells THEN Value(side, AreaAt(side), i - target) ELSE mem[i]]
      /\ writes' = writes + n
  BY <1>2, Zenon DEF Point
<1>10. /\ IsFiniteSet(cells) /\ Cardinality(cells) = n
       /\ cells = {target + ch : ch \in C}
       /\ \A i \in cells : i - target \in C /\ target + (i - target) = i
  <2> HIDE DEF target, n
  <2> QED
    BY <1>1, <1>8, CellsOfPoint
<1> HIDE DEF side, target, n, C, cells, exact
<1>11. cells = {SpotCell(call, p, ch) : ch \in C}
  BY <1>7, <1>10
<1>12. DOMAIN mem = {SpotCell(call, q, ch) : q \in Computed(s), ch \in C}
  BY <1>1 DEF MemoryExact, C, n
<1>13. DOMAIN mem' = DOMAIN mem \cup cells
  BY <1>9
<1>14. DOMAIN mem' = {SpotCell(call, q, ch) : q \in Computed(s)', ch \in C}
  BY <1>2, <1>11, <1>12, <1>13
<1>15. ASSUME NEW i \in DOMAIN mem'
       PROVE  \E q \in Computed(s)', ch \in C : i = SpotCell(call, q, ch) /\ mem'[i] = exact(q, ch)
  <2>1. CASE i \in cells
    <3> DEFINE ch == i - target
    <3>1. ch \in C /\ target + ch = i
      BY <1>10, <2>1
    <3>2. mem'[i] = Value(side, AreaAt(side), ch)
      BY <1>9, <2>1
    <3> HIDE DEF ch
    <3>3. i = SpotCell(call, p, ch) /\ mem'[i] = exact(p, ch)
      BY <1>7, <3>1, <3>2
    <3> QED
      BY <1>2, <3>1, <3>3
  <2>2. CASE i \notin cells
    <3>1. i \in DOMAIN mem /\ mem'[i] = mem[i]
      BY <1>9, <1>13, <2>2
    <3>2. \E q \in Computed(s), ch \in C : i = SpotCell(call, q, ch) /\ mem[i] = exact(q, ch)
      BY <1>1, <3>1 DEF MemoryExact, C, n, exact
    <3> QED
      BY <1>2, <3>1, <3>2
  <2> QED
    BY <2>1, <2>2
<1>16. MemoryExact(s)'
  BY <1>1, <1>14, <1>15 DEF MemoryExact, C, n, exact
<1>17. ASSUME BordersApart(call), HasRoom(call) PROVE WritesCounted'
  <2>1. IsFiniteSet(DOMAIN mem) /\ writes = Cardinality(DOMAIN mem)
    BY <1>1, <1>17 DEF WritesCounted
  <2>2. DOMAIN mem \cap cells = {}
    <3> SUFFICES ASSUME NEW i \in DOMAIN mem, i \in cells PROVE FALSE
      OBVIOUS
    <3>1. PICK q \in Computed(s), ch \in C : i = SpotCell(call, q, ch)
      BY <1>12
    <3>2. PICK dh \in C : i = SpotCell(call, p, dh)
      BY <1>11
    <3>3. q \in Points(call) /\ q # p
      BY <1>2 DEF Computed
    <3>4. /\ Spot(call, q) = <<Spot(call, q)[1], Spot(call, q)[2]>>
          /\ Spot(call, q)[1] \in 0 .. Height(call).out - 1 /\ Spot(call, q)[2] \in 0 .. Width(call).out - 1
          /\ Spot(call, p)[1] \in 0 .. Height(call).out - 1 /\ Spot(call, p)[2] \in 0 .. Width(call).out - 1
          /\ Spot(call, p) = <<Spot(call, p)[1], Spot(call, p)[2]>>
      BY <1>1, <1>2, <3>3, SidesShareOutput
    <3>5. Spot(call, q)[1] = Spot(call, p)[1] /\ Spot(call, q)[2] = Spot(call, p)[2]
      <4> DEFINE u == Spot(call, q)[1]
                 v == Spot(call, q)[2]
                 a == Spot(call, p)[1]
                 b == Spot(call, p)[2]
      <4>1. OutCell(call, u, v, ch) = OutCell(call, a, b, dh)
        BY <3>1, <3>2 DEF SpotCell
      <4>2. /\ u \in 0 .. Height(call).out - 1 /\ v \in 0 .. Width(call).out - 1
            /\ a \in 0 .. Height(call).out - 1 /\ b \in 0 .. Width(call).out - 1
            /\ ch \in 0 .. call.channels - 1 /\ dh \in 0 .. call.channels - 1
        BY <3>1, <3>2, <3>4 DEF C, n
      <4> HIDE DEF u, v, a, b
      <4>3. u = a /\ v = b
        BY <1>17, <4>1, <4>2, OutCellsApart
      <4> QED
        BY <4>3 DEF u, v, a, b
    <3>6. Spot(call, q) = Spot(call, p)
      BY <3>4, <3>5
    <3> QED
      BY <1>1, <1>2, <1>17, <3>3, <3>6, SidesShareOutput
  <2>3. /\ IsFiniteSet(DOMAIN mem \cup cells)
        /\ Cardinality(DOMAIN mem \cup cells)
             = Cardinality(DOMAIN mem) + Cardinality(cells) - Cardinality(DOMAIN mem \cap cells)
    BY <1>10, <2>1, FS_Union
  <2>4. Cardinality({}) = 0 /\ Cardinality(DOMAIN mem) \in Nat
    BY <2>1, FS_EmptySet, FS_CardinalityType
  <2>5. Cardinality(DOMAIN mem') = Cardinality(DOMAIN mem) + n
    <3> DEFINE a == Cardinality(DOMAIN mem)
               b == Cardinality(DOMAIN mem \cup cells)
    <3>1. b = a + n - 0 /\ a \in Nat
      BY <1>10, <2>2, <2>3, <2>4
    <3>2. b = a + n
      <4> HIDE DEF a, b
      <4> QED
        BY <1>1, <3>1
    <3> QED
      BY <1>13, <3>2
  <2> QED
    BY <1>9, <1>13, <2>1, <2>3, <2>5 DEF WritesCounted
<1> QED
  BY <1>16, <1>17

(* Borders that do not meet are no wider than the output.                  *)
LEMMA ApartFits ==
  ASSUME call \in Calls, HasOutput(call), BordersApart(call)
  PROVE  BordersFit(call)
  BY SidesShareOutput

LEMMA PointKeepsInv ==
  ASSUME call \in Calls, HasOutput(call), NEW s \in 0 .. 5, InSide(s), Point
  PROVE  InSide(s)' /\ area'.rows > 0 /\ area'.clmns > 0
<1> DEFINE side == Side(call, s)
           p == <<s, at[1], at[2]>>
<1>1. /\ s \in 0 .. 4 /\ s < 5 /\ Head(todo) = side /\ at \in Nat \X Nat /\ p \in Points(call)
      /\ at' \in Nat \X Nat
      /\ side.row_beg <= at'[1] /\ side.clmn_beg <= at'[2]
      /\ at'[2] = side.clmn_beg \/ (at'[2] < side.clmn_end /\ at' = <<at[1], at[2] + 1>>)
  BY PointsInOrder
<1>2. call' = call /\ todo' = todo /\ area' = AreaAt(side)
  BY <1>1, Zenon DEF Point
<1>3. HasSide(call, s) /\ AreaKept(s) /\ todo = Rest(call, s)
  BY <1>1 DEF InSide
<1>4. area' = ValidArea(side.h, side.w, at) /\ at = <<at[1], at[2]>> /\ at[1] \in Nat /\ at[2] \in Nat
  BY <1>1, <1>2, <1>3, AreaRight
<1>5. area'.rows > 0 /\ area'.clmns > 0
  <2> DEFINE i == at[1]
             j == at[2]
  <2>1. i \in Nat /\ j \in Nat /\ <<s, i, j>> \in Points(call) /\ at = <<i, j>>
    BY <1>1, <1>4
  <2> HIDE DEF i, j
  <2>2. ValidArea(side.h, side.w, <<i, j>>).rows > 0 /\ ValidArea(side.h, side.w, <<i, j>>).clmns > 0
    BY <1>1, <2>1, AreaHasElements
  <2> QED
    BY <1>4, <2>1, <2>2
<1>6. AreaKept(s)'
  <2> SUFFICES ASSUME side.border, at'[2] > 0
               PROVE  area' = ValidArea(side.h, side.w, <<at'[1], at'[2] - 1>>)
    BY <1>2 DEF AreaKept
  <2>1. side.clmn_beg = 0
    BY <1>1, <1>3, StartOfRest
  <2>2. at' = <<at[1], at[2] + 1>>
    BY <1>1, <2>1
  <2>3. <<at'[1], at'[2] - 1>> = at
    BY <1>4, <2>2
  <2> QED
    BY <1>4, <2>3
<1>7. SizedCall(call) /\ BordersFit(call) => MemoryExact(s)'
  BY PointAdds
<1>8. SizedCall(call) /\ BordersApart(call) /\ HasRoom(call) => WritesCounted'
  BY ApartFits, PointAdds
<1> QED
  BY <1>1, <1>2, <1>3, <1>5, <1>6, <1>7, <1>8 DEF InSide

LEMMA EndKeepsInv ==
  ASSUME call \in Calls, HasOutput(call), NEW s \in 0 .. 5, InSide(s), EndPass
  PROVE  \E t \in 0 .. 5 : InSide(t)'
<1>1. PICK t \in 0 .. 5 : /\ todo' = Rest(call, t) /\ Computed(t)' = Computed(s)
                          /\ (t < 5 => /\ HasSide(call, t)
                                       /\ Side(call, t).row_beg \in Nat /\ Side(call, t).clmn_beg \in Nat
                                       /\ at' = <<Side(call, t).row_beg, Side(call, t).clmn_beg>>)
  BY EndKeepsPoints
<1>2. call' = call /\ mem' = mem /\ writes' = writes
  BY DEF EndPass
<1>3. SizedCall(call) /\ BordersFit(call) => MemoryExact(t)'
  BY <1>1, <1>2 DEF InSide, MemoryExact
<1>4. SizedCall(call) /\ BordersApart(call) /\ HasRoom(call) => WritesCounted'
  BY <1>2 DEF InSide, WritesCounted
<1>5. t < 5 => /\ at' \in Nat \X Nat /\ at'[1] = Side(call, t).row_beg /\ at'[2] = Side(call, t).clmn_beg
               /\ Side(call, t).row_beg <= at'[1] /\ Side(call, t).clmn_beg <= at'[2]
               /\ AreaKept(t)'
  <2> SUFFICES ASSUME t < 5
               PROVE  /\ at' \in Nat \X Nat
                      /\ at'[1] = Side(call, t).row_beg /\ at'[2] = Side(call, t).clmn_beg
                      /\ Side(call, t).row_beg <= at'[1] /\ Side(call, t).clmn_beg <= at'[2]
                      /\ AreaKept(t)'
    OBVIOUS
  <2>1. t \in 0 .. 4 /\ HasSide(call, t)
    BY <1>1
  <2>2. Side(call, t).border => Side(call, t).clmn_beg = 0
    BY <2>1, StartOfRest
  <2>3. at'[2] = Side(call, t).clmn_beg /\ Side(call, t).clmn_beg \in Nat
    BY <1>1
  <2>4. AreaKept(t)'
    <3>1. ~(Side(call, t).border /\ at'[2] > 0)
      BY <2>2, <2>3
    <3> QED
      BY <1>2, <3>1 DEF AreaKept
  <2> QED
    BY <1>1, <2>4
<1>6. InSide(t)'
  BY <1>1, <1>2, <1>3, <1>4, <1>5 DEF InSide
<1> QED
  BY <1>6

LEMMA BeginsInSide ==
  ASSUME call \in Calls, HasOutput(call), mem = <<>>, writes = 0, PrepareAndRun
  PROVE  \E t \in 0 .. 5 : InSide(t)'
<1>1. PICK t \in 0 .. 5 : Comes(call, 0, t)
  BY NextSide
<1>2. /\ Rest(call, 0) = Rest(call, t) /\ (t = 5 \/ HasSide(call, t))
      /\ \A k \in 0 .. t - 1 : ~HasSide(call, k)
  BY <1>1 DEF Comes
<1>3. /\ call' = call /\ mem' = <<>> /\ writes' = 0 /\ todo' = Rest(call, t) /\ at' = Start(Rest(call, t))
  <2>1. Passes(call) = Rest(call, t)
    BY <1>2, RestIs
  <2> QED
    BY <2>1, Zenon DEF PrepareAndRun
<1>4. t < 5 => /\ t \in 0 .. 4 /\ HasSide(call, t)
               /\ Side(call, t).row_beg \in Nat /\ Side(call, t).clmn_beg \in Nat
               /\ at' = <<Side(call, t).row_beg, Side(call, t).clmn_beg>>
               /\ Side(call, t).border => Side(call, t).clmn_beg = 0
  <2> SUFFICES ASSUME t < 5
               PROVE  /\ t \in 0 .. 4 /\ HasSide(call, t)
                      /\ Side(call, t).row_beg \in Nat /\ Side(call, t).clmn_beg \in Nat
                      /\ at' = <<Side(call, t).row_beg, Side(call, t).clmn_beg>>
                      /\ Side(call, t).border => Side(call, t).clmn_beg = 0
    OBVIOUS
  <2>1. t \in 0 .. 4 /\ HasSide(call, t)
    BY <1>2
  <2> QED
    BY <1>3, <2>1, StartOfRest
<1>5. ASSUME NEW q \in Points(call) PROVE ~Reached(t, q)'
  <2>1. /\ q[1] \in 0 .. 4 /\ q[2] \in Nat /\ q[3] \in Nat /\ HasSide(call, q[1])
        /\ Side(call, q[1]).row_beg <= q[2] /\ Side(call, q[1]).clmn_beg <= q[3]
    BY DEF Points
  <2>2. ~(q[1] < t)
    <3>1. q[1] \notin 0 .. t - 1
      BY <1>2, <2>1
    <3> QED
      BY <2>1, <3>1
  <2>3. Reached(t, q)' <=> \/ q[1] < t
                           \/ q[1] = t /\ (q[2] < at'[1] \/ (q[2] = at'[1] /\ q[3] < at'[2]))
    BY DEF Reached
  <2>4. CASE q[1] = t
    <3> DEFINE u == Side(call, t).row_beg
               v == Side(call, t).clmn_beg
    <3>1. at'[1] = u /\ at'[2] = v /\ u \in Nat /\ v \in Nat /\ u <= q[2] /\ v <= q[3]
      BY <1>4, <2>1, <2>4
    <3> HIDE DEF u, v
    <3> QED
      BY <2>1, <2>2, <2>3, <3>1
  <2> QED
    BY <2>2, <2>3, <2>4
<1>6. Computed(t)' = {}
  <2>1. Computed(t)' = {q \in Points(call) : Reached(t, q)'}
    BY <1>3 DEF Computed
  <2> QED
    BY <1>5, <2>1
<1>7. MemoryExact(t)'
  BY <1>3, <1>6 DEF MemoryExact
<1>8. WritesCounted'
  <2>1. DOMAIN mem' = {} /\ writes' = 0
    BY <1>3
  <2> QED
    BY <2>1, FS_EmptySet DEF WritesCounted
<1>9. t < 5 => AreaKept(t)'
  <2> SUFFICES ASSUME t < 5 PROVE AreaKept(t)'
    OBVIOUS
  <2>1. ~(Side(call, t).border /\ at'[2] > 0)
    BY <1>4
  <2> QED
    BY <1>3, <2>1 DEF AreaKept
<1>10. InSide(t)'
  BY <1>3, <1>4, <1>7, <1>8, <1>9 DEF InSide
<1> QED
  BY <1>10

LEMMA LoopInductive == Spec => []LoopInv
<1>1. Init => LoopInv
  BY DEF Init, LoopInv
<1>2. ASSUME LoopInv, [Next]_vars PROVE LoopInv'
  <2>1. call \in Calls /\ call' = call
    BY <1>2 DEF LoopInv, Next, Refuse, PrepareAndRun, Point, EndPass, Return, vars
  <2> SUFFICES ASSUME HasOutput(call)
               PROVE  /\ status' \in {"called", "running", "OK"}
                      /\ (status = "called" => mem = <<>> /\ writes = 0 /\ area = <<>>)'
                      /\ (status # "called" => out = Filled(call))'
                      /\ (status = "running" => \E s \in 0 .. 5 : InSide(s))'
                      /\ (status = "OK" => InSide(5))'
                      /\ (area # <<>> => area.rows > 0 /\ area.clmns > 0)'
    BY <2>1 DEF LoopInv
  <2>2. /\ status \in {"called", "running", "OK"}
        /\ status = "called" => mem = <<>> /\ writes = 0 /\ area = <<>>
        /\ status # "called" => out = Filled(call)
        /\ status = "running" => \E s \in 0 .. 5 : InSide(s)
        /\ status = "OK" => InSide(5)
        /\ area # <<>> => area.rows > 0 /\ area.clmns > 0
    BY <1>2 DEF LoopInv
  <2>3. CASE Refuse
    BY <2>3 DEF Refuse, HasOutput
  <2>4. CASE PrepareAndRun
    <3>1. /\ status = "called" /\ status' = "running" /\ out' = Filled(call) /\ area' = area
      BY <2>4 DEF PrepareAndRun
    <3>2. \E t \in 0 .. 5 : InSide(t)'
      BY <2>1, <2>2, <2>4, <3>1, BeginsInSide
    <3> QED
      BY <2>1, <2>2, <3>1, <3>2
  <2>5. CASE Point
    <3>1. status = "running" /\ status' = "running" /\ out' = out
      BY <2>5 DEF Point
    <3>2. PICK s \in 0 .. 5 : InSide(s)
      BY <2>2, <3>1
    <3>3. InSide(s)' /\ area'.rows > 0 /\ area'.clmns > 0
      BY <2>1, <2>5, <3>2, PointKeepsInv
    <3> QED
      BY <2>1, <2>2, <3>1, <3>3
  <2>6. CASE EndPass
    <3>1. status = "running" /\ status' = "running" /\ out' = out /\ area' = <<>>
      BY <2>6 DEF EndPass
    <3>2. PICK s \in 0 .. 5 : InSide(s)
      BY <2>2, <3>1
    <3>3. \E t \in 0 .. 5 : InSide(t)'
      BY <2>1, <2>6, <3>2, EndKeepsInv
    <3> QED
      BY <2>1, <2>2, <3>1, <3>3
  <2>7. CASE Return
    <3>1. /\ status = "running" /\ status' = "OK" /\ todo = <<>>
          /\ UNCHANGED <<call, out, todo, at, area, mem, writes>>
      BY <2>7 DEF Return
    <3>2. PICK s \in 0 .. 5 : InSide(s)
      BY <2>2, <3>1
    <3>3. s = 5
      <4>1. ASSUME s < 5 PROVE FALSE
        <5>1. s \in 0 .. 4 /\ HasSide(call, s) /\ todo = Rest(call, s)
          BY <3>2, <4>1 DEF InSide
        <5> QED
          BY <3>1, <5>1, FirstOfRest
      <4> QED
        BY <4>1
    <3>4. InSide(5)'
      BY <3>1, <3>2, <3>3 DEF InSide, MemoryExact, Computed, Reached, WritesCounted
    <3> QED
      BY <2>1, <2>2, <3>1, <3>4
  <2>8. CASE UNCHANGED vars
    BY <2>2, <2>8 DEF vars, InSide, MemoryExact, Computed, Reached, WritesCounted, AreaKept
  <2> QED
    BY <1>2, <2>3, <2>4, <2>5, <2>6, <2>7, <2>8 DEF Next
<1> QED
  BY <1>1, <1>2, PTL DEF Spec

-----------------------------------------------------------------------------
(* What a call leaves in its output.                                       *)

LEMMA OutputCells ==
  ASSUME call \in Calls, HasOutput(call), out = Filled(call)
  PROVE  LET H == 0 .. Height(call).out - 1
             W == 0 .. Width(call).out - 1
             C == 0 .. call.channels - 1
         IN  /\ OutPositions = {<<x, y, ch, 0>> : x \in H, y \in W, ch \in C}
             /\ \A x \in H, y \in W, ch \in C : Offset(out, <<x, y, ch, 0>>) = OutCell(call, x, y, ch)
             /\ OutCells = {OutCell(call, x, y, ch) : x \in H, y \in W, ch \in C}
<1> DEFINE H == 0 .. Height(call).out - 1
           W == 0 .. Width(call).out - 1
           C == 0 .. call.channels - 1
<1>1. OutPositions = {<<x, y, ch, 0>> : x \in H, y \in W, ch \in C}
  <2>1. /\ out.shape[1] = Height(call).out /\ out.shape[2] = Width(call).out
        /\ out.shape[3] = call.channels
    BY FilledIs
  <2> QED
    BY <2>1 DEF OutPositions
<1> HIDE DEF H, W, C
<1>2. ASSUME NEW x \in H, NEW y \in W, NEW ch \in C
      PROVE  Offset(out, <<x, y, ch, 0>>) = OutCell(call, x, y, ch)
  BY Zenon DEF OutCell
<1>3. OutCells = {OutCell(call, x, y, ch) : x \in H, y \in W, ch \in C}
  <2>1. ASSUME NEW i \in OutCells PROVE i \in {OutCell(call, x, y, ch) : x \in H, y \in W, ch \in C}
    <3>1. PICK q \in OutPositions : i = Offset(out, q)
      BY DEF OutCells
    <3>2. PICK x \in H, y \in W, ch \in C : q = <<x, y, ch, 0>>
      BY <1>1
    <3> QED
      BY <1>2, <3>1, <3>2
  <2>2. ASSUME NEW x \in H, NEW y \in W, NEW ch \in C PROVE OutCell(call, x, y, ch) \in OutCells
    <3> DEFINE q == <<x, y, ch, 0>>
    <3>1. q \in OutPositions /\ OutCell(call, x, y, ch) = Offset(out, q)
      BY <1>1, <1>2
    <3> HIDE DEF q
    <3> QED
      BY <3>1 DEF OutCells
  <2> QED
    BY <2>1, <2>2
<1> QED
  BY <1>1, <1>2, <1>3 DEF H, W, C

(* When a kernel returns OK, each element of the output comes from exactly *)
(* the elements of the input in its window, and an average is divided by   *)
(* their number, for every size, stride and padding the checks accept.     *)
THEOREM PoolsExactly == Spec => [](SizedCall(call) /\ HasRoom(call) => ResultExact)
<1>1. LoopInv => (SizedCall(call) /\ HasRoom(call) => ResultExact)
  <2> SUFFICES ASSUME LoopInv, SizedCall(call), HasRoom(call), status = "OK", BordersFit(call)
               PROVE  /\ DOMAIN mem = OutCells
                      /\ \A q \in OutPositions :
                           mem[Offset(out, q)] = Reference(call, q[1], q[2], q[3])
    BY DEF ResultExact
  <2> DEFINE H == 0 .. Height(call).out - 1
             W == 0 .. Width(call).out - 1
             C == 0 .. call.channels - 1
  <2>1. call \in Calls /\ HasOutput(call) /\ out = Filled(call) /\ MemoryExact(5)
    BY DEF LoopInv, InSide, SizedCall
  <2>2. Computed(5) = Points(call)
    BY DEF Computed, Reached, Points
  <2>3. /\ OutPositions = {<<x, y, ch, 0>> : x \in H, y \in W, ch \in C}
        /\ \A x \in H, y \in W, ch \in C : Offset(out, <<x, y, ch, 0>>) = OutCell(call, x, y, ch)
        /\ OutCells = {OutCell(call, x, y, ch) : x \in H, y \in W, ch \in C}
    BY <2>1, OutputCells
  <2>4. /\ \A p \in Points(call) : Spot(call, p)[1] \in H /\ Spot(call, p)[2] \in W
        /\ \A x \in H, y \in W : \E p \in Points(call) : Spot(call, p) = <<x, y>>
    BY <2>1, SidesShareOutput
  <2>5. /\ DOMAIN mem = {SpotCell(call, p, ch) : p \in Points(call), ch \in C}
        /\ \A i \in DOMAIN mem : \E p \in Points(call), ch \in C :
             /\ i = SpotCell(call, p, ch)
             /\ mem[i] = Reference(call, Spot(call, p)[1], Spot(call, p)[2], ch)
    BY <2>1, <2>2 DEF MemoryExact
  <2>6. \A x, u \in H, y, v \in W, ch, dh \in C :
          OutCell(call, x, y, ch) = OutCell(call, u, v, dh) => x = u /\ y = v /\ ch = dh
    BY <2>1, OutCellsApart
  <2> HIDE DEF H, W, C
  <2>7. DOMAIN mem \subseteq OutCells
    BY <2>3, <2>4, <2>5 DEF SpotCell
  <2>8. OutCells \subseteq DOMAIN mem
    <3> SUFFICES ASSUME NEW x \in H, NEW y \in W, NEW ch \in C PROVE OutCell(call, x, y, ch) \in DOMAIN mem
      BY <2>3
    <3>1. PICK p \in Points(call) : Spot(call, p) = <<x, y>>
      BY <2>4
    <3>2. SpotCell(call, p, ch) = OutCell(call, x, y, ch)
      BY <3>1 DEF SpotCell
    <3> QED
      BY <2>5, <3>2
  <2>9. ASSUME NEW x \in H, NEW y \in W, NEW ch \in C
        PROVE  mem[OutCell(call, x, y, ch)] = Reference(call, x, y, ch)
    <3> DEFINE i == OutCell(call, x, y, ch)
    <3>1. i \in DOMAIN mem
      BY <2>3, <2>8
    <3> HIDE DEF i
    <3>2. PICK p \in Points(call), dh \in C :
            i = SpotCell(call, p, dh) /\ mem[i] = Reference(call, Spot(call, p)[1], Spot(call, p)[2], dh)
      BY <2>5, <3>1
    <3> DEFINE u == Spot(call, p)[1]
               v == Spot(call, p)[2]
    <3>3. u \in H /\ v \in W /\ OutCell(call, x, y, ch) = OutCell(call, u, v, dh)
      BY <2>4, <3>2 DEF SpotCell, i
    <3>4. mem[i] = Reference(call, u, v, dh)
      BY <3>2
    <3> HIDE DEF u, v
    <3>5. x = u /\ y = v /\ ch = dh
      BY <2>6, <3>3
    <3> QED
      BY <3>4, <3>5 DEF i
  <2>10. ASSUME NEW q \in OutPositions
         PROVE  mem[Offset(out, q)] = Reference(call, q[1], q[2], q[3])
    <3>1. PICK x \in H, y \in W, ch \in C : q = <<x, y, ch, 0>>
      BY <2>3
    <3>2. q[1] = x /\ q[2] = y /\ q[3] = ch /\ Offset(out, q) = OutCell(call, x, y, ch)
      BY <2>3, <3>1
    <3> QED
      BY <2>9, <3>2
  <2> QED
    BY <2>7, <2>8, <2>10
<1> QED
  BY <1>1, LoopInductive, PTL

(* Nothing is written but elements of the output, and nothing read that    *)
(* the input does not have, at any moment of a call.                       *)
THEOREM PoolsInside == Spec => [](SizedCall(call) => InsideBuffers)
<1>1. LoopInv => (SizedCall(call) => InsideBuffers)
  <2> SUFFICES ASSUME LoopInv, SizedCall(call), BordersFit(call), NEW i \in DOMAIN mem
               PROVE  /\ i \in OutCells
                      /\ CheckLayout(out) = "OK" => (i + 1) * out.elem <= out.capacity
                      /\ mem[i].read \subseteq {r * call.row + s * call.col + ch :
                                  r \in 0 .. call.h.in - 1, s \in 0 .. call.w.in - 1,
                                  ch \in 0 .. call.channels - 1}
    BY DEF InsideBuffers
  <2> DEFINE H == 0 .. Height(call).out - 1
             W == 0 .. Width(call).out - 1
             C == 0 .. call.channels - 1
  <2>1. call \in Calls /\ HasOutput(call) /\ (status = "called" => DOMAIN mem = {})
        /\ (status # "called" => out = Filled(call))
    BY DEF LoopInv, SizedCall
  <2>2. out = Filled(call)
    BY <2>1
  <2>3. status \in {"running", "OK"}
    BY <2>1 DEF LoopInv
  <2>4. PICK s \in 0 .. 5 : MemoryExact(s)
    BY <2>1, <2>3 DEF LoopInv, InSide
  <2>5. PICK p \in Computed(s), ch \in C :
          i = SpotCell(call, p, ch) /\ mem[i] = Reference(call, Spot(call, p)[1], Spot(call, p)[2], ch)
    BY <2>4 DEF MemoryExact
  <2>6. p \in Points(call)
    BY DEF Computed
  <2> DEFINE x == Spot(call, p)[1]
             y == Spot(call, p)[2]
  <2>7. x \in H /\ y \in W
    BY <2>1, <2>6, SidesShareOutput
  <2>8. i = OutCell(call, x, y, ch) /\ mem[i] = Reference(call, x, y, ch)
    BY <2>5 DEF SpotCell
  <2> HIDE DEF x, y
  <2>9. i \in OutCells
    BY <2>1, <2>2, <2>7, <2>8, OutputCells
  <2>10. CheckLayout(out) = "OK" => (i + 1) * out.elem <= out.capacity
    <3> SUFFICES ASSUME CheckLayout(out) = "OK" PROVE (i + 1) * out.elem <= out.capacity
      OBVIOUS
    <3>1. HasRoom(call)
      BY <2>2 DEF HasRoom
    <3>2. out.elem = call.out.elem /\ out.capacity = call.out.capacity
      BY <2>1, <2>2, FilledIs
    <3> QED
      BY <2>1, <2>7, <2>8, <3>1, <3>2, OutCellsApart
  <2>11. mem[i].read = InWindow(call, x, y, ch)
    BY <2>8 DEF Reference
  <2> DEFINE X == First(Height(call), x) .. Behind(Height(call), x) - 1
             Y == First(Width(call), y) .. Behind(Width(call), y) - 1
  <2>12. InWindow(call, x, y, ch) = {u * call.row + v * call.col + ch : u \in X, v \in Y}
    BY <2>1, <2>7, WindowElements
  <2>13. X \subseteq 0 .. call.h.in - 1 /\ Y \subseteq 0 .. call.w.in - 1
    <3>1. Balanced(Height(call)) /\ Balanced(Width(call))
      BY <2>1, CallBalanced
    <3>2. Height(call).in <= call.h.in /\ Width(call).in <= call.w.in
      BY <2>1, UsedBalanced DEF HasOutput, Height, Width
    <3>3. x \in Nat /\ y \in Nat /\ Height(call).in \in Int /\ Width(call).in \in Int
      <4>1. Height(call).out \in Int /\ Width(call).out \in Int /\ Height(call).in \in Int /\ Width(call).in \in Int
        BY <3>1 DEF Balanced
      <4> QED
        BY <2>7, <4>1
    <3>4. /\ First(Height(call), x) \in Nat /\ Behind(Height(call), x) \in Int
          /\ Behind(Height(call), x) <= Height(call).in
      BY <3>1, <3>3, AreaOnAxis
    <3>5. /\ First(Width(call), y) \in Nat /\ Behind(Width(call), y) \in Int
          /\ Behind(Width(call), y) <= Width(call).in
      BY <3>1, <3>3, AreaOnAxis
    <3>6. call.h.in \in Int /\ call.w.in \in Int
      BY <2>1, CallsAssumption
    <3> QED
      BY <3>2, <3>3, <3>4, <3>5, <3>6
  <2> HIDE DEF X, Y, C
  <2>14. mem[i].read \subseteq {r * call.row + c * call.col + dh :
                                  r \in 0 .. call.h.in - 1, c \in 0 .. call.w.in - 1, dh \in C}
    BY <2>11, <2>12, <2>13
  <2> QED
    BY <2>9, <2>10, <2>14 DEF C
<1> QED
  BY <1>1, LoopInductive, PTL

(* The middle and the borders compute no element twice, unless opposite    *)
(* borders meet.                                                           *)
THEOREM SharedOut == Spec => [](SizedCall(call) /\ HasRoom(call) => ComputedOnce)
<1>1. LoopInv => (SizedCall(call) /\ HasRoom(call) => ComputedOnce)
  <2> SUFFICES ASSUME LoopInv, SizedCall(call), HasRoom(call), BordersApart(call)
               PROVE  writes = Cardinality(DOMAIN mem)
    BY DEF ComputedOnce
  <2>1. call \in Calls /\ HasOutput(call)
    BY DEF LoopInv, SizedCall
  <2>2. CASE status = "called"
    <3>1. DOMAIN mem = {} /\ writes = 0
      BY <2>1, <2>2 DEF LoopInv
    <3> QED
      BY <3>1, FS_EmptySet
  <2>3. CASE status \in {"running", "OK"}
    BY <2>1, <2>3 DEF LoopInv, InSide, WritesCounted
  <2>4. status \in {"called", "running", "OK"}
    BY <2>1 DEF LoopInv
  <2> QED
    BY <2>2, <2>3, <2>4
<1> QED
  BY <1>1, LoopInductive, PTL

(* No window that is worked out is empty, as __builtin_assume tells the    *)
(* compiler, whatever the borders.                                         *)
THEOREM WindowsNotEmpty == Spec => [](HasOutput(call) => AreaNotEmpty)
<1>1. LoopInv => (HasOutput(call) => AreaNotEmpty)
  BY DEF LoopInv, AreaNotEmpty
<1> QED
  BY <1>1, LoopInductive, PTL
=============================================================================
