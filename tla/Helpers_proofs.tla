--------------------------- MODULE Helpers_proofs ---------------------------
(***************************************************************************)
(* Proofs about the helpers that make tensors of others.                   *)
(*                                                                         *)
(* TensorViews, mli_hlp_create_subtensor: a view of a view of a view is    *)
(* still a window of the tensor it was cut out of, accepted by the checks  *)
(* and read with the parameters its elements have there.                   *)
(*                                                                         *)
(* Conversion, mli_hlp_convert_tensor: its loops over slices and their     *)
(* elements meet every position once, and what they read is not written    *)
(* yet, in place or not.                                                   *)
(***************************************************************************)
EXTENDS TensorViews, Conversion, Access_proofs

-----------------------------------------------------------------------------
(***************************************************************************)
(* TensorViews                                                             *)
(***************************************************************************)

(* Numbers count the dimensions that are kept: of n dimensions, x of which  *)
(* have size 1, n - r are removed, the first ones first.                    *)
LEMMA AsManyKept ==
  ASSUME NEW n \in 1 .. 4, NEW r \in 1 .. n,
         NEW x1 \in 0 .. 1, NEW x2 \in 0 .. 1, NEW x3 \in 0 .. 1, NEW x4 \in 0 .. 1,
         NEW y1 \in 0 .. 1, NEW y2 \in 0 .. 1, NEW y3 \in 0 .. 1, NEW y4 \in 0 .. 1,
         y1 = 0 <=> x1 = 1 /\ 0 < n - r,
         y2 = 0 <=> x2 = 1 /\ x1 < n - r,
         y3 = 0 <=> x3 = 1 /\ x1 + x2 < n - r,
         y4 = 0 <=> x4 = 1 /\ x1 + x2 + x3 < n - r,
         n = 1 => r >= n - x1, n = 2 => r >= n - (x1 + x2),
         n = 3 => r >= n - (x1 + x2 + x3), n = 4 => r >= n - (x1 + x2 + x3 + x4)
  PROVE  /\ \A k \in 1 .. r : \/ y1 = 1 /\ k = 1
                              \/ n >= 2 /\ y2 = 1 /\ y1 = k - 1
                              \/ n >= 3 /\ y3 = 1 /\ y1 + y2 = k - 1
                              \/ n >= 4 /\ y4 = 1 /\ y1 + y2 + y3 = k - 1
         /\ n = 1 => y1 = r
         /\ n = 2 => y1 + y2 = r
         /\ n = 3 => y1 + y2 + y3 = r
         /\ n = 4 => y1 + y2 + y3 + y4 = r
PROOF
  <1>1. CASE n = 1
    BY <1>1
  <1>2. CASE n = 2
    BY <1>2
  <1>3. CASE n = 3
    BY <1>3
  <1>4. CASE n = 4
    BY <1>4
  <1> QED BY <1>1, <1>2, <1>3, <1>4

(* The dimensions of a tensor that a view of it keeps are in its order, and *)
(* those that are left out have one index.                                  *)
Picks(K, r, n) ==
  /\ DOMAIN K = 1 .. r
  /\ \A k \in 1 .. r : K[k] \in 1 .. n
  /\ \A k, l \in 1 .. r : k < l => K[k] < K[l]

LEMMA KeptPicks ==
  ASSUME NEW in, in.rank \in 1 .. 4, NEW cfg, cfg.rank \in 1 .. in.rank,
         cfg.rank >= in.rank - OnesBefore(cfg, in.rank + 1)
  PROVE  /\ Picks(Kept(in, cfg), cfg.rank, in.rank)
         /\ \A d \in 1 .. in.rank : cfg.size[d] = 1 \/ \E k \in 1 .. cfg.rank : Kept(in, cfg)[k] = d
PROOF
  <1> DEFINE n == in.rank
             r == cfg.rank
             x(d) == IF cfg.size[d] = 1 THEN 1 ELSE 0
             y(d) == IF Removed(in, cfg, d) THEN 0 ELSE 1
             K == Kept(in, cfg)
  <1>1. /\ \A d \in 1 .. 4 : x(d) \in 0 .. 1 /\ y(d) \in 0 .. 1
        /\ n \in 1 .. 4 /\ r \in 1 .. n
    OBVIOUS
  <1>2. /\ OnesBefore(cfg, 1) = 0 /\ OnesBefore(cfg, 2) = x(1) /\ OnesBefore(cfg, 3) = x(1) + x(2)
        /\ OnesBefore(cfg, 4) = x(1) + x(2) + x(3)
        /\ OnesBefore(cfg, 5) = x(1) + x(2) + x(3) + x(4)
    BY DEF OnesBefore
  <1>3. /\ KeptBefore(in, cfg, 1) = 0 /\ KeptBefore(in, cfg, 2) = y(1)
        /\ KeptBefore(in, cfg, 3) = y(1) + y(2) /\ KeptBefore(in, cfg, 4) = y(1) + y(2) + y(3)
    BY DEF KeptBefore
  <1>4. \A d \in 1 .. 4 : y(d) = 0 <=> x(d) = 1 /\ OnesBefore(cfg, d) < n - r
    BY DEF Removed
  <1>5. /\ n = 1 => r >= n - x(1)
        /\ n = 2 => r >= n - (x(1) + x(2))
        /\ n = 3 => r >= n - (x(1) + x(2) + x(3))
        /\ n = 4 => r >= n - (x(1) + x(2) + x(3) + x(4))
    BY <1>2
  <1>6. /\ y(1) = 0 <=> x(1) = 1 /\ 0 < n - r
        /\ y(2) = 0 <=> x(2) = 1 /\ x(1) < n - r
        /\ y(3) = 0 <=> x(3) = 1 /\ x(1) + x(2) < n - r
        /\ y(4) = 0 <=> x(4) = 1 /\ x(1) + x(2) + x(3) < n - r
    BY <1>2, <1>4
  <1>7. \A d \in 1 .. 4 : ~Removed(in, cfg, d) <=> y(d) = 1
    OBVIOUS
  <1>8. \A d \in 1 .. n : Removed(in, cfg, d) => cfg.size[d] = 1
    BY DEF Removed
  <1> PICK x1, x2, x3, x4, y1, y2, y3, y4 :
        /\ x1 = x(1) /\ x2 = x(2) /\ x3 = x(3) /\ x4 = x(4)
        /\ y1 = y(1) /\ y2 = y(2) /\ y3 = y(3) /\ y4 = y(4)
    OBVIOUS
  <1>20. /\ x1 \in 0 .. 1 /\ x2 \in 0 .. 1 /\ x3 \in 0 .. 1 /\ x4 \in 0 .. 1
         /\ y1 \in 0 .. 1 /\ y2 \in 0 .. 1 /\ y3 \in 0 .. 1 /\ y4 \in 0 .. 1
         /\ y1 = 0 <=> x1 = 1 /\ 0 < n - r
         /\ y2 = 0 <=> x2 = 1 /\ x1 < n - r
         /\ y3 = 0 <=> x3 = 1 /\ x1 + x2 < n - r
         /\ y4 = 0 <=> x4 = 1 /\ x1 + x2 + x3 < n - r
         /\ n = 1 => r >= n - x1
         /\ n = 2 => r >= n - (x1 + x2)
         /\ n = 3 => r >= n - (x1 + x2 + x3)
         /\ n = 4 => r >= n - (x1 + x2 + x3 + x4)
    <2> HIDE DEF n, r
    <2> QED BY <1>1, <1>5, <1>6
  <1>21. /\ \A d \in 1 .. 4 : ~Removed(in, cfg, d) <=>
              (d = 1 /\ y1 = 1) \/ (d = 2 /\ y2 = 1) \/ (d = 3 /\ y3 = 1) \/ (d = 4 /\ y4 = 1)
         /\ KeptBefore(in, cfg, 1) = 0 /\ KeptBefore(in, cfg, 2) = y1
         /\ KeptBefore(in, cfg, 3) = y1 + y2 /\ KeptBefore(in, cfg, 4) = y1 + y2 + y3
    <2>1. /\ ~Removed(in, cfg, 1) <=> y1 = 1
          /\ ~Removed(in, cfg, 2) <=> y2 = 1
          /\ ~Removed(in, cfg, 3) <=> y3 = 1
          /\ ~Removed(in, cfg, 4) <=> y4 = 1
      OBVIOUS
    <2> HIDE DEF x, y
    <2> QED BY <1>3, <2>1
  <1> HIDE DEF n, r, x, y
  <1>23. /\ \A k \in 1 .. r : \/ y1 = 1 /\ k = 1
                              \/ n >= 2 /\ y2 = 1 /\ y1 = k - 1
                              \/ n >= 3 /\ y3 = 1 /\ y1 + y2 = k - 1
                              \/ n >= 4 /\ y4 = 1 /\ y1 + y2 + y3 = k - 1
         /\ n = 1 => y1 = r
         /\ n = 2 => y1 + y2 = r
         /\ n = 3 => y1 + y2 + y3 = r
         /\ n = 4 => y1 + y2 + y3 + y4 = r
    BY <1>1, <1>20, AsManyKept
  <1>9. ASSUME NEW k \in 1 .. r
        PROVE  \E d \in 1 .. n : ~Removed(in, cfg, d) /\ KeptBefore(in, cfg, d) = k - 1
    <2>1. \/ y1 = 1 /\ k = 1
          \/ n >= 2 /\ y2 = 1 /\ y1 = k - 1
          \/ n >= 3 /\ y3 = 1 /\ y1 + y2 = k - 1
          \/ n >= 4 /\ y4 = 1 /\ y1 + y2 + y3 = k - 1
      BY <1>23
    <2>2. CASE y1 = 1 /\ k = 1
      <3>1. 1 \in 1 .. n /\ ~Removed(in, cfg, 1) /\ KeptBefore(in, cfg, 1) = k - 1
        BY <1>1, <1>21, <2>2
      <3> QED BY <3>1
    <2>3. CASE n >= 2 /\ y2 = 1 /\ y1 = k - 1
      <3>1. 2 \in 1 .. n /\ ~Removed(in, cfg, 2) /\ KeptBefore(in, cfg, 2) = k - 1
        BY <1>1, <1>21, <2>3
      <3> QED BY <3>1
    <2>4. CASE n >= 3 /\ y3 = 1 /\ y1 + y2 = k - 1
      <3>1. 3 \in 1 .. n /\ ~Removed(in, cfg, 3) /\ KeptBefore(in, cfg, 3) = k - 1
        BY <1>1, <1>21, <2>4
      <3> QED BY <3>1
    <2>5. CASE n >= 4 /\ y4 = 1 /\ y1 + y2 + y3 = k - 1
      <3>1. 4 \in 1 .. n /\ ~Removed(in, cfg, 4) /\ KeptBefore(in, cfg, 4) = k - 1
        BY <1>1, <1>21, <2>5
      <3> QED BY <3>1
    <2> QED BY <2>1, <2>2, <2>3, <2>4, <2>5
  <1> DEFINE KeptAt(d) ==
               \/ d = 1 /\ (~Removed(in, cfg, d) <=> y1 = 1) /\ KeptBefore(in, cfg, d) = 0
               \/ d = 2 /\ (~Removed(in, cfg, d) <=> y2 = 1) /\ KeptBefore(in, cfg, d) = y1
               \/ d = 3 /\ (~Removed(in, cfg, d) <=> y3 = 1) /\ KeptBefore(in, cfg, d) = y1 + y2
               \/ d = 4 /\ (~Removed(in, cfg, d) <=> y4 = 1) /\ KeptBefore(in, cfg, d) = y1 + y2 + y3
  <1>22. ASSUME NEW d \in 1 .. n
         PROVE  KeptAt(d)
    <2>1. d = 1 \/ d = 2 \/ d = 3 \/ d = 4
      BY <1>1
    <2> QED BY <1>21, <2>1
  <1>10. \A d, e \in 1 .. n : d < e /\ ~Removed(in, cfg, d) =>
           KeptBefore(in, cfg, d) + 1 <= KeptBefore(in, cfg, e)
    <2> SUFFICES ASSUME NEW d \in 1 .. n, NEW e \in 1 .. n, d < e, ~Removed(in, cfg, d)
                 PROVE  KeptBefore(in, cfg, d) + 1 <= KeptBefore(in, cfg, e)
      OBVIOUS
    <2>1. KeptAt(d) /\ KeptAt(e)
      BY <1>22
    <2> QED BY <1>20, <2>1
  <1>11. ASSUME NEW d \in 1 .. n
         PROVE  KeptBefore(in, cfg, d) \in Nat
    <2>1. KeptAt(d)
      BY <1>22
    <2> QED BY <1>20, <2>1
  <1>12. \A k \in 1 .. r : K[k] = CHOOSE d \in 1 .. n : ~Removed(in, cfg, d) /\ KeptBefore(in, cfg, d) = k - 1
    BY DEF Kept, Dims, r, n
  <1>13. DOMAIN K = 1 .. r
    BY DEF Kept, r
  <1> HIDE DEF K
  <1>14. \A k \in 1 .. r : K[k] \in 1 .. n /\ ~Removed(in, cfg, K[k]) /\ KeptBefore(in, cfg, K[k]) = k - 1
    BY <1>9, <1>12
  <1>15. ASSUME NEW k \in 1 .. r, NEW l \in 1 .. r, k < l
         PROVE  K[k] < K[l]
    <2>1. ~(K[l] < K[k])
      <3> SUFFICES ASSUME K[l] < K[k] PROVE FALSE
        OBVIOUS
      <3>1. KeptBefore(in, cfg, K[l]) + 1 <= KeptBefore(in, cfg, K[k])
        BY <1>10, <1>14
      <3> QED BY <1>1, <1>14, <1>15, <3>1
    <2>2. K[l] # K[k]
      BY <1>1, <1>14, <1>15
    <2>3. K[k] \in Int /\ K[l] \in Int
      BY <1>1, <1>14
    <2> QED BY <2>1, <2>2, <2>3
  <1>16. ASSUME NEW d \in 1 .. n, cfg.size[d] # 1
         PROVE  \E k \in 1 .. r : K[k] = d
    <2>1. ~Removed(in, cfg, d)
      BY <1>8, <1>16
    <2>2. KeptBefore(in, cfg, d) + 1 \in 1 .. r
      <3>1. PICK e \in 1 .. n : ~Removed(in, cfg, e) /\ KeptBefore(in, cfg, e) = r - 1
        <4>1. r \in 1 .. r
          BY <1>1
        <4> QED BY <1>9, <4>1
      <3>2. CASE d = e
        BY <1>1, <1>11, <3>1, <3>2
      <3>3. CASE d < e
        BY <1>1, <1>10, <1>11, <2>1, <3>1, <3>3
      <3>4. CASE e < d
        <4>1. KeptAt(d) /\ KeptAt(e)
          BY <1>22
        <4>3. FALSE
          BY <1>1, <1>20, <1>23, <2>1, <3>1, <3>4, <4>1
        <4> QED BY <4>3
      <3> QED BY <1>1, <3>2, <3>3, <3>4
    <2> DEFINE k == KeptBefore(in, cfg, d) + 1
    <2>3. K[k] \in 1 .. n /\ ~Removed(in, cfg, K[k]) /\ KeptBefore(in, cfg, K[k]) = KeptBefore(in, cfg, d)
      <3>1. KeptBefore(in, cfg, K[k]) = k - 1
        BY <1>14, <2>2
      <3> QED BY <1>11, <1>14, <2>2, <3>1
    <2>4. K[k] = d
      <3> HIDE DEF k
      <3>1. ~(K[k] < d) /\ ~(d < K[k])
        BY <1>10, <1>11, <2>1, <2>3
      <3> QED BY <1>1, <2>3, <3>1
    <2> QED BY <2>2, <2>4
  <1>17. Picks(K, r, n)
    BY <1>13, <1>14, <1>15 DEF Picks
  <1> QED BY <1>16, <1>17 DEF K, r, n

(* Sums over dimensions. *)
FullSum(n, F) ==
  (IF 1 <= n THEN F[1] ELSE 0) + (IF 2 <= n THEN F[2] ELSE 0)
    + (IF 3 <= n THEN F[3] ELSE 0) + (IF 4 <= n THEN F[4] ELSE 0)
PickedSum(r, K, F) ==
  (IF 1 <= r THEN F[K[1]] ELSE 0) + (IF 2 <= r THEN F[K[2]] ELSE 0)
    + (IF 3 <= r THEN F[K[3]] ELSE 0) + (IF 4 <= r THEN F[K[4]] ELSE 0)

(* The sum over the dimensions kept is that over all, if the rest is 0.     *)
LEMMA SumOfPicked ==
  ASSUME NEW n \in 0 .. 4, NEW r \in 0 .. 4, NEW K, Picks(K, r, n),
         NEW F, \A d \in 1 .. n : F[d] \in Int,
         \A d \in 1 .. n : F[d] = 0 \/ \E k \in 1 .. r : K[k] = d
  PROVE  PickedSum(r, K, F) = FullSum(n, F)
PROOF
  <1> USE DEF Picks, PickedSum, FullSum
  <1> DEFINE T(d) == IF d <= n THEN F[d] ELSE 0
  <1> PICK f1, f2, f3, f4 : f1 = T(1) /\ f2 = T(2) /\ f3 = T(3) /\ f4 = T(4)
    OBVIOUS
  <1>0. f1 \in Int /\ f2 \in Int /\ f3 \in Int /\ f4 \in Int
    OBVIOUS
  <1> DEFINE ValuedAt(d, v) == \/ d = 1 /\ v = f1
                               \/ d = 2 /\ v = f2
                               \/ d = 3 /\ v = f3
                               \/ d = 4 /\ v = f4
             Valued(d) == ValuedAt(d, F[d])
             AllButIn(S) == /\ 1 \notin S => f1 = 0
                            /\ 2 \notin S => f2 = 0
                            /\ 3 \notin S => f3 = 0
                            /\ 4 \notin S => f4 = 0
  <1>6. ASSUME NEW d \in 1 .. n
        PROVE  Valued(d)
    OBVIOUS
  <1>7. /\ (\A k \in 1 .. r : K[k] # 1) => f1 = 0
        /\ (\A k \in 1 .. r : K[k] # 2) => f2 = 0
        /\ (\A k \in 1 .. r : K[k] # 3) => f3 = 0
        /\ (\A k \in 1 .. r : K[k] # 4) => f4 = 0
    OBVIOUS
  <1> DEFINE picked == PickedSum(r, K, F)
             sum == FullSum(n, F)
  <1>8. sum = f1 + f2 + f3 + f4
    OBVIOUS
  <1>9. \A k \in 1 .. r : F[K[k]] \in Int
    OBVIOUS
  <1> HIDE DEF T
  <1>1. ASSUME r = 0 PROVE picked = sum
    <2>1. f1 = 0 /\ f2 = 0 /\ f3 = 0 /\ f4 = 0
      BY <1>1, <1>7
    <2>2. picked = 0
      BY <1>1
    <2> HIDE DEF picked, sum
    <2> QED BY <1>8, <2>1, <2>2
  <1>2. ASSUME r = 1 PROVE picked = sum
    <2>1. /\ K[1] \in 1 .. n
          /\ K[1] # 1 => f1 = 0
          /\ K[1] # 2 => f2 = 0
          /\ K[1] # 3 => f3 = 0
          /\ K[1] # 4 => f4 = 0
      BY <1>2, <1>7
    <2>2. picked = F[K[1]]
      BY <1>2, <1>9
    <2>3. F[K[1]] = f1 + f2 + f3 + f4
      <3>1. Valued(K[1])
        BY <1>6, <2>1
      <3> PICK k1, v1 : k1 = K[1] /\ v1 = F[K[1]]
        OBVIOUS
      <3>2. ValuedAt(k1, v1) /\ AllButIn({k1})
        BY <2>1, <3>1
      <3>3. v1 = f1 + f2 + f3 + f4
        BY ONLY <1>0, <3>2
      <3> QED BY <3>3
    <2> HIDE DEF picked, sum
    <2> QED BY <1>8, <2>2, <2>3
  <1>3. ASSUME r = 2 PROVE picked = sum
    <2>1. /\ K[1] \in 1 .. n /\ K[2] \in 1 .. n /\ K[1] < K[2]
          /\ K[1] # 1 /\ K[2] # 1 => f1 = 0
          /\ K[1] # 2 /\ K[2] # 2 => f2 = 0
          /\ K[1] # 3 /\ K[2] # 3 => f3 = 0
          /\ K[1] # 4 /\ K[2] # 4 => f4 = 0
      <3>1. \A k \in 1 .. r : k = 1 \/ k = 2
        BY <1>3
      <3> QED BY <1>3, <1>7, <3>1
    <2>2. picked = F[K[1]] + F[K[2]]
      BY <1>3, <1>9
    <2>3. F[K[1]] + F[K[2]] = f1 + f2 + f3 + f4
      <3>1. /\ Valued(K[1]) /\ Valued(K[2])
        BY <1>6, <2>1
      <3> PICK k1, k2, v1, v2 : k1 = K[1] /\ k2 = K[2] /\ v1 = F[K[1]] /\ v2 = F[K[2]]
        OBVIOUS
      <3>2. ValuedAt(k1, v1) /\ ValuedAt(k2, v2) /\ k1 # k2 /\ AllButIn({k1, k2})
        BY <2>1, <3>1
      <3>3. v1 + v2 = f1 + f2 + f3 + f4
        BY ONLY <1>0, <3>2
      <3> QED BY <3>3
    <2> HIDE DEF picked, sum
    <2> QED BY <1>8, <2>2, <2>3
  <1>4. ASSUME r = 3 PROVE picked = sum
    <2>1. /\ K[1] \in 1 .. n /\ K[2] \in 1 .. n /\ K[3] \in 1 .. n /\ K[1] < K[2] /\ K[2] < K[3]
          /\ K[1] # 1 /\ K[2] # 1 /\ K[3] # 1 => f1 = 0
          /\ K[1] # 2 /\ K[2] # 2 /\ K[3] # 2 => f2 = 0
          /\ K[1] # 3 /\ K[2] # 3 /\ K[3] # 3 => f3 = 0
          /\ K[1] # 4 /\ K[2] # 4 /\ K[3] # 4 => f4 = 0
      <3>1. \A k \in 1 .. r : k = 1 \/ k = 2 \/ k = 3
        BY <1>4
      <3> QED BY <1>4, <1>7, <3>1
    <2>2. picked = F[K[1]] + F[K[2]] + F[K[3]]
      BY <1>4, <1>9
    <2>3. F[K[1]] + F[K[2]] + F[K[3]] = f1 + f2 + f3 + f4
      <3>1. /\ Valued(K[1]) /\ Valued(K[2]) /\ Valued(K[3])
        BY <1>6, <2>1
      <3> PICK k1, k2, k3, v1, v2, v3 :
            /\ k1 = K[1] /\ k2 = K[2] /\ k3 = K[3]
            /\ v1 = F[K[1]] /\ v2 = F[K[2]] /\ v3 = F[K[3]]
        OBVIOUS
      <3>2. /\ ValuedAt(k1, v1) /\ ValuedAt(k2, v2) /\ ValuedAt(k3, v3)
            /\ k1 # k2 /\ k1 # k3 /\ k2 # k3 /\ AllButIn({k1, k2, k3})
        BY <2>1, <3>1
      <3>3. v1 + v2 + v3 = f1 + f2 + f3 + f4
        BY ONLY <1>0, <3>2
      <3> QED BY <3>3
    <2> HIDE DEF picked, sum
    <2> QED BY <1>8, <2>2, <2>3
  <1>5. ASSUME r = 4 PROVE picked = sum
    <2>1. /\ K[1] \in 1 .. n /\ K[2] \in 1 .. n /\ K[3] \in 1 .. n /\ K[4] \in 1 .. n
          /\ K[1] < K[2] /\ K[2] < K[3] /\ K[3] < K[4]
      BY <1>5
    <2>2. n = 4 /\ K[1] = 1 /\ K[2] = 2 /\ K[3] = 3 /\ K[4] = 4
      BY <2>1
    <2> QED BY <1>5, <2>2
  <1>10. r = 0 \/ r = 1 \/ r = 2 \/ r = 3 \/ r = 4
    OBVIOUS
  <1> QED BY <1>1, <1>2, <1>3, <1>4, <1>5, <1>10

(* Numbers for the dimensions of a view, at the dimensions they show.       *)
Spread(K, a) ==
  [d \in 1 .. MaxRank |-> IF \E k \in DOMAIN K : K[k] = d
                          THEN a[CHOOSE k \in DOMAIN K : K[k] = d] ELSE 0]

LEMMA SpreadAt ==
  ASSUME NEW K, NEW r, NEW n \in 0 .. 4, r \in Int, Picks(K, r, n), NEW a
  PROVE  /\ \A k \in 1 .. r : Spread(K, a)[K[k]] = a[k]
         /\ \A d \in 1 .. 4 : (\A k \in 1 .. r : K[k] # d) => Spread(K, a)[d] = 0
PROOF
  <1>1. ASSUME NEW k \in 1 .. r
        PROVE  (CHOOSE l \in DOMAIN K : K[l] = K[k]) = k /\ K[k] \in 1 .. MaxRank
    <2>1. ASSUME NEW l \in 1 .. r, K[l] = K[k]
          PROVE  l = k
      <3>1. K[l] \in Int /\ K[k] \in Int /\ (l < k => K[l] < K[k]) /\ (k < l => K[k] < K[l])
        BY DEF Picks
      <3> QED BY <2>1, <3>1
    <2>2. DOMAIN K = 1 .. r
      BY DEF Picks
    <2>3. (CHOOSE l \in DOMAIN K : K[l] = K[k]) = k
      BY <2>1, <2>2
    <2> QED BY <2>3 DEF Picks, MaxRank
  <1>2. DOMAIN K = 1 .. r
    BY DEF Picks
  <1> QED BY <1>1, <1>2 DEF Spread, MaxRank

(* A view that keeps the strides has its elements where the tensor has them. *)
LEMMA SpreadOffset ==
  ASSUME NEW big, big.rank \in 0 .. 4, NEW small, small.rank \in 0 .. 4,
         NEW K, Picks(K, small.rank, big.rank),
         \A d \in Dims(big) : big.mem_stride[d] \in Int,
         \A k \in Dims(small) : small.mem_stride[k] = big.mem_stride[K[k]],
         NEW a, \A k \in Dims(small) : a[k] \in Int,
         NEW x, \A d \in Dims(big) : x[d] \in Int,
         NEW y, \A d \in Dims(big) : y[d] = x[d] + Spread(K, a)[d]
  PROVE  Offset(big, y) = Offset(big, x) + Offset(small, a)
PROOF
  <1> DEFINE n == big.rank
             r == small.rank
             S == big.mem_stride
             X == Spread(K, a)
             F == [d \in 1 .. 4 |-> IF d <= n THEN X[d] * S[d] ELSE 0]
  <1>1. /\ n \in 0 .. 4 /\ r \in 0 .. 4 /\ Dims(big) = 1 .. n /\ Dims(small) = 1 .. r
    BY DEF Dims
  <1>2. /\ \A k \in 1 .. r : X[K[k]] = a[k] /\ K[k] \in 1 .. n
        /\ \A d \in 1 .. 4 : (\A k \in 1 .. r : K[k] # d) => X[d] = 0
    <2>1. Picks(K, r, n) /\ r \in Int
      BY <1>1
    <2>2. \A k \in 1 .. r : K[k] \in 1 .. n
      BY <2>1 DEF Picks
    <2> HIDE DEF n, r
    <2>3. /\ \A k \in 1 .. r : Spread(K, a)[K[k]] = a[k]
          /\ \A d \in 1 .. 4 : (\A k \in 1 .. r : K[k] # d) => Spread(K, a)[d] = 0
      BY <1>1, <2>1, SpreadAt
    <2> QED BY <2>2, <2>3
  <1>3. ASSUME NEW d \in 1 .. n
        PROVE  /\ X[d] \in Int /\ x[d] \in Int /\ S[d] \in Int /\ F[d] = X[d] * S[d] /\ F[d] \in Int
               /\ F[d] = 0 \/ \E k \in 1 .. r : K[k] = d
    <2>1. X[d] \in Int
      <3>1. CASE \A k \in 1 .. r : K[k] # d
        <4>1. d \in 1 .. 4
          BY <1>1
        <4>2. X[d] = 0
          BY <1>2, <3>1, <4>1
        <4> QED BY <4>2
      <3>2. ASSUME NEW k \in 1 .. r, K[k] = d PROVE X[d] \in Int
        <4>1. X[d] = a[k] /\ a[k] \in Int
          BY <1>1, <1>2, <3>2
        <4> QED BY <4>1
      <3> QED BY <3>1, <3>2
    <2>2. S[d] \in Int /\ x[d] \in Int /\ F[d] = X[d] * S[d]
      BY <1>1
    <2>3. CASE \A k \in 1 .. r : K[k] # d
      <3>1. X[d] = 0
        BY <1>1, <1>2, <2>3
      <3> QED BY <2>1, <2>2, <3>1
    <2> QED BY <2>1, <2>2, <2>3
  <1>4. ASSUME NEW k \in 1 .. r
        PROVE  F[K[k]] = a[k] * small.mem_stride[k]
    BY <1>1, <1>2, <1>3
  <1>5. \A d \in 1 .. n : y[d] = x[d] + X[d]
    BY <1>1
  <1>6. ASSUME NEW d \in 1 .. 4
        PROVE  /\ Term(big, x, d) \in Int /\ F[d] \in Int
               /\ Term(big, y, d) = Term(big, x, d) + F[d]
               /\ F[d] = IF d <= n THEN F[d] ELSE 0
    <2>1. CASE d <= n
      <3>1. d \in 1 .. n
        BY <1>1, <2>1
      <3>2. y[d] = x[d] + X[d] /\ x[d] \in Int /\ X[d] \in Int /\ S[d] \in Int
        BY <1>3, <1>5, <3>1
      <3>3. y[d] * S[d] = x[d] * S[d] + X[d] * S[d] /\ x[d] * S[d] \in Int
        <4> HIDE DEF X, S
        <4> QED BY <3>2
      <3>4. F[d] = X[d] * S[d] /\ F[d] \in Int
        BY <1>3, <3>1
      <3> HIDE DEF X, F
      <3> QED BY <2>1, <3>3, <3>4 DEF Term
    <2>2. CASE ~(d <= n)
      BY <1>1, <2>2 DEF Term
    <2> QED BY <2>1, <2>2
  <1>7. ASSUME NEW k \in 1 .. 4
        PROVE  /\ Term(small, a, k) = IF k <= r THEN F[K[k]] ELSE 0
               /\ Term(small, a, k) \in Int
    <2>1. CASE k <= r
      <3>1. k \in 1 .. r
        BY <1>1, <2>1
      <3> QED BY <1>2, <1>3, <1>4, <2>1, <3>1 DEF Term
    <2>2. CASE ~(k <= r)
      BY <1>1, <2>2 DEF Term
    <2> QED BY <2>1, <2>2
  <1> HIDE DEF F, X, S
  <1>8. PickedSum(r, K, F) = FullSum(n, F)
    <2>1. Picks(K, r, n)
      BY <1>1
    <2>2. /\ \A d \in 1 .. n : F[d] \in Int
          /\ \A d \in 1 .. n : F[d] = 0 \/ \E k \in 1 .. r : K[k] = d
      BY <1>3
    <2> HIDE DEF n, r
    <2> QED BY <1>1, <2>1, <2>2, SumOfPicked
  <1> HIDE DEF n, r
  <1>9. Offset(small, a) = F[1] + F[2] + F[3] + F[4]
    <2>1. /\ Term(small, a, 1) = IF 1 <= r THEN F[K[1]] ELSE 0
          /\ Term(small, a, 2) = IF 2 <= r THEN F[K[2]] ELSE 0
          /\ Term(small, a, 3) = IF 3 <= r THEN F[K[3]] ELSE 0
          /\ Term(small, a, 4) = IF 4 <= r THEN F[K[4]] ELSE 0
      BY <1>7
    <2>2. /\ F[1] = IF 1 <= n THEN F[1] ELSE 0
          /\ F[2] = IF 2 <= n THEN F[2] ELSE 0
          /\ F[3] = IF 3 <= n THEN F[3] ELSE 0
          /\ F[4] = IF 4 <= n THEN F[4] ELSE 0
      BY <1>6
    <2> QED BY <1>8, <2>1, <2>2, OffsetIsSum DEF PickedSum, FullSum
  <1>10. /\ Offset(big, x) = Term(big, x, 1) + Term(big, x, 2) + Term(big, x, 3) + Term(big, x, 4)
         /\ Offset(big, y) = Term(big, y, 1) + Term(big, y, 2) + Term(big, y, 3) + Term(big, y, 4)
    BY OffsetIsSum
  <1> PICK t1, t2, t3, t4 : /\ t1 = Term(big, x, 1) /\ t2 = Term(big, x, 2)
                            /\ t3 = Term(big, x, 3) /\ t4 = Term(big, x, 4)
    OBVIOUS
  <1>11. /\ t1 \in Int /\ t2 \in Int /\ t3 \in Int /\ t4 \in Int
         /\ F[1] \in Int /\ F[2] \in Int /\ F[3] \in Int /\ F[4] \in Int
         /\ Offset(big, x) = t1 + t2 + t3 + t4
         /\ Offset(big, y) = (t1 + F[1]) + (t2 + F[2]) + (t3 + F[3]) + (t4 + F[4])
    BY <1>6, <1>10
  <1> QED BY <1>9, <1>11

(* What a call is made with that is not refused.                            *)
Cut(in, cfg) ==
  /\ in \in Tensors /\ in.dim <= in.rank /\ CheckTensor(in) = "OK" /\ NoWrap(in)
  /\ cfg.offset \in [1 .. MaxRank -> Nat] /\ cfg.size \in [1 .. MaxRank -> Nat]
  /\ cfg.rank \in 1 .. in.rank
  /\ DocumentedCut(in, cfg) /\ CheckSubtensor(in, cfg) = "OK"

LEMMA TensorFacts ==
  ASSUME NEW t \in Tensors
  PROVE  /\ Descriptor(t)
         /\ t.rank \in Nat /\ t.shape \in [1 .. 4 -> Nat] /\ t.mem_stride \in [1 .. 4 -> Int]
         /\ t.data \in Int /\ t.capacity \in Nat /\ t.elem \in Nat \ {0} /\ t.dim \in Nat
         /\ t.params \in Int /\ t.params_cap \in Nat
BY DEF Tensors, Descriptor, MaxRank

LEMMA CutFacts ==
  ASSUME NEW in, NEW cfg, Cut(in, cfg)
  PROVE  /\ in.rank \in 1 .. 4 /\ cfg.rank \in 1 .. in.rank
         /\ \A d \in 1 .. in.rank :
              /\ in.mem_stride[d] \in Nat \ {0} /\ in.shape[d] \in Nat \ {0}
              /\ cfg.offset[d] \in Nat /\ cfg.size[d] \in Nat \ {0}
              /\ cfg.offset[d] < in.shape[d] /\ cfg.offset[d] + cfg.size[d] <= in.shape[d]
         /\ Picks(Kept(in, cfg), cfg.rank, in.rank)
         /\ \A d \in 1 .. in.rank : cfg.size[d] = 1 \/ \E k \in 1 .. cfg.rank : Kept(in, cfg)[k] = d
         /\ CheckLayout(in) = "OK" /\ Strided(in) /\ Fits(in)
PROOF
  <1>1. Descriptor(in) /\ CheckLayout(in) = "OK"
    BY TensorFacts, TensorHasLayout DEF Cut
  <1>2. /\ in.rank \in 0 .. MaxRank /\ Strided(in) /\ Fits(in)
        /\ \A d \in Dims(in) : in.mem_stride[d] \in Nat \ {0} /\ in.shape[d] \in Nat \ {0}
    BY <1>1, Accepted
  <1>3. in.rank \in 1 .. 4 /\ cfg.rank \in 1 .. in.rank
    BY <1>2 DEF Cut, MaxRank
  <1>4. /\ cfg.rank >= in.rank - OnesBefore(cfg, in.rank + 1)
        /\ \A d \in Dims(in) : cfg.size[d] > 0
    BY DEF Cut, DocumentedCut
  <1>5. \A d \in Dims(in) : cfg.offset[d] < in.shape[d] /\ cfg.offset[d] + cfg.size[d] <= in.shape[d]
    BY DEF Cut, CheckSubtensor
  <1>6. \A d \in 1 .. in.rank : cfg.offset[d] \in Nat /\ cfg.size[d] \in Nat
    BY <1>3 DEF Cut, MaxRank
  <1>7. /\ Picks(Kept(in, cfg), cfg.rank, in.rank)
        /\ \A d \in 1 .. in.rank : cfg.size[d] = 1 \/ \E k \in 1 .. cfg.rank : Kept(in, cfg)[k] = d
    BY <1>3, <1>4, KeptPicks
  <1> QED BY <1>1, <1>2, <1>3, <1>4, <1>5, <1>6, <1>7 DEF Dims

(* A tensor is the record of its fields. *)
LEMMA TensorFields ==
  ASSUME NEW t \in Tensors
  PROVE  \E rank, shape, mem_stride, data, capacity, elem, dim, params, params_cap :
           t = [rank |-> rank, shape |-> shape, mem_stride |-> mem_stride, data |-> data,
                capacity |-> capacity, elem |-> elem, dim |-> dim, params |-> params,
                params_cap |-> params_cap]
BY DEF Tensors

LEMMA CutFields ==
  ASSUME NEW in, NEW cfg, Cut(in, cfg)
  PROVE  \E shape \in [1 .. 4 -> Nat], mem_stride \in [1 .. 4 -> Int], dim \in Nat, params \in Int :
           /\ Subtensor(in, cfg) =
                [rank |-> cfg.rank, shape |-> shape, mem_stride |-> mem_stride,
                 data |-> in.data + Offset(in, cfg.offset),
                 capacity |-> in.capacity - Offset(in, cfg.offset) * in.elem, elem |-> in.elem,
                 dim |-> dim, params |-> params, params_cap |-> in.params_cap]
           /\ \A k \in 1 .. cfg.rank : /\ shape[k] = cfg.size[Kept(in, cfg)[k]]
                                       /\ mem_stride[k] = in.mem_stride[Kept(in, cfg)[k]]
           /\ \/ dim = 0 /\ ~ \E k \in 1 .. cfg.rank : in.dim > 0 /\ Kept(in, cfg)[k] = in.dim
              \/ /\ in.dim > 0 /\ dim \in 1 .. cfg.rank /\ Kept(in, cfg)[dim] = in.dim
                 /\ params = in.params + cfg.offset[in.dim]
PROOF
  <1> DEFINE K == Kept(in, cfg)
             r == cfg.rank
             S == Strides(in.mem_stride, in.shape, in.rank)
             rest(a) == [d \in 1 .. MaxRank |-> IF d \in DOMAIN K THEN a[K[d]] ELSE 0]
             off == Offset([in EXCEPT !.mem_stride = S], cfg.offset)
  <1>1. /\ in.rank \in 1 .. 4 /\ r \in 1 .. in.rank /\ in.dim \in Nat /\ in.dim <= in.rank
        /\ in.params \in Int
        /\ Picks(K, r, in.rank)
        /\ \A d \in 1 .. in.rank : in.mem_stride[d] \in Nat \ {0}
        /\ cfg.size \in [1 .. 4 -> Nat] /\ cfg.offset \in [1 .. 4 -> Nat]
    BY CutFacts, TensorFacts DEF Cut, MaxRank
  <1>2. /\ DOMAIN K = 1 .. r /\ \A k \in 1 .. r : K[k] \in 1 .. in.rank
    BY <1>1 DEF Picks
  <1>3. \A d \in 1 .. in.rank : S[d] = in.mem_stride[d]
    <2>1. in.rank \in 0 .. MaxRank
      BY <1>1 DEF MaxRank
    <2> HIDE DEF S
    <2>2. \A d \in 1 .. in.rank : S[d] =
              IF in.mem_stride[d] # 0 THEN in.mem_stride[d] ELSE IF d = in.rank THEN 1
              ELSE S[d + 1] * in.shape[d + 1]
      BY <2>1, StridesFollow DEF S
    <2> QED BY <1>1, <2>2
  <1> HIDE DEF S, K
  <1>4. rest(cfg.size) \in [1 .. 4 -> Nat]
    <2>1. ASSUME NEW k \in 1 .. r
          PROVE  cfg.size[K[k]] \in Nat
      <3>1. K[k] \in 1 .. in.rank /\ in.rank \in 1 .. 4
        BY <1>1, <1>2
      <3>2. K[k] \in 1 .. 4
        BY <3>1
      <3> QED BY <1>1, <3>2
    <2>2. \A d \in 1 .. 4 : (IF d \in DOMAIN K THEN cfg.size[K[d]] ELSE 0) \in Nat
      BY <1>2, <2>1
    <2> QED BY <2>2 DEF MaxRank
  <1>5. /\ rest(S) \in [1 .. 4 -> Int]
        /\ \A k \in 1 .. r : rest(S)[k] = in.mem_stride[K[k]] /\ rest(cfg.size)[k] = cfg.size[K[k]]
    <2>1. ASSUME NEW k \in 1 .. r
          PROVE  k \in 1 .. 4 /\ S[K[k]] = in.mem_stride[K[k]] /\ in.mem_stride[K[k]] \in Nat
      <3>1. K[k] \in 1 .. in.rank /\ k \in 1 .. 4
        BY <1>1, <1>2
      <3> QED BY <1>1, <1>3, <3>1
    <2>2. \A d \in 1 .. 4 : (IF d \in DOMAIN K THEN S[K[d]] ELSE 0) \in Int
      BY <1>2, <2>1
    <2>3. rest(S) \in [1 .. 4 -> Int]
      BY <2>2 DEF MaxRank
    <2>4. \A k \in 1 .. r : rest(S)[k] = in.mem_stride[K[k]] /\ rest(cfg.size)[k] = cfg.size[K[k]]
      BY <1>2, <2>1 DEF MaxRank
    <2> QED BY <2>3, <2>4
  <1>6. off = Offset(in, cfg.offset)
    <2> DEFINE u == [in EXCEPT !.mem_stride = S]
    <2>1. u.rank = in.rank /\ u.mem_stride = S
      BY DEF Cut, Tensors
    <2>2. \A d \in 1 .. 4 : Term(u, cfg.offset, d) = Term(in, cfg.offset, d)
      <3> HIDE DEF u
      <3> QED BY <1>1, <1>3, <2>1 DEF Term
    <2>3. /\ Term(u, cfg.offset, 1) = Term(in, cfg.offset, 1)
          /\ Term(u, cfg.offset, 2) = Term(in, cfg.offset, 2)
          /\ Term(u, cfg.offset, 3) = Term(in, cfg.offset, 3)
          /\ Term(u, cfg.offset, 4) = Term(in, cfg.offset, 4)
      <3> HIDE DEF u
      <3> QED BY <2>2
    <2>4. /\ Offset(u, cfg.offset) = Term(u, cfg.offset, 1) + Term(u, cfg.offset, 2)
                                      + Term(u, cfg.offset, 3) + Term(u, cfg.offset, 4)
          /\ Offset(in, cfg.offset) = Term(in, cfg.offset, 1) + Term(in, cfg.offset, 2)
                                      + Term(in, cfg.offset, 3) + Term(in, cfg.offset, 4)
      <3> HIDE DEF u
      <3> QED BY OffsetIsSum
    <2> QED BY <2>3, <2>4
  <1> DEFINE shaped == [rank |-> cfg.rank, shape |-> rest(cfg.size), mem_stride |-> rest(S),
                        data |-> in.data + off, capacity |-> in.capacity - off * in.elem,
                        elem |-> in.elem, dim |-> in.dim, params |-> in.params,
                        params_cap |-> in.params_cap]
             following == \E k \in DOMAIN K : in.dim > 0 /\ K[k] = in.dim
  <1>7. Subtensor(in, cfg) = WithParams(shaped, in, cfg, K)
    <2> DEFINE s == rest(cfg.size)
               m == rest(S)
               moved == AdvancedView(in, off)
    <2>1. Subtensor(in, cfg) =
            WithParams([moved EXCEPT !.rank = cfg.rank, !.shape = s, !.mem_stride = m], in, cfg, K)
      BY DEF Subtensor, S, K
    <2> HIDE DEF rest, off, s, m
    <2>2. [moved EXCEPT !.rank = cfg.rank, !.shape = s, !.mem_stride = m] =
            [rank |-> cfg.rank, shape |-> s, mem_stride |-> m,
             data |-> in.data + off, capacity |-> in.capacity - off * in.elem,
             elem |-> in.elem, dim |-> in.dim, params |-> in.params,
             params_cap |-> in.params_cap]
      <3> PICK data, capacity : data = in.data + off /\ capacity = in.capacity - off * in.elem
        OBVIOUS
      <3>1. moved = [in EXCEPT !.data = data, !.capacity = capacity]
        BY DEF AdvancedView
      <3>2. in \in Tensors
        BY DEF Cut
      <3> PICK rank0, shape0, mem_stride0, data0, capacity0, elem0, dim0, params0, params_cap0 :
            in = [rank |-> rank0, shape |-> shape0, mem_stride |-> mem_stride0, data |-> data0,
                  capacity |-> capacity0, elem |-> elem0, dim |-> dim0, params |-> params0,
                  params_cap |-> params_cap0]
        BY <3>2, TensorFields
      <3>3. /\ in.elem = elem0 /\ in.dim = dim0 /\ in.params = params0 /\ in.params_cap = params_cap0
        OBVIOUS
      <3> HIDE DEF moved
      <3>4. moved = [rank |-> rank0, shape |-> shape0, mem_stride |-> mem_stride0, data |-> data,
                     capacity |-> capacity, elem |-> elem0, dim |-> dim0, params |-> params0,
                     params_cap |-> params_cap0]
        BY <3>1
      <3> PICK rank1, shape1, mem_stride1 : rank1 = cfg.rank /\ shape1 = s /\ mem_stride1 = m
        OBVIOUS
      <3> PICK moved1 : moved1 = moved
        OBVIOUS
      <3>5. moved1 = [rank |-> rank0, shape |-> shape0, mem_stride |-> mem_stride0, data |-> data,
                      capacity |-> capacity, elem |-> elem0, dim |-> dim0, params |-> params0,
                      params_cap |-> params_cap0]
        BY <3>4
      <3>6. [moved1 EXCEPT !.rank = rank1, !.shape = shape1, !.mem_stride = mem_stride1] =
              [rank |-> rank1, shape |-> shape1, mem_stride |-> mem_stride1, data |-> data,
               capacity |-> capacity, elem |-> elem0, dim |-> dim0, params |-> params0,
               params_cap |-> params_cap0]
        <4>1. [moved1 EXCEPT !.rank = rank1] =
                [rank |-> rank1, shape |-> shape0, mem_stride |-> mem_stride0, data |-> data,
                 capacity |-> capacity, elem |-> elem0, dim |-> dim0, params |-> params0,
                 params_cap |-> params_cap0]
          BY ONLY <3>5, SMTT(60)
        <4> PICK u : u = [moved1 EXCEPT !.rank = rank1]
          OBVIOUS
        <4>2. u = [rank |-> rank1, shape |-> shape0, mem_stride |-> mem_stride0, data |-> data,
                 capacity |-> capacity, elem |-> elem0, dim |-> dim0, params |-> params0,
                 params_cap |-> params_cap0]
          BY <4>1
        <4>3. [u EXCEPT !.shape = shape1] =
                [rank |-> rank1, shape |-> shape1, mem_stride |-> mem_stride0, data |-> data,
                 capacity |-> capacity, elem |-> elem0, dim |-> dim0, params |-> params0,
                 params_cap |-> params_cap0]
          BY ONLY <4>2, SMTT(60)
        <4> PICK v : v = [u EXCEPT !.shape = shape1]
          OBVIOUS
        <4>4. v = [rank |-> rank1, shape |-> shape1, mem_stride |-> mem_stride0, data |-> data,
                 capacity |-> capacity, elem |-> elem0, dim |-> dim0, params |-> params0,
                 params_cap |-> params_cap0]
          BY <4>3
        <4>5. [v EXCEPT !.mem_stride = mem_stride1] =
                [rank |-> rank1, shape |-> shape1, mem_stride |-> mem_stride1, data |-> data,
                 capacity |-> capacity, elem |-> elem0, dim |-> dim0, params |-> params0,
                 params_cap |-> params_cap0]
          BY ONLY <4>4, SMTT(60)
        <4> QED BY <4>5
      <3> QED BY <3>3, <3>6
    <2> QED BY <2>1, <2>2 DEF s, m
  <1>8. ASSUME NEW s, NEW m,
               shaped = [rank |-> cfg.rank, shape |-> s, mem_stride |-> m,
                         data |-> in.data + off, capacity |-> in.capacity - off * in.elem,
                         elem |-> in.elem, dim |-> in.dim, params |-> in.params,
                         params_cap |-> in.params_cap]
        PROVE  \E dim \in Nat, params \in Int :
                 /\ WithParams(shaped, in, cfg, K) =
                      [rank |-> cfg.rank, shape |-> s, mem_stride |-> m,
                       data |-> in.data + off, capacity |-> in.capacity - off * in.elem,
                       elem |-> in.elem, dim |-> dim, params |-> params,
                       params_cap |-> in.params_cap]
                 /\ \/ dim = 0 /\ ~ following
                    \/ /\ in.dim > 0 /\ dim \in 1 .. r /\ K[dim] = in.dim
                       /\ params = in.params + cfg.offset[in.dim]
    <2> HIDE DEF shaped, off
    <2>1. CASE following
      <3> PICK dim : dim = CHOOSE k \in DOMAIN K : K[k] = in.dim
        OBVIOUS
      <3> PICK params : params = in.params + cfg.offset[in.dim]
        OBVIOUS
      <3>1. in.dim > 0 /\ dim \in 1 .. r /\ K[dim] = in.dim
        BY <1>2, <2>1
      <3>2. dim \in Nat /\ params \in Int
        <4>1. in.dim \in 1 .. 4
          BY <1>1, <3>1
        <4>2. dim \in Nat
          BY <1>1, <3>1
        <4> QED BY <1>1, <4>1, <4>2
      <3>3. WithParams(shaped, in, cfg, K) =
              [rank |-> cfg.rank, shape |-> s, mem_stride |-> m,
               data |-> in.data + off, capacity |-> in.capacity - off * in.elem,
               elem |-> in.elem, dim |-> dim, params |-> params, params_cap |-> in.params_cap]
        BY <1>8, <2>1 DEF WithParams
      <3> QED BY <3>1, <3>2, <3>3
    <2>2. CASE ~following
      <3>1. WithParams(shaped, in, cfg, K) =
              [rank |-> cfg.rank, shape |-> s, mem_stride |-> m,
               data |-> in.data + off, capacity |-> in.capacity - off * in.elem,
               elem |-> in.elem, dim |-> 0, params |-> in.params, params_cap |-> in.params_cap]
        BY <1>8, <2>2 DEF WithParams
      <3> QED BY <1>1, <2>2, <3>1
    <2> QED BY <2>1, <2>2
  <1>9. PICK dim \in Nat, params \in Int :
          /\ WithParams(shaped, in, cfg, K) =
               [rank |-> cfg.rank, shape |-> rest(cfg.size), mem_stride |-> rest(S),
                data |-> in.data + off, capacity |-> in.capacity - off * in.elem,
                elem |-> in.elem, dim |-> dim, params |-> params, params_cap |-> in.params_cap]
          /\ \/ dim = 0 /\ ~ following
             \/ /\ in.dim > 0 /\ dim \in 1 .. r /\ K[dim] = in.dim
                /\ params = in.params + cfg.offset[in.dim]
    <2> HIDE DEF off, rest
    <2> QED BY <1>8
  <1>10. Subtensor(in, cfg) =
               [rank |-> cfg.rank, shape |-> rest(cfg.size), mem_stride |-> rest(S),
                data |-> in.data + Offset(in, cfg.offset),
                capacity |-> in.capacity - Offset(in, cfg.offset) * in.elem,
                elem |-> in.elem, dim |-> dim, params |-> params, params_cap |-> in.params_cap]
    <2> HIDE DEF off, rest
    <2> QED BY <1>6, <1>7, <1>9
  <1> HIDE DEF rest
  <1> QED BY <1>2, <1>4, <1>5, <1>9, <1>10 DEF K

(* A tensor that is the part of a larger one from position x on: its        *)
(* dimensions show those that K names.                                      *)
WindowOf(big, small, K, x) ==
  /\ Picks(K, small.rank, big.rank)
  /\ x \in [1 .. 4 -> Nat] /\ \A d \in Dims(big) : x[d] < big.shape[d]
  /\ \A k \in Dims(small) : /\ small.mem_stride[k] = big.mem_stride[K[k]]
                            /\ x[K[k]] + small.shape[k] <= big.shape[K[k]]
  /\ small.data = big.data + Offset(big, x)
  /\ small.elem = big.elem
  /\ small.data * small.elem + small.capacity = big.data * big.elem + big.capacity

Shifted(x, K, a) == [d \in 1 .. 4 |-> x[d] + Spread(K, a)[d]]

(* Whatever is an element of the part is one of the whole.                  *)
LEMMA WindowPosition ==
  ASSUME NEW big \in Tensors, NEW small \in Tensors, big.rank \in 0 .. 4, small.rank \in 0 .. 4,
         NEW K, NEW x, WindowOf(big, small, K, x),
         NEW a, \A k \in Dims(small) : a[k] \in 0 .. small.shape[k] - 1
  PROVE  /\ IsPosition(big, Shifted(x, K, a)) /\ Shifted(x, K, a) \in [1 .. 4 -> Nat]
         /\ Offset(big, Shifted(x, K, a)) = Offset(big, x) + Offset(small, a)
PROOF
  <1>1. /\ Dims(big) = 1 .. big.rank /\ Dims(small) = 1 .. small.rank
        /\ Picks(K, small.rank, big.rank)
        /\ x \in [1 .. 4 -> Nat]
        /\ \A d \in 1 .. big.rank : x[d] < big.shape[d] /\ big.shape[d] \in Nat /\ big.mem_stride[d] \in Int
        /\ \A k \in 1 .. small.rank : /\ small.mem_stride[k] = big.mem_stride[K[k]]
                                      /\ x[K[k]] + small.shape[k] <= big.shape[K[k]]
                                      /\ small.shape[k] \in Nat
    BY TensorFacts DEF WindowOf, Dims
  <1>2. /\ \A k \in 1 .. small.rank : Spread(K, a)[K[k]] = a[k] /\ K[k] \in 1 .. big.rank
        /\ \A d \in 1 .. 4 : (\A k \in 1 .. small.rank : K[k] # d) => Spread(K, a)[d] = 0
    <2>1. small.rank \in Int /\ \A k \in 1 .. small.rank : K[k] \in 1 .. big.rank
      BY <1>1 DEF Picks
    <2> QED BY <1>1, <2>1, SpreadAt
  <1>3. ASSUME NEW d \in 1 .. 4
        PROVE  /\ Spread(K, a)[d] \in Nat
               /\ d <= big.rank => x[d] + Spread(K, a)[d] < big.shape[d]
    <2>1. CASE \A k \in 1 .. small.rank : K[k] # d
      <3>1. Spread(K, a)[d] = 0 /\ x[d] \in Nat
        BY <1>1, <1>2, <2>1
      <3>2. d <= big.rank => x[d] < big.shape[d]
        BY <1>1
      <3> QED BY <3>1, <3>2
    <2>2. ASSUME NEW k \in 1 .. small.rank, K[k] = d
          PROVE  /\ Spread(K, a)[d] \in Nat
                 /\ d <= big.rank => x[d] + Spread(K, a)[d] < big.shape[d]
      <3>1. Spread(K, a)[d] = a[k] /\ a[k] \in 0 .. small.shape[k] - 1 /\ d \in 1 .. big.rank
        BY <1>1, <1>2, <2>2
      <3>2. /\ x[d] + small.shape[k] <= big.shape[d] /\ small.shape[k] \in Nat /\ x[d] \in Nat
            /\ big.shape[d] \in Nat
        BY <1>1, <2>2, <3>1
      <3> QED BY <3>1, <3>2
    <2> QED BY <2>1, <2>2
  <1> DEFINE y == Shifted(x, K, a)
  <1>4. \A d \in 1 .. 4 : y[d] = x[d] + Spread(K, a)[d] /\ x[d] \in Nat
    BY <1>1 DEF Shifted
  <1>5. y \in [1 .. 4 -> Nat]
    <2>1. ASSUME NEW d \in 1 .. 4
          PROVE  x[d] + Spread(K, a)[d] \in Nat
      <3>1. x[d] \in Nat /\ Spread(K, a)[d] \in Nat
        BY <1>1, <1>3
      <3> QED BY <3>1
    <2> QED BY <2>1 DEF Shifted
  <1> HIDE DEF y
  <1>6. \A d \in 1 .. big.rank : y[d] \in 0 .. big.shape[d] - 1 /\ y[d] = x[d] + Spread(K, a)[d] /\ x[d] \in Int
    <2> TAKE d \in 1 .. big.rank
    <2>1. d \in 1 .. 4 /\ d <= big.rank /\ big.shape[d] \in Nat
      BY <1>1
    <2> QED BY <1>3, <1>4, <2>1
  <1>7. IsPosition(big, y)
    <2>1. y \in [1 .. 4 -> Int]
      BY <1>5
    <2> QED BY <1>1, <1>6, <2>1 DEF IsPosition, HasPosition, MaxRank
  <1>8. \A k \in Dims(small) : a[k] \in Int
    OBVIOUS
  <1>9. Offset(big, y) = Offset(big, x) + Offset(small, a)
    <2>1. /\ \A d \in Dims(big) : big.mem_stride[d] \in Int
          /\ \A k \in Dims(small) : small.mem_stride[k] = big.mem_stride[K[k]]
          /\ \A d \in Dims(big) : x[d] \in Int
          /\ \A d \in Dims(big) : y[d] = x[d] + Spread(K, a)[d]
          /\ Picks(K, small.rank, big.rank)
      BY <1>1, <1>6
    <2> QED BY <1>8, <2>1, SpreadOffset
  <1> QED BY <1>5, <1>7, <1>9 DEF y

(* A stride exceeds all of any dimension further inside.                    *)
LEMMA StrideChain ==
  ASSUME NEW t, Descriptor(t), CheckLayout(t) = "OK", NoWrap(t),
         NEW d \in 1 .. t.rank, NEW e \in 1 .. t.rank, d < e
  PROVE  /\ t.shape[e] * t.mem_stride[e] \in 0 .. Modulus - 1
         /\ t.mem_stride[d] >= t.shape[e] * t.mem_stride[e]
PROOF
  <1>1. /\ t.rank \in 0 .. 4
        /\ \A f \in 1 .. t.rank : t.mem_stride[f] \in Nat \ {0} /\ t.shape[f] \in Nat \ {0}
    BY Accepted DEF Dims, MaxRank
  <1>2. ASSUME NEW f \in 1 .. t.rank - 1
        PROVE  /\ t.mem_stride[f] >= t.shape[f + 1] * t.mem_stride[f + 1]
               /\ t.mem_stride[f] >= t.mem_stride[f + 1]
    <2>1. f + 1 \in 1 .. t.rank /\ f \in 1 .. t.rank
      BY <1>1
    <2>2. t.mem_stride[f + 1] \in Nat /\ t.shape[f + 1] \in Nat \ {0} /\ t.mem_stride[f] \in Nat
      BY <1>1, <2>1
    <2>3. t.mem_stride[f] >= Term(t, LastPosition(t), f + 1) + t.mem_stride[f + 1]
      BY StrideStep
    <2>4. Term(t, LastPosition(t), f + 1) = (t.shape[f + 1] - 1) * t.mem_stride[f + 1]
      BY <1>1, <2>1 DEF Term, LastPosition, MaxRank
    <2>5. /\ t.shape[f + 1] * t.mem_stride[f + 1] =
               (t.shape[f + 1] - 1) * t.mem_stride[f + 1] + t.mem_stride[f + 1]
          /\ (t.shape[f + 1] - 1) * t.mem_stride[f + 1] \in Nat
      BY <2>2, OneLess
    <2> QED BY <2>2, <2>3, <2>4, <2>5
  <1>3. e - 1 \in 1 .. t.rank - 1 /\ (e - 1) + 1 = e /\ d <= e - 1
    BY <1>1
  <1>4. t.mem_stride[e - 1] >= t.shape[e] * t.mem_stride[e]
    BY <1>2, <1>3
  <1>5. t.mem_stride[d] >= t.mem_stride[e - 1]
    <2>1. /\ 2 <= t.rank => t.mem_stride[1] >= t.mem_stride[2]
          /\ 3 <= t.rank => t.mem_stride[2] >= t.mem_stride[3]
          /\ 4 <= t.rank => t.mem_stride[3] >= t.mem_stride[4]
      <3>1. 2 <= t.rank => 1 \in 1 .. t.rank - 1
        BY <1>1
      <3>2. 3 <= t.rank => 2 \in 1 .. t.rank - 1
        BY <1>1
      <3>3. 4 <= t.rank => 3 \in 1 .. t.rank - 1
        BY <1>1
      <3> QED BY <1>2, <3>1, <3>2, <3>3
    <2> PICK s1, s2, s3 : s1 = t.mem_stride[1] /\ s2 = t.mem_stride[2] /\ s3 = t.mem_stride[3]
      OBVIOUS
    <2> PICK f : f = e - 1
      OBVIOUS
    <2>2. /\ d \in 1 .. 3 /\ f \in 1 .. 3 /\ d <= f /\ f + 1 <= t.rank /\ t.rank \in 0 .. 4
          /\ t.mem_stride[d] \in Nat /\ t.mem_stride[f] \in Nat
      BY <1>1, <1>3
    <2>3. /\ 2 <= t.rank => s1 \in Nat
          /\ 3 <= t.rank => s2 \in Nat /\ s1 >= s2
          /\ 4 <= t.rank => s3 \in Nat /\ s2 >= s3
      BY <1>1, <2>1
    <2>4. /\ d = 1 => t.mem_stride[d] = s1
          /\ d = 2 => t.mem_stride[d] = s2
          /\ d = 3 => t.mem_stride[d] = s3
          /\ f = 1 => t.mem_stride[f] = s1
          /\ f = 2 => t.mem_stride[f] = s2
          /\ f = 3 => t.mem_stride[f] = s3
      OBVIOUS
    <2>5. t.mem_stride[d] >= t.mem_stride[f]
      BY <2>2, <2>3, <2>4
    <2> QED BY <2>5
  <1>6. t.shape[e] * t.mem_stride[e] \in 0 .. Modulus - 1
    BY <1>3 DEF NoWrap
  <1>7. e - 1 \in 1 .. t.rank
    BY <1>1, <1>3
  <1>8. t.mem_stride[d] \in Nat /\ t.mem_stride[e - 1] \in Nat
    BY <1>1, <1>7
  <1> QED BY <1>4, <1>5, <1>6, <1>8

(* A part of a tensor whose layout the check accepts is accepted too.       *)
LEMMA WindowLayout ==
  ASSUME NEW big \in Tensors, CheckLayout(big) = "OK", NoWrap(big),
         NEW small \in Tensors, small.rank \in 1 .. 4, NEW K, NEW x, WindowOf(big, small, K, x),
         \A k \in Dims(small) : small.shape[k] > 0
  PROVE  CheckLayout(small) = "OK" /\ NoWrap(small)
PROOF
  <1>1. /\ Descriptor(big) /\ Descriptor(small) /\ big.elem \in Nat \ {0} /\ small.elem = big.elem
        /\ big.capacity \in Nat /\ small.capacity \in Nat /\ big.data \in Int /\ small.data \in Int
        /\ small.rank \in 1 .. 4 /\ Picks(K, small.rank, big.rank)
    BY TensorFacts DEF WindowOf
  <1>2. /\ big.rank \in 0 .. 4
        /\ \A d \in 1 .. big.rank : big.mem_stride[d] \in Nat \ {0} /\ big.shape[d] \in Nat \ {0}
    BY <1>1, Accepted DEF Dims, MaxRank
  <1>3. /\ \A k \in 1 .. small.rank : K[k] \in 1 .. big.rank
        /\ \A k, l \in 1 .. small.rank : k < l => K[k] < K[l]
    BY <1>1 DEF Picks
  <1>4. ASSUME NEW k \in 1 .. small.rank
        PROVE  /\ small.mem_stride[k] = big.mem_stride[K[k]] /\ small.mem_stride[k] \in Nat \ {0}
               /\ small.shape[k] \in Nat \ {0} /\ small.shape[k] <= big.shape[K[k]]
               /\ big.shape[K[k]] \in Nat
    <2>1. /\ small.mem_stride[k] = big.mem_stride[K[k]] /\ x[K[k]] + small.shape[k] <= big.shape[K[k]]
          /\ small.shape[k] > 0 /\ x \in [1 .. 4 -> Nat]
      BY DEF WindowOf, Dims
    <2>2. K[k] \in 1 .. 4 /\ K[k] \in 1 .. big.rank
      BY <1>2, <1>3
    <2>3. x[K[k]] \in Nat /\ small.shape[k] \in Nat /\ big.shape[K[k]] \in Nat
      <3>1. k \in 1 .. 4
        BY <1>1
      <3> QED BY <1>2, <2>1, <2>2, <3>1, TensorFacts
    <2> QED BY <1>2, <2>1, <2>2, <2>3
  <1>5. ASSUME NEW k \in 1 .. small.rank - 1
        PROVE  /\ small.shape[k + 1] * small.mem_stride[k + 1] \in 0 .. Modulus - 1
               /\ small.mem_stride[k] >= small.shape[k + 1] * small.mem_stride[k + 1]
    <2>1. k \in 1 .. small.rank /\ k + 1 \in 1 .. small.rank /\ k < k + 1
      BY <1>1
    <2> PICK d, e, s : d = K[k] /\ e = K[k + 1] /\ s = big.mem_stride[e]
      OBVIOUS
    <2>2. d \in 1 .. big.rank /\ e \in 1 .. big.rank /\ d < e
      BY <1>3, <2>1
    <2>3. big.shape[e] * s \in 0 .. Modulus - 1 /\ big.mem_stride[d] >= big.shape[e] * s
      BY <1>1, <2>2, StrideChain
    <2>4. /\ small.mem_stride[k] = big.mem_stride[d] /\ small.mem_stride[k + 1] = s
          /\ small.shape[k + 1] \in Nat /\ small.shape[k + 1] <= big.shape[e] /\ big.shape[e] \in Nat
          /\ s \in Nat /\ big.mem_stride[d] \in Nat
      BY <1>2, <1>4, <2>1, <2>2
    <2>5. /\ small.shape[k + 1] * s <= big.shape[e] * s /\ small.shape[k + 1] * s \in Nat
          /\ big.shape[e] * s \in Nat
      BY <2>4, ProductGrows
    <2> PICK p, q : p = small.shape[k + 1] * s /\ q = big.shape[e] * s
      OBVIOUS
    <2> PICK z : z = big.mem_stride[d]
      OBVIOUS
    <2>6. p \in Nat /\ q \in Nat /\ p <= q /\ q \in 0 .. Modulus - 1 /\ z >= q /\ z \in Nat
      BY <2>3, <2>4, <2>5
    <2>7. p \in 0 .. Modulus - 1 /\ z >= p
      BY ONLY <2>6, ModulusAssumption
    <2>8. small.shape[k + 1] * small.mem_stride[k + 1] = p
      BY <2>4
    <2> QED BY <2>4, <2>7, <2>8
  <1> DEFINE last == LastPosition(small)
             y == Shifted(x, K, last)
  <1>6. \A k \in Dims(small) : last[k] \in 0 .. small.shape[k] - 1
    BY <1>1, <1>4 DEF LastPosition, Dims, MaxRank
  <1>7. /\ IsPosition(big, y) /\ Offset(big, y) = Offset(big, x) + Offset(small, last)
    <2> HIDE DEF last
    <2> QED BY <1>1, <1>2, <1>6, WindowPosition
  <1> HIDE DEF y
  <1>8. /\ 0 <= Offset(big, y) /\ (Offset(big, y) + 1) * big.elem <= big.capacity
    BY <1>1, <1>7, PositionInside
  <1>9. Offset(big, x) \in Nat /\ Offset(small, last) \in Nat
    <2>1. IsPosition(big, x)
      <3>1. x \in [1 .. 4 -> Int] /\ \A d \in 1 .. big.rank : x[d] \in 0 .. big.shape[d] - 1
        <4>1. x \in [1 .. 4 -> Nat] /\ \A d \in 1 .. big.rank : x[d] < big.shape[d]
          BY DEF WindowOf, Dims
        <4>2. \A d \in 1 .. big.rank : d \in 1 .. 4 /\ big.shape[d] \in Nat
          BY <1>2
        <4> QED BY <4>1, <4>2
      <3> QED BY <3>1 DEF IsPosition, HasPosition, Dims, MaxRank
    <2>2. \A d \in 1 .. 4 : Term(big, x, d) \in Nat
      BY <1>1, <2>1, TermBounds DEF MaxRank
    <2>3. ASSUME NEW d \in 1 .. 4
          PROVE  Term(small, last, d) \in Nat
      <3>1. CASE d <= small.rank
        <4>1. d \in 1 .. small.rank
          BY <1>1, <3>1
        <4>2. last[d] \in Nat /\ small.mem_stride[d] \in Nat
          BY <1>4, <1>6, <4>1 DEF Dims
        <4> HIDE DEF last
        <4> QED BY <4>1, <4>2 DEF Term
      <3>2. CASE ~(d <= small.rank)
        BY <3>2 DEF Term
      <3> QED BY <3>1, <3>2
    <2> QED BY <2>2, <2>3, OffsetIsSum
  <1>10. Offset(big, y) \in Nat /\ Offset(big, y) + 1 <= Span(big)
    <2>1. \A d \in 1 .. 4 : /\ Term(big, y, d) \in Nat /\ Term(big, LastPosition(big), d) \in Nat
                            /\ Term(big, y, d) <= Term(big, LastPosition(big), d)
      BY <1>1, <1>7, TermBounds DEF MaxRank
    <2> QED BY <2>1, OffsetIsSum DEF Span
  <1> PICK ox, ol, oy, el : ox = Offset(big, x) /\ ol = Offset(small, last) /\ oy = Offset(big, y) /\ el = big.elem
    OBVIOUS
  <1>11. /\ Span(small) = 1 + ol /\ oy = ox + ol /\ ox \in Nat /\ ol \in Nat /\ oy \in Nat /\ el \in Nat \ {0}
         /\ (oy + 1) * el <= big.capacity
         /\ small.data = big.data + ox /\ small.data * el + small.capacity = big.data * el + big.capacity
         /\ oy + 1 <= Span(big) /\ Span(big) * el \in 0 .. Modulus - 1
    BY <1>1, <1>7, <1>8, <1>9, <1>10 DEF Span, WindowOf, NoWrap
  <1>12. /\ Span(small) * el \in 0 .. Modulus - 1 /\ Span(small) * el <= small.capacity
    <2>1. /\ (1 + ol) * el <= (oy + 1) * el /\ (1 + ol) * el \in Nat /\ (oy + 1) * el \in Nat
      BY <1>11, ProductGrows
    <2>2. Span(big) \in Int
      <3>1. \A d \in 1 .. 4 : Term(big, LastPosition(big), d) \in Nat
        BY <1>1, <1>7, TermBounds DEF MaxRank
      <3> QED BY <3>1, OffsetIsSum DEF Span
    <2>3. (oy + 1) * el <= Span(big) * el
      <3>1. Span(big) \in Nat /\ oy + 1 \in Nat /\ el \in Nat
        BY <1>11, <2>2
      <3> QED BY <1>11, <3>1, ProductGrows
    <2>4. (oy + 1) * el = ox * el + (1 + ol) * el /\ ox * el \in Nat
      BY <1>11
    <2>5. small.data * el = big.data * el + ox * el /\ big.data * el \in Int
      BY <1>1, <1>11
    <2> PICK db, ds, px, pl, py, sp, ss : /\ db = big.data * el /\ ds = small.data * el /\ px = ox * el
                                      /\ pl = (1 + ol) * el /\ py = (oy + 1) * el
                                      /\ sp = Span(big) * el /\ ss = Span(small) * el
      OBVIOUS
    <2> PICK cs, cb : cs = small.capacity /\ cb = big.capacity
      OBVIOUS
    <2>6. /\ db \in Int /\ px \in Nat /\ pl \in Nat /\ py \in Nat /\ sp \in 0 .. Modulus - 1
          /\ cs \in Nat /\ cb \in Nat
      BY <1>1, <1>11, <2>1, <2>4, <2>5
    <2>7. /\ ds = db + px /\ ds + cs = db + cb /\ py = px + pl /\ ss = pl
          /\ py <= cb /\ py <= sp
      BY <1>11, <2>3, <2>4, <2>5
    <2>8. ss \in 0 .. Modulus - 1 /\ ss <= cs
      BY ONLY <2>6, <2>7, ModulusAssumption
    <2> QED BY <2>8
  <1>13. NoWrap(small)
    BY <1>1, <1>5, <1>11, <1>12 DEF NoWrap
  <1>14. Shaped(small)
    BY <1>1, <1>4 DEF Shaped, Dims, MaxRank
  <1>15. Strided(small)
    <2>1. small.mem_stride[small.rank] >= 1
      BY <1>1, <1>4
    <2>2. \A k \in 1 .. small.rank - 1 :
            small.mem_stride[k] >= (small.shape[k + 1] * small.mem_stride[k + 1]) % Modulus
      BY <1>5, NotReduced
    <2> QED BY <2>1, <2>2 DEF Strided
  <1>16. Fits(small)
    <2>1. Span(small) * el = (Span(small) * el) % Modulus
      BY <1>12, NotReduced
    <2> QED BY <1>1, <1>11, <1>12, <2>1 DEF Fits
  <1> QED BY <1>13, <1>14, <1>15, <1>16 DEF CheckLayout

(* A cut makes a tensor of the part that was asked for.                     *)
CutIs(in, cfg, out) ==
  /\ out \in Tensors /\ out.rank = cfg.rank /\ out.params_cap = in.params_cap
  /\ WindowOf(in, out, Kept(in, cfg), cfg.offset)
  /\ CheckLayout(out) = "OK" /\ NoWrap(out)
  /\ \A k \in Dims(out) : out.shape[k] = cfg.size[Kept(in, cfg)[k]]
  /\ \/ out.dim = 0 /\ ~ \E k \in 1 .. cfg.rank : in.dim > 0 /\ Kept(in, cfg)[k] = in.dim
     \/ /\ in.dim > 0 /\ out.dim \in 1 .. cfg.rank /\ Kept(in, cfg)[out.dim] = in.dim
        /\ out.params = in.params + cfg.offset[in.dim]

LEMMA CutIsPart ==
  ASSUME NEW in, NEW cfg, Cut(in, cfg), NEW out, out = Subtensor(in, cfg)
  PROVE  CutIs(in, cfg, out)
PROOF
  <1> PICK K : K = Kept(in, cfg)
    OBVIOUS
  <1>1. /\ in \in Tensors /\ Descriptor(in) /\ CheckLayout(in) = "OK" /\ NoWrap(in)
        /\ in.rank \in 1 .. 4 /\ cfg.rank \in 1 .. in.rank
        /\ cfg.offset \in [1 .. 4 -> Nat]
        /\ in.data \in Int /\ in.capacity \in Nat /\ in.elem \in Nat \ {0} /\ in.params_cap \in Nat
        /\ in.shape \in [1 .. 4 -> Nat]
    BY CutFacts, TensorFacts DEF Cut, MaxRank
  <1>2. /\ \A d \in 1 .. in.rank :
             /\ cfg.offset[d] < in.shape[d] /\ cfg.offset[d] + cfg.size[d] <= in.shape[d]
             /\ cfg.size[d] \in Nat \ {0}
        /\ Picks(K, cfg.rank, in.rank)
    BY CutFacts
  <1>3. IsPosition(in, cfg.offset)
    <2>1. \A d \in 1 .. in.rank : cfg.offset[d] \in 0 .. in.shape[d] - 1
      <3> TAKE d \in 1 .. in.rank
      <3>1. d \in 1 .. 4 /\ cfg.offset[d] < in.shape[d]
        BY <1>1, <1>2
      <3> QED BY <1>1, <3>1
    <2>2. cfg.offset \in [1 .. 4 -> Int]
      BY <1>1
    <2> QED BY <2>1, <2>2 DEF IsPosition, HasPosition, Dims, MaxRank
  <1> PICK off : off = Offset(in, cfg.offset)
    OBVIOUS
  <1>4. off \in Nat /\ off * in.elem <= in.capacity
    <2>1. \A d \in 1 .. 4 : Term(in, cfg.offset, d) \in Nat
      BY <1>1, <1>3, TermBounds DEF MaxRank
    <2>2. off \in Nat
      BY <2>1, OffsetIsSum
    <2>3. (off + 1) * in.elem <= in.capacity
      BY <1>1, <1>3, PositionInside
    <2>4. (off + 1) * in.elem = off * in.elem + in.elem /\ off * in.elem \in Nat
      BY <1>1, <2>2
    <2> QED BY <1>1, <2>2, <2>3, <2>4
  <1> PICK cap : cap = in.capacity - off * in.elem
    OBVIOUS
  <1>5. cap \in Nat
    <2>1. off * in.elem \in Nat
      BY <1>1, <1>4
    <2> QED BY <1>1, <1>4, <2>1
  <1>6. PICK shape \in [1 .. 4 -> Nat], mem_stride \in [1 .. 4 -> Int], dim \in Nat, params \in Int :
          /\ out = [rank |-> cfg.rank, shape |-> shape, mem_stride |-> mem_stride,
                    data |-> in.data + off, capacity |-> cap, elem |-> in.elem,
                    dim |-> dim, params |-> params, params_cap |-> in.params_cap]
          /\ \A k \in 1 .. cfg.rank : shape[k] = cfg.size[K[k]] /\ mem_stride[k] = in.mem_stride[K[k]]
          /\ \/ dim = 0 /\ ~ \E k \in 1 .. cfg.rank : in.dim > 0 /\ K[k] = in.dim
             \/ /\ in.dim > 0 /\ dim \in 1 .. cfg.rank /\ K[dim] = in.dim
                /\ params = in.params + cfg.offset[in.dim]
    BY CutFields
  <1>7. /\ out.rank = cfg.rank /\ out.shape = shape /\ out.mem_stride = mem_stride
        /\ out.data = in.data + off /\ out.capacity = cap /\ out.elem = in.elem
        /\ out.dim = dim /\ out.params = params /\ out.params_cap = in.params_cap
    BY <1>6
  <1>8. out \in Tensors
    <2>1. cfg.rank \in Nat /\ in.data + off \in Int
      BY <1>1, <1>4
    <2> QED BY <1>1, <1>5, <1>6, <2>1 DEF Tensors, MaxRank
  <1>9. WindowOf(in, out, K, cfg.offset)
    <2>1. Picks(K, out.rank, in.rank)
      BY <1>2, <1>7
    <2>2. \A k \in 1 .. cfg.rank : K[k] \in 1 .. in.rank
      BY <1>2 DEF Picks
    <2>3. \A k \in Dims(out) : /\ out.mem_stride[k] = in.mem_stride[K[k]]
                               /\ cfg.offset[K[k]] + out.shape[k] <= in.shape[K[k]]
      BY <1>2, <1>6, <1>7, <2>2 DEF Dims
    <2>4. out.data * out.elem + out.capacity = in.data * in.elem + in.capacity
      <3>1. (in.data + off) * in.elem = in.data * in.elem + off * in.elem /\ off * in.elem \in Nat
            /\ in.data * in.elem \in Int
        BY <1>1, <1>4
      <3> QED BY <1>1, <1>7, <3>1
    <2> QED BY <1>1, <1>2, <1>7, <2>1, <2>3, <2>4 DEF WindowOf, Dims
  <1>10. \A k \in Dims(out) : out.shape[k] = cfg.size[K[k]] /\ out.shape[k] > 0
    <2> TAKE k \in Dims(out)
    <2>1. K[k] \in 1 .. in.rank /\ k \in 1 .. cfg.rank
      BY <1>2, <1>7 DEF Picks, Dims
    <2>2. out.shape[k] = cfg.size[K[k]] /\ cfg.size[K[k]] \in Nat \ {0}
      BY <1>2, <1>6, <1>7, <2>1
    <2> QED BY <2>2
  <1>11. CheckLayout(out) = "OK" /\ NoWrap(out)
    <2>1. out.rank \in 1 .. 4
      BY <1>1, <1>7
    <2> QED BY <1>1, <1>8, <1>9, <1>10, <2>1, WindowLayout
  <1>12. \/ out.dim = 0 /\ ~ \E k \in 1 .. cfg.rank : in.dim > 0 /\ K[k] = in.dim
         \/ /\ in.dim > 0 /\ out.dim \in 1 .. cfg.rank /\ K[out.dim] = in.dim
            /\ out.params = in.params + cfg.offset[in.dim]
    BY <1>6, <1>7
  <1>13. out.rank = cfg.rank /\ out.params_cap = in.params_cap
    BY <1>7
  <1>14. \A k \in Dims(out) : out.shape[k] = cfg.size[K[k]]
    BY <1>10
  <1> QED BY <1>8, <1>9, <1>11, <1>12, <1>13, <1>14 DEF CutIs

(* The same index by index, with the ranges of the numbers.                 *)
Aligned(big, small, K, x) ==
  /\ Dims(big) = 1 .. big.rank /\ Dims(small) = 1 .. small.rank
  /\ Picks(K, small.rank, big.rank) /\ DOMAIN K = 1 .. small.rank
  /\ \A d \in 1 .. 4 : x[d] \in Nat
  /\ \A d \in 1 .. big.rank : /\ d \in 1 .. 4 /\ big.shape[d] \in Nat /\ big.mem_stride[d] \in Int
                              /\ x[d] \in Nat /\ x[d] \in 0 .. big.shape[d] - 1
  /\ \A k \in 1 .. small.rank : /\ k \in 1 .. 4 /\ K[k] \in 1 .. big.rank /\ K[k] \in 1 .. 4
                                /\ small.mem_stride[k] \in Int /\ small.shape[k] \in Nat
                                /\ small.mem_stride[k] = big.mem_stride[K[k]]
                                /\ x[K[k]] + small.shape[k] <= big.shape[K[k]]

LEMMA WindowFacts ==
  ASSUME NEW big \in Tensors, big.rank \in 0 .. 4, NEW small \in Tensors, small.rank \in 0 .. 4,
         NEW K, NEW x, WindowOf(big, small, K, x)
  PROVE  Aligned(big, small, K, x)
PROOF
  <1>1. /\ Dims(big) = 1 .. big.rank /\ Dims(small) = 1 .. small.rank
        /\ big.shape \in [1 .. 4 -> Nat] /\ small.shape \in [1 .. 4 -> Nat]
        /\ big.mem_stride \in [1 .. 4 -> Int] /\ small.mem_stride \in [1 .. 4 -> Int]
    BY TensorFacts DEF Dims
  <1>2. /\ Picks(K, small.rank, big.rank)
        /\ x \in [1 .. 4 -> Nat] /\ \A d \in Dims(big) : x[d] < big.shape[d]
        /\ \A k \in Dims(small) : /\ small.mem_stride[k] = big.mem_stride[K[k]]
                                  /\ x[K[k]] + small.shape[k] <= big.shape[K[k]]
    BY DEF WindowOf
  <1>3. DOMAIN K = 1 .. small.rank /\ \A k \in 1 .. small.rank : K[k] \in 1 .. big.rank
    BY <1>2 DEF Picks
  <1>4. ASSUME NEW d \in 1 .. big.rank
        PROVE  /\ d \in 1 .. 4 /\ big.shape[d] \in Nat /\ big.mem_stride[d] \in Int
               /\ x[d] \in Nat /\ x[d] \in 0 .. big.shape[d] - 1
    <2>1. d \in 1 .. 4
      OBVIOUS
    <2>2. x[d] < big.shape[d] /\ x[d] \in Nat /\ big.shape[d] \in Nat /\ big.mem_stride[d] \in Int
      BY <1>1, <1>2, <2>1
    <2> QED BY <2>1, <2>2
  <1>5. ASSUME NEW k \in 1 .. small.rank
        PROVE  /\ k \in 1 .. 4 /\ K[k] \in 1 .. big.rank /\ K[k] \in 1 .. 4
               /\ small.mem_stride[k] \in Int /\ small.shape[k] \in Nat
               /\ small.mem_stride[k] = big.mem_stride[K[k]]
               /\ x[K[k]] + small.shape[k] <= big.shape[K[k]]
    <2>1. k \in 1 .. 4
      OBVIOUS
    <2>2. K[k] \in 1 .. big.rank /\ K[k] \in 1 .. 4
      BY <1>3, <1>4
    <2> QED BY <1>1, <1>2, <2>1, <2>2
  <1>6. \A d \in 1 .. 4 : x[d] \in Nat
    BY <1>2
  <1> QED BY <1>1, <1>2, <1>3, <1>4, <1>5, <1>6 DEF Aligned

(* A part of a part is a part of the whole.                                 *)
LEMMA PickedPicks ==
  ASSUME NEW J, NEW K, NEW r, NEW s, NEW n, Picks(J, s, n), Picks(K, r, s)
  PROVE  Picks([k \in DOMAIN K |-> J[K[k]]], r, n)
PROOF
  <1>1. DOMAIN K = 1 .. r /\ \A k \in 1 .. r : K[k] \in 1 .. s /\ J[K[k]] \in 1 .. n
    BY DEF Picks
  <1>2. ASSUME NEW k \in 1 .. r, NEW l \in 1 .. r, k < l
        PROVE  J[K[k]] < J[K[l]]
    <2>1. K[k] < K[l] /\ K[k] \in 1 .. s /\ K[l] \in 1 .. s
      BY <1>1, <1>2 DEF Picks
    <2> QED BY <2>1 DEF Picks
  <1> QED BY <1>1, <1>2 DEF Picks

LEMMA WindowOfWindow ==
  ASSUME NEW big \in Tensors, big.rank \in 0 .. 4, NEW mid \in Tensors, mid.rank \in 0 .. 4,
         NEW small \in Tensors, small.rank \in 0 .. 4,
         NEW J, NEW x, WindowOf(big, mid, J, x), NEW K, NEW a, WindowOf(mid, small, K, a)
  PROVE  WindowOf(big, small, [k \in DOMAIN K |-> J[K[k]]], Shifted(x, J, a))
PROOF
  <1> DEFINE JK == [k \in DOMAIN K |-> J[K[k]]]
             y == Shifted(x, J, a)
  <1>0. Aligned(big, mid, J, x) /\ Aligned(mid, small, K, a)
    BY WindowFacts
  <1>1. /\ Picks(J, mid.rank, big.rank) /\ Picks(K, small.rank, mid.rank)
        /\ Dims(big) = 1 .. big.rank /\ Dims(mid) = 1 .. mid.rank /\ Dims(small) = 1 .. small.rank
        /\ DOMAIN J = 1 .. mid.rank /\ DOMAIN K = 1 .. small.rank
        /\ \A d \in 1 .. 4 : x[d] \in Nat /\ a[d] \in Nat
    BY <1>0 DEF Aligned
  <1>10. /\ \A k \in 1 .. mid.rank :
              /\ k \in 1 .. 4 /\ J[k] \in 1 .. big.rank /\ J[k] \in 1 .. 4
              /\ mid.mem_stride[k] \in Int /\ mid.shape[k] \in Nat
              /\ mid.mem_stride[k] = big.mem_stride[J[k]]
              /\ x[J[k]] + mid.shape[k] <= big.shape[J[k]]
         /\ \A k \in 1 .. mid.rank : a[k] \in 0 .. mid.shape[k] - 1
    BY <1>0 DEF Aligned
  <1>11. \A k \in 1 .. small.rank :
           /\ k \in 1 .. 4 /\ K[k] \in 1 .. mid.rank
           /\ small.mem_stride[k] \in Int /\ small.shape[k] \in Nat
           /\ small.mem_stride[k] = mid.mem_stride[K[k]]
           /\ a[K[k]] + small.shape[k] <= mid.shape[K[k]]
    BY <1>0 DEF Aligned
  <1>12. \A d \in 1 .. big.rank : d \in 1 .. 4 /\ big.shape[d] \in Nat /\ big.mem_stride[d] \in Int
    BY <1>0 DEF Aligned
  <1>2. Picks(JK, small.rank, big.rank)
    BY <1>1, PickedPicks
  <1>4. /\ IsPosition(big, y) /\ y \in [1 .. 4 -> Nat]
        /\ Offset(big, y) = Offset(big, x) + Offset(mid, a)
    <2>1. \A k \in Dims(mid) : a[k] \in 0 .. mid.shape[k] - 1
      BY <1>1, <1>10
    <2> QED BY <2>1, WindowPosition
  <1>5. ASSUME NEW k \in 1 .. small.rank
        PROVE  /\ small.mem_stride[k] = big.mem_stride[JK[k]]
               /\ y[JK[k]] + small.shape[k] <= big.shape[JK[k]]
    <2> PICK j : j = K[k]
      OBVIOUS
    <2> PICK d : d = J[j]
      OBVIOUS
    <2>1. j \in 1 .. mid.rank /\ d \in 1 .. big.rank /\ JK[k] = d /\ j \in 1 .. 4 /\ d \in 1 .. 4 /\ k \in 1 .. 4
      BY <1>1, <1>10, <1>11
    <2>2. Spread(J, a)[d] = a[j]
      <3>1. Spread(J, a)[J[j]] = a[j]
        <4>1. mid.rank \in Int
          OBVIOUS
        <4>2. \A i \in 1 .. mid.rank : Spread(J, a)[J[i]] = a[i]
          <5> PICK n, r : n = big.rank /\ r = mid.rank
            OBVIOUS
          <5>1. n \in 0 .. 4 /\ r \in Int /\ Picks(J, r, n)
            BY <1>1, <4>1
          <5>2. /\ \A i \in 1 .. r : Spread(J, a)[J[i]] = a[i]
                /\ \A c \in 1 .. 4 : (\A i \in 1 .. r : J[i] # c) => Spread(J, a)[c] = 0
            BY ONLY <5>1, SpreadAt
          <5> QED BY <5>2
        <4> QED BY <2>1, <4>2
      <3> QED BY <3>1
    <2>3. y[d] = x[d] + a[j]
      BY <2>1, <2>2 DEF Shifted
    <2>4. /\ small.mem_stride[k] = mid.mem_stride[j] /\ mid.mem_stride[j] = big.mem_stride[d]
          /\ a[j] + small.shape[k] <= mid.shape[j] /\ x[d] + mid.shape[j] <= big.shape[d]
      BY <1>10, <1>11, <2>1
    <2>5. /\ a[j] \in Nat /\ x[d] \in Nat /\ small.shape[k] \in Nat /\ mid.shape[j] \in Nat
          /\ big.shape[d] \in Nat
      BY <1>1, <1>10, <1>11, <1>12, <2>1
    <2>6. (x[d] + a[j]) + small.shape[k] <= big.shape[d]
      BY <2>4, <2>5
    <2> QED BY <2>1, <2>3, <2>4, <2>6
  <1>6. \A d \in Dims(big) : y[d] < big.shape[d]
    <2> HIDE DEF y
    <2>1. \A d \in 1 .. big.rank : y[d] \in 0 .. big.shape[d] - 1
      BY <1>1, <1>4 DEF IsPosition, HasPosition
    <2> SUFFICES ASSUME NEW d \in 1 .. big.rank PROVE y[d] < big.shape[d]
      BY <1>1
    <2>2. y[d] \in 0 .. big.shape[d] - 1 /\ big.shape[d] \in Nat
      BY <1>12, <2>1
    <2> QED BY <2>2
  <1>7. /\ small.data = big.data + Offset(big, y) /\ small.elem = big.elem
        /\ small.data * small.elem + small.capacity = big.data * big.elem + big.capacity
    <2>1. /\ small.data = mid.data + Offset(mid, a) /\ mid.data = big.data + Offset(big, x)
          /\ small.elem = mid.elem /\ mid.elem = big.elem
          /\ small.data * small.elem + small.capacity = mid.data * mid.elem + mid.capacity
          /\ mid.data * mid.elem + mid.capacity = big.data * big.elem + big.capacity
      BY DEF WindowOf
    <2>2. Offset(mid, a) \in Int /\ Offset(big, x) \in Int /\ big.data \in Int
      <3>2. ASSUME NEW d \in 1 .. 4
            PROVE  Term(big, x, d) \in Int
        <4>1. CASE d <= big.rank
          <5>1. x[d] \in Int /\ big.mem_stride[d] \in Int
            BY <1>1, <1>12, <4>1
          <5> QED BY <5>1 DEF Term
        <4>2. CASE ~(d <= big.rank)
          BY <4>2 DEF Term
        <4> QED BY <4>1, <4>2
      <3>3. ASSUME NEW d \in 1 .. 4
            PROVE  Term(mid, a, d) \in Int
        <4>1. CASE d <= mid.rank
          <5>1. a[d] \in Int /\ mid.mem_stride[d] \in Int
            BY <1>1, <1>10, <4>1
          <5> QED BY <5>1 DEF Term
        <4>2. CASE ~(d <= mid.rank)
          BY <4>2 DEF Term
        <4> QED BY <4>1, <4>2
      <3> QED BY <3>2, <3>3, OffsetIsSum, TensorFacts
    <2>3. small.data = big.data + (Offset(big, x) + Offset(mid, a))
      BY <2>1, <2>2
    <2> QED BY <1>4, <2>1, <2>3
  <1> HIDE DEF y, JK
  <1> QED BY <1>1, <1>2, <1>4, <1>5, <1>6, <1>7 DEF WindowOf, y, JK

-----------------------------------------------------------------------------
(* The invariant.  A view is the part of the base tensor that the history   *)
(* names, whatever the cuts were; as long as the quantized dimension stays, *)
(* the parameters are those of the part too.                                *)

ViewIsPart ==
  /\ base \in Bases
  /\ view \in Tensors /\ view.dim <= view.rank
  /\ CheckLayout(view) = "OK" /\ NoWrap(view)
  /\ WindowOf(base, view, axes, origin)

ParamsArePart ==
  /\ Quantified(view)
  /\ base.dim > 0 => /\ view.dim \in 1 .. view.rank /\ axes[view.dim] = base.dim
                     /\ view.params = base.params + origin[base.dim]

ViewInv == ViewIsPart /\ (KeepAxis => ParamsArePart)

(* The tensors the views are cut out of. *)
LEMMA BaseFacts ==
  ASSUME NEW b \in Bases
  PROVE  /\ b \in Tensors /\ b.dim <= b.rank /\ b.dim \in Nat /\ b.params \in Int
         /\ CheckTensor(b) = "OK" /\ CheckLayout(b) = "OK" /\ NoWrap(b) /\ Quantified(b)
         /\ b.rank \in 0 .. 4 /\ Descriptor(b)
         /\ \A d \in Dims(b) : b.shape[d] \in Nat \ {0} /\ b.mem_stride[d] \in Nat \ {0}
PROOF
  <1>1. b \in Tensors /\ b.dim <= b.rank /\ CheckTensor(b) = "OK" /\ NoWrap(b)
    BY BasesAssumption
  <1>2. Descriptor(b) /\ b.dim \in Nat /\ b.params \in Int
    BY <1>1, TensorFacts
  <1>3. CheckLayout(b) = "OK" /\ Quantified(b)
    BY <1>1 DEF CheckTensor
  <1>4. b.rank \in 0 .. 4 /\ \A d \in Dims(b) : b.shape[d] \in Nat \ {0} /\ b.mem_stride[d] \in Nat \ {0}
    BY <1>2, <1>3, Accepted DEF MaxRank
  <1> QED BY <1>1, <1>2, <1>3, <1>4

(* The whole tensor is a part of itself. *)
LEMMA WholeIsPart ==
  ASSUME NEW b \in Bases, NEW K, K = [d \in Dims(b) |-> d], NEW x, x = [d \in 1 .. MaxRank |-> 0]
  PROVE  WindowOf(b, b, K, x)
PROOF
  <1>1. b.rank \in 0 .. 4 /\ \A d \in 1 .. b.rank : d \in 1 .. 4 /\ b.shape[d] \in Nat \ {0}
    BY BaseFacts DEF Dims
  <1>2. Picks(K, b.rank, b.rank)
    BY <1>1 DEF Picks, Dims
  <1>3. x \in [1 .. 4 -> Nat] /\ \A d \in 1 .. 4 : x[d] = 0
    BY DEF MaxRank
  <1>4. \A d \in Dims(b) : x[d] < b.shape[d] /\ K[d] = d /\ x[K[d]] + b.shape[d] <= b.shape[K[d]]
    BY <1>1, <1>3 DEF Dims
  <1>5. b.data = b.data + Offset(b, x)
    <2>1. \A d \in 1 .. 4 : Term(b, x, d) = 0
      <3> SUFFICES ASSUME NEW d \in 1 .. 4, d <= b.rank PROVE x[d] * b.mem_stride[d] = 0
        BY DEF Term
      <3>1. x[d] = 0 /\ b.mem_stride[d] \in Nat
        BY <1>1, <1>3, BaseFacts DEF Dims
      <3> QED BY <3>1
    <2> QED BY <2>1, OffsetIsSum, BaseFacts, TensorFacts
  <1> QED BY <1>2, <1>3, <1>4, <1>5 DEF WindowOf

(* What the clients ask for. *)
LEMMA CfgFacts ==
  ASSUME view \in Tensors, view.rank \in 0 .. 4, NEW cfg \in Cfgs
  PROVE  /\ cfg.offset \in [1 .. MaxRank -> Nat] /\ cfg.size \in [1 .. MaxRank -> Nat]
         /\ cfg.rank \in 1 .. view.rank
PROOF
  <1> DEFINE array(c, i) == [d \in 1 .. MaxRank |-> IF d <= view.rank THEN c[d][i] ELSE 0]
  <1>1. PICK c \in [Dims(view) -> Cuts(MaxSize)], r \in 1 .. view.rank :
          /\ \A d \in Dims(view) : c[d] \in Cuts(view.shape[d])
          /\ cfg = [offset |-> array(c, 1), size |-> array(c, 2), rank |-> r]
    BY DEF Cfgs
  <1>2. ASSUME NEW d \in 1 .. MaxRank
        PROVE  /\ (IF d <= view.rank THEN c[d][1] ELSE 0) \in Nat
               /\ (IF d <= view.rank THEN c[d][2] ELSE 0) \in Nat
    <2>1. CASE d <= view.rank
      <3>1. d \in Dims(view) /\ view.shape[d] \in Nat
        BY <2>1, TensorFacts DEF Dims, MaxRank
      <3>2. c[d] \in (0 .. view.shape[d]) \X (1 .. view.shape[d] + 1)
        BY <1>1, <3>1 DEF Cuts
      <3> QED BY <2>1, <3>1, <3>2
    <2>2. CASE ~(d <= view.rank)
      BY <2>2
    <2> QED BY <2>1, <2>2
  <1>3. array(c, 1) \in [1 .. MaxRank -> Nat] /\ array(c, 2) \in [1 .. MaxRank -> Nat]
    BY <1>2
  <1>4. cfg.offset = array(c, 1) /\ cfg.size = array(c, 2) /\ cfg.rank = r
    BY <1>1
  <1> HIDE DEF array
  <1> QED BY <1>3, <1>4

(* What is known of the view when it is cut. *)
LEMMA ViewFacts ==
  ASSUME ViewIsPart
  PROVE  /\ base \in Tensors /\ base.rank \in 0 .. 4 /\ view.rank \in 0 .. 4
         /\ Aligned(base, view, axes, origin)
         /\ origin \in [1 .. 4 -> Nat]
PROOF
  <1>1. base \in Tensors /\ base.rank \in 0 .. 4
    BY BaseFacts DEF ViewIsPart
  <1>2. view.rank \in 0 .. 4
    <2>1. Descriptor(view)
      BY TensorFacts DEF ViewIsPart
    <2> QED BY <2>1, Accepted DEF ViewIsPart, MaxRank
  <1>3. Aligned(base, view, axes, origin)
    BY <1>1, <1>2, WindowFacts DEF ViewIsPart
  <1> QED BY <1>1, <1>2, <1>3 DEF ViewIsPart, WindowOf

LEMMA ViewStarts ==
  ASSUME ViewInit
  PROVE  ViewInv
PROOF
  <1>1. base \in Bases /\ view = base /\ axes = [d \in Dims(base) |-> d]
        /\ origin = [d \in 1 .. MaxRank |-> 0]
    BY DEF ViewInit
  <1>2. ViewIsPart
    BY <1>1, BaseFacts, WholeIsPart DEF ViewIsPart
  <1>3. ParamsArePart
    <2>1. Quantified(view) /\ base.dim \in Nat /\ base.dim <= base.rank /\ base.rank \in 0 .. 4
          /\ base.params \in Int
      BY <1>1, BaseFacts
    <2>2. ASSUME base.dim > 0
          PROVE  /\ view.dim \in 1 .. view.rank /\ axes[view.dim] = base.dim
                 /\ view.params = base.params + origin[base.dim]
      <3>1. base.dim \in 1 .. base.rank /\ base.dim \in 1 .. 4
        BY <2>1, <2>2
      <3>2. axes[base.dim] = base.dim /\ origin[base.dim] = 0
        BY <1>1, <3>1 DEF Dims, MaxRank
      <3> QED BY <1>1, <2>1, <3>1, <3>2
    <2> QED BY <2>1, <2>2 DEF ParamsArePart
  <1> QED BY <1>2, <1>3 DEF ViewInv

(* A cut of a part is a part: of the base tensor, from the sum of both      *)
(* positions on.                                                            *)
LEMMA CutKeepsPart ==
  ASSUME ViewInv, NEW cfg \in Cfgs, CreateView(cfg)
  PROVE  /\ ViewIsPart' /\ Cut(view, cfg) /\ CutIs(view, cfg, view')
         /\ origin' = Shifted(origin, axes, cfg.offset)
         /\ axes' = [k \in DOMAIN Kept(view, cfg) |-> axes[Kept(view, cfg)[k]]]
PROOF
  <1>1. /\ ViewIsPart /\ base \in Bases /\ view \in Tensors /\ view.dim <= view.rank
        /\ NoWrap(view) /\ WindowOf(base, view, axes, origin)
    BY DEF ViewInv, ViewIsPart
  <1>2. /\ base \in Tensors /\ base.rank \in 0 .. 4 /\ view.rank \in 0 .. 4
        /\ Aligned(base, view, axes, origin) /\ origin \in [1 .. 4 -> Nat]
    BY <1>1, ViewFacts
  <1>3. /\ DocumentedCut(view, cfg) /\ CheckSubtensor(view, cfg) = "OK"
        /\ view' = Subtensor(view, cfg) /\ base' = base
        /\ axes' = [k \in DOMAIN Kept(view, cfg) |-> axes[Kept(view, cfg)[k]]]
    BY DEF CreateView
  <1>4. Cut(view, cfg)
    <2>1. CheckTensor(view) = "OK"
      BY <1>3 DEF CheckSubtensor
    <2>2. /\ cfg.offset \in [1 .. MaxRank -> Nat] /\ cfg.size \in [1 .. MaxRank -> Nat]
          /\ cfg.rank \in 1 .. view.rank
      BY <1>1, <1>2, CfgFacts
    <2> QED BY <1>1, <1>3, <2>1, <2>2 DEF Cut
  <1>5. CutIs(view, cfg, view')
    <2> PICK out : out = Subtensor(view, cfg)
      OBVIOUS
    <2>1. CutIs(view, cfg, out)
      BY <1>4, CutIsPart
    <2> QED BY <1>3, <2>1
  <1> PICK x, J, K, out : x = origin /\ J = axes /\ K = Kept(view, cfg) /\ out = view'
    OBVIOUS
  <1>6. /\ cfg.offset \in [1 .. 4 -> Nat] /\ cfg.rank \in 1 .. view.rank
    BY <1>4 DEF Cut, MaxRank
  <1>7. origin' = Shifted(x, J, cfg.offset)
    <2>1. /\ origin' = [d \in 1 .. MaxRank |->
                          IF \E k \in DOMAIN J : J[k] = d
                          THEN x[d] + cfg.offset[CHOOSE k \in DOMAIN J : J[k] = d]
                          ELSE x[d]]
          /\ \A d \in 1 .. 4 : x[d] \in Nat
      BY <1>2 DEF CreateView
    <2>2. \A d \in 1 .. 4 : (IF \E k \in DOMAIN J : J[k] = d
                             THEN x[d] + cfg.offset[CHOOSE k \in DOMAIN J : J[k] = d]
                             ELSE x[d])
                            = x[d] + (IF \E k \in DOMAIN J : J[k] = d
                                      THEN cfg.offset[CHOOSE k \in DOMAIN J : J[k] = d] ELSE 0)
      BY <2>1
    <2>3. \A d \in 1 .. 4 : Spread(J, cfg.offset)[d] =
                              IF \E k \in DOMAIN J : J[k] = d
                              THEN cfg.offset[CHOOSE k \in DOMAIN J : J[k] = d] ELSE 0
      BY DEF Spread, MaxRank
    <2> QED BY <2>1, <2>2, <2>3 DEF Shifted, MaxRank
  <1>8. /\ out \in Tensors /\ out.rank = cfg.rank /\ WindowOf(view, out, K, cfg.offset)
        /\ CheckLayout(out) = "OK" /\ NoWrap(out) /\ out.dim <= out.rank
    <2>1. CutIs(view, cfg, out)
      BY <1>5
    <2>2. out.dim <= out.rank
      BY <1>2, <1>6, <2>1 DEF CutIs
    <2> QED BY <2>1, <2>2 DEF CutIs
  <1>9. WindowOf(base, out, [k \in DOMAIN K |-> J[K[k]]], Shifted(x, J, cfg.offset))
    <2>1. out.rank \in 0 .. 4
      BY <1>2, <1>6, <1>8
    <2> QED BY <1>1, <1>2, <1>8, <2>1, WindowOfWindow
  <1>10. axes' = [k \in DOMAIN K |-> J[K[k]]]
    BY <1>3
  <1>11. WindowOf(base', out, axes', origin')
    BY <1>3, <1>7, <1>9, <1>10
  <1>12. ViewIsPart'
    BY <1>1, <1>3, <1>8, <1>11 DEF ViewIsPart
  <1> QED BY <1>4, <1>5, <1>7, <1>10, <1>12

(* ... and its parameters are those of the part, as long as the quantized   *)
(* dimension is kept.                                                       *)
LEMMA CutKeepsParams ==
  ASSUME ViewInv, KeepAxis, NEW cfg \in Cfgs, CreateView(cfg)
  PROVE  ParamsArePart'
PROOF
  <1>1. /\ ViewIsPart /\ base \in Bases /\ view \in Tensors /\ Quantified(view)
        /\ base.dim > 0 => /\ view.dim \in 1 .. view.rank /\ axes[view.dim] = base.dim
                           /\ view.params = base.params + origin[base.dim]
    BY DEF ViewInv, ViewIsPart, ParamsArePart
  <1>2. /\ base \in Tensors /\ base.rank \in 0 .. 4 /\ view.rank \in 0 .. 4
        /\ Aligned(base, view, axes, origin)
    BY <1>1, ViewFacts
  <1>3. /\ Cut(view, cfg) /\ CutIs(view, cfg, view')
        /\ origin' = Shifted(origin, axes, cfg.offset)
        /\ axes' = [k \in DOMAIN Kept(view, cfg) |-> axes[Kept(view, cfg)[k]]]
        /\ base' = base
    BY CutKeepsPart DEF CreateView
  <1> PICK x, J, K, out, in : x = origin /\ J = axes /\ K = Kept(view, cfg) /\ out = view' /\ in = view
    OBVIOUS
  <1>4. /\ Cut(in, cfg) /\ CutIs(in, cfg, out) /\ K = Kept(in, cfg) /\ Aligned(base, in, J, x)
        /\ Quantified(in) /\ in \in Tensors /\ in.rank \in 0 .. 4
        /\ base.dim > 0 => in.dim \in 1 .. in.rank /\ J[in.dim] = base.dim /\ in.params = base.params + x[base.dim]
        /\ origin' = Shifted(x, J, cfg.offset) /\ axes' = [k \in DOMAIN K |-> J[K[k]]]
    BY <1>1, <1>2, <1>3
  <1>5. /\ cfg.rank \in 1 .. in.rank /\ DOMAIN K = 1 .. cfg.rank
        /\ cfg.offset \in [1 .. 4 -> Nat] /\ in.dim \in Nat
        /\ \A d \in 1 .. in.rank : /\ cfg.offset[d] \in Nat /\ cfg.size[d] \in Nat
                                   /\ cfg.offset[d] + cfg.size[d] <= in.shape[d] /\ in.shape[d] \in Nat
    <2>1. DOMAIN K = 1 .. cfg.rank
      BY <1>4, CutFacts DEF Picks
    <2>2. /\ cfg.rank \in 1 .. in.rank /\ cfg.offset \in [1 .. 4 -> Nat]
      BY <1>4 DEF Cut, MaxRank
    <2> QED BY <1>4, <2>1, <2>2, CutFacts, TensorFacts
  <1>6. in.dim > 0 => \E k \in 1 .. cfg.rank : K[k] = in.dim
    BY <1>3, <1>4, <1>5 DEF Cut, DocumentedCut
  <1>7. /\ out.rank = cfg.rank /\ out.params_cap = in.params_cap
        /\ \A k \in Dims(out) : out.shape[k] = cfg.size[K[k]]
        /\ \/ out.dim = 0 /\ ~ \E k \in 1 .. cfg.rank : in.dim > 0 /\ K[k] = in.dim
           \/ /\ in.dim > 0 /\ out.dim \in 1 .. cfg.rank /\ K[out.dim] = in.dim
              /\ out.params = in.params + cfg.offset[in.dim]
    BY <1>4 DEF CutIs
  <1>8. CASE in.dim = 0
    <2>1. out.dim = 0 /\ in.params_cap = 0
      BY <1>4, <1>7, <1>8 DEF Quantified
    <2>2. Quantified(out)
      BY <1>7, <2>1 DEF Quantified
    <2>3. ~(base.dim > 0)
      BY <1>4, <1>8
    <2> QED BY <1>3, <2>2, <2>3 DEF ParamsArePart
  <1>9. CASE in.dim > 0
    <2>1. /\ out.dim \in 1 .. cfg.rank /\ K[out.dim] = in.dim
          /\ out.params = in.params + cfg.offset[in.dim] /\ out.dim > 0
      BY <1>6, <1>7, <1>9
    <2>2. in.dim \in 1 .. in.rank
      <3>1. \A k \in 1 .. cfg.rank : K[k] \in 1 .. in.rank
        BY <1>4, CutFacts DEF Picks
      <3> QED BY <2>1, <3>1
    <2>3. Quantified(out)
      <3>1. in.params_cap >= in.shape[in.dim] /\ in.params_cap \in Nat
        BY <1>4, <1>9, TensorFacts DEF Quantified
      <3>2. out.shape[out.dim] = cfg.size[in.dim]
        BY <1>7, <2>1 DEF Dims
      <3>3. out.params_cap >= out.shape[out.dim]
        <4> PICK d : d = in.dim
          OBVIOUS
        <4>1. /\ cfg.offset[d] \in Nat /\ cfg.size[d] \in Nat /\ in.shape[d] \in Nat
              /\ cfg.offset[d] + cfg.size[d] <= in.shape[d]
          BY <1>5, <2>2
        <4>2. cfg.size[d] <= in.shape[d] /\ in.params_cap >= in.shape[d]
          BY <3>1, <4>1
        <4>3. in.params_cap >= cfg.size[d]
          BY <3>1, <4>1, <4>2
        <4> QED BY <1>7, <3>2, <4>3
      <3> QED BY <2>1, <3>3 DEF Quantified
    <2>4. ASSUME base.dim > 0
          PROVE  /\ out.dim \in 1 .. out.rank /\ axes'[out.dim] = base.dim
                 /\ out.params = base.params + origin'[base.dim]
      <3>1. J[in.dim] = base.dim /\ in.params = base.params + x[base.dim]
        BY <1>4, <2>4
      <3>2. axes'[out.dim] = base.dim
        BY <1>4, <1>5, <2>1, <3>1
      <3>3. base.dim \in 1 .. 4 /\ x[base.dim] \in Nat
        BY <1>4, <2>2, <3>1 DEF Aligned
      <3>4. Spread(J, cfg.offset)[base.dim] = cfg.offset[in.dim]
        <4> PICK n, r : n = base.rank /\ r = in.rank
          OBVIOUS
        <4>1. n \in 0 .. 4 /\ r \in Int /\ Picks(J, r, n)
          BY <1>2, <1>4 DEF Aligned
        <4>2. \A i \in 1 .. r : Spread(J, cfg.offset)[J[i]] = cfg.offset[i]
          BY <4>1, SpreadAt
        <4> QED BY <2>2, <3>1, <4>2
      <3>5. origin'[base.dim] = x[base.dim] + cfg.offset[in.dim]
        BY <1>4, <3>3, <3>4 DEF Shifted
      <3>6. base.params \in Int /\ cfg.offset[in.dim] \in Nat
        BY <1>1, <1>5, <2>2, BaseFacts
      <3>7. out.params = base.params + (x[base.dim] + cfg.offset[in.dim])
        BY <2>1, <3>1, <3>3, <3>6
      <3> QED BY <1>7, <2>1, <3>2, <3>5, <3>7
    <2> QED BY <1>3, <2>3, <2>4 DEF ParamsArePart
  <1> QED BY <1>5, <1>8, <1>9

LEMMA ViewNextInv ==
  ASSUME ViewInv, [ViewNext]_viewVars
  PROVE  ViewInv'
PROOF
  <1>1. CASE UNCHANGED viewVars
    BY <1>1 DEF ViewInv, ViewIsPart, ParamsArePart, viewVars
  <1>2. ASSUME NEW cfg \in Cfgs, CreateView(cfg)
        PROVE  ViewInv'
    <2>1. ViewIsPart'
      BY <1>2, CutKeepsPart
    <2>2. KeepAxis => ParamsArePart'
      BY <1>2, CutKeepsParams
    <2> QED BY <2>1, <2>2 DEF ViewInv
  <1>3. ASSUME NEW cfg \in Cfgs, RefuseView(cfg)
        PROVE  ViewInv'
    BY <1>3 DEF RefuseView, ViewInv, ViewIsPart, ParamsArePart
  <1> QED BY <1>1, <1>2, <1>3 DEF ViewNext

(* However often mli_hlp_create_subtensor cuts: the view is well formed,    *)
(* each of its dimensions is one of the base tensor's, in the same order    *)
(* and with the same stride, and its pointers stand at its first element.   *)
THEOREM ViewsArePart == ViewSpec => []ViewInv
PROOF
  <1>1. ViewInit => ViewInv
    BY ViewStarts
  <1>2. ViewInv /\ [ViewNext]_viewVars => ViewInv'
    BY ViewNextInv
  <1> QED BY <1>1, <1>2, PTL DEF ViewSpec

(* A position of the view, and where it is in the base tensor. *)
LEMMA PositionInBase ==
  ASSUME ViewIsPart, NEW pos \in Positions(view)
  PROVE  /\ \A k \in Dims(view) : pos[k] \in 0 .. view.shape[k] - 1
         /\ InBase(pos) = Shifted(origin, axes, pos)
PROOF
  <1>1. /\ view.rank \in 0 .. 4
    BY ViewFacts
  <1>2. PICK p \in [Dims(view) -> 0 .. MaxSize - 1] :
          /\ HasPosition(view, p)
          /\ pos = [d \in 1 .. MaxRank |-> IF d <= view.rank THEN p[d] ELSE 0]
    BY DEF Positions
  <1>3. \A k \in Dims(view) : pos[k] \in 0 .. view.shape[k] - 1
    <2> TAKE k \in Dims(view)
    <2>1. k \in 1 .. MaxRank /\ k <= view.rank
      BY <1>1 DEF Dims, MaxRank
    <2>2. pos[k] = p[k]
      BY <1>2, <2>1
    <2> QED BY <1>2, <2>2 DEF HasPosition
  <1>4. InBase(pos) = Shifted(origin, axes, pos)
    BY DEF InBase, Shifted, Spread, MaxRank
  <1> QED BY <1>3, <1>4

(* However often a tensor was cut, what the view shows is the window of the *)
(* base tensor: every position is one of the base tensor's, at the same     *)
(* address, and the capacity ends where that of the base tensor does, so    *)
(* mli_hlp_create_subtensor never hands out memory its input does not have. *)
THEOREM WindowStays == ViewSpec => []ViewIsWindow
PROOF
  <1>1. ASSUME ViewInv
        PROVE  ViewIsWindow
    <2>1. /\ ViewIsPart /\ base \in Tensors /\ base.rank \in 0 .. 4
          /\ view \in Tensors /\ view.rank \in 0 .. 4 /\ WindowOf(base, view, axes, origin)
      BY <1>1, ViewFacts DEF ViewInv, ViewIsPart
    <2>2. ASSUME NEW pos \in Positions(view)
          PROVE  /\ HasPosition(base, InBase(pos))
                 /\ view.data + Offset(view, pos) = base.data + Offset(base, InBase(pos))
      <3>1. /\ \A k \in Dims(view) : pos[k] \in 0 .. view.shape[k] - 1
            /\ InBase(pos) = Shifted(origin, axes, pos)
        BY <2>1, PositionInBase
      <3> PICK y : y = InBase(pos)
        OBVIOUS
      <3>2. /\ IsPosition(base, y)
            /\ Offset(base, y) = Offset(base, origin) + Offset(view, pos)
        BY <2>1, <3>1, WindowPosition
      <3>3. view.data = base.data + Offset(base, origin)
        BY <2>1 DEF WindowOf
      <3>4. base.data \in Int /\ Offset(base, origin) \in Int /\ Offset(view, pos) \in Int
        <4>1. /\ \A d \in 1 .. base.rank : origin[d] \in Int /\ base.mem_stride[d] \in Int
              /\ \A k \in 1 .. view.rank : pos[k] \in Int /\ view.mem_stride[k] \in Int
          <5>1. /\ \A d \in 1 .. base.rank : origin[d] \in Nat /\ base.mem_stride[d] \in Int
                /\ \A k \in 1 .. view.rank : view.mem_stride[k] \in Int
                /\ Dims(view) = 1 .. view.rank
            BY <2>1, ViewFacts DEF Aligned
          <5>2. ASSUME NEW k \in 1 .. view.rank PROVE pos[k] \in Int
            BY <3>1, <5>1
          <5> QED BY <5>1, <5>2
        <4>2. \A d \in 1 .. 4 : Term(base, origin, d) \in Int /\ Term(view, pos, d) \in Int
          <5> TAKE d \in 1 .. 4
          <5>1. Term(base, origin, d) \in Int
            BY <2>1, <4>1 DEF Term
          <5>2. Term(view, pos, d) \in Int
            BY <2>1, <4>1 DEF Term
          <5> QED BY <5>1, <5>2
        <4> QED BY <2>1, <4>2, OffsetIsSum, TensorFacts
      <3> QED BY <3>2, <3>3, <3>4 DEF IsPosition
    <2>3. view.data * view.elem + view.capacity = base.data * base.elem + base.capacity
      BY <2>1 DEF WindowOf
    <2> QED BY <2>2, <2>3 DEF ViewIsWindow
  <1> QED BY <1>1, ViewsArePart, PTL

(* As long as clients keep the quantized dimension, a view of a valid       *)
(* tensor is valid, so that kernels and further cuts accept it.             *)
THEOREM ViewsAccepted ==
  ASSUME KeepAxis
  PROVE  ViewSpec => []ViewAccepted
PROOF
  <1>1. ViewInv => ViewAccepted
    BY DEF ViewInv, ViewIsPart, ParamsArePart, ViewAccepted, CheckTensor
  <1> QED BY <1>1, ViewsArePart, PTL

(* As long as clients keep the quantized dimension, an element of the view  *)
(* is read with the scale and zero point it has in the base tensor: the     *)
(* parameter pointers advance with the data pointer.                        *)
THEOREM ParamsStay ==
  ASSUME KeepAxis
  PROVE  ViewSpec => []ParamsFollow
PROOF
  <1>1. ASSUME ViewInv
        PROVE  ParamsFollow
    <2>1. /\ ViewIsPart /\ ParamsArePart /\ base \in Bases /\ view.rank \in 0 .. 4 /\ base.rank \in 0 .. 4
          /\ Aligned(base, view, axes, origin)
      BY <1>1, ViewFacts DEF ViewInv, ViewIsPart
    <2> SUFFICES ASSUME base.dim > 0
                 PROVE  /\ view.dim > 0
                        /\ \A pos \in Positions(view) :
                             view.params + pos[view.dim] = base.params + InBase(pos)[base.dim]
      BY DEF ParamsFollow
    <2>2. /\ view.dim \in 1 .. view.rank /\ axes[view.dim] = base.dim
          /\ view.params = base.params + origin[base.dim]
      BY <2>1 DEF ParamsArePart
    <2>3. ASSUME NEW pos \in Positions(view)
          PROVE  view.params + pos[view.dim] = base.params + InBase(pos)[base.dim]
      <3>1. /\ \A k \in 1 .. view.rank : pos[k] \in 0 .. view.shape[k] - 1
            /\ InBase(pos) = Shifted(origin, axes, pos)
        BY <2>1, PositionInBase DEF Dims
      <3>2. base.dim \in 1 .. 4 /\ origin[base.dim] \in Nat
        BY <2>1, <2>2 DEF Aligned
      <3>3. Spread(axes, pos)[base.dim] = pos[view.dim]
        <4> PICK n, r, J : n = base.rank /\ r = view.rank /\ J = axes
          OBVIOUS
        <4>1. n \in 0 .. 4 /\ r \in Int /\ Picks(J, r, n)
          BY <2>1 DEF Aligned
        <4>2. \A i \in 1 .. r : Spread(J, pos)[J[i]] = pos[i]
          BY <4>1, SpreadAt
        <4> QED BY <2>2, <4>2
      <3>4. InBase(pos)[base.dim] = origin[base.dim] + pos[view.dim]
        BY <3>1, <3>2, <3>3 DEF Shifted
      <3>5. pos[view.dim] \in Int /\ base.params \in Int
        BY <2>1, <2>2, <3>1, BaseFacts
      <3> QED BY <2>2, <3>2, <3>4, <3>5
    <2>4. view.dim > 0
      BY <2>1, <2>2
    <2> QED BY <2>3, <2>4
  <1> QED BY <1>1, ViewsArePart, PTL

-----------------------------------------------------------------------------
(***************************************************************************)
(* Conversion                                                              *)
(***************************************************************************)

(* Calls with sizes that the checks can compute. *)
CallsFit ==
  \A c \in Calls :
    /\ Descriptor(c.src) /\ Descriptor(Filled(c))
    /\ Check(c) = "OK" => NoWrap(c.src) /\ NoWrap(Filled(c))

Accepts(c) == c \in Calls /\ Check(c) = "OK"

(* The loops: which slices there are, which of their elements are done. *)
Done(i, n) == i < slice \/ (i = slice /\ n < element)

(* What the check guarantees of both descriptors. *)
LEMMA AcceptedCall ==
  ASSUME CallsFit, NEW c, Accepts(c)
  PROVE  /\ Descriptor(c.src) /\ CheckLayout(c.src) = "OK" /\ NoWrap(c.src)
         /\ Descriptor(Filled(c)) /\ CheckLayout(Filled(c)) = "OK" /\ NoWrap(Filled(c))
         /\ Shaped(c.src) /\ Shaped(Filled(c))
         /\ Filled(c).rank = c.src.rank /\ Filled(c).shape = c.src.shape
         /\ Filled(c).mem_stride = c.dst.mem_stride
PROOF
  <1>1. CheckTensor(c.src) = "OK" /\ CheckLayout(Filled(c)) = "OK"
    BY DEF Accepts, Check
  <1>2. CheckLayout(c.src) = "OK"
    BY <1>1, TensorHasLayout
  <1>3. Descriptor(c.src) /\ NoWrap(c.src) /\ Descriptor(Filled(c)) /\ NoWrap(Filled(c))
    BY DEF CallsFit, Accepts
  <1> QED BY <1>1, <1>2, <1>3 DEF CheckLayout, Filled

LEMMA LoopFacts ==
  ASSUME CallsFit, NEW c, Accepts(c)
  PROVE  /\ ScaleDim(c) \in 0 .. c.src.rank
         /\ Slices(c) \in Nat \ {0} /\ Elements(c) \in Nat \ {0}
         /\ ScaleDim(c) > 0 => Slices(c) = c.src.shape[ScaleDim(c)]
         /\ ScaleDim(c) = 0 => Slices(c) = 1
PROOF
  <1> DEFINE dim == ScaleDim(c)
  <1>1. dim \in 0 .. c.src.rank
    BY CallsAssumption DEF ScaleDim, Accepts
  <1>2. Descriptor(c.src) /\ Shaped(c.src)
    BY AcceptedCall
  <1>3. c.src.rank \in 0 .. MaxRank /\ \A d \in 1 .. c.src.rank : c.src.shape[d] \in Nat \ {0}
    BY <1>2 DEF Descriptor, Shaped, Dims, MaxRank
  <1> HIDE DEF dim
  <1>4. Slices(c) \in Nat \ {0}
    BY <1>1, <1>3 DEF Slices, dim
  <1>5. Elements(c) \in Nat \ {0}
    <2> PICK s : s = SliceShape(c.src, dim)
      OBVIOUS
    <2>1. s[1] \in Nat \ {0} /\ s[2] \in Nat \ {0} /\ s[3] \in Nat \ {0} /\ s[4] \in Nat \ {0}
      BY <1>2, SliceShapePositive DEF MaxRank
    <2>2. \A a, b \in Nat \ {0} : a * b \in Nat \ {0}
      OBVIOUS
    <2>3. s[1] * s[2] * s[3] * s[4] \in Nat \ {0}
      <3>1. s[1] * s[2] \in Nat \ {0}
        BY <2>1, <2>2
      <3>2. s[1] * s[2] * s[3] \in Nat \ {0}
        BY <2>1, <2>2, <3>1
      <3> QED BY <2>1, <2>2, <3>2
    <2> QED BY <2>3 DEF Elements, SliceLength, dim
  <1> QED BY <1>1, <1>4, <1>5 DEF Slices, dim

(* The positions of the loops are positions of both tensors, each met once.*)
LEMMA LoopPositions ==
  ASSUME CallsFit, NEW c, Accepts(c), NEW i \in 1 .. Slices(c), NEW n \in 0 .. Elements(c) - 1
  PROVE  /\ IsPosition(c.src, Position(c, i, n)) /\ IsPosition(Filled(c), Position(c, i, n))
         /\ Index(c, Position(c, i, n)) = i
PROOF
  <1> DEFINE dim == ScaleDim(c)
  <1>1. /\ dim \in 0 .. c.src.rank /\ Slices(c) \in Nat \ {0} /\ Elements(c) \in Nat \ {0}
        /\ dim > 0 => Slices(c) = c.src.shape[dim]
        /\ dim = 0 => Slices(c) = 1
    BY LoopFacts
  <1>2. /\ Descriptor(c.src) /\ Shaped(c.src)
        /\ Filled(c).rank = c.src.rank /\ Filled(c).shape = c.src.shape
    BY AcceptedCall
  <1> HIDE DEF dim
  <1>3. i - 1 \in Nat /\ n \in Nat /\ (dim > 0 => i - 1 < c.src.shape[dim])
    BY <1>1
  <1>4. IsPosition(c.src, SlicePosition(c.src, dim, i - 1, n))
    BY <1>1, <1>2, <1>3, SlicePositionInside
  <1>5. IsPosition(c.src, Position(c, i, n))
    BY <1>4 DEF Position, dim
  <1>6. IsPosition(Filled(c), Position(c, i, n))
    BY <1>2, <1>5 DEF IsPosition, HasPosition, Dims
  <1>7. Index(c, Position(c, i, n)) = i
    <2>1. CASE dim > 0
      <3>1. dim \in 1 .. MaxRank
        BY <1>1, <1>2, <2>1 DEF Descriptor, Shaped, MaxRank
      <3>2. SlicePosition(c.src, dim, i - 1, n)[dim] = i - 1
        BY <3>1 DEF SlicePosition
      <3> QED BY <1>1, <2>1, <3>2 DEF Index, Position, dim
    <2>2. CASE dim = 0
      BY <1>1, <2>2 DEF Index, dim
    <2> QED BY <1>1, <2>1, <2>2
  <1> QED BY <1>5, <1>6, <1>7

LEMMA LoopApart ==
  ASSUME CallsFit, NEW c, Accepts(c),
         NEW i \in 1 .. Slices(c), NEW n \in 0 .. Elements(c) - 1,
         NEW j \in 1 .. Slices(c), NEW m \in 0 .. Elements(c) - 1,
         i # j \/ n # m
  PROVE  /\ Offset(c.src, Position(c, i, n)) # Offset(c.src, Position(c, j, m))
         /\ Offset(Filled(c), Position(c, i, n)) # Offset(Filled(c), Position(c, j, m))
PROOF
  <1> DEFINE dim == ScaleDim(c)
             p == Position(c, i, n)
             q == Position(c, j, m)
  <1>1. /\ dim \in 0 .. c.src.rank /\ Slices(c) \in Nat \ {0} /\ Elements(c) \in Nat \ {0}
        /\ dim = 0 => Slices(c) = 1
    BY LoopFacts
  <1>2. /\ Descriptor(c.src) /\ CheckLayout(c.src) = "OK" /\ NoWrap(c.src) /\ Shaped(c.src)
        /\ Descriptor(Filled(c)) /\ CheckLayout(Filled(c)) = "OK" /\ NoWrap(Filled(c))
        /\ Filled(c).rank = c.src.rank
    BY AcceptedCall
  <1>3. /\ IsPosition(c.src, p) /\ IsPosition(Filled(c), p)
        /\ IsPosition(c.src, q) /\ IsPosition(Filled(c), q)
    BY LoopPositions
  <1>4. \E d \in Dims(c.src) : p[d] # q[d]
    <2>1. (dim > 0 /\ i - 1 # j - 1) \/ n # m
      BY <1>1
    <2>2. n \in 0 .. SliceLength(c.src, dim) - 1 /\ m \in 0 .. SliceLength(c.src, dim) - 1
      BY DEF Elements
    <2> HIDE DEF dim
    <2>3. \E d \in Dims(c.src) : SlicePosition(c.src, dim, i - 1, n)[d]
                                   # SlicePosition(c.src, dim, j - 1, m)[d]
      BY <1>1, <1>2, <2>1, <2>2, SlicePositionsDiffer
    <2> QED BY <2>3 DEF Position, dim
  <1> HIDE DEF p, q
  <1>5. \E d \in Dims(Filled(c)) : p[d] # q[d]
    BY <1>2, <1>4 DEF Dims
  <1>6. Offset(c.src, p) # Offset(c.src, q)
    BY <1>2, <1>3, <1>4, PositionsApart
  <1>7. Offset(Filled(c), p) # Offset(Filled(c), q)
    BY <1>2, <1>3, <1>5, PositionsApart
  <1> QED BY <1>6, <1>7 DEF p, q

(* In place, an element has one offset in both. *)
LEMMA SameOffset ==
  ASSUME CallsFit, NEW c, Accepts(c), c.shared, ReadFirst(c), NEW pos
  PROVE  Offset(Filled(c), pos) = Offset(c.src, pos)
PROOF
  <1>1. /\ Filled(c).rank = c.src.rank /\ Filled(c).mem_stride = c.dst.mem_stride
        /\ \A d \in 1 .. c.src.rank : c.src.mem_stride[d] = c.dst.mem_stride[d]
        /\ c.src.rank \in Nat
    BY AcceptedCall DEF ReadFirst, Dims, Descriptor
  <1>2. \A d \in 1 .. 4 : Term(Filled(c), pos, d) = Term(c.src, pos, d)
    BY <1>1 DEF Term
  <1> QED BY <1>2, OffsetIsSum

-----------------------------------------------------------------------------
(* The invariant. *)

Called ==
  /\ dst = call.dst /\ src_mem = call.values /\ (call.shared => dst_mem = src_mem)

(* Of the elements that are done, what they became is in the memory of     *)
(* dst; the others are in the memory of src as they were.                  *)
Progress ==
  \A i \in 1 .. Slices(call), n \in 0 .. Elements(call) - 1 :
    LET pos == Position(call, i, n)
    IN  IF Done(i, n)
        THEN Offset(dst, pos) \in DOMAIN dst_mem /\ dst_mem[Offset(dst, pos)] = Due(call, dst, pos)
        ELSE /\ Offset(call.src, pos) \in DOMAIN src_mem
             /\ src_mem[Offset(call.src, pos)] = call.values[Offset(call.src, pos)]

Running ==
  /\ Accepts(call) /\ dst = Filled(call)
  /\ slice \in 1 .. Slices(call) /\ element \in 0 .. Elements(call)
  /\ slice_params = Requant(call.src, dst, slice)
  /\ IF call.shared THEN src_mem = dst_mem ELSE src_mem = call.values
  /\ ReadFirst(call) => Progress

ConversionInv ==
  /\ call \in Calls
  /\ status = "called" => Called
  /\ status = "running" => Running
  /\ status = "OK" =>
       Running /\ slice = Slices(call) /\ element = Elements(call)

LEMMA InitConversion == Init => ConversionInv
BY DEF Init, ConversionInv, Called

LEMMA RefuseConversion ==
  ASSUME ConversionInv, Refuse
  PROVE  ConversionInv'
PROOF
  <1>1. call' = call /\ status' = Check(call) /\ Check(call) # "OK"
    BY DEF Refuse
  <1>2. Check(call) # "called" /\ Check(call) # "running"
    BY DEF Check, CheckTensor, CheckLayout
  <1> QED BY <1>1, <1>2 DEF ConversionInv

LEMMA StartConversion ==
  ASSUME CallsFit, ConversionInv, Start
  PROVE  ConversionInv'
PROOF
  <1>1. /\ status = "called" /\ Check(call) = "OK" /\ status' = "running"
        /\ dst' = Filled(call) /\ slice' = 1 /\ element' = 0
        /\ slice_params' = Requant(call.src, dst', 1)
        /\ call' = call /\ src_mem' = src_mem /\ dst_mem' = dst_mem
    BY DEF Start, SliceParams
  <1>2. Accepts(call) /\ src_mem = call.values /\ (call.shared => dst_mem = src_mem)
    BY <1>1 DEF ConversionInv, Called, Accepts
  <1>3. Slices(call) \in Nat \ {0} /\ Elements(call) \in Nat \ {0}
    BY <1>2, LoopFacts
  <1>4. Progress'
    <2>1. ASSUME NEW i \in 1 .. Slices(call), NEW n \in 0 .. Elements(call) - 1
          PROVE  /\ ~Done(i, n)'
                 /\ Offset(call.src, Position(call, i, n)) \in DOMAIN call.values
      <3>1. ~Done(i, n)'
        BY <1>1, <1>3 DEF Done
      <3>2. IsPosition(call.src, Position(call, i, n))
        BY <1>2, LoopPositions
      <3>3. Descriptor(call.src) /\ CheckLayout(call.src) = "OK"
        BY <1>2, AcceptedCall
      <3>4. Offset(call.src, Position(call, i, n)) \in 0 .. Span(call.src) - 1
        BY <3>2, <3>3, OffsetBelowSpan
      <3>5. 0 .. Span(call.src) - 1 \subseteq DOMAIN call.values
        BY <1>2, CallsAssumption DEF Accepts
      <3> QED BY <3>1, <3>4, <3>5
    <2> QED BY <1>1, <1>2, <2>1 DEF Progress
  <1>5. Running'
    BY <1>1, <1>2, <1>3, <1>4 DEF Running, Accepts
  <1> QED BY <1>1, <1>2, <1>5 DEF ConversionInv, Accepts

LEMMA ConvertConversion ==
  ASSUME CallsFit, ConversionInv, Convert
  PROVE  ConversionInv'
PROOF
  <1> DEFINE pos == Position(call, slice, element)
             from == Offset(call.src, pos)
             cell == Offset(dst, pos)
             value == Converted(slice_params, Bits(dst.type), src_mem[from])
  <1>1. /\ status = "running" /\ element < Elements(call)
        /\ dst_mem' = [j \in DOMAIN dst_mem \cup {cell} |-> IF j = cell THEN value ELSE dst_mem[j]]
        /\ src_mem' = IF call.shared THEN dst_mem' ELSE src_mem
        /\ element' = element + 1
        /\ call' = call /\ dst' = dst /\ slice' = slice /\ slice_params' = slice_params /\ status' = status
    BY DEF Convert
  <1>2. /\ Accepts(call) /\ dst = Filled(call)
        /\ slice \in 1 .. Slices(call) /\ element \in 0 .. Elements(call)
        /\ slice_params = Requant(call.src, dst, slice)
        /\ IF call.shared THEN src_mem = dst_mem ELSE src_mem = call.values
        /\ ReadFirst(call) => Progress
    BY <1>1 DEF ConversionInv, Running
  <1>3. Slices(call) \in Nat \ {0} /\ Elements(call) \in Nat \ {0}
    BY <1>2, LoopFacts
  <1>4. element \in 0 .. Elements(call) - 1 /\ element + 1 \in 0 .. Elements(call)
    BY <1>1, <1>2, <1>3
  <1> HIDE DEF pos, from, cell, value
  <1>5. /\ cell \in DOMAIN dst_mem' /\ dst_mem'[cell] = value
        /\ \A j \in DOMAIN dst_mem : j \in DOMAIN dst_mem' /\ (j # cell => dst_mem'[j] = dst_mem[j])
    BY <1>1
  <1>6. ASSUME ReadFirst(call)
        PROVE  Progress'
    <2>0. Progress
      BY <1>2, <1>6
    <2>1. value = Due(call, dst, pos)
      <3>1. src_mem[from] = call.values[from]
        <4>1. ~Done(slice, element)
          BY <1>2, <1>4 DEF Done
        <4> QED BY <1>2, <1>4, <2>0, <4>1 DEF Progress, pos, from
      <3>2. Index(call, pos) = slice
        BY <1>2, <1>4, LoopPositions DEF pos
      <3> QED BY <1>2, <3>1, <3>2 DEF value, Due, from
    <2>2. ASSUME NEW i \in 1 .. Slices(call), NEW n \in 0 .. Elements(call) - 1
          PROVE  LET q == Position(call, i, n)
                 IN  IF Done(i, n)'
                     THEN Offset(dst, q) \in DOMAIN dst_mem' /\ dst_mem'[Offset(dst, q)] = Due(call, dst, q)
                     ELSE /\ Offset(call.src, q) \in DOMAIN src_mem'
                          /\ src_mem'[Offset(call.src, q)] = call.values[Offset(call.src, q)]
      <3> DEFINE q == Position(call, i, n)
      <3>1. CASE i = slice /\ n = element
        <4>1. Done(i, n)' /\ q = pos
          BY <1>1, <1>2, <1>4, <3>1 DEF Done, pos
        <4>2. Offset(dst, q) = cell
          BY <4>1 DEF cell
        <4> QED BY <1>5, <2>1, <4>1, <4>2
      <3>2. CASE i # slice \/ n # element
        <4>1. Done(i, n)' <=> Done(i, n)
          BY <1>1, <1>2, <1>4, <3>2 DEF Done
        <4>2. Offset(dst, q) # cell /\ Offset(call.src, q) # from
          BY <1>2, <1>4, <3>2, LoopApart DEF cell, from, pos
        <4>3. IF Done(i, n)
              THEN Offset(dst, q) \in DOMAIN dst_mem /\ dst_mem[Offset(dst, q)] = Due(call, dst, q)
              ELSE /\ Offset(call.src, q) \in DOMAIN src_mem
                   /\ src_mem[Offset(call.src, q)] = call.values[Offset(call.src, q)]
          BY <2>0 DEF Progress
        <4>4. CASE Done(i, n)
          BY <1>5, <4>1, <4>2, <4>3, <4>4
        <4>5. CASE ~Done(i, n)
          <5>1. CASE ~call.shared
            BY <1>1, <4>1, <4>3, <4>5, <5>1
          <5>2. CASE call.shared
            <6>1. src_mem = dst_mem /\ src_mem' = dst_mem'
              BY <1>1, <1>2, <5>2
            <6>2. cell = from
              BY <1>2, <1>6, <5>2, SameOffset DEF cell, from
            <6> QED BY <1>5, <4>1, <4>2, <4>3, <4>5, <6>1, <6>2
          <5> QED BY <5>1, <5>2
        <4> QED BY <4>4, <4>5
      <3> QED BY <3>1, <3>2
    <2> QED BY <1>1, <2>2 DEF Progress
  <1>7. Running'
    <2>1. IF call.shared THEN src_mem' = dst_mem' ELSE src_mem' = call.values
      BY <1>1, <1>2
    <2>2. ReadFirst(call)' => Progress'
      BY <1>1, <1>6 DEF ReadFirst
    <2> QED BY <1>1, <1>2, <1>4, <2>1, <2>2 DEF Running, Accepts
  <1> QED BY <1>1, <1>2, <1>7 DEF ConversionInv, Accepts

LEMMA NextSliceConversion ==
  ASSUME CallsFit, ConversionInv, NextSlice
  PROVE  ConversionInv'
PROOF
  <1>1. /\ status = "running" /\ element = Elements(call) /\ slice < Slices(call)
        /\ slice' = slice + 1 /\ element' = 0
        /\ slice_params' = Requant(call.src, dst, slice + 1)
        /\ call' = call /\ dst' = dst /\ src_mem' = src_mem /\ dst_mem' = dst_mem /\ status' = status
    BY DEF NextSlice, SliceParams
  <1>2. Running
    BY <1>1 DEF ConversionInv
  <1>3. Slices(call) \in Nat \ {0} /\ Elements(call) \in Nat \ {0}
    BY <1>2, LoopFacts DEF Running
  <1>4. slice \in 1 .. Slices(call) /\ slice + 1 \in 1 .. Slices(call)
    BY <1>1, <1>2, <1>3 DEF Running
  <1>5. \A i \in 1 .. Slices(call), n \in 0 .. Elements(call) - 1 : Done(i, n)' <=> Done(i, n)
    BY <1>1, <1>3, <1>4 DEF Done
  <1>6. Progress => Progress'
    BY <1>1, <1>5 DEF Progress
  <1>7. ReadFirst(call)' <=> ReadFirst(call)
    BY <1>1
  <1>8. Running'
    BY <1>1, <1>2, <1>3, <1>4, <1>6, <1>7 DEF Running, Accepts
  <1> QED BY <1>1, <1>2, <1>8 DEF ConversionInv, Running, Accepts

LEMMA ReturnConversion ==
  ASSUME CallsFit, ConversionInv, Return
  PROVE  ConversionInv'
PROOF
  <1>1. /\ status = "running" /\ element = Elements(call) /\ slice = Slices(call)
        /\ status' = "OK"
        /\ UNCHANGED <<call, dst, slice, slice_params, element, src_mem, dst_mem>>
    BY DEF Return
  <1>2. Running
    BY <1>1 DEF ConversionInv
  <1>3. Progress => Progress'
    BY <1>1 DEF Progress, Done
  <1>4. Running'
    BY <1>1, <1>2, <1>3 DEF Running, Accepts
  <1> QED BY <1>1, <1>4 DEF ConversionInv, Running, Accepts

LEMMA ConversionInvariance == ASSUME CallsFit PROVE Spec => []ConversionInv
PROOF
  <1>1. ConversionInv /\ [Next]_vars => ConversionInv'
    <2> SUFFICES ASSUME ConversionInv, [Next]_vars
                 PROVE  ConversionInv'
      OBVIOUS
    <2>1. CASE Next
      BY <2>1, RefuseConversion, StartConversion, ConvertConversion, NextSliceConversion,
         ReturnConversion DEF Next
    <2>2. CASE UNCHANGED vars
      <3>1. UNCHANGED <<call, dst, slice, slice_params, element, src_mem, dst_mem, status>>
        BY <2>2 DEF vars
      <3>2. Progress => Progress'
        BY <3>1 DEF Progress, Done
      <3>3. Running => Running'
        BY <3>1, <3>2 DEF Running, Accepts
      <3> QED BY <3>1, <3>3 DEF ConversionInv, Called
    <2> QED BY <2>1, <2>2
  <1> QED BY <1>1, InitConversion, PTL DEF Spec

(* mli_hlp_convert_tensor: when a conversion returns OK, each position of   *)
(* the destination holds what the element of the source at this position    *)
(* converts to with the parameters of its slice: no element is left out,    *)
(* converted twice or, in place with equal strides, overwritten before it   *)
(* is read.                                                                 *)
THEOREM ConvertsEach == ASSUME CallsFit PROVE Spec => []ConvertedOnce
PROOF
  <1>1. ConversionInv => ConvertedOnce
    <2> SUFFICES ASSUME ConversionInv, ReadFirst(call), status = "OK", NEW pos \in AllPositions(call)
                 PROVE  dst_mem[Offset(dst, pos)] = Due(call, dst, pos)
      BY DEF ConvertedOnce
    <2>1. Running /\ Progress /\ slice = Slices(call) /\ element = Elements(call)
      BY DEF ConversionInv, Running
    <2>2. PICK i \in 1 .. Slices(call), n \in 0 .. Elements(call) - 1 : pos = Position(call, i, n)
      BY DEF AllPositions
    <2>3. Slices(call) \in Nat \ {0} /\ Elements(call) \in Nat \ {0}
      BY <2>1, LoopFacts DEF Running
    <2>4. Done(i, n)
      BY <2>1, <2>3 DEF Done
    <2> QED BY <2>1, <2>2, <2>4 DEF Progress
  <1> QED BY <1>1, ConversionInvariance, PTL

(* mli_hlp_convert_tensor reads no element behind the end of the source    *)
(* and writes none behind the end of the destination.                      *)
THEOREM ConvertsInside == ASSUME CallsFit PROVE Spec => []InsideBuffers
PROOF
  <1>1. ConversionInv => InsideBuffers
    <2> SUFFICES ASSUME ConversionInv, status = "running", element < Elements(call)
                 PROVE  LET pos == Position(call, slice, element)
                        IN  /\ (Offset(call.src, pos) + 1) * call.src.elem <= call.src.capacity
                            /\ (Offset(dst, pos) + 1) * dst.elem <= dst.capacity
      BY DEF InsideBuffers
    <2> DEFINE pos == Position(call, slice, element)
    <2>1. Running
      BY DEF ConversionInv
    <2>2. Slices(call) \in Nat \ {0} /\ Elements(call) \in Nat \ {0}
      BY <2>1, LoopFacts DEF Running
    <2>3. IsPosition(call.src, pos) /\ IsPosition(dst, pos)
      BY <2>1, <2>2, LoopPositions DEF Running
    <2>4. /\ Descriptor(call.src) /\ CheckLayout(call.src) = "OK" /\ NoWrap(call.src)
          /\ Descriptor(dst) /\ CheckLayout(dst) = "OK" /\ NoWrap(dst)
      BY <2>1, AcceptedCall DEF Running
    <2> HIDE DEF pos
    <2>5. (Offset(call.src, pos) + 1) * call.src.elem <= call.src.capacity
      BY <2>3, <2>4, PositionInside
    <2>6. (Offset(dst, pos) + 1) * dst.elem <= dst.capacity
      BY <2>3, <2>4, PositionInside
    <2> QED BY <2>5, <2>6 DEF pos
  <1> QED BY <1>1, ConversionInvariance, PTL
=============================================================================
