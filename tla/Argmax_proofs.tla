---------------------------- MODULE Argmax_proofs -----------------------------
(***************************************************************************)
(* What mli_krn_argmax keeps and finds, for every set of calls: HeapKept   *)
(* and TopFound.                                                           *)
(*                                                                         *)
(* The argument has two layers.  The lemmas of the first part are about a  *)
(* heap as a function from nodes to values, v, with m nodes, of which n    *)
(* may be larger than its children; those of the second part carry them    *)
(* over the actions.                                                       *)
(***************************************************************************)
EXTENDS Argmax, Access_proofs, WellFoundedInduction

(* No node from lo on is larger than its children, except n; and what is   *)
(* above n is not larger than what is below it.                            *)
HeapFrom(v, lo, m, n) ==
  \A p \in lo .. m - 1 :
    /\ p # n => \A c \in {2 * p + 1, 2 * p + 2} : c < m => v[p] <= v[c]
    /\ n \in {2 * p + 1, 2 * p + 2} =>
         \A c \in {2 * n + 1, 2 * n + 2} : c < m => v[p] <= v[c]

(* Values of the nodes. *)
IntsBelow(v, m) == \A k \in 0 .. m - 1 : k \in DOMAIN v /\ v[k] \in Int

(* Smallest on such a function. *)
Lower(v, m, n) ==
  LET l == 2 * n + 1
      r == 2 * n + 2
      first == IF l < m /\ v[l] < v[n] THEN l ELSE n
  IN  IF r < m /\ v[r] < v[first] THEN r ELSE first

Swapped(f, j, k) == [f EXCEPT ![j] = f[k], ![k] = f[j]]

Replaced(f, x) == [f EXCEPT ![0] = x]

-----------------------------------------------------------------------------
(* Numbers.                                                                *)

LEMMA LeastExists ==
  ASSUME NEW T, T \subseteq Nat, T # {}
  PROVE  \E x \in T : \A y \in T : x <= y
PROOF
  <1> DEFINE R == OpToRel(<, Nat)
  <1>1. IsWellFoundedOn(R, Nat)
    BY NatLessThanWellFounded
  <1>2. \A x, y \in Nat : <<y, x>> \in R <=> y < x
    BY DEF OpToRel
  <1> HIDE DEF R
  <1>3. PICK x \in T : \A y \in T : ~(<<y, x>> \in R)
    BY <1>1, WFMin
  <1>4. \A y \in T : x <= y
    <2> TAKE y \in T
    <2>1. x \in Nat /\ y \in Nat /\ ~(y < x)
      BY <1>2, <1>3
    <2> QED BY <2>1
  <1> QED BY <1>4

LEMMA SliceAfterSlice ==
  ASSUME NEW t \in Nat, NEW a \in Nat, NEW b \in Nat, a < b
  PROVE  /\ t * a \in Nat /\ t * b \in Nat
         /\ t * (a + 1) = t * a + t
         /\ t * a + t <= t * b
PROOF
  <1>1. PICK d \in Nat : b = a + 1 + d
    <2>1. b - a - 1 \in Nat /\ b = a + 1 + (b - a - 1)
      OBVIOUS
    <2> QED BY <2>1
  <1>2. t * d \in Nat /\ t * a \in Nat /\ t * b \in Nat
    OBVIOUS
  <1>3. t * b = t * a + t + t * d
    BY <1>1
  <1> QED BY <1>2, <1>3

-----------------------------------------------------------------------------
(* Heaps.                                                                  *)

LEMMA LowerIsChild ==
  ASSUME NEW m \in Nat, NEW v, IntsBelow(v, m), NEW n \in 0 .. m - 1
  PROVE  /\ Lower(v, m, n) \in {n, 2 * n + 1, 2 * n + 2}
         /\ Lower(v, m, n) \in n .. m - 1
         /\ v[Lower(v, m, n)] <= v[n]
         /\ \A c \in {2 * n + 1, 2 * n + 2} : c < m => v[Lower(v, m, n)] <= v[c]
PROOF BY DEF Lower, IntsBelow

LEMMA ChildNotLess ==
  ASSUME NEW m \in Nat, NEW v, NEW lo \in Nat, NEW n \in Nat, HeapFrom(v, lo, m, n),
         NEW p \in lo .. m - 1, p # n,
         NEW c \in Nat, c \in {2 * p + 1, 2 * p + 2}, c < m
  PROVE  v[p] <= v[c]
PROOF BY DEF HeapFrom

LEMMA GrandchildNotLess ==
  ASSUME NEW m \in Nat, NEW v, NEW lo \in Nat, NEW n \in Nat, HeapFrom(v, lo, m, n),
         NEW p \in lo .. m - 1, n \in {2 * p + 1, 2 * p + 2},
         NEW c \in Nat, c \in {2 * n + 1, 2 * n + 2}, c < m
  PROVE  v[p] <= v[c]
PROOF BY DEF HeapFrom

(* heapify moves the fault down one level. *)
LEMMA Sift ==
  ASSUME NEW m \in Nat, NEW v, IntsBelow(v, m), NEW lo \in Nat,
         NEW n \in 0 .. m - 1, HeapFrom(v, lo, m, n), Lower(v, m, n) # n
  PROVE  HeapFrom(Swapped(v, n, Lower(v, m, n)), lo, m, Lower(v, m, n))
PROOF
  <1> DEFINE s == Lower(v, m, n)
             w == Swapped(v, n, s)
  <1>1. /\ s \in {2 * n + 1, 2 * n + 2} /\ s \in 0 .. m - 1
        /\ v[s] <= v[n]
        /\ \A c \in {2 * n + 1, 2 * n + 2} : c < m => v[s] <= v[c]
    BY LowerIsChild
  <1> HIDE DEF s
  <1>2. /\ w[n] = v[s] /\ w[s] = v[n]
        /\ \A k \in 0 .. m - 1 : k # n /\ k # s => w[k] = v[k]
    BY <1>1 DEF Swapped, IntsBelow
  <1> HIDE DEF w
  <1> SUFFICES ASSUME NEW p \in lo .. m - 1
               PROVE  /\ p # s => \A c \in {2 * p + 1, 2 * p + 2} : c < m => w[p] <= w[c]
                      /\ s \in {2 * p + 1, 2 * p + 2} =>
                           \A c \in {2 * s + 1, 2 * s + 2} : c < m => w[p] <= w[c]
    BY DEF HeapFrom, s, w
  <1>3. ASSUME p # s, NEW c \in {2 * p + 1, 2 * p + 2}, c < m
        PROVE  w[p] <= w[c]
    <2>1. CASE p = n
      <3>1. c # n /\ c \in 0 .. m - 1 /\ v[s] <= v[c]
        BY <1>1, <1>3, <2>1
      <3>2. CASE c = s
        BY <1>1, <1>2, <2>1, <3>2
      <3>3. CASE c # s
        BY <1>2, <2>1, <3>1, <3>3
      <3> QED BY <3>2, <3>3
    <2>2. CASE p # n /\ c = n
      <3>1. v[p] <= v[s]
        BY <1>1, <2>2, GrandchildNotLess
      <3> QED BY <1>2, <1>3, <2>2, <3>1
    <2>3. CASE p # n /\ c # n
      <3>1. c # s
        BY <1>1, <1>3, <2>3
      <3>2. v[p] <= v[c]
        BY <1>3, <2>3, ChildNotLess
      <3> QED BY <1>2, <1>3, <2>3, <3>1, <3>2
    <2> QED BY <2>1, <2>2, <2>3
  <1>4. ASSUME s \in {2 * p + 1, 2 * p + 2}, NEW c \in {2 * s + 1, 2 * s + 2}, c < m
        PROVE  w[p] <= w[c]
    <2>1. p = n
      BY <1>1, <1>4
    <2>2. c # n /\ c # s /\ s # n /\ s \in lo .. m - 1 /\ c \in 0 .. m - 1
      BY <1>1, <1>4, <2>1
    <2>3. v[s] <= v[c]
      BY <1>4, <2>2 DEF HeapFrom
    <2> QED BY <1>2, <2>1, <2>2, <2>3
  <1> QED BY <1>3, <1>4

(* Where heapify stops, no node is at fault. *)
LEMMA SettledHeap ==
  ASSUME NEW m \in Nat, NEW v, IntsBelow(v, m), NEW lo \in Nat,
         NEW n \in 0 .. m, HeapFrom(v, lo, m, n), n >= m \div 2 \/ Lower(v, m, n) = n
  PROVE  HeapFrom(v, lo, m, m)
PROOF
  <1> SUFFICES ASSUME NEW p \in lo .. m - 1, NEW c \in {2 * p + 1, 2 * p + 2}, c < m
               PROVE  v[p] <= v[c]
    BY DEF HeapFrom
  <1>1. CASE p # n
    BY <1>1 DEF HeapFrom
  <1>2. CASE p = n
    <2>1. p < m \div 2
      OBVIOUS
    <2>2. Lower(v, m, n) = n
      BY <1>2, <2>1
    <2>3. n \in 0 .. m - 1
      BY <1>2
    <2>4. \A x \in {2 * n + 1, 2 * n + 2} : x < m => v[Lower(v, m, n)] <= v[x]
      BY <2>3, LowerIsChild
    <2> QED BY <1>2, <2>2, <2>4
  <1> QED BY <1>1, <1>2

(* The next node may be at fault, none has a fault above it. *)
LEMMA OneMoreNode ==
  ASSUME NEW m \in Nat, NEW v, IntsBelow(v, m), NEW lo \in Nat,
         HeapFrom(v, lo + 1, m, m)
  PROVE  HeapFrom(v, lo, m, lo)
PROOF BY DEF HeapFrom

LEMMA LeavesAreHeaps ==
  ASSUME NEW m \in Nat, NEW v, NEW n \in 0 .. m
  PROVE  HeapFrom(v, m \div 2, m, n)
PROOF
  <1>1. \A p \in m \div 2 .. m - 1 : 2 * p + 1 >= m
    OBVIOUS
  <1> QED BY <1>1 DEF HeapFrom

(* The root of a heap is its minimum: the least node below it in value     *)
(* would have a parent that is not.                                        *)
LEMMA RootIsLeast ==
  ASSUME NEW m \in Nat, NEW v, IntsBelow(v, m),
         HeapFrom(v, 0, m, m)
  PROVE  \A k \in 0 .. m - 1 : v[0] <= v[k]
PROOF
  <1> DEFINE Low == {k \in 0 .. m - 1 : v[k] < v[0]}
  <1>1. ASSUME Low # {}
        PROVE  FALSE
    <2>1. Low \subseteq Nat
      OBVIOUS
    <2>2. PICK k \in Low : \A y \in Low : k <= y
      BY <1>1, <2>1, LeastExists
    <2>3. PICK p \in 0 .. m - 1 : p < k /\ k \in {2 * p + 1, 2 * p + 2}
      <3>1. k \in 1 .. m - 1
        BY DEF IntsBelow
      <3>2. (k - 1) \div 2 \in 0 .. m - 1 /\ (k - 1) \div 2 < k
            /\ k \in {2 * ((k - 1) \div 2) + 1, 2 * ((k - 1) \div 2) + 2}
        BY <3>1
      <3> QED BY <3>2
    <2>4. v[p] <= v[k]
      BY <2>3, ChildNotLess
    <2>5. p \in Low
      BY <2>3, <2>4 DEF IntsBelow
    <2> QED BY <2>2, <2>3, <2>5
  <1> QED BY <1>1 DEF IntsBelow

LEMMA RootReplaced ==
  ASSUME NEW m \in Nat, NEW v, IntsBelow(v, m), HeapFrom(v, 0, m, m), NEW x
  PROVE  HeapFrom(Replaced(v, x), 0, m, 0)
PROOF
  <1> DEFINE w == Replaced(v, x)
  <1>1. \A k \in 1 .. m - 1 : w[k] = v[k]
    BY DEF IntsBelow, Replaced
  <1> HIDE DEF w
  <1> SUFFICES ASSUME NEW p \in 0 .. m - 1, p # 0,
                      NEW c \in {2 * p + 1, 2 * p + 2}, c < m
               PROVE  w[p] <= w[c]
    BY DEF HeapFrom, w
  <1>2. v[p] <= v[c]
    BY ChildNotLess
  <1> QED BY <1>1, <1>2

LEMMA RootTakenOut ==
  ASSUME NEW m \in Nat, NEW v, IntsBelow(v, m + 1), HeapFrom(v, 0, m + 1, m + 1)
  PROVE  HeapFrom(Swapped(v, 0, m), 0, m, 0)
PROOF
  <1> DEFINE w == Swapped(v, 0, m)
  <1>1. \A k \in 1 .. m - 1 : w[k] = v[k]
    BY DEF IntsBelow, Swapped
  <1> HIDE DEF w
  <1> SUFFICES ASSUME NEW p \in 0 .. m - 1, p # 0,
                      NEW c \in {2 * p + 1, 2 * p + 2}, c < m
               PROVE  w[p] <= w[c]
    BY DEF HeapFrom, w
  <1>2. v[p] <= v[c]
    BY ChildNotLess
  <1> QED BY <1>1, <1>2

-----------------------------------------------------------------------------
(* What the heap holds: h gives the element of each of t nodes.            *)

(* Different elements of read; those left out are not larger. *)
Best(h, t, read, val) ==
  /\ \A k \in 0 .. t - 1 : k \in DOMAIN h /\ h[k] \in read
  /\ \A j, k \in 0 .. t - 1 : h[j] = h[k] => j = k
  /\ \A p \in read : (\A k \in 0 .. t - 1 : h[k] # p) =>
       \A k \in 0 .. t - 1 : val[p] <= val[h[k]]

(* Behind the first m nodes, values descend. *)
Tail(v, t, m) == \A j, k \in 0 .. t - 1 : j < k /\ k >= m => v[j] >= v[k]

LEMMA BestSwapped ==
  ASSUME NEW t \in Nat, NEW h, NEW read, NEW val, Best(h, t, read, val),
         NEW j \in 0 .. t - 1, NEW k \in 0 .. t - 1
  PROVE  Best(Swapped(h, j, k), t, read, val)
PROOF
  <1> DEFINE g == Swapped(h, j, k)
             at(x) == IF x = j THEN k ELSE IF x = k THEN j ELSE x
  <1>1. \A x \in 0 .. t - 1 : x \in DOMAIN g /\ g[x] = h[at(x)]
    BY DEF Best, Swapped
  <1>2. \A x \in 0 .. t - 1 : at(x) \in 0 .. t - 1 /\ at(at(x)) = x
    OBVIOUS
  <1>3. \A x, y \in 0 .. t - 1 : at(x) = at(y) => x = y
    OBVIOUS
  <1> HIDE DEF g, at
  <1>4. \A x \in 0 .. t - 1 : h[x] = g[at(x)]
    BY <1>1, <1>2
  <1>5. \A x \in 0 .. t - 1 : x \in DOMAIN g /\ g[x] \in read
    BY <1>1, <1>2 DEF Best
  <1>6. \A x, y \in 0 .. t - 1 : g[x] = g[y] => x = y
    BY <1>1, <1>2, <1>3 DEF Best
  <1>7. ASSUME NEW p \in read, \A x \in 0 .. t - 1 : g[x] # p, NEW y \in 0 .. t - 1
        PROVE  val[p] <= val[g[y]]
    <2>1. \A x \in 0 .. t - 1 : h[x] # p
      BY <1>2, <1>4, <1>7
    <2> QED BY <1>1, <1>2, <1>7, <2>1 DEF Best
  <1> QED BY <1>5, <1>6, <1>7 DEF Best, g

LEMMA BestOffered ==
  ASSUME NEW t \in Nat \ {0}, NEW h, NEW read, NEW val, Best(h, t, read, val),
         NEW p, p \notin read, \A q \in read \cup {p} : val[q] \in Int,
         \A k \in 0 .. t - 1 : val[h[0]] <= val[h[k]],
         val[h[0]] <= val[p]
  PROVE  Best(Replaced(h, p), t, read \cup {p}, val)
PROOF
  <1> DEFINE g == Replaced(h, p)
  <1>1. /\ \A k \in 0 .. t - 1 : k \in DOMAIN g
        /\ g[0] = p
        /\ \A k \in 1 .. t - 1 : g[k] = h[k]
    BY DEF Best, Replaced
  <1> HIDE DEF g
  <1>2. \A k \in 0 .. t - 1 : h[k] \in read /\ h[k] # p
    BY DEF Best
  <1>3. \A k \in 0 .. t - 1 : g[k] \in read \cup {p}
    BY <1>1, <1>2
  <1>4. \A j, k \in 0 .. t - 1 : g[j] = g[k] => j = k
    <2> SUFFICES ASSUME NEW j \in 0 .. t - 1, NEW k \in 0 .. t - 1, g[j] = g[k]
                 PROVE  j = k
      OBVIOUS
    <2>1. CASE j = 0 \/ k = 0
      BY <1>1, <1>2, <2>1
    <2>2. CASE j # 0 /\ k # 0
      BY <1>1, <2>2 DEF Best
    <2> QED BY <2>1, <2>2
  <1>5. ASSUME NEW q \in read \cup {p}, \A k \in 0 .. t - 1 : g[k] # q
        PROVE  \A k \in 0 .. t - 1 : val[q] <= val[g[k]]
    <2>1. q \in read /\ q # p
      BY <1>1, <1>5
    <2>2. val[q] <= val[h[0]] /\ \A k \in 0 .. t - 1 : val[q] <= val[h[k]]
      <3>1. CASE h[0] = q
        BY <3>1, <1>2, <2>1
      <3>2. CASE h[0] # q
        <4>1. \A k \in 0 .. t - 1 : h[k] # q
          BY <1>1, <1>5, <3>2
        <4> QED BY <4>1, <2>1 DEF Best
      <3> QED BY <3>1, <3>2
    <2>3. val[q] \in Int /\ val[p] \in Int /\ val[h[0]] \in Int
      BY <1>2
    <2>4. val[q] <= val[p]
      BY <2>2, <2>3
    <2> TAKE k \in 0 .. t - 1
    <2>5. CASE k = 0
      BY <1>1, <2>4, <2>5
    <2>6. CASE k # 0
      BY <1>1, <2>2, <2>6
    <2> QED BY <2>5, <2>6
  <1> QED BY <1>1, <1>3, <1>4, <1>5 DEF Best, g

LEMMA BestLeft ==
  ASSUME NEW t \in Nat \ {0}, NEW h, NEW read, NEW val, Best(h, t, read, val),
         NEW p, \A q \in read \cup {p} : val[q] \in Int,
         \A k \in 0 .. t - 1 : val[h[0]] <= val[h[k]],
         ~(val[h[0]] <= val[p])
  PROVE  Best(h, t, read \cup {p}, val)
PROOF
  <1>1. \A k \in 0 .. t - 1 : h[k] \in read
    BY DEF Best
  <1>2. \A k \in 0 .. t - 1 : val[p] <= val[h[k]]
    BY <1>1
  <1> QED BY <1>2 DEF Best

LEMMA TailSwapped ==
  ASSUME NEW t \in Nat, NEW m \in 0 .. t, NEW v, IntsBelow(v, t), Tail(v, t, m),
         NEW a \in 0 .. m - 1, NEW b \in 0 .. m - 1
  PROVE  Tail(Swapped(v, a, b), t, m)
PROOF
  <1> DEFINE w == Swapped(v, a, b)
             at(x) == IF x = a THEN b ELSE IF x = b THEN a ELSE x
  <1>1. \A x \in 0 .. t - 1 : w[x] = v[at(x)] /\ at(x) \in 0 .. t - 1
    BY DEF IntsBelow, Swapped
  <1>2. \A x \in 0 .. t - 1 : x >= m => at(x) = x
    OBVIOUS
  <1>3. \A x, y \in 0 .. t - 1 : x < y /\ y >= m => at(x) < y
    OBVIOUS
  <1> HIDE DEF w, at
  <1>4. \A x, y \in 0 .. t - 1 : x < y /\ y >= m => w[x] >= w[y]
    BY <1>1, <1>2, <1>3 DEF Tail
  <1> QED BY <1>4 DEF Tail, w

LEMMA TailTaken ==
  ASSUME NEW t \in Nat, NEW m \in 0 .. t - 1, NEW v, IntsBelow(v, t), Tail(v, t, m + 1),
         \A k \in 0 .. m : v[0] <= v[k]
  PROVE  Tail(Swapped(v, 0, m), t, m)
PROOF
  <1> DEFINE w == Swapped(v, 0, m)
  <1>1. Tail(w, t, m + 1)
    BY TailSwapped
  <1>2. w[m] = v[0] /\ \A x \in 0 .. m : \E y \in 0 .. m : w[x] = v[y]
    BY DEF IntsBelow, Swapped
  <1>3. \A x \in 0 .. m - 1 : w[x] >= w[m]
    BY <1>2 DEF IntsBelow
  <1> HIDE DEF w
  <1>4. \A x, y \in 0 .. t - 1 : x < y /\ y >= m => w[x] >= w[y]
    BY <1>1, <1>3 DEF Tail
  <1> QED BY <1>4 DEF Tail, w

-----------------------------------------------------------------------------
(* The invariant.                                                          *)

Found == [k \in 0 .. call.topk - 1 |-> At(k)]
Vals == [k \in 0 .. call.topk - 1 |-> Value(k)]

Read(m) == {Place(call, slice, j) : j \in 0 .. m - 1}

Kept(m) == Best(Found, call.topk, Read(m), call.values)

HeapOf(lo) == HeapFrom(Vals, lo, size, node)

Filling ==
  /\ DOMAIN dst = 0 .. call.topk * slice - 1
  /\ size = call.topk /\ node = call.topk

Building(m) ==
  /\ size = call.topk
  /\ i \in -1 .. (call.topk \div 2) - 1
  /\ HeapOf(i + 1) /\ Kept(m)

Selecting ==
  /\ size = call.topk
  /\ i \in call.topk .. Elements(call)
  /\ HeapOf(0) /\ Kept(i)

Sorting ==
  /\ i \in 0 .. call.topk - 1
  /\ size = i + 1
  /\ HeapOf(0) /\ Kept(Elements(call)) /\ Tail(Vals, call.topk, size)

Loops ==
  /\ slice \in 0 .. SlicesOf(call) - 1
  /\ phase \in {"fill", "build", "select", "rebuild", "sort"}
  /\ phase # "fill" =>
       /\ DOMAIN dst = 0 .. call.topk * slice + call.topk - 1
       /\ node \in 0 .. size
  /\ phase = "fill" => Filling
  /\ phase = "build" => Building(call.topk)
  /\ phase = "select" => Selecting
  /\ phase = "rebuild" => Building(Elements(call))
  /\ phase = "sort" => Sorting
  /\ \A s \in 0 .. slice - 1 : IsTopOf(s)

Inv ==
  /\ call \in Calls
  /\ status = "called" => phase = "fill" /\ DOMAIN dst = {}
  /\ status \notin {"running", "OK"} => slice = 0
  /\ status = "running" => Check(call) = "OK" /\ Loops
  /\ status = "OK" => \A s \in 0 .. SlicesOf(call) - 1 : IsTopOf(s)

(* What a call that is not refused is like, from CallsAssumption. *)
LEMMA CallFacts ==
  ASSUME call \in Calls, Check(call) = "OK"
  PROVE  /\ SlicesOf(call) \in Nat \ {0} /\ Elements(call) \in Nat
         /\ call.topk \in 1 .. Elements(call)
         /\ \A s \in 0 .. SlicesOf(call) - 1, j \in 0 .. Elements(call) - 1 :
              call.values[Place(call, s, j)] \in Int
         /\ \A s \in 0 .. SlicesOf(call) - 1, j, k \in 0 .. Elements(call) - 1 :
              Place(call, s, j) = Place(call, s, k) => j = k
PROOF
  <1>1. Sound(call) /\ \A a \in DOMAIN call.values : call.values[a] \in Int
    BY CallsAssumption
  <1>2. \A s \in 0 .. SlicesOf(call) - 1, j, k \in 0 .. Elements(call) - 1 :
          k < j => Place(call, s, j) # Place(call, s, k)
    <2> TAKE s \in 0 .. SlicesOf(call) - 1, j, k \in 0 .. Elements(call) - 1
    <2> HAVE k < j
    <2>1. k \in 0 .. j - 1
      BY <1>1 DEF Sound
    <2> QED BY <1>1, <2>1 DEF Sound
  <1>3. \A s \in 0 .. SlicesOf(call) - 1, j, k \in 0 .. Elements(call) - 1 :
          Place(call, s, j) = Place(call, s, k) => j = k
    <2> TAKE s \in 0 .. SlicesOf(call) - 1, j, k \in 0 .. Elements(call) - 1
    <2> HAVE Place(call, s, j) = Place(call, s, k)
    <2>1. j \in Int /\ k \in Int /\ ~(k < j) /\ ~(j < k)
      BY <1>1, <1>2 DEF Sound
    <2> QED BY <2>1
  <1> QED BY <1>1, <1>3 DEF Sound

(* The numbers of the loops, in every phase behind the first. *)
LEMMA LoopFacts ==
  ASSUME Inv, status = "running", phase # "fill"
  PROVE  /\ call.topk \in Nat \ {0} /\ Base \in Nat
         /\ size \in 1 .. call.topk /\ node \in 0 .. size
         /\ DOMAIN dst = 0 .. Base + call.topk - 1
         /\ \A k \in 0 .. call.topk - 1 : Found[k] = At(k) /\ Vals[k] = Value(k)
         /\ Vals = [k \in 0 .. call.topk - 1 |-> call.values[Found[k]]]
         /\ \E m \in call.topk .. Elements(call) : Kept(m)
         /\ \E lo \in Nat : HeapOf(lo)
PROOF
  <1>1. /\ call.topk \in 1 .. Elements(call) /\ Elements(call) \in Nat
        /\ slice \in Nat
    BY CallFacts DEF Inv, Loops
  <1>2. call.topk \in Nat \ {0} /\ Base \in Nat
    BY <1>1, SliceAfterSlice DEF Base
  <1>3. size \in 1 .. call.topk /\ node \in 0 .. size
        /\ DOMAIN dst = 0 .. Base + call.topk - 1
    BY <1>1 DEF Inv, Loops, Building, Selecting, Sorting, Base
  <1>4. \E m \in call.topk .. Elements(call) : Kept(m)
    BY <1>1 DEF Inv, Loops, Building, Selecting, Sorting
  <1>5. \E lo \in Nat : HeapOf(lo)
    <2>1. CASE phase \in {"build", "rebuild"}
      <3>1. i + 1 \in Nat /\ HeapOf(i + 1)
        BY <1>1, <2>1 DEF Inv, Loops, Building
      <3> QED BY <3>1
    <2>2. CASE phase \in {"select", "sort"}
      <3>1. HeapOf(0)
        BY <1>1, <2>2, Zenon DEF Inv, Loops, Selecting, Sorting
      <3>2. 0 \in Nat
        OBVIOUS
      <3> QED BY <3>1, <3>2, Zenon
    <2> QED BY <2>1, <2>2 DEF Inv, Loops
  <1>6. \A k \in 0 .. call.topk - 1 : Found[k] = At(k) /\ Vals[k] = Value(k)
    BY DEF Found, Vals
  <1>7. Vals = [k \in 0 .. call.topk - 1 |-> call.values[Found[k]]]
    BY DEF Found, Vals, Value
  <1> QED BY <1>1, <1>2, <1>3, <1>4, <1>5, <1>6, <1>7, Zenon

LEMMA ValuesAreInts ==
  ASSUME Inv, status = "running"
  PROVE  /\ \A m \in 0 .. Elements(call) : \A p \in Read(m) : call.values[p] \in Int
         /\ phase # "fill" => IntsBelow(Vals, call.topk) /\ IntsBelow(Vals, size)
PROOF
  <1>1. \A m \in 0 .. Elements(call) : \A p \in Read(m) : call.values[p] \in Int
    BY CallFacts DEF Inv, Loops, Read
  <1>2. ASSUME phase # "fill"
        PROVE  IntsBelow(Vals, call.topk)
    <2>1. PICK m \in call.topk .. Elements(call) : Kept(m)
      BY <1>2, LoopFacts
    <2>2. \A k \in 0 .. call.topk - 1 : Found[k] \in Read(m)
      BY <2>1 DEF Kept, Best
    <2>3. m \in 0 .. Elements(call)
      BY <1>2, LoopFacts
    <2> QED BY <1>1, <1>2, <2>2, <2>3, LoopFacts DEF IntsBelow
  <1> QED BY <1>1, <1>2, LoopFacts DEF IntsBelow

LEMMA SmallestIsLower ==
  ASSUME Inv, status = "running", phase # "fill", node < size
  PROVE  Smallest(node) = Lower(Vals, size, node)
PROOF
  <1>1. \A k \in 0 .. size - 1 : Vals[k] = Value(k)
    BY LoopFacts
  <1>2. node \in 0 .. size - 1 /\ size \in Nat
    BY LoopFacts
  <1> QED BY <1>1, <1>2 DEF Smallest, Lower

(* Where heapify stops, the nodes are a heap and the root is the least. *)
LEMMA AtRest ==
  ASSUME Inv, status = "running", phase # "fill", Settled
  PROVE  /\ \A lo \in Nat : HeapOf(lo) => HeapFrom(Vals, lo, size, size)
         /\ HeapOf(0) => \A k \in 0 .. size - 1 : Vals[0] <= Vals[k]
PROOF
  <1>1. size \in Nat /\ node \in 0 .. size /\ IntsBelow(Vals, size)
    BY LoopFacts, ValuesAreInts
  <1>2. node >= size \div 2 \/ Lower(Vals, size, node) = node
    BY <1>1, SmallestIsLower DEF Settled
  <1>3. \A lo \in Nat : HeapOf(lo) => HeapFrom(Vals, lo, size, size)
    BY <1>1, <1>2, SettledHeap DEF HeapOf
  <1> QED BY <1>1, <1>3, RootIsLeast

LEMMA Exchange ==
  ASSUME Inv, status = "running", phase # "fill", call' = call, slice' = slice,
         NEW j \in 0 .. call.topk - 1, NEW k \in 0 .. call.topk - 1,
         dst' = Exchanged(j, k)
  PROVE  /\ Found' = Swapped(Found, j, k)
         /\ Vals' = Swapped(Vals, j, k)
         /\ DOMAIN dst' = DOMAIN dst
         /\ \A x \in 0 .. Base - 1 : dst'[x] = dst[x]
PROOF
  <1>1. Base \in Nat /\ call.topk \in Nat /\ DOMAIN dst = 0 .. Base + call.topk - 1
    BY LoopFacts
  <1>2. Base' = Base
    BY DEF Base
  <1>3. \A x \in 0 .. call.topk - 1 :
          At(x)' = IF x = k THEN At(j) ELSE IF x = j THEN At(k) ELSE At(x)
    <2> TAKE x \in 0 .. call.topk - 1
    <2>1. /\ Base + x \in DOMAIN dst
          /\ Base + x = Base + j <=> x = j
          /\ Base + x = Base + k <=> x = k
      BY <1>1
    <2>2. At(x)' = dst'[Base + x]
      BY <1>2 DEF At
    <2>3. dst'[Base + x] = IF Base + x = Base + k THEN At(j)
                           ELSE IF Base + x = Base + j THEN At(k) ELSE dst[Base + x]
      BY <2>1 DEF Exchanged
    <2> QED BY <2>1, <2>2, <2>3 DEF At
  <1>4. Found' = Swapped(Found, j, k)
    BY <1>3 DEF Found, Swapped
  <1>5. \A x \in 0 .. call.topk - 1 :
          Value(x)' = IF x = k THEN Value(j) ELSE IF x = j THEN Value(k) ELSE Value(x)
    BY <1>3 DEF Value
  <1>6. Vals' = Swapped(Vals, j, k)
    BY <1>5 DEF Vals, Swapped
  <1>7. DOMAIN dst' = DOMAIN dst /\ \A x \in 0 .. Base - 1 : dst'[x] = dst[x]
    <2>1. DOMAIN dst' = DOMAIN dst
      BY DEF Exchanged
    <2>2. ASSUME NEW x \in 0 .. Base - 1
          PROVE  dst'[x] = dst[x]
      <3>1. x \in DOMAIN dst /\ x # Base + j /\ x # Base + k
        BY <1>1
      <3> QED BY <3>1 DEF Exchanged
    <2> QED BY <2>1, <2>2
  <1> QED BY <1>4, <1>6, <1>7

(* Slices that are done stay as they are. *)
LEMMA EarlierSlices ==
  ASSUME Inv, status = "running", call' = call,
         \A x \in 0 .. Base - 1 : dst'[x] = dst[x]
  PROVE  \A s \in 0 .. slice - 1 : IsTopOf(s)'
PROOF
  <1> TAKE s \in 0 .. slice - 1
  <1>1. slice \in Nat /\ call.topk \in Nat \ {0} /\ IsTopOf(s)
    BY CallFacts DEF Inv, Loops
  <1>2. \A k \in 0 .. call.topk - 1 : call.topk * s + k \in 0 .. Base - 1
    <2>1. /\ call.topk * s \in Nat /\ call.topk * slice \in Nat
          /\ call.topk * s + call.topk <= call.topk * slice
      BY <1>1, SliceAfterSlice
    <2> QED BY <1>1, <2>1 DEF Base
  <1>3. \A k \in 0 .. call.topk - 1 : dst'[call.topk * s + k] = dst[call.topk * s + k]
    BY <1>2
  <1> QED BY <1>1, <1>3 DEF IsTopOf, Source

-----------------------------------------------------------------------------
(* The actions.                                                            *)

LEMMA InitInv == Init => Inv
PROOF BY DEF Init, Inv

LEMMA RefuseInv ==
  ASSUME Inv, Refuse
  PROVE  Inv'
PROOF
  <1>1. Check(call) \notin {"called", "running", "OK"}
    <2>1. CheckTensor(call.in) \notin {"called", "running"}
      BY DEF CheckTensor, CheckLayout
    <2> QED BY <2>1 DEF Refuse, Check
  <1> QED BY <1>1 DEF Inv, Refuse

LEMMA StartInv ==
  ASSUME Inv, Start
  PROVE  Inv'
PROOF
  <1>1. SlicesOf(call) \in Nat \ {0} /\ call.topk \in Nat
    BY CallFacts DEF Inv, Start
  <1>2. slice = 0 /\ phase = "fill" /\ DOMAIN dst = {}
    BY DEF Inv, Start
  <1>3. 0 .. call.topk * slice - 1 = {}
    BY <1>1, <1>2
  <1>4. Loops'
    BY <1>1, <1>2, <1>3 DEF Start, Loops, Filling
  <1> QED BY <1>4 DEF Inv, Start

(* What an exchange of two nodes of the heap leaves as it is. *)
LEMMA ExchangeKeeps ==
  ASSUME Inv, status = "running", phase # "fill", call' = call, slice' = slice,
         NEW j \in 0 .. size - 1, NEW k \in 0 .. size - 1, dst' = Exchanged(j, k)
  PROVE  /\ Vals' = Swapped(Vals, j, k)
         /\ DOMAIN dst' = DOMAIN dst
         /\ \A m \in Nat : Kept(m) => Kept(m)'
         /\ Tail(Vals, call.topk, size) => Tail(Vals', call.topk, size)
         /\ \A s \in 0 .. slice - 1 : IsTopOf(s)'
PROOF
  <1>1. call.topk \in Nat /\ size \in 0 .. call.topk
        /\ j \in 0 .. call.topk - 1 /\ k \in 0 .. call.topk - 1
    BY LoopFacts
  <1>2. /\ Found' = Swapped(Found, j, k) /\ Vals' = Swapped(Vals, j, k)
        /\ DOMAIN dst' = DOMAIN dst
        /\ \A x \in 0 .. Base - 1 : dst'[x] = dst[x]
    BY <1>1, Exchange
  <1>3. ASSUME NEW m \in Nat, Kept(m)
        PROVE  Kept(m)'
    <2>1. Best(Swapped(Found, j, k), call.topk, Read(m), call.values)
      BY <1>1, <1>3, BestSwapped DEF Kept
    <2>2. Read(m)' = Read(m)
      BY DEF Read
    <2> QED BY <1>2, <2>1, <2>2 DEF Kept
  <1>4. Tail(Vals, call.topk, size) => Tail(Vals', call.topk, size)
    BY <1>1, <1>2, TailSwapped, ValuesAreInts
  <1>5. \A s \in 0 .. slice - 1 : IsTopOf(s)'
    BY <1>2, EarlierSlices
  <1> QED BY <1>2, <1>3, <1>4, <1>5

LEMMA HeapifyInv ==
  ASSUME Inv, Heapify
  PROVE  Inv'
PROOF
  <1> DEFINE s == Smallest(node)
  <1>1. /\ status = "running" /\ call' = call /\ slice' = slice /\ phase' = phase /\ i' = i
        /\ size' = size /\ status' = status
        /\ dst' = Exchanged(node, s) /\ node' = s
        /\ ~(node >= size \div 2)
        /\ s # node
    BY DEF Heapify, Settled
  <1>2. phase # "fill"
    <2> SUFFICES ASSUME phase = "fill"
                 PROVE  FALSE
      OBVIOUS
    <2>1. node = call.topk /\ size = call.topk /\ call.topk \in Nat
      BY <1>1, CallFacts DEF Inv, Loops, Filling
    <2> QED BY <1>1, <2>1
  <1>3. size \in Nat /\ node \in 0 .. size - 1
    BY <1>1, <1>2, LoopFacts
  <1>4. s = Lower(Vals, size, node) /\ s \in 0 .. size - 1
    <2>1. s = Lower(Vals, size, node)
      BY <1>1, <1>2, <1>3, SmallestIsLower
    <2>2. IntsBelow(Vals, size)
      BY <1>1, <1>2, ValuesAreInts
    <2> HIDE DEF s
    <2> QED BY <1>3, <2>1, <2>2, LowerIsChild
  <1> HIDE DEF s
  <1>5. /\ Vals' = Swapped(Vals, node, s)
        /\ DOMAIN dst' = DOMAIN dst
        /\ \A m \in Nat : Kept(m) => Kept(m)'
        /\ Tail(Vals, call.topk, size) => Tail(Vals', call.topk, size)
        /\ \A x \in 0 .. slice - 1 : IsTopOf(x)'
    BY <1>1, <1>2, <1>3, <1>4, ExchangeKeeps
  <1>6. ASSUME NEW lo \in Nat, HeapOf(lo)
        PROVE  HeapOf(lo)'
    <2>1. HeapFrom(Swapped(Vals, node, s), lo, size, s)
      BY <1>1, <1>2, <1>3, <1>4, <1>6, Sift, ValuesAreInts DEF HeapOf
    <2> QED BY <1>1, <1>5, <2>1 DEF HeapOf
  <1>7. Elements(call) \in Nat /\ call.topk \in Nat
    BY <1>1, CallFacts DEF Inv
  <1>8. ASSUME NEW m \in Nat, phase \in {"build", "rebuild"}, Building(m)
        PROVE  Building(m)'
    <2>1. i + 1 \in Nat /\ HeapOf(i + 1) /\ Kept(m)
      BY <1>7, <1>8 DEF Building
    <2>2. HeapOf(i + 1)' /\ Kept(m)'
      BY <1>1, <1>5, <1>6, <2>1 DEF HeapOf
    <2> QED BY <1>1, <1>8, <2>2 DEF Building
  <1>9. Selecting => Selecting'
    <2> HAVE Selecting
    <2>1. i \in Nat
      BY <1>7 DEF Selecting
    <2> QED BY <1>1, <1>5, <1>6, <2>1 DEF Selecting, Kept
  <1>10. Sorting => Sorting'
    BY <1>1, <1>5, <1>6, <1>7 DEF Sorting
  <1>11. Loops'
    BY <1>1, <1>2, <1>3, <1>4, <1>5, <1>7, <1>8, <1>9, <1>10 DEF Inv, Loops
  <1> QED BY <1>1, <1>11 DEF Inv

(* The first elements, as they are read. *)
LEMMA FillInv ==
  ASSUME Inv, Fill
  PROVE  Inv'
PROOF
  <1>1. /\ status = "running" /\ phase = "fill" /\ Filling /\ slice \in 0 .. SlicesOf(call) - 1
        /\ call' = call /\ slice' = slice /\ size' = size /\ node' = node /\ status' = status
        /\ phase' = "build" /\ i' = (call.topk \div 2) - 1
        /\ dst' = [k \in DOMAIN dst \cup Base .. Base + call.topk - 1 |->
                     IF k < Base THEN dst[k] ELSE Place(call, slice, k - Base)]
    BY DEF Fill, Inv, Loops
  <1>2. /\ SlicesOf(call) \in Nat /\ call.topk \in 1 .. Elements(call) /\ Elements(call) \in Nat
        /\ \A j, k \in 0 .. Elements(call) - 1 :
             Place(call, slice, j) = Place(call, slice, k) => j = k
    BY <1>1, CallFacts DEF Inv
  <1>3. Base \in Nat /\ Base' = Base /\ DOMAIN dst = 0 .. Base - 1
    BY <1>1, <1>2, SliceAfterSlice DEF Base, Filling
  <1>4. /\ DOMAIN dst' = 0 .. Base + call.topk - 1
        /\ \A k \in 0 .. call.topk - 1 : dst'[Base + k] = Place(call, slice, k)
        /\ \A x \in 0 .. Base - 1 : dst'[x] = dst[x]
    <2>1. DOMAIN dst \cup Base .. Base + call.topk - 1 = 0 .. Base + call.topk - 1
      BY <1>2, <1>3
    <2>2. ASSUME NEW x \in 0 .. Base + call.topk - 1
          PROVE  dst'[x] = IF x < Base THEN dst[x] ELSE Place(call, slice, x - Base)
      BY <1>1, <2>1
    <2>3. ASSUME NEW k \in 0 .. call.topk - 1
          PROVE  dst'[Base + k] = Place(call, slice, k)
      <3>1. Base + k \in 0 .. Base + call.topk - 1 /\ ~(Base + k < Base) /\ (Base + k) - Base = k
        BY <1>2, <1>3
      <3> QED BY <2>2, <3>1
    <2>4. ASSUME NEW x \in 0 .. Base - 1
          PROVE  dst'[x] = dst[x]
      BY <1>2, <1>3, <2>2
    <2>5. DOMAIN dst' = 0 .. Base + call.topk - 1
      BY <1>1, <2>1
    <2> QED BY <2>3, <2>4, <2>5
  <1>5. Found' = [k \in 0 .. call.topk - 1 |-> Place(call, slice, k)]
    BY <1>1, <1>3, <1>4 DEF Found, At
  <1>6. Kept(call.topk)'
    <2>1. Read(call.topk)' = {Place(call, slice, j) : j \in 0 .. call.topk - 1}
      BY <1>1 DEF Read
    <2>2. \A j, k \in 0 .. call.topk - 1 : Place(call, slice, j) = Place(call, slice, k) => j = k
      BY <1>2
    <2>3. Best(Found', call.topk, Read(call.topk)', call.values)
      BY <1>5, <2>1, <2>2 DEF Best
    <2> QED BY <1>1, <2>3 DEF Kept
  <1>7. size' = call.topk /\ node' = call.topk /\ i' + 1 = call.topk \div 2
        /\ i' \in -1 .. (call.topk \div 2) - 1
    <2>1. call.topk \in Nat /\ (call.topk \div 2) \in Nat
      BY <1>2
    <2>2. size = call.topk /\ node = call.topk
      BY <1>1 DEF Filling
    <2> QED BY <1>1, <2>1, <2>2
  <1>8. HeapOf(i + 1)'
    <2>1. HeapFrom(Vals', call.topk \div 2, call.topk, call.topk)
      BY <1>2, LeavesAreHeaps
    <2> QED BY <1>7, <2>1, Zenon DEF HeapOf
  <1>9. Building(call.topk)'
    BY <1>1, <1>6, <1>7, <1>8 DEF Building
  <1>10. \A s \in 0 .. slice - 1 : IsTopOf(s)'
    BY <1>1, <1>4, EarlierSlices
  <1>11. DOMAIN dst' = 0 .. call.topk * slice + call.topk - 1 /\ node' \in 0 .. size'
    BY <1>2, <1>4, <1>7 DEF Base
  <1>12. Loops'
    BY <1>1, <1>9, <1>10, <1>11 DEF Loops
  <1> QED BY <1>1, <1>12 DEF Inv

(* Nothing is written. *)
LEMMA Untouched ==
  ASSUME UNCHANGED <<call, slice, dst>>
  PROVE  /\ Vals' = Vals
         /\ \A m \in Nat : Kept(m)' <=> Kept(m)
         /\ \A s \in Nat : IsTopOf(s)' <=> IsTopOf(s)
PROOF
  <1>1. Found' = Found /\ Vals' = Vals
    BY DEF Found, Vals, Value, At, Base
  <1>2. \A m \in Nat : Kept(m)' <=> Kept(m)
    BY <1>1 DEF Kept, Read
  <1>3. \A s \in Nat : IsTopOf(s)' <=> IsTopOf(s)
    BY DEF IsTopOf, Source
  <1> QED BY <1>1, <1>2, <1>3

LEMMA BuildInv ==
  ASSUME Inv, Build
  PROVE  Inv'
PROOF
  <1> PICK m : m = IF phase = "build" THEN call.topk ELSE Elements(call)
    OBVIOUS
  <1>1. /\ status = "running" /\ phase \in {"build", "rebuild"} /\ Settled
        /\ UNCHANGED <<call, slice, size, dst, status>>
    BY DEF Build
  <1>2. /\ Building(m) /\ slice \in 0 .. SlicesOf(call) - 1
        /\ DOMAIN dst = 0 .. call.topk * slice + call.topk - 1
        /\ \A s \in 0 .. slice - 1 : IsTopOf(s)
    BY <1>1 DEF Inv, Loops
  <1>3. call.topk \in 1 .. Elements(call) /\ Elements(call) \in Nat
    BY <1>1, CallFacts DEF Inv
  <1>4. IntsBelow(Vals, call.topk)
    BY <1>1, ValuesAreInts
  <1>5. size = call.topk /\ i \in -1 .. (call.topk \div 2) - 1 /\ Kept(m)
    BY <1>2 DEF Building
  <1>6. HeapFrom(Vals, i + 1, call.topk, call.topk)
    <2>1. i + 1 \in Nat /\ HeapOf(i + 1)
      BY <1>2, <1>3, <1>5 DEF Building
    <2> QED BY <1>1, <1>5, <2>1, AtRest
  <1>7. /\ Vals' = Vals /\ Kept(m)'
        /\ \A s \in 0 .. slice - 1 : IsTopOf(s)'
    BY <1>1, <1>2, <1>3, <1>5, Untouched
  <1>8. CASE i >= 0
    <2>1. node' = i /\ i' = i - 1 /\ phase' = phase
      BY <1>8 DEF Build
    <2>2. i \in Nat /\ i' + 1 = i /\ i' \in -1 .. (call.topk \div 2) - 1 /\ node' \in 0 .. size
      BY <1>3, <1>5, <1>8, <2>1
    <2>3. HeapFrom(Vals, i, call.topk, i)
      BY <1>3, <1>4, <1>6, <2>2, OneMoreNode
    <2>4. HeapOf(i + 1)'
      BY <1>1, <1>5, <1>7, <2>1, <2>2, <2>3 DEF HeapOf
    <2>5. Building(m)'
      BY <1>1, <1>5, <1>7, <2>2, <2>4 DEF Building
    <2>6. Loops'
      BY <1>1, <1>2, <1>7, <2>1, <2>2, <2>5 DEF Loops
    <2> QED BY <1>1, <2>6 DEF Inv
  <1>9. CASE ~(i >= 0)
    <2>1. /\ node' = size
          /\ phase' = IF phase = "build" THEN "select" ELSE "sort"
          /\ i' = IF phase = "build" THEN call.topk ELSE call.topk - 1
      BY <1>9 DEF Build
    <2>2. i = -1 /\ i + 1 = 0
      BY <1>3, <1>5, <1>9
    <2>3. HeapOf(0)'
      BY <1>1, <1>5, <1>6, <1>7, <2>1, <2>2 DEF HeapOf
    <2>4. CASE phase = "build"
      <3>1. Selecting'
        BY <1>1, <1>3, <1>5, <1>7, <2>1, <2>3, <2>4 DEF Selecting
      <3>2. Loops'
        BY <1>1, <1>2, <1>3, <1>5, <1>7, <2>1, <2>4, <3>1 DEF Loops
      <3> QED BY <1>1, <3>2 DEF Inv
    <2>5. CASE phase = "rebuild"
      <3>1. Tail(Vals', call.topk, call.topk)
        BY <1>3 DEF Tail
      <3>2. Sorting'
        BY <1>1, <1>3, <1>5, <1>7, <2>1, <2>3, <2>5, <3>1 DEF Sorting
      <3>3. Loops'
        BY <1>1, <1>2, <1>3, <1>5, <1>7, <2>1, <2>5, <3>2 DEF Loops
      <3> QED BY <1>1, <3>3 DEF Inv
    <2> QED BY <1>1, <2>4, <2>5
  <1> QED BY <1>8, <1>9

LEMMA SelectInv ==
  ASSUME Inv, Select
  PROVE  Inv'
PROOF
  <1> DEFINE t == call.topk
             p == Place(call, slice, i)
  <1>1. /\ status = "running" /\ phase = "select" /\ Settled /\ i < Elements(call)
        /\ i' = i + 1 /\ UNCHANGED <<call, slice, phase, size, status>>
    BY DEF Select
  <1>2. /\ Selecting /\ slice \in 0 .. SlicesOf(call) - 1
        /\ DOMAIN dst = 0 .. t * slice + t - 1 /\ node \in 0 .. size
        /\ \A s \in 0 .. slice - 1 : IsTopOf(s)
    BY <1>1 DEF Inv, Loops
  <1>3. /\ t \in 1 .. Elements(call) /\ Elements(call) \in Nat
        /\ i \in t .. Elements(call) - 1 /\ size = t /\ HeapOf(0) /\ Kept(i)
    BY <1>1, <1>2, CallFacts DEF Inv, Selecting
  <1>4. /\ IntsBelow(Vals, t)
        /\ HeapFrom(Vals, 0, t, t)
        /\ \A k \in 0 .. t - 1 : Vals[0] <= Vals[k]
    BY <1>1, <1>3, AtRest, ValuesAreInts
  <1>5. /\ p \notin Read(i) /\ Read(i + 1) = Read(i) \cup {p}
        /\ \A q \in Read(i) \cup {p} : call.values[q] \in Int
    <2>1. \A j \in 0 .. i - 1 : Place(call, slice, j) # p
      BY <1>1, <1>2, <1>3, CallFacts DEF Inv
    <2>2. 0 .. (i + 1) - 1 = (0 .. i - 1) \cup {i} /\ i + 1 \in 0 .. Elements(call)
      BY <1>3
    <2>3. Read(i + 1) = Read(i) \cup {p}
      BY <2>2 DEF Read
    <2>4. \A q \in Read(i + 1) : call.values[q] \in Int
      BY <1>1, <2>2, ValuesAreInts
    <2> QED BY <2>1, <2>3, <2>4 DEF Read
  <1>6. /\ \A k \in 0 .. t - 1 : Found[k] = At(k) /\ Vals[k] = Value(k)
        /\ Vals = [k \in 0 .. t - 1 |-> call.values[Found[k]]]
        /\ Base \in Nat /\ DOMAIN dst = 0 .. Base + t - 1
    BY <1>1, LoopFacts
  <1>7. /\ t \in Nat \ {0} /\ 0 \in 0 .. t - 1
        /\ Value(0) = call.values[Found[0]]
        /\ \A k \in 0 .. t - 1 : call.values[Found[0]] <= call.values[Found[k]]
    <2>1. 0 \in 0 .. t - 1 /\ t \in Nat \ {0}
      BY <1>3
    <2>2. \A k \in 0 .. t - 1 : Vals[k] = call.values[Found[k]]
      BY <1>6
    <2> HIDE DEF t
    <2> QED BY <1>4, <1>6, <2>1, <2>2
  <1>8. Base' = Base
    BY <1>1 DEF Base
  <1> HIDE DEF p
  <1>9. ASSUME NEW n \in 0 .. t, HeapFrom(Vals', 0, t, n), node' = n,
               Best(Found', t, Read(i) \cup {p}, call.values),
               DOMAIN dst' = DOMAIN dst, \A x \in 0 .. Base - 1 : dst'[x] = dst[x]
        PROVE  Inv'
    <2>1. \A s \in 0 .. slice - 1 : IsTopOf(s)'
      BY <1>1, <1>9, EarlierSlices
    <2>2. Kept(i)'
      <3>1. Read(i)' = Read(i + 1)
        BY <1>1 DEF Read
      <3> QED BY <1>1, <1>5, <1>9, <3>1 DEF Kept
    <2>3. Selecting'
      BY <1>1, <1>3, <1>9, <2>2 DEF Selecting, HeapOf
    <2>4. Loops'
      BY <1>1, <1>2, <1>3, <1>9, <2>1, <2>3 DEF Loops
    <2> QED BY <1>1, <2>4 DEF Inv
  <1>10. CASE Offer(p)
    <2>1. dst' = [dst EXCEPT ![Base] = p] /\ node' = 0
      BY <1>10 DEF Select, p
    <2>2. /\ DOMAIN dst' = DOMAIN dst
          /\ \A x \in 0 .. Base - 1 : dst'[x] = dst[x]
          /\ \A k \in 0 .. t - 1 : At(k)' = IF k = 0 THEN p ELSE At(k)
      BY <1>3, <1>6, <1>8, <2>1 DEF At
    <2>3. Found' = Replaced(Found, p) /\ Vals' = Replaced(Vals, call.values[p])
      BY <1>1, <1>3, <2>2 DEF Found, Vals, Value, Replaced
    <2>4. HeapFrom(Vals', 0, t, 0)
      BY <1>4, <1>7, <2>3, RootReplaced
    <2>5. call.values[Found[0]] <= call.values[p]
      BY <1>7, <1>10 DEF Offer
    <2>6. Best(Found', t, Read(i) \cup {p}, call.values)
      BY <1>3, <1>5, <1>7, <2>3, <2>5, BestOffered DEF Kept
    <2> QED BY <1>3, <1>9, <2>1, <2>2, <2>4, <2>6
  <1>11. CASE ~Offer(p)
    <2>1. UNCHANGED <<dst, node>>
      BY <1>11 DEF Select, p
    <2>2. Found' = Found /\ Vals' = Vals
      BY <1>1, <2>1 DEF Found, Vals, Value, At, Base
    <2>3. ~(call.values[Found[0]] <= call.values[p])
      BY <1>7, <1>11 DEF Offer
    <2>4. Best(Found', t, Read(i) \cup {p}, call.values)
      BY <1>3, <1>5, <1>7, <2>2, <2>3, BestLeft DEF Kept
    <2>5. HeapFrom(Vals', 0, t, node)
      BY <1>3, <2>2 DEF HeapOf
    <2> QED BY <1>2, <1>3, <1>9, <2>1, <2>4, <2>5
  <1> QED BY <1>10, <1>11

LEMMA SelectedInv ==
  ASSUME Inv, Selected
  PROVE  Inv'
PROOF
  <1>1. /\ status = "running" /\ phase = "select" /\ Settled /\ i >= Elements(call)
        /\ phase' = "rebuild" /\ i' = (call.topk \div 2) - 1
        /\ UNCHANGED <<call, slice, size, node, dst, status>>
    BY DEF Selected
  <1>2. /\ Selecting /\ slice \in 0 .. SlicesOf(call) - 1
        /\ DOMAIN dst = 0 .. call.topk * slice + call.topk - 1 /\ node \in 0 .. size
        /\ \A s \in 0 .. slice - 1 : IsTopOf(s)
    BY <1>1 DEF Inv, Loops
  <1>3. /\ call.topk \in 1 .. Elements(call) /\ Elements(call) \in Nat
        /\ i = Elements(call) /\ size = call.topk /\ Kept(Elements(call))
    BY <1>1, <1>2, CallFacts DEF Inv, Selecting
  <1>4. Vals' = Vals /\ Kept(Elements(call))' /\ \A s \in 0 .. slice - 1 : IsTopOf(s)'
    <2> PICK m : m = Elements(call)
      OBVIOUS
    <2>1. Kept(m)' /\ Elements(call)' = m
      BY <1>1, <1>3, Untouched
    <2> QED BY <1>1, <1>2, <1>3, <2>1, Untouched DEF Kept, Read
  <1>5. i' + 1 = call.topk \div 2 /\ i' \in -1 .. (call.topk \div 2) - 1
    BY <1>1, <1>3
  <1>6. HeapOf(i + 1)'
    <2>1. \A n \in 0 .. call.topk : HeapFrom(Vals, call.topk \div 2, call.topk, n)
      BY <1>3, LeavesAreHeaps
    <2> QED BY <1>1, <1>2, <1>3, <1>4, <1>5, <2>1 DEF HeapOf
  <1>7. Building(Elements(call))'
    BY <1>1, <1>3, <1>4, <1>5, <1>6 DEF Building
  <1>8. Loops'
    BY <1>1, <1>2, <1>4, <1>7 DEF Loops
  <1> QED BY <1>1, <1>8 DEF Inv

LEMMA SortInv ==
  ASSUME Inv, Sort
  PROVE  Inv'
PROOF
  <1>1. /\ status = "running" /\ phase = "sort" /\ Settled /\ i > 0
        /\ dst' = Exchanged(0, i) /\ size' = i /\ node' = 0 /\ i' = i - 1
        /\ UNCHANGED <<call, slice, phase, status>>
    BY DEF Sort, Shrunk
  <1>2. /\ Sorting /\ slice \in 0 .. SlicesOf(call) - 1
        /\ DOMAIN dst = 0 .. call.topk * slice + call.topk - 1
    BY <1>1 DEF Inv, Loops
  <1>3. /\ call.topk \in 1 .. Elements(call) /\ Elements(call) \in Nat
        /\ i \in 1 .. call.topk - 1 /\ size = i + 1
        /\ HeapOf(0) /\ Kept(Elements(call)) /\ Tail(Vals, call.topk, i + 1)
    BY <1>1, <1>2, CallFacts DEF Inv, Sorting
  <1>4. IntsBelow(Vals, call.topk) /\ IntsBelow(Vals, i + 1)
    BY <1>1, <1>3, ValuesAreInts
  <1>5. HeapFrom(Vals, 0, i + 1, i + 1) /\ \A k \in 0 .. i : Vals[0] <= Vals[k]
    BY <1>1, <1>3, AtRest
  <1>6. 0 \in 0 .. size - 1 /\ i \in 0 .. size - 1
    BY <1>3
  <1>7. /\ Vals' = Swapped(Vals, 0, i)
        /\ DOMAIN dst' = DOMAIN dst
        /\ \A m \in Nat : Kept(m) => Kept(m)'
        /\ \A s \in 0 .. slice - 1 : IsTopOf(s)'
    BY <1>1, <1>6, ExchangeKeeps
  <1>8. HeapOf(0)'
    <2>1. HeapFrom(Swapped(Vals, 0, i), 0, i, 0)
      BY <1>3, <1>4, <1>5, RootTakenOut
    <2> QED BY <1>1, <1>7, <2>1 DEF HeapOf
  <1>9. Tail(Vals', call.topk, i)
    <2>1. i \in 0 .. call.topk - 1 /\ call.topk \in Nat
      BY <1>3
    <2> QED BY <1>3, <1>4, <1>5, <1>7, <2>1, TailTaken
  <1>10. Sorting'
    BY <1>1, <1>3, <1>7, <1>8, <1>9 DEF Sorting
  <1>11. Loops'
    BY <1>1, <1>2, <1>3, <1>7, <1>10 DEF Loops
  <1> QED BY <1>1, <1>11 DEF Inv

LEMMA SortedInv ==
  ASSUME Inv, Sorted
  PROVE  Inv'
PROOF
  <1> DEFINE t == call.topk
  <1>1. /\ status = "running" /\ phase = "sort" /\ Settled /\ i <= 0
        /\ size' = t /\ node' = t /\ UNCHANGED <<call, i, dst>>
    BY DEF Sorted
  <1>2. /\ Sorting /\ slice \in 0 .. SlicesOf(call) - 1
        /\ DOMAIN dst = 0 .. t * slice + t - 1
        /\ \A s \in 0 .. slice - 1 : IsTopOf(s)
    BY <1>1 DEF Inv, Loops
  <1>3. /\ t \in 1 .. Elements(call) /\ Elements(call) \in Nat /\ SlicesOf(call) \in Nat \ {0}
        /\ size = 1 /\ Kept(Elements(call)) /\ Tail(Vals, t, 1)
    BY <1>1, <1>2, CallFacts DEF Inv, Sorting
  <1>4. IsTopOf(slice)
    <2>1. \A k \in 0 .. t - 1 :
            /\ dst[t * slice + k] = Found[k]
            /\ call.values[dst[t * slice + k]] = Vals[k]
      BY DEF Found, Vals, Value, At, Base
    <2>2. Read(Elements(call)) = Source(slice)
      BY DEF Read, Source
    <2>3. \A k \in 0 .. t - 1 : Found[k] \in Source(slice)
      BY <1>3, <2>2 DEF Kept, Best
    <2>4. ASSUME NEW j \in 0 .. t - 1, NEW k \in 0 .. t - 1, j < k
          PROVE  Found[j] # Found[k] /\ Vals[j] >= Vals[k]
      BY <1>3, <2>4 DEF Kept, Best, Tail
    <2>5. ASSUME NEW p \in Source(slice), \A k \in 0 .. t - 1 : Found[k] # p
          PROVE  call.values[p] <= call.values[Found[t - 1]]
      BY <1>3, <2>2, <2>5 DEF Kept, Best
    <2> QED BY <1>3, <2>1, <2>3, <2>4, <2>5 DEF IsTopOf
  <1>5. \A s \in 0 .. slice : IsTopOf(s)
    BY <1>2, <1>4
  <1>6. \A s \in 0 .. slice : IsTopOf(s)'
    BY <1>1, <1>5 DEF IsTopOf, Source
  <1>7. CASE slice + 1 < SlicesOf(call)
    <2>1. slice' = slice + 1 /\ phase' = "fill" /\ status' = status
      BY <1>7 DEF Sorted
    <2>2. t * (slice + 1) = t * slice + t
      <3>1. t \in Nat /\ slice \in Nat /\ slice + 1 \in Nat /\ slice < slice + 1
        BY <1>2, <1>3
      <3> HIDE DEF t
      <3> QED BY <3>1, SliceAfterSlice
    <2>3. Filling'
      <3>1. call'.topk * slice' = t * slice + t
        BY <1>1, <2>1, <2>2
      <3>2. DOMAIN dst' = 0 .. t * slice + t - 1
        BY <1>1, <1>2
      <3>3. t * slice \in Nat /\ t \in Nat /\ slice \in Nat
        BY <1>2, <1>3, SliceAfterSlice
      <3>4. DOMAIN dst' = 0 .. call'.topk * slice' - 1
        BY <3>1, <3>2, <3>3
      <3> QED BY <1>1, <3>4 DEF Filling
    <2>4. Loops'
      BY <1>1, <1>2, <1>3, <1>6, <1>7, <2>1, <2>3 DEF Loops
    <2> QED BY <1>1, <2>1, <2>4 DEF Inv
  <1>8. CASE ~(slice + 1 < SlicesOf(call))
    <2>1. status' = "OK"
      BY <1>8 DEF Sorted
    <2>2. 0 .. SlicesOf(call) - 1 = 0 .. slice
      BY <1>2, <1>3, <1>8
    <2> QED BY <1>1, <1>6, <2>1, <2>2 DEF Inv
  <1> QED BY <1>7, <1>8

LEMMA Invariance == Spec => []Inv
PROOF
  <1>1. Inv /\ [Next]_vars => Inv'
    <2> SUFFICES ASSUME Inv, [Next]_vars
                 PROVE  Inv'
      OBVIOUS
    <2>1. CASE Next
      BY <2>1, RefuseInv, StartInv, HeapifyInv, FillInv, BuildInv, SelectInv, SelectedInv,
         SortInv, SortedInv DEF Next
    <2>2. CASE UNCHANGED vars
      <3>1. UNCHANGED <<call, slice, phase, i, size, node, dst, status>>
        BY <2>2 DEF vars
      <3>2. Found' = Found /\ Vals' = Vals
        BY <3>1 DEF Found, Vals, Value, At, Base
      <3>3. (\A s \in 0 .. slice - 1 : IsTopOf(s)) => (\A s \in 0 .. slice - 1 : IsTopOf(s)')
        BY <3>1 DEF IsTopOf, Source
      <3>4. (\A s \in 0 .. SlicesOf(call) - 1 : IsTopOf(s))
              => (\A s \in 0 .. SlicesOf(call) - 1 : IsTopOf(s)')
        BY <3>1 DEF IsTopOf, Source
      <3>5. Loops => Loops'
        BY <3>1, <3>2, <3>3 DEF Loops, Filling, Building, Selecting, Sorting, HeapOf, Kept, Read
      <3> QED BY <3>1, <3>4, <3>5 DEF Inv
    <2> QED BY <2>1, <2>2
  <1> QED BY InitInv, <1>1, PTL DEF Spec

-----------------------------------------------------------------------------
(* The theorems.                                                           *)

(* mli_krn_argmax: each time an element is offered to the heap, the heap   *)
(* holds the largest of those that were read, and the least of it on top.  *)
THEOREM HeapHoldsLargest == Spec => []HeapKept
PROOF
  <1>1. Inv => HeapKept
    <2> SUFFICES ASSUME Inv, status = "running", phase = "select", Settled
                 PROVE  HeapKept
      BY DEF HeapKept
    <2>1. /\ call.topk \in Nat \ {0}
          /\ \A k \in 0 .. call.topk - 1 : Found[k] = At(k) /\ Vals[k] = Value(k)
      BY LoopFacts
    <2>2. size = call.topk /\ HeapOf(0) /\ Kept(i)
      BY DEF Inv, Loops, Selecting
    <2>3. \A k \in 0 .. call.topk - 1 : Value(0) <= Value(k)
      BY <2>1, <2>2, AtRest
    <2>4. /\ \A k \in 0 .. call.topk - 1 : At(k) \in Read(i)
          /\ \A j, k \in 0 .. call.topk - 1 : At(j) = At(k) => j = k
          /\ \A p \in Read(i) : (\A k \in 0 .. call.topk - 1 : At(k) # p) =>
               call.values[p] <= Value(0)
      BY <2>1, <2>2 DEF Kept, Best, Value
    <2> QED BY <2>1, <2>3, <2>4 DEF HeapKept, Read
  <1> QED BY Invariance, <1>1, PTL

(* What the kernel has written for a slice are its topk largest elements,  *)
(* in descending order, and later slices do not disturb it.                *)
THEOREM FindsLargest == Spec => []TopFound
PROOF
  <1>1. Inv => TopFound
    BY DEF Inv, TopFound, Loops
  <1> QED BY Invariance, <1>1, PTL

(* mli_krn_argmax: whatever the values, heapify and the scan of the slice  *)
(* stay within the two buffers, as long as sizes do not wrap.              *)
THEOREM StaysInside ==
  ASSUME \A c \in Calls : Descriptor(c.in) /\ NoWrap(c.in)
  PROVE  Spec => []InsideBuffers
PROOF
  <1>1. Inv => InsideBuffers
    <2> SUFFICES ASSUME Inv, status = "running", phase # "fill"
                 PROVE  /\ size <= call.topk
                        /\ \A k \in 0 .. size - 1 :
                             Base + k \in DOMAIN dst /\ (Base + k + 1) * 4 <= call.capacity
                        /\ phase = "select" /\ i < Elements(call) =>
                             (Place(call, slice, i) + 1) * call.in.elem <= call.in.capacity
      BY DEF InsideBuffers
    <2>1. /\ call.topk \in Nat \ {0} /\ Base \in Nat /\ size \in 1 .. call.topk
          /\ DOMAIN dst = 0 .. Base + call.topk - 1
      BY LoopFacts
    <2>2. /\ call \in Calls /\ Check(call) = "OK" /\ slice \in 0 .. SlicesOf(call) - 1
          /\ SlicesOf(call) \in Nat /\ Elements(call) \in Nat
      BY CallFacts DEF Inv, Loops
    <2>3. /\ CheckTensor(call.in) = "OK"
          /\ call.capacity = call.topk * SlicesOf(call) * 4
      BY <2>2 DEF Check
    <2>4. Base + call.topk <= call.topk * SlicesOf(call) /\ call.topk * SlicesOf(call) \in Nat
      <3>1. slice \in Nat /\ slice < SlicesOf(call)
        BY <2>2
      <3>2. /\ call.topk * SlicesOf(call) \in Nat
            /\ call.topk * slice + call.topk <= call.topk * SlicesOf(call)
        BY <2>1, <2>2, <3>1, SliceAfterSlice
      <3> QED BY <3>2 DEF Base
    <2>5. \A k \in 0 .. size - 1 :
            Base + k \in DOMAIN dst /\ (Base + k + 1) * 4 <= call.capacity
      BY <2>1, <2>3, <2>4
    <2>6. ASSUME phase = "select", i < Elements(call)
          PROVE  (Place(call, slice, i) + 1) * call.in.elem <= call.in.capacity
      <3>1. i \in Nat
        BY <2>1, <2>2, <2>6 DEF Inv, Loops, Selecting
      <3>2. Descriptor(call.in) /\ NoWrap(call.in) /\ Shaped(call.in)
        BY <2>2, <2>3 DEF CheckTensor, CheckLayout
      <3>3. call.axis \in 0 .. call.in.rank /\ (call.axis > 0 => slice < call.in.shape[call.axis])
        BY <2>2, CallsAssumption DEF Sound, SlicesOf
      <3>4. IsPosition(call.in, SlicePosition(call.in, call.axis, slice, i))
        <4>1. slice \in Nat
          BY <2>2
        <4> QED BY <3>1, <3>2, <3>3, <4>1, SlicePositionInside
      <3> QED BY <2>3, <3>2, <3>4, TensorHasLayout, PositionInside DEF Place
    <2> QED BY <2>1, <2>5, <2>6
  <1> QED BY Invariance, <1>1, PTL
=============================================================================
