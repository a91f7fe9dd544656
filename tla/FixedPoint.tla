----------------------------- MODULE FixedPoint ------------------------------
(***************************************************************************)
(* The arithmetic of lib/src/pal/ref/mli_math.h: signed integers of w bits *)
(* that saturate instead of wrapping around, shifts in both directions     *)
(* with one sign, and rounding.                                            *)
(***************************************************************************)
EXTENDS Integers

CONSTANT Rounding     \* ROUND_MODE of the build

ASSUME RoundingAssumption == Rounding \in {"UP", "CONVERGENT"}

(* The limits of a type of w bits. *)
Hi(w) == 2^(w - 2) - 1 + 2^(w - 2)
Lo(w) == -1 - Hi(w)

Clamp(lo, hi, x) == IF x < lo THEN lo ELSE IF x > hi THEN hi ELSE x

Limit(w, x) == IF x < 0 THEN Lo(w) ELSE Hi(w)

(* The low w bits of x: a conversion to a smaller type. *)
Narrow(w, x) ==
  IF Lo(w) <= x /\ x <= Hi(w) THEN x ELSE Lo(w) + ((x - Lo(w)) % 2^w)

AddSat(w, x, y) ==
  IF y > 0 /\ x > Hi(w) - y THEN Hi(w)
  ELSE IF y < 0 /\ x < Lo(w) - y THEN Lo(w)
  ELSE x + y

SubSat(w, x, y) ==
  IF y < 0 /\ x > Hi(w) + y THEN Hi(w)
  ELSE IF y > 0 /\ x < Lo(w) + y THEN Lo(w)
  ELSE x - y

(* What is left of x when all its bits but the sign are shifted out. *)
Sign(x) == IF x < 0 THEN -1 ELSE 0

(* Shifts by n >= 0. *)
Asr(w, x, n) == IF n >= w - 1 THEN Sign(x) ELSE x \div 2^n

Asl(w, x, n) ==
  IF n = 0 \/ x = 0 THEN x
  ELSE IF n < w /\ Asr(w, x, w - 1 - n) = Sign(x) THEN 2 * (x * 2^(n - 1))
  ELSE Limit(w, x)

(* Half of the last bit that is kept. *)
Half(n) == 2^(n - 1)

RoundUp(w, x, n) == Asr(w, AddSat(w, x, Half(n)), n)

(* The last deleted bit of x, and whether an earlier one is set. *)
RoundConvergent(w, x, n) ==
  LET r == Asr(w, x, n)
      last == (x \div Half(n)) % 2 = 1
      earlier == x % Half(n) # 0
  IN  IF last /\ (r % 2 = 1 \/ earlier) THEN AddSat(w, r, 1) ELSE r

(* mli_math_asr_rnd_fx: to the left, with saturation, if n is negative. *)
AsrRnd(w, x, n) ==
  IF n < 0 THEN Asl(w, x, 0 - n)
  ELSE IF n = 0 THEN x
  ELSE IF n > w - 1 THEN 0
  ELSE IF Rounding = "UP" THEN RoundUp(w, x, n)
  ELSE RoundConvergent(w, x, n)

(* mli_math_sat_fx: to the left and back. *)
Sat(w, x, n) == Asr(w, Asl(w, x, n), n)

(* mli_math_cast_fx from a larger type. *)
Cast(from, to, x, n) == Sat(from, AsrRnd(from, x, n), from - to)

(* mli_math_norm_fx: bits between the sign and the first one that differs. *)
Norm(w, x) ==
  LET gone(r) == Asr(w, x, r) = Sign(x)
  IN  w - 1 - (CHOOSE r \in 0 .. w - 1 : gone(r) /\ \A q \in 0 .. r - 1 : ~gone(q))

(* mli_math_norm_cast_fx: the value, and by how much it was shifted. *)
NormCast(from, to, x) ==
  LET shift == from - to - Norm(from, x)
  IN  [val |-> Cast(from, to, x, shift), shift |-> shift]
=============================================================================
