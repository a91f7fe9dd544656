------------------------------ MODULE Numbers --------------------------------
(***************************************************************************)
(* The macros of lib/src/private/mli_math_macros.h.                        *)
(***************************************************************************)
EXTENDS Integers

Most(a, b) == IF a >= b THEN a ELSE b

Least(a, b) == IF a <= b THEN a ELSE b

(* CEIL_DIV.  A negative sum, which C would round the other way, occurs    *)
(* only where an output has no elements.                                   *)
CeilDiv(num, den) == (num + den - 1) \div den
=============================================================================
