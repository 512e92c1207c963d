--------------------------- MODULE FloatRounding ---------------------------
(***************************************************************************)
(* Python floats: an operation gives the float nearest to its exact        *)
(* result. Numbers are counted in units of the smallest positive double    *)
(* (2^-1074), of which every double is a multiple, so that Floats is a set *)
(* of integers and loses no generality; sums that leave the range of       *)
(* doubles are left out.                                                   *)
(***************************************************************************)
EXTENDS Integers

CONSTANT Floats

Abs(x) == IF x < 0 THEN -x ELSE x

(* The float nearest to x / n. Which of two equally near ones it is, IEEE  *)
(* 754 says; nothing below depends on it.                                  *)
Nearest(x, n) ==
  CHOOSE f \in Floats : \A g \in Floats : Abs(n * f - x) <= Abs(n * g - x)

Round(x) == Nearest(x, 1)
=============================================================================
