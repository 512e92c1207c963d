----------------------- MODULE MCXAppSubscriptions -----------------------
(* Instances of XAppSubscriptions for TLC: one request per process, as     *)
(* every xApp of the repository makes, and two, as the table allows.       *)
EXTENDS XAppSubscriptions, TLC

(* The table of CPython: 8, 16 or 32 places for n entries before the one   *)
(* that is inserted, of which two thirds are used.                         *)
CPythonRoom(n) == (IF n <= 2 THEN 5 ELSE IF n <= 5 THEN 10 ELSE 21) - n

(* A smaller one, which two requests can fill.                             *)
SmallRoom(n) == 2

Symmetry == Permutations(Requests) \cup Permutations(E2Ids)
=============================================================================
