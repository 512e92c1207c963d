--------------------------- MODULE MovingAverage ---------------------------
(***************************************************************************)
(* What an activity monitor promises, stated without running totals: its   *)
(* level is the one of the mean of the last WindowSize samples, computed   *)
(* afresh at each of them, and it knows no level before the first. A float *)
(* may fall short of that by `error`, which stays 0 for as long as the     *)
(* sums of the windows are floats themselves.                              *)
(***************************************************************************)
EXTENDS SampleWindow, FloatRounding

CONSTANTS Values, WindowSize, Threshold

VARIABLES recent, level, error

avgVars == <<recent, level, error>>

AvgInit == recent = <<>> /\ level = "unknown" /\ error = 0

(* The samples that stay when the next one comes. *)
Staying == IF Len(recent) = WindowSize THEN Tail(recent) ELSE recent

IsExact(window) == Round(Total(window)) = Total(window)

Level(sum, n) == IF Nearest(sum, n) >= Threshold THEN "active" ELSE "idle"

Sample(v) ==
  /\ recent' = Push(recent, v, WindowSize)
  /\ error' \in Nat /\ error' >= error
  /\ error = 0 /\ IsExact(Staying) /\ IsExact(recent') => error' = 0
  /\ \E e \in -error'..error' : level' = Level(Total(recent') + e, Len(recent'))

AvgSpec == AvgInit /\ [][\E v \in Values : Sample(v)]_avgVars
=============================================================================
