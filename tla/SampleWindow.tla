---------------------------- MODULE SampleWindow ----------------------------
(* A bounded window of samples: collections.deque(maxlen=size) as the      *)
(* monitoring xApps use it.                                                *)
EXTENDS Integers, Sequences

(* Mutant: the deque has no maxlen. *)
PushUnbounded(window, x, size) == Append(window, x)

(* append: the oldest element leaves a full deque. *)
Push(window, x, size) ==
  IF Len(window) = size THEN Append(Tail(window), x) ELSE Append(window, x)

(* The sums of the first n samples, for every n; sum(window) is the last.  *)
PartialSums(window) ==
  LET sum[n \in 0..Len(window)] == IF n = 0 THEN 0 ELSE sum[n - 1] + window[n]
  IN  sum

Total(window) == PartialSums(window)[Len(window)]
=============================================================================
