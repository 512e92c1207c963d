------------------------------ MODULE LoadWatch ------------------------------
(***************************************************************************)
(* kpm_load_watch_xapp.py and lib/load_classifier.py: the downlink load,   *)
(* classified by a moving average recomputed at every sample. Negative     *)
(* throughputs are taken as zero and the classifier starts at "idle".      *)
(* A change of state and every LogEvery-th indication are printed, if the  *)
(* header of the indication can be decoded.                                *)
(***************************************************************************)
EXTENDS SampleWindow

CONSTANTS Values,          (* throughputs the RAN may report               *)
          WindowSize,      (* --window_size                                *)
          ActiveThreshold, (* --active_threshold_kbps                      *)
          BusyThreshold,   (* --busy_threshold_kbps                        *)
          LogEvery,        (* --log_every                                  *)
          NoValue,         (* the record carries no finite number          *)
          MaxIndications   (* bound: indications                           *)

VARIABLES
  pc,          (* main thread: where the indication is                     *)
  value,       (* the number extracted from the indication                 *)
  indications, (* indication_count                                         *)
  changed,     (* state_changed of the snapshot just returned              *)
  window, state, transitions, samples,
  lines,       (* log lines printed                                        *)
  unlogged,    (* log lines lost because the header was not decodable      *)
  shown,       (* snapshot() of the last scrape of /metrics                *)
  ago          (* history: for each fact about a sample, samples since one *)
               (* for which it was true                                    *)

classifierVars == <<window, state, transitions, samples>>
vars == <<pc, value, indications, changed, classifierVars, lines, unlogged, shown, ago>>

(* Facts about one raw sample that bound what the window can average to. *)
Facts == {"idle", "active", "busy", "notbusy", "spike"}
IsFact(f, v) ==
  CASE f = "idle"    -> v < ActiveThreshold
    [] f = "active"  -> v >= ActiveThreshold
    [] f = "busy"    -> v >= BusyThreshold
    [] f = "notbusy" -> v < BusyThreshold
    [] f = "spike"   -> v >= WindowSize * BusyThreshold

TypeOK ==
  /\ pc \in {"wait", "called", "observed"}
  /\ value \in Values \cup {NoValue}
  /\ {indications, transitions, samples, lines, unlogged} \subseteq Nat
  /\ changed \in BOOLEAN
  /\ window \in Seq(Nat) /\ Len(window) <= WindowSize
  /\ state \in {"idle", "active", "busy"}
  /\ shown \in [state : {"idle", "active", "busy"}, transitions : Nat, samples : Nat]
  /\ ago \in [Facts -> Nat]

Init ==
  /\ pc = "wait" /\ value = NoValue /\ indications = 0 /\ changed = FALSE
  /\ window = <<>> /\ state = "idle" /\ transitions = 0 /\ samples = 0
  /\ lines = 0 /\ unlogged = 0
  /\ shown = [state |-> "idle", transitions |-> 0, samples |-> 0]
  /\ ago = [f \in Facts |-> WindowSize]

-----------------------------------------------------------------------------
(* indication_callback is entered; extraction succeeded in the base class. *)
Callback(v) ==
  /\ pc = "wait" /\ indications < MaxIndications
  /\ value' = v /\ indications' = indications + 1
  /\ pc' = IF v = NoValue THEN "wait" ELSE "called"
  /\ UNCHANGED <<changed, classifierVars, lines, unlogged, shown, ago>>

(* Mutant: negative measurements are not clamped. *)
Unclamped(v) == v

(* max(0.0, value_kbps) *)
Clamp(v) == IF v < 0 THEN 0 ELSE v

(* Mutant: the thresholds are compared in the wrong order. *)
ClassifyActiveFirst(sum, n) ==
  IF sum >= ActiveThreshold * n THEN "active"
  ELSE IF sum >= BusyThreshold * n THEN "busy" ELSE "idle"

(* _classify of the average of n samples. *)
Classify(sum, n) ==
  IF sum >= BusyThreshold * n THEN "busy"
  ELSE IF sum >= ActiveThreshold * n THEN "active" ELSE "idle"

Observe ==
  /\ pc = "called" /\ pc' = "observed"
  /\ window' = Push(window, Clamp(value), WindowSize)
  /\ samples' = samples + 1
  /\ state' = Classify(Total(window'), Len(window'))
  /\ changed' = (state' # state)
  /\ transitions' = IF changed' THEN transitions + 1 ELSE transitions
  /\ ago' = [f \in Facts |-> IF IsFact(f, value) THEN 0 ELSE ago[f] + 1]
  /\ UNCHANGED <<value, indications, lines, unlogged, shown>>

(* Mutant: only the periodic condition is looked at. *)
LogsPeriodically == indications = 1 \/ indications % LogEvery = 0

Logs == changed \/ indications = 1 \/ indications % LogEvery = 0

(* The rest of the callback: the line is printed, or decoding the header   *)
(* for it raises and _run swallows the exception.                          *)
Log(ok) ==
  /\ pc = "observed" /\ pc' = "wait"
  /\ lines' = IF Logs /\ ok THEN lines + 1 ELSE lines
  /\ unlogged' = IF Logs /\ ~ok THEN unlogged + 1 ELSE unlogged
  /\ UNCHANGED <<value, indications, changed, classifierVars, shown, ago>>

(* The HTTP thread appends the snapshot, taken under the classifier's      *)
(* lock, to the page of the base class.                                    *)
Scrape ==
  /\ shown' = [state |-> state, transitions |-> transitions, samples |-> samples]
  /\ UNCHANGED <<pc, value, indications, changed, classifierVars, lines, unlogged, ago>>

(* The 500 ms receive returns a NULL buffer. *)
IdlePoll == pc = "wait" /\ UNCHANGED vars

Next == \/ \E v \in Values \cup {NoValue} : Callback(v)
        \/ Observe \/ IdlePoll \/ Scrape
        \/ \E ok \in BOOLEAN : Log(ok)

Spec == Init /\ [][Next]_vars

-----------------------------------------------------------------------------
(* The f-kind of sample has not occurred among the last WindowSize ones.   *)
Absent(f) == samples >= WindowSize /\ ago[f] >= WindowSize

(* The state depends on the last WindowSize raw samples alone and lies     *)
(* between the least and the greatest of them: all at or above a threshold *)
(* put the state at or above it, all below put it below. (An active        *)
(* threshold of 0 is never missed: negative samples are taken as 0.)       *)
StateWithinRecentSamples ==
  /\ Absent("idle") => state # "idle"
  /\ Absent("active") /\ ActiveThreshold > 0 => state = "idle"
  /\ Absent("busy") => state # "busy"
  /\ Absent("notbusy") => state = "busy"

(* A sample that alone lifts the average over the busy threshold keeps the *)
(* state busy while it is in the window, whatever the others are: a        *)
(* negative reading cannot hide it (observe, max(0.0, ...)).               *)
SpikeKeepsBusy == ago["spike"] < WindowSize => state = "busy"

(* Logs are bounded by the load, not by the traffic: a line per change of  *)
(* state, one for the first indication, and one in LogEvery.               *)
LogsBounded == lines <= transitions + 1 + indications \div LogEvery

(* Every change of state that /metrics counts has been printed, except the *)
(* one being handled and those whose header was undecodable.               *)
ChangesLogged ==
  transitions <= lines + unlogged + (IF pc = "observed" THEN 1 ELSE 0)

(* A page shows one moment of the classifier, whatever samples come while  *)
(* it is written: the state has been left and entered as often as it says. *)
PageOfOneMoment ==
  /\ shown.transitions <= shown.samples
  /\ shown.transitions = 0 => shown.state = "idle"
  /\ shown.transitions = 1 => shown.state # "idle"
=============================================================================
