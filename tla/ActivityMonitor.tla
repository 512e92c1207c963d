--------------------------- MODULE ActivityMonitor ---------------------------
(***************************************************************************)
(* kpm_mon_tmt_xapp.py on top of xAppBase: every KPM indication first      *)
(* updates the Prometheus series of the base class, under _metrics_lock,   *)
(* and then the monitor, under _state_lock; a scrape reads the former      *)
(* first and the latter second. The monitor keeps the sum of its window    *)
(* incrementally, in a float: every subtraction and addition rounds, and   *)
(* what they lose stays in the sum when the samples have left the window.  *)
(***************************************************************************)
EXTENDS SampleWindow, FloatRounding

CONSTANTS Values,         (* throughputs the RAN may report                *)
          WindowSize,     (* --window_size                                 *)
          Threshold,      (* --activity_threshold                          *)
          NoValue,        (* the record carries no finite number           *)
          MaxIndications, (* bound: indications                            *)
          MaxScrapes      (* bound: scrapes of /metrics                    *)

(* __init__ rejects a window that is not positive; _latest_numeric and     *)
(* __init__ make floats of what they are given.                            *)
ASSUME MonitorAssumption ==
  /\ Floats \subseteq Int /\ 0 \in Floats
  /\ Values \subseteq Floats /\ NoValue \notin Values
  /\ WindowSize \in Nat \ {0}
  /\ Threshold \in Floats
  /\ MaxIndications \in Nat /\ MaxScrapes \in Nat

VARIABLES
  pc,          (* main thread: where the indication is                     *)
  value,       (* the number extracted from the indication                 *)
  indications, (* indications taken up by the main thread                  *)
  updates,     (* update counter of the base class's series                *)
  kpm,         (* _kpm_indications_total                                   *)
  samples, sampleSum, sampleCount, idleCount, state, transitions,
  spc,         (* HTTP thread: progress of a scrape                        *)
  read,        (* what the scrape copied from the base class               *)
  shown,       (* the last scrape delivered                                *)
  scrapes,     (* scrapes delivered                                        *)
  first,       (* history: the first classification                        *)
  drift        (* history: what the roundings of the sum have lost or added*)

monitorVars == <<samples, sampleSum, drift, sampleCount, idleCount, state, transitions>>
scrapeVars == <<spc, read, shown, scrapes>>
vars == <<pc, value, indications, updates, kpm, monitorVars, first, scrapeVars>>

States == {"unknown", "idle", "active"}

TypeOK ==
  /\ pc \in {"wait", "decoded", "called", "observed"}
  /\ value \in Values \cup {NoValue}
  /\ {indications, updates, kpm, sampleCount, idleCount, transitions, scrapes} \subseteq Nat
  /\ samples \in Seq(Values) /\ Len(samples) <= WindowSize
  /\ sampleSum \in Floats /\ drift \in Nat
  /\ {state, first} \subseteq States
  /\ spc \in {"idle", "based"}
  /\ read \in [updates : Nat, kpm : Nat]
  /\ shown \in [updates : Nat, kpm : Nat, samples : Nat, idle : Nat,
                state : States, transitions : Nat]

Init ==
  /\ pc = "wait" /\ value = NoValue
  /\ indications = 0 /\ updates = 0 /\ kpm = 0
  /\ samples = <<>> /\ sampleSum = 0 /\ drift = 0 /\ sampleCount = 0
  /\ idleCount = 0 /\ state = "unknown" /\ transitions = 0
  /\ spc = "idle" /\ read = [updates |-> 0, kpm |-> 0] /\ scrapes = 0
  /\ shown = [updates |-> 0, kpm |-> 0, samples |-> 0, idle |-> 0,
              state |-> "unknown", transitions |-> 0]
  /\ first = "unknown"

-----------------------------------------------------------------------------
(* unpack_ric_indication and extract_meas_data of the base class. *)
Decode(v) ==
  /\ pc = "wait" /\ indications < MaxIndications
  /\ pc' = "decoded" /\ value' = v
  /\ indications' = indications + 1
  /\ UNCHANGED <<updates, kpm, monitorVars, first, scrapeVars>>

(* _record_kpm_measurements: the series counts the finite values. *)
RecordSeries ==
  /\ pc = "decoded" /\ pc' = "called"
  /\ updates' = IF value = NoValue THEN updates ELSE updates + 1
  /\ UNCHANGED <<value, indications, kpm, monitorVars, first, scrapeVars>>

(* indication_callback returns early when there is no value. *)
CallbackSkips ==
  /\ pc = "called" /\ value = NoValue
  /\ pc' = "observed"
  /\ UNCHANGED <<value, indications, updates, kpm, monitorVars, first, scrapeVars>>

(* What is left of the sum when the oldest sample leaves a full window. *)
ExactRest ==
  IF Len(samples) = WindowSize THEN sampleSum - Head(samples) ELSE sampleSum

Rest == Round(ExactRest)

(* Mutant: the sample that leaves the window stays in the sum. *)
NextSumKeeping(v) == Round(sampleSum + v)

NextSum(v) == Round(Rest + v)

NextDrift(v) ==
  drift + Abs(Rest - ExactRest) + Abs(Round(Rest + v) - (Rest + v))

(* average >= activity_threshold, for n samples. *)
Classify(sum, n) == IF Nearest(sum, n) >= Threshold THEN "active" ELSE "idle"

(* Mutant: leaving "unknown" counts as a transition. *)
IsTransitionFromUnknown(new) == new # state

IsTransition(new) == new # state /\ state # "unknown"

Observe ==
  /\ pc = "called" /\ value # NoValue
  /\ pc' = "observed"
  /\ samples' = Push(samples, value, WindowSize)
  /\ sampleSum' = NextSum(value)
  /\ drift' = NextDrift(value)
  /\ sampleCount' = sampleCount + 1
  /\ state' = Classify(sampleSum', Len(samples'))
  /\ transitions' = IF IsTransition(state') THEN transitions + 1 ELSE transitions
  /\ idleCount' = IF state' = "idle" THEN idleCount + 1 ELSE idleCount
  /\ first' = IF first = "unknown" THEN state' ELSE first
  /\ UNCHANGED <<value, indications, updates, kpm, scrapeVars>>

(* The callback returned; _run counts the indication. *)
CountKpm ==
  /\ pc = "observed" /\ pc' = "wait"
  /\ kpm' = kpm + 1
  /\ UNCHANGED <<value, indications, updates, monitorVars, first, scrapeVars>>

(* extract_hdr_info raised while logging the sample: not counted. *)
LoggingRaises ==
  /\ pc = "observed" /\ value # NoValue /\ pc' = "wait"
  /\ UNCHANGED <<value, indications, updates, kpm, monitorVars, first, scrapeVars>>

(* The 500 ms receive returns a NULL buffer. *)
IdlePoll == pc = "wait" /\ UNCHANGED vars

(* _metrics_handler of the base class, then the monitor's own snapshot. *)
ScrapeBase ==
  /\ spc = "idle" /\ scrapes < MaxScrapes
  /\ spc' = "based"
  /\ read' = [updates |-> updates, kpm |-> kpm]
  /\ UNCHANGED <<pc, value, indications, updates, kpm, monitorVars, first, shown,
                 scrapes>>

(* Mutant: the snapshot is the one of the previous scrape. *)
ScrapeCached ==
  /\ spc = "based" /\ spc' = "idle"
  /\ shown' = [shown EXCEPT !.updates = read.updates, !.kpm = read.kpm]
  /\ scrapes' = scrapes + 1
  /\ UNCHANGED <<pc, value, indications, updates, kpm, monitorVars, first, read>>

ScrapeState ==
  /\ spc = "based" /\ spc' = "idle"
  /\ shown' = [updates |-> read.updates, kpm |-> read.kpm, samples |-> sampleCount,
               idle |-> idleCount, state |-> state, transitions |-> transitions]
  /\ scrapes' = scrapes + 1
  /\ UNCHANGED <<pc, value, indications, updates, kpm, monitorVars, first, read>>

Next == \/ \E v \in Values \cup {NoValue} : Decode(v)
        \/ RecordSeries \/ CallbackSkips \/ Observe \/ CountKpm \/ LoggingRaises
        \/ IdlePoll \/ ScrapeBase \/ ScrapeState

Spec == Init /\ [][Next]_vars

-----------------------------------------------------------------------------
(* The three counters of a scrape fit together: states alternate and each  *)
(* stay takes a sample of its own, so that half of the transitions left    *)
(* idle samples and half of them others; leaving "unknown" is none.        *)
TransitionsNeedSamples ==
  /\ shown.transitions <= 2 * shown.idle
  /\ shown.transitions <= 2 * (shown.samples - shown.idle)

(* A scrape that interrupts an indication shows the monitor at most one    *)
(* sample behind the series of the base class it was read after.           *)
ScrapeNotBehind == shown.samples + 1 >= shown.updates

(* The running sum makes no difference but for the roundings: the monitor  *)
(* implements the mean of the last WindowSize samples, exactly while the   *)
(* sums of the windows are floats (those of whole kbps are, below 2^53),   *)
(* and within what its operations have lost so far from then on.           *)
Mean == INSTANCE MovingAverage WITH recent <- samples, level <- state, error <- drift

ImplementsMean == Mean!AvgSpec
=============================================================================
