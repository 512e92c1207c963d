----------------------------- MODULE SliceQuota -----------------------------
(***************************************************************************)
(* The control loop of simple_xapp.py: it adds up the downlink volume each *)
(* UE reports and, when a UE has exceeded the threshold, switches its PRB  *)
(* limit between 10 and 100 percent with an E2SM-RC control request. The   *)
(* callback runs on the main thread; its state changes before the request  *)
(* is sent, and rmr_send looks neither at the state of the buffer it gets  *)
(* back nor at the RIC_CONTROL_ACK or FAILURE, which _run only prints. The *)
(* E2 node is external: it applies or refuses requests in order.           *)
(***************************************************************************)
EXTENDS Integers, Sequences

CONSTANTS UE,
          Threshold,   (* dl_tx_data_threshold_mb                           *)
          Volumes,     (* what a report may say a UE transmitted            *)
          NoValue,     (* a report item without a number: sum() raises      *)
          MaxReports,  (* bound: reports                                    *)
          MaxRestarts  (* bound: restarts of the pod                        *)

ASSUME QuotaAssumption ==
  /\ Threshold \in Nat
  /\ Volumes \subseteq Nat
  /\ NoValue \notin Nat
  /\ MaxReports \in Nat /\ MaxRestarts \in Nat

VARIABLES
  volume,    (* ue_dl_tx_data; a UE without entry has 0                     *)
  ratio,     (* cur_ue_max_prb_ratio; a UE without entry has 0              *)
  todo,      (* UEs the control loop has still to visit                     *)
  overdue,   (* UEs the last callback may have left over the threshold      *)
  link,      (* requests on their way to the E2 node, per UE                *)
  applied,   (* external: the limit the E2 node enforces, 0 for none        *)
  reports,   (* reports so far                                              *)
  restarts,  (* restarts so far                                             *)
  delivered, (* history: volume reported per UE, in all reports             *)
  total,     (* history: switches ever, per UE                              *)
  diverged   (* history: the last request of these UEs did not take effect  *)

believed == <<volume, ratio, total>>
bounds == <<reports, restarts>>
vars == <<believed, todo, overdue, link, applied, bounds, delivered, diverged>>

Low == 10
High == 100

Init ==
  /\ volume = [u \in UE |-> 0] /\ ratio = [u \in UE |-> 0]
  /\ todo = {} /\ overdue = {}
  /\ link = [u \in UE |-> <<>>] /\ applied = [u \in UE |-> 0]
  /\ reports = 0 /\ restarts = 0
  /\ delivered = [u \in UE |-> 0]
  /\ total = [u \in UE |-> 0] /\ diverged = {}

-----------------------------------------------------------------------------
(* What a report adds; a UE without entry or number adds nothing. *)
Adds(report, u) ==
  IF u \in DOMAIN report /\ report[u] # NoValue THEN report[u] ELSE 0

Sums(old, report, counted) ==
  [u \in UE |-> IF u \in counted THEN old[u] + Adds(report, u) ELSE old[u]]

(* Mutant: the control loop visits the UEs of this report only. *)
AccumulateVisitingReported(report) ==
  /\ todo = {} /\ reports < MaxReports
  /\ \A u \in DOMAIN report : report[u] # NoValue
  /\ volume' = Sums(volume, report, UE)
  /\ delivered' = Sums(delivered, report, UE)
  /\ todo' = DOMAIN report /\ overdue' = {}
  /\ reports' = reports + 1
  /\ UNCHANGED <<ratio, link, applied, restarts, total, diverged>>

(* The first loop of the callback. All items are numbers: the control loop *)
(* follows, over every UE with an entry.                                   *)
Accumulate(report) ==
  /\ todo = {} /\ reports < MaxReports
  /\ \A u \in DOMAIN report : report[u] # NoValue
  /\ volume' = Sums(volume, report, UE)
  /\ delivered' = Sums(delivered, report, UE)
  /\ todo' = UE /\ overdue' = {}
  /\ reports' = reports + 1
  /\ UNCHANGED <<ratio, link, applied, restarts, total, diverged>>

(* sum() raises at a UE without a number: the UEs before it in the report  *)
(* have been added, the control loop is not reached.                       *)
AccumulateRaises(report, before) ==
  /\ todo = {} /\ reports < MaxReports
  /\ \E u \in DOMAIN report \ before : report[u] = NoValue
  /\ \A u \in before : report[u] # NoValue
  /\ volume' = Sums(volume, report, before)
  /\ delivered' = Sums(delivered, report, UE)
  /\ overdue' = UE
  /\ reports' = reports + 1
  /\ UNCHANGED <<ratio, todo, link, applied, restarts, total, diverged>>

Pass(u) ==
  /\ u \in todo /\ volume[u] <= Threshold
  /\ todo' = todo \ {u}
  /\ UNCHANGED <<believed, overdue, link, applied, bounds, delivered, diverged>>

(* Any limit but Low, also none, is followed by Low. *)
Toggled(r) == IF r = Low THEN High ELSE Low

(* Mutant: the collected volume is not reset. *)
SwitchKeeping(u) ==
  /\ u \in todo /\ volume[u] > Threshold
  /\ volume' = volume
  /\ ratio' = [ratio EXCEPT ![u] = Toggled(@)]
  /\ total' = [total EXCEPT ![u] = @ + 1]

(* The limit is switched and the volume reset, whatever becomes of the     *)
(* request.                                                                *)
Switch(u) ==
  /\ u \in todo /\ volume[u] > Threshold
  /\ volume' = [volume EXCEPT ![u] = 0]
  /\ ratio' = [ratio EXCEPT ![u] = Toggled(@)]
  /\ total' = [total EXCEPT ![u] = @ + 1]

(* Mutant: the limit before the switch is sent. *)
SendOld(u) ==
  /\ Switch(u)
  /\ link' = [link EXCEPT ![u] = Append(@, ratio[u])]
  /\ diverged' = diverged \ {u}
  /\ todo' = todo \ {u}
  /\ UNCHANGED <<overdue, applied, bounds, delivered>>

Send(u) ==
  /\ Switch(u)
  /\ link' = [link EXCEPT ![u] = Append(@, ratio'[u])]
  /\ diverged' = diverged \ {u}
  /\ todo' = todo \ {u}
  /\ UNCHANGED <<overdue, applied, bounds, delivered>>

(* rmr_send_msg hands the buffer back with an error state: nobody looks. *)
SendLost(u) ==
  /\ Switch(u)
  /\ diverged' = diverged \cup {u}
  /\ todo' = todo \ {u}
  /\ UNCHANGED <<overdue, link, applied, bounds, delivered>>

(* An exception of the encoder or of RMR ends the callback: the UEs not    *)
(* visited yet stay as they are until the next report.                     *)
SendRaises(u) ==
  /\ Switch(u)
  /\ diverged' = diverged \cup {u}
  /\ todo' = {} /\ overdue' = todo \ {u}
  /\ UNCHANGED <<link, applied, bounds, delivered>>

-----------------------------------------------------------------------------
(* External: the E2 node applies the next request of a UE, or refuses it.  *)
Apply(u) ==
  /\ link[u] # <<>>
  /\ applied' = [applied EXCEPT ![u] = Head(link[u])]
  /\ link' = [link EXCEPT ![u] = Tail(@)]
  /\ UNCHANGED <<believed, todo, overdue, bounds, delivered, diverged>>

Refuse(u) ==
  /\ link[u] # <<>>
  /\ link' = [link EXCEPT ![u] = Tail(@)]
  /\ diverged' = IF Len(link[u]) = 1 THEN diverged \cup {u} ELSE diverged
  /\ UNCHANGED <<believed, todo, overdue, applied, bounds, delivered>>

(* The pod is replaced: volumes and limits are forgotten, the E2 node      *)
(* keeps what it enforces.                                                 *)
Restart ==
  /\ restarts < MaxRestarts /\ restarts' = restarts + 1
  /\ volume' = [u \in UE |-> 0] /\ ratio' = [u \in UE |-> 0]
  /\ todo' = {} /\ overdue' = {} /\ diverged' = {}
  /\ UNCHANGED <<link, applied, reports, delivered, total>>

Done == reports = MaxReports /\ todo = {} /\ UNCHANGED vars

Report == UNION {[S -> Volumes \cup {NoValue}] : S \in SUBSET UE}

Next ==
  \/ \E report \in Report :
       Accumulate(report) \/ \E before \in SUBSET DOMAIN report : AccumulateRaises(report, before)
  \/ \E u \in UE : \/ Pass(u) \/ Send(u) \/ SendLost(u) \/ SendRaises(u)
                   \/ Apply(u) \/ Refuse(u)
  \/ Restart \/ Done

Spec == Init /\ [][Next]_vars

-----------------------------------------------------------------------------
TypeOK ==
  /\ volume \in [UE -> Nat]
  /\ ratio \in [UE -> {0, Low, High}] /\ applied \in [UE -> {0, Low, High}]
  /\ link \in [UE -> Seq({Low, High})]
  /\ todo \subseteq UE /\ overdue \subseteq UE /\ diverged \subseteq UE
  /\ reports \in Nat /\ restarts \in Nat
  /\ delivered \in [UE -> Nat] /\ total \in [UE -> Nat]

(* No UE is switched more often than its traffic pays for: every switch    *)
(* has its own more than Threshold of reported volume, also when reports   *)
(* or requests fail half-way and across restarts.                          *)
SwitchesArePaidFor ==
  \A u \in UE : (Threshold + 1) * total[u] + volume[u] <= delivered[u]

(* Between two reports no UE is left over the threshold, unless the last   *)
(* callback ended with an exception before it came to that UE.             *)
NobodyOverdue == todo = {} => \A u \in UE : volume[u] > Threshold => u \in overdue

(* The limit the E2 node will enforce once it has handled what is on its   *)
(* way. *)
Eventual(u) == IF link[u] = <<>> THEN applied[u] ELSE link[u][Len(link[u])]

(* What the xApp believes is what the E2 node will enforce, except for a   *)
(* UE whose last request was lost, refused or not sent: the next request   *)
(* that gets through repairs it, because requests carry the limit and not  *)
(* the change.                                                             *)
BelievedIsEnforced ==
  \A u \in UE : ratio[u] # 0 /\ u \notin diverged => Eventual(u) = ratio[u]
=============================================================================
