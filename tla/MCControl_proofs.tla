--------------------------- MODULE MCControl_proofs --------------------------
(***************************************************************************)
(* The accounting of simple_xapp and the agreement of its limits with the  *)
(* E2 node, for any set of UEs, threshold and volumes; what is still sent  *)
(* by a controller that has been told to stop; the conversion of PLMNs;    *)
(* and the control requests, from the call to what the E2 node reads, for  *)
(* any arguments and lengths.                                              *)
(***************************************************************************)
EXTENDS MCControl, WellFoundedInduction, TLAPS

-----------------------------------------------------------------------------
(* The slice limits of simple_xapp. *)

Limits == {Low, High}

(* A UE over the threshold is still to be visited or was left behind by a  *)
(* callback that raised; while UEs are visited nothing is left behind.     *)
Visiting ==
  /\ \A u \in UE : volume[u] > Threshold => u \in todo \cup overdue
  /\ todo # {} => overdue = {}

IInv == TypeOK /\ SwitchesArePaidFor /\ Visiting /\ BelievedIsEnforced

-----------------------------------------------------------------------------
(* One more switch is paid for by a volume above the threshold.            *)
LEMMA OneMore ==
  ASSUME NEW t \in Nat, NEW n \in Nat, NEW v \in Nat, NEW d \in Nat,
         (t + 1) * n + v <= d, v > t
  PROVE  (t + 1) * (n + 1) + 0 <= d
<1>1. (t + 1) * (n + 1) = (t + 1) * n + (t + 1)
    OBVIOUS
<1>2. (t + 1) * n \in Nat
    OBVIOUS
<1> QED BY <1>1, <1>2

(* The last request on the link decides, the one that leaves does not.     *)
LEMMA AppendIsLast ==
  ASSUME NEW s \in Seq(Limits), NEW r \in Limits
  PROVE  /\ Append(s, r) \in Seq(Limits) /\ Append(s, r) # <<>>
         /\ Append(s, r)[Len(Append(s, r))] = r
OBVIOUS

LEMMA TailKeepsLast ==
  ASSUME NEW s \in Seq(Limits), s # <<>>
  PROVE  /\ Head(s) \in Limits /\ Tail(s) \in Seq(Limits)
         /\ Tail(s) # <<>> => Tail(s)[Len(Tail(s))] = s[Len(s)] /\ Len(s) # 1
         /\ Tail(s) = <<>> => Head(s) = s[Len(s)] /\ Len(s) = 1
<1>1. Len(s) \in Nat /\ Len(s) >= 1 /\ s \in [1..Len(s) -> Limits]
    OBVIOUS
<1>2. Head(s) = s[1] /\ Head(s) \in Limits
    BY <1>1
<1>3. /\ Tail(s) \in Seq(Limits) /\ Len(Tail(s)) = Len(s) - 1
      /\ \A i \in 1..(Len(s) - 1) : Tail(s)[i] = s[i + 1]
    BY <1>1
<1>4. Tail(s) = <<>> <=> Len(s) = 1
  <2>1. \A t \in Seq(Limits) : t = <<>> <=> Len(t) = 0
      OBVIOUS
  <2>2. Tail(s) = <<>> <=> Len(Tail(s)) = 0
      BY <1>3, <2>1, Zenon
  <2>3. Len(Tail(s)) = 0 <=> Len(s) = 1
    <3>1. Len(Tail(s)) = Len(s) - 1 /\ Len(s) \in Nat
        BY <1>1, <1>3, Zenon
    <3>2. \A n \in Nat : n - 1 = 0 <=> n = 1
        OBVIOUS
    <3> QED BY <3>1, <3>2, Zenon
  <2> QED BY <2>2, <2>3, Zenon
<1>5. CASE Len(s) = 1
    BY <1>2, <1>3, <1>5, <1>4
<1>6. CASE Len(s) > 1
  <2>1. Tail(s) # <<>> /\ Len(s) - 1 \in 1..(Len(s) - 1)
      BY <1>1, <1>6, <1>4
  <2>2. Tail(s)[Len(Tail(s))] = s[Len(s)]
      BY <1>1, <1>3, <2>1
  <2> QED BY <1>2, <1>3, <1>6, <2>1, <2>2
<1> QED BY <1>1, <1>5, <1>6

(* What a report adds is a natural number, and nothing for a UE without a  *)
(* number.                                                                 *)
LEMMA AddsNat ==
  ASSUME NEW report \in Report, NEW u
  PROVE  Adds(report, u) \in Nat
<1>1. PICK S \in SUBSET UE : report \in [S -> Volumes \cup {NoValue}]
    BY DEF Report
<1> QED BY <1>1, QuotaAssumption DEF Adds

(* Counting some of the UEs of a report raises the sums by at most what    *)
(* counting all of them does.                                              *)
LEMMA SumsTyped ==
  ASSUME NEW report \in Report, NEW counted \in SUBSET UE, NEW old \in [UE -> Nat]
  PROVE  /\ Sums(old, report, counted) \in [UE -> Nat]
         /\ \A u \in UE : /\ Sums(old, report, counted)[u] <= old[u] + Adds(report, u)
                          /\ Sums(old, report, UE)[u] = old[u] + Adds(report, u)
BY AddsNat DEF Sums

LEMMA IInvInit == Init => IInv
<1> SUFFICES ASSUME Init PROVE IInv
    OBVIOUS
<1>1. TypeOK
    BY DEF Init, TypeOK, Low, High
<1>2. SwitchesArePaidFor
  <2>1. (Threshold + 1) * 0 + 0 <= 0
      BY QuotaAssumption
  <2> QED BY <2>1 DEF Init, SwitchesArePaidFor
<1>3. Visiting
    BY QuotaAssumption DEF Init, Visiting
<1>4. BelievedIsEnforced
    BY DEF Init, BelievedIsEnforced
<1> QED BY <1>1, <1>2, <1>3, <1>4 DEF IInv

-----------------------------------------------------------------------------
(* A report is added to the volumes, wholly or up to an item without a     *)
(* number; the history counts it wholly.                                   *)
LEMMA ReportKeepsIInv ==
  ASSUME IInv, NEW report \in Report, NEW before,
         Accumulate(report) \/ (before \in SUBSET DOMAIN report /\ AccumulateRaises(report, before))
  PROVE  IInv'
<1>1. \E counted \in SUBSET UE :
        volume' = Sums(volume, report, counted) /\ delivered' = Sums(delivered, report, UE)
    BY DEF Accumulate, AccumulateRaises, Report
<1>2. UNCHANGED <<ratio, link, applied, restarts, total, diverged>> /\ todo = {}
    BY DEF Accumulate, AccumulateRaises
<1>3. todo' \subseteq UE /\ overdue' \subseteq UE /\ todo' \cup overdue' = UE
      /\ (todo' # {} => overdue' = {})
    BY <1>2 DEF Accumulate, AccumulateRaises
<1>4. reports' \in Nat
    BY DEF Accumulate, AccumulateRaises, IInv, TypeOK
<1>5. PICK counted \in SUBSET UE :
        volume' = Sums(volume, report, counted) /\ delivered' = Sums(delivered, report, UE)
    BY <1>1
<1>6. volume' \in [UE -> Nat] /\ delivered' \in [UE -> Nat]
    BY <1>5, SumsTyped DEF IInv, TypeOK
<1>7. TypeOK'
    BY <1>2, <1>3, <1>4, <1>6 DEF IInv, TypeOK
<1>8. SwitchesArePaidFor'
  <2> SUFFICES ASSUME NEW u \in UE
      PROVE (Threshold + 1) * total[u] + volume'[u] <= delivered'[u]
      BY <1>2 DEF SwitchesArePaidFor
  <2>7. volume \in [UE -> Nat] /\ delivered \in [UE -> Nat]
      BY DEF IInv, TypeOK
  <2>5. volume'[u] <= volume[u] + Adds(report, u)
      BY <1>5, <2>7, SumsTyped
  <2>6. delivered'[u] = delivered[u] + Adds(report, u)
    <3>1. \A v \in UE : Sums(delivered, report, UE)[v] = delivered[v] + Adds(report, v)
        BY <2>7, SumsTyped
    <3> QED BY <1>5, <3>1
  <2>2. (Threshold + 1) * total[u] \in Nat /\ Adds(report, u) \in Nat
      BY AddsNat, QuotaAssumption DEF IInv, TypeOK
  <2>3. (Threshold + 1) * total[u] + volume[u] <= delivered[u]
      BY DEF IInv, SwitchesArePaidFor
  <2>4. volume[u] \in Nat /\ delivered[u] \in Nat /\ volume'[u] \in Nat /\ delivered'[u] \in Nat
      BY <1>6 DEF IInv, TypeOK
  <2> QED BY <2>2, <2>3, <2>4, <2>5, <2>6
<1>9. Visiting'
    BY <1>3 DEF Visiting
<1>10. BelievedIsEnforced'
    BY <1>2 DEF IInv, BelievedIsEnforced, Eventual
<1> QED BY <1>7, <1>8, <1>9, <1>10 DEF IInv

(* A switch: the limit is one of two, the volume is spent.                 *)
LEMMA SwitchEffect ==
  ASSUME IInv, NEW u \in UE, Switch(u)
  PROVE  /\ u \in todo
         /\ volume'[u] <= Threshold /\ volume' \in [UE -> Nat]
         /\ ratio'[u] \in Limits /\ ratio' \in [UE -> {0, Low, High}]
         /\ \A v \in UE : v # u => volume'[v] = volume[v] /\ ratio'[v] = ratio[v]
         /\ total' \in [UE -> Nat]
         /\ delivered' = delivered => SwitchesArePaidFor'
<1> USE DEF IInv, TypeOK
<1>1. /\ u \in todo
      /\ volume' = [volume EXCEPT ![u] = 0] /\ volume' \in [UE -> Nat]
      /\ ratio' = [ratio EXCEPT ![u] = Toggled(@)]
      /\ total' \in [UE -> Nat]
      /\ total' = [total EXCEPT ![u] = @ + 1] /\ volume[u] > Threshold
    BY DEF Switch
<1>2. Toggled(ratio[u]) \in Limits
    BY DEF Toggled, Limits
<1>3. ratio' \in [UE -> {0, Low, High}] /\ ratio'[u] \in Limits
    BY <1>1, <1>2 DEF Limits
<1>4. ASSUME delivered' = delivered, NEW v \in UE
      PROVE (Threshold + 1) * total'[v] + volume'[v] <= delivered[v]
  <2>1. (Threshold + 1) * total[v] + volume[v] <= delivered[v]
      BY DEF SwitchesArePaidFor
  <2>2. CASE v = u
    <3>1. (Threshold + 1) * (total[u] + 1) + 0 <= delivered[u]
        BY <1>1, <2>1, <2>2, OneMore, QuotaAssumption
    <3> QED BY <1>1, <2>2, <3>1
  <2>3. CASE v # u
      BY <1>1, <2>1, <2>3
  <2> QED BY <2>2, <2>3
<1>5. volume'[u] <= Threshold
    BY <1>1, QuotaAssumption
<1>6. \A v \in UE : v # u => volume'[v] = volume[v] /\ ratio'[v] = ratio[v]
    BY <1>1
<1>7. delivered' = delivered => SwitchesArePaidFor'
    BY <1>4 DEF SwitchesArePaidFor
<1> QED BY <1>1, <1>3, <1>5, <1>6, <1>7

(* The control loop at one UE: passed, switched and sent, or switched      *)
(* without a request.                                                      *)
LEMMA VisitKeepsIInv ==
  ASSUME IInv, NEW u \in UE, Pass(u) \/ Send(u) \/ SendLost(u) \/ SendRaises(u)
  PROVE  IInv'
<1> USE DEF IInv, bounds
<1>1. CASE Pass(u)
  <2>1. TypeOK'
      BY <1>1 DEF Pass, TypeOK, believed
  <2>2. SwitchesArePaidFor' /\ BelievedIsEnforced'
      BY <1>1 DEF Pass, SwitchesArePaidFor, BelievedIsEnforced, Eventual, believed
  <2>3. Visiting'
      BY <1>1, QuotaAssumption DEF Pass, Visiting, believed, TypeOK
  <2> QED BY <2>1, <2>2, <2>3
<1>2. CASE Send(u)
  <2>1. Switch(u) /\ UNCHANGED <<overdue, applied, bounds, delivered>>
      BY <1>2 DEF Send
  <2>2. link[u] \in Seq(Limits) /\ ratio'[u] \in Limits
      BY <2>1, SwitchEffect DEF TypeOK, Limits
  <2>3. /\ link' = [link EXCEPT ![u] = Append(link[u], ratio'[u])]
        /\ todo' = todo \ {u} /\ diverged' = diverged \ {u}
      BY <1>2 DEF Send
  <2>4. Append(link[u], ratio'[u]) \in Seq(Limits)
      BY <2>2, AppendIsLast
  <2>5. link' \in [UE -> Seq(Limits)]
      BY <2>3, <2>4 DEF TypeOK, Limits
  <2>6. TypeOK'
      BY <2>1, <2>3, <2>5, SwitchEffect DEF TypeOK, Limits
  <2>7. SwitchesArePaidFor'
      BY <2>1, SwitchEffect
  <2>8. Visiting'
    <3>2. /\ volume'[u] <= Threshold /\ volume' \in [UE -> Nat]
          /\ \A v \in UE : v # u => volume'[v] = volume[v]
        BY <2>1, SwitchEffect
    <3>1. \A v \in UE : volume'[v] > Threshold => v # u /\ volume[v] > Threshold
        BY <3>2, QuotaAssumption
    <3> QED BY <2>1, <2>3, <3>1 DEF Visiting
  <2>9. BelievedIsEnforced'
    <3> SUFFICES ASSUME NEW v \in UE, ratio'[v] # 0, v \notin diverged'
        PROVE Eventual(v)' = ratio'[v]
        BY DEF BelievedIsEnforced
    <3>1. CASE v = u
      <4>1. link'[u] = Append(link[u], ratio'[u])
          BY <2>3 DEF TypeOK
      <4>2. link'[u] # <<>> /\ link'[u][Len(link'[u])] = ratio'[u]
          BY <4>1, <2>2, AppendIsLast
      <4> QED BY <3>1, <4>2 DEF Eventual
    <3>2. CASE v # u
      <4>1. ratio'[v] = ratio[v]
          BY <2>1, <3>2, SwitchEffect
      <4>2. link'[v] = link[v] /\ applied'[v] = applied[v]
          BY <2>1, <2>3, <3>2 DEF TypeOK
      <4> QED BY <4>1, <4>2, <2>3, <3>2 DEF BelievedIsEnforced, Eventual
    <3> QED BY <3>1, <3>2
  <2> QED BY <2>6, <2>7, <2>8, <2>9
<1>3. CASE SendLost(u) \/ SendRaises(u)
  <2>1. Switch(u) /\ UNCHANGED <<link, applied, bounds, delivered>>
        /\ diverged' = diverged \cup {u}
      BY <1>3 DEF SendLost, SendRaises
  <2>2. /\ todo' \subseteq UE /\ overdue' \subseteq UE
        /\ todo' \cup overdue' = (todo \cup overdue) \ {u}
        /\ todo' # {} => overdue' = {}
      BY <1>3, <2>1, SwitchEffect DEF SendLost, SendRaises, TypeOK, Visiting
  <2>3. TypeOK'
      BY <2>1, <2>2, SwitchEffect DEF TypeOK
  <2>4. SwitchesArePaidFor'
      BY <2>1, SwitchEffect
  <2>5. Visiting'
    <3>2. /\ volume'[u] <= Threshold /\ volume' \in [UE -> Nat]
          /\ \A v \in UE : v # u => volume'[v] = volume[v]
        BY <2>1, SwitchEffect
    <3>1. \A v \in UE : volume'[v] > Threshold => v # u /\ volume[v] > Threshold
        BY <3>2, QuotaAssumption
    <3> QED BY <2>2, <3>1 DEF Visiting
  <2>6. BelievedIsEnforced'
    <3> SUFFICES ASSUME NEW v \in UE, ratio'[v] # 0, v \notin diverged'
        PROVE Eventual(v)' = ratio'[v]
        BY DEF BelievedIsEnforced
    <3>1. v # u /\ ratio'[v] = ratio[v]
        BY <2>1, SwitchEffect DEF TypeOK
    <3> QED BY <2>1, <3>1 DEF BelievedIsEnforced, Eventual
  <2> QED BY <2>3, <2>4, <2>5, <2>6
<1> QED BY <1>1, <1>2, <1>3

(* The E2 node takes the first request of a UE and leaves the last, unless *)
(* there is only one.                                                      *)
LEMMA NodeKeepsIInv ==
  ASSUME IInv, NEW u \in UE, Apply(u) \/ Refuse(u)
  PROVE  IInv'
<1> USE DEF IInv
<1>1. /\ link[u] # <<>> /\ link' = [link EXCEPT ![u] = Tail(link[u])]
      /\ UNCHANGED <<volume, ratio, total, todo, overdue, reports, restarts, delivered>>
    BY DEF Apply, Refuse, believed, bounds
<1>2. link[u] \in Seq(Limits)
    BY DEF TypeOK, Limits
<1>3. /\ Head(link[u]) \in Limits /\ Tail(link[u]) \in Seq(Limits)
      /\ Tail(link[u]) # <<>> =>
           Tail(link[u])[Len(Tail(link[u]))] = link[u][Len(link[u])] /\ Len(link[u]) # 1
      /\ Tail(link[u]) = <<>> => Head(link[u]) = link[u][Len(link[u])] /\ Len(link[u]) = 1
    BY <1>1, <1>2, TailKeepsLast
<1>4. /\ applied' \in [UE -> {0, Low, High}] /\ diverged' \subseteq UE
      /\ diverged \subseteq diverged'
      /\ \A v \in UE \ {u} : applied'[v] = applied[v]
    BY <1>3 DEF Apply, Refuse, TypeOK, Limits
<1>5. link' \in [UE -> Seq({Low, High})]
    BY <1>1, <1>3 DEF TypeOK, Limits
<1>6. TypeOK'
    BY <1>1, <1>4, <1>5 DEF TypeOK
<1>7. SwitchesArePaidFor' /\ Visiting'
    BY <1>1 DEF SwitchesArePaidFor, Visiting
<1>8. BelievedIsEnforced'
  <2> SUFFICES ASSUME NEW v \in UE, ratio[v] # 0, v \notin diverged'
      PROVE Eventual(v)' = ratio[v]
      BY <1>1 DEF BelievedIsEnforced
  <2>1. Eventual(v) = ratio[v]
      BY <1>4 DEF BelievedIsEnforced
  <2>2. CASE v # u
      BY <1>1, <1>4, <2>1, <2>2 DEF Eventual, TypeOK
  <2>3. CASE v = u
    <3>1. link'[u] = Tail(link[u]) /\ link[u][Len(link[u])] = ratio[u]
        BY <1>1, <2>1, <2>3 DEF Eventual, TypeOK
    <3>2. CASE Tail(link[u]) # <<>>
        BY <1>3, <2>3, <3>1, <3>2 DEF Eventual
    <3>3. CASE Tail(link[u]) = <<>>
      <4>1. applied'[u] = Head(link[u])
          BY <1>3, <2>3, <3>3 DEF Apply, Refuse, TypeOK
      <4> QED BY <1>3, <2>3, <3>1, <3>3, <4>1 DEF Eventual
    <3> QED BY <3>2, <3>3
  <2> QED BY <2>2, <2>3
<1> QED BY <1>6, <1>7, <1>8

LEMMA RestartKeepsIInv == IInv /\ Restart => IInv'
<1> SUFFICES ASSUME IInv, Restart PROVE IInv'
    OBVIOUS
<1> USE QuotaAssumption DEF IInv, Restart
<1>1. TypeOK'
    BY DEF TypeOK
<1>2. SwitchesArePaidFor'
  <2> SUFFICES ASSUME NEW u \in UE PROVE (Threshold + 1) * total[u] + 0 <= delivered[u]
      BY DEF SwitchesArePaidFor
  <2>1. (Threshold + 1) * total[u] \in Nat /\ volume[u] \in Nat /\ delivered[u] \in Nat
      BY DEF TypeOK
  <2> QED BY <2>1 DEF SwitchesArePaidFor
<1>3. Visiting' /\ BelievedIsEnforced'
    BY DEF Visiting, BelievedIsEnforced
<1> QED BY <1>1, <1>2, <1>3

LEMMA IInvStep == IInv /\ [Next]_vars => IInv'
<1> SUFFICES ASSUME IInv, [Next]_vars PROVE IInv'
    OBVIOUS
<1>1. CASE UNCHANGED vars
  <2>1. TypeOK' /\ Visiting'
      BY <1>1 DEF vars, believed, bounds, IInv, TypeOK, Visiting
  <2>2. SwitchesArePaidFor' /\ BelievedIsEnforced'
      BY <1>1 DEF vars, believed, bounds, IInv, SwitchesArePaidFor, BelievedIsEnforced, Eventual
  <2> QED BY <2>1, <2>2 DEF IInv
<1>2. CASE Done
    BY <1>1, <1>2 DEF Done
<1> QED BY <1>1, <1>2, ReportKeepsIInv, VisitKeepsIInv, NodeKeepsIInv, RestartKeepsIInv DEF Next

THEOREM IInvHolds == Spec => []IInv
BY IInvInit, IInvStep, PTL DEF Spec

(* Volumes and histories are numbers, limits are 10 or 100 percent.        *)
THEOREM TypeCorrect == Spec => []TypeOK
<1>1. IInv => TypeOK
    BY DEF IInv
<1> QED BY <1>1, IInvHolds, PTL

(* Every switch of a limit is paid for by reported volume of its own, for  *)
(* any threshold and reports (the callback of simple_xapp).                *)
THEOREM SwitchesArePaidForHolds == Spec => []SwitchesArePaidFor
<1>1. IInv => SwitchesArePaidFor
    BY DEF IInv
<1> QED BY <1>1, IInvHolds, PTL

(* A UE over the threshold was left behind by a callback that raised.      *)
THEOREM NobodyOverdueHolds == Spec => []NobodyOverdue
<1>1. IInv => NobodyOverdue
    BY DEF IInv, Visiting, NobodyOverdue
<1> QED BY <1>1, IInvHolds, PTL

(* The limit the xApp believes in is the one the E2 node will enforce,     *)
(* unless the last request of the UE was lost, refused or not sent.        *)
THEOREM BelievedIsEnforcedHolds == Spec => []BelievedIsEnforced
<1>1. IInv => BelievedIsEnforced
    BY DEF IInv
<1> QED BY <1>1, IInvHolds, PTL

(* The same of the behaviours the run explores. *)
THEOREM QuotaInRun ==
  ControlSpec => [](SwitchesArePaidFor /\ NobodyOverdue /\ BelievedIsEnforced)
<1>1. ControlInit => IInv
    BY IInvInit DEF ControlInit
<1>2. IInv /\ [ControlNext]_allVars => IInv'
    BY IInvStep DEF ControlNext, QuotaStep, LoopStep, LoopFrame, EncodingStep, PlmnStep, allVars
<1>3. IInv => SwitchesArePaidFor /\ NobodyOverdue /\ BelievedIsEnforced
    BY DEF IInv, Visiting, TypeOK, NobodyOverdue
<1> QED BY <1>1, <1>2, <1>3, PTL DEF ControlSpec

-----------------------------------------------------------------------------
(* The controllers. *)

(* While requests are sent, late ones are those of this round so far: a    *)
(* new round begins only if running was set at its top, and then no        *)
(* request had been late.                                                  *)
LateThisRound ==
  /\ running => late = 0
  /\ thread = "send" => late < step
  /\ thread = "sleep" => late <= step

LoopInv == Loop!TypeOK /\ LateThisRound /\ Loop!LateWithinRound

(* Every program sends at least one request per round. *)
LEMMA Programs ==
  ASSUME NEW a \in Loop!Apps
  PROVE  Len(a.ratios) \in Nat /\ Len(a.ratios) >= 1
<1>1. CASE a = Loop!RcImplemented
    BY <1>1 DEF Loop!RcImplemented
<1>2. CASE a = Loop!SimpleRc
    BY <1>2 DEF Loop!SimpleRc
<1>3. CASE a = Loop!SimpleCcc
    BY <1>3 DEF Loop!SimpleCcc
<1>4. CASE a = Loop!SimpleRcHo
    BY <1>4 DEF Loop!SimpleRcHo
<1> QED BY <1>1, <1>2, <1>3, <1>4 DEF Loop!Apps

LEMMA LoopInvInit == Loop!Init => LoopInv
<1> SUFFICES ASSUME Loop!Init PROVE LoopInv
    OBVIOUS
<1>1. Len(app.ratios) \in Nat /\ Len(app.ratios) >= 1
    BY Programs DEF Loop!Init
<1>2. locked \in BOOLEAN /\ serving \in BOOLEAN
    BY DEF Loop!Init
<1>3. LateThisRound /\ Loop!LateWithinRound
    BY <1>1 DEF Loop!Init, LateThisRound, Loop!LateWithinRound
<1> QED BY <1>1, <1>2, <1>3 DEF Loop!Init, LoopInv, Loop!TypeOK

LEMMA LoopInvStep == LoopInv /\ [Loop!Next]_loopVars => LoopInv'
<1> SUFFICES ASSUME LoopInv, [Loop!Next]_loopVars PROVE LoopInv'
    OBVIOUS
<1>1. Len(app.ratios) \in Nat /\ Len(app.ratios) >= 1
    BY Programs DEF LoopInv, Loop!TypeOK
<1> USE DEF Loop!httpVars, LoopInv, LateThisRound, Loop!TypeOK, Loop!LateWithinRound
<1>2. CASE Loop!LoopTop
    BY <1>1, <1>2 DEF Loop!LoopTop
<1>3. CASE Loop!SendRequest
    BY <1>1, <1>3 DEF Loop!SendRequest
<1>4. CASE Loop!SendRaises
    BY <1>1, <1>4 DEF Loop!SendRaises
<1>5. CASE Loop!Wake
    BY <1>1, <1>5 DEF Loop!Wake
<1>6. CASE Loop!Stop \/ Loop!Signal \/ Loop!UpdateCounters \/ Loop!Scrape \/ Loop!Answer
  <2>4. CASE Loop!UpdateCounters \/ Loop!Scrape \/ Loop!Answer
    <3>1. UNCHANGED <<app, broken, thread, step, running, main, rmrOpen, late>>
        BY <2>4 DEF Loop!UpdateCounters, Loop!Scrape, Loop!Answer
    <3>2. locked' \in BOOLEAN /\ serving' \in BOOLEAN
        BY <2>4, Zenon DEF Loop!UpdateCounters, Loop!Scrape, Loop!Answer
    <3> QED BY <1>1, <3>1, <3>2
  <2>1. CASE Loop!Signal \/ Loop!CloseHttp \/ Loop!Join
      BY <1>1, <2>1 DEF Loop!Signal, Loop!CloseHttp, Loop!Join, Loop!Proceed
  <2>2. CASE Loop!CloseRmr
      BY <1>1, <2>2 DEF Loop!CloseRmr, Loop!Proceed
  <2>3. CASE Loop!ClearRunning
      BY <1>1, <2>3 DEF Loop!ClearRunning, Loop!Proceed
  <2> QED BY <1>6, <2>1, <2>2, <2>3, <2>4 DEF Loop!Stop
<1>7. CASE Loop!Crash
    BY <1>1, <1>7 DEF Loop!Crash
<1>8. CASE Loop!Exited \/ Loop!Idle \/ Loop!Blocked \/ UNCHANGED loopVars
    BY <1>1, <1>8 DEF Loop!Exited, Loop!Idle, Loop!Blocked, Loop!vars, loopVars
<1> QED BY <1>2, <1>3, <1>4, <1>5, <1>6, <1>7, <1>8 DEF Loop!Next, Loop!Controller

(* A controller that has been told to stop sends the requests of one round *)
(* at most, whatever statement the signal found it at.                     *)
THEOREM LateWithinRoundHolds == ControlSpec => []LateWithinRound
<1>1. ControlInit => LoopInv
    BY LoopInvInit DEF ControlInit
<1>2. LoopInv /\ [ControlNext]_allVars => LoopInv'
    BY LoopInvStep DEF ControlNext, QuotaStep, LoopStep, LoopFrame, EncodingStep, PlmnStep, allVars
<1>3. LoopInv => LateWithinRound
    BY DEF LoopInv, LateWithinRound
<1> QED BY <1>1, <1>2, <1>3, PTL DEF ControlSpec
-----------------------------------------------------------------------------
(* The PLMN conversion. *)

Digit == 0..9
Half == 0..15

(* A word is its nibbles, and so is the 24-bit PLMN. *)
LEMMA NibblesOfWord ==
  ASSUME NEW a \in Half, NEW b \in Half, NEW c \in Half, NEW d \in Half
  PROVE  LET w == Plmns!Word(a, b, c, d) IN
         /\ w \in Nat /\ w >= 0
         /\ Plmns!Nibble(w, 0) = d /\ Plmns!Nibble(w, 1) = c /\ Plmns!Nibble(w, 2) = b
         /\ Plmns!Nibble(w, 3) = a
         /\ w \div 256 = 16 * a + b
BY DEF Half, Plmns!Word, Plmns!Nibble

LEMMA SplitNibble ==
  ASSUME NEW q \in Nat, NEW r \in Half
  PROVE  (16 * q + r) \div 16 = q /\ (16 * q + r) % 16 = r
BY DEF Half

LEMMA Weights ==
  /\ 16^0 = 1 /\ 16^1 = 16 /\ 16^2 = 256 /\ 16^3 = 4096 /\ 16^4 = 65536 /\ 16^5 = 1048576
  /\ \A q \in Nat :
       /\ q \div 1 = q /\ q \div 256 = (q \div 16) \div 16
       /\ q \div 4096 = (q \div 256) \div 16 /\ q \div 65536 = (q \div 4096) \div 16
       /\ q \div 1048576 = (q \div 65536) \div 16
OBVIOUS

LEMMA NibblesOfPlmn ==
  ASSUME NEW x \in Half, NEW y \in Half,
         NEW a \in Half, NEW b \in Half, NEW c \in Half, NEW d \in Half
  PROVE  LET p == 65536 * (16 * x + y) + Plmns!Word(a, b, c, d) IN
         /\ Plmns!Nibble(p, 0) = d /\ Plmns!Nibble(p, 1) = c /\ Plmns!Nibble(p, 2) = b
         /\ Plmns!Nibble(p, 3) = a /\ Plmns!Nibble(p, 4) = y /\ Plmns!Nibble(p, 5) = x
<1> DEFINE p5 == 16 * 0 + x
           p4 == 16 * p5 + y
           p3 == 16 * p4 + a
           p2 == 16 * p3 + b
           p1 == 16 * p2 + c
           p0 == 16 * p1 + d
<1>1. p5 \in Nat /\ p4 \in Nat /\ p3 \in Nat /\ p2 \in Nat /\ p1 \in Nat /\ p0 \in Nat
    BY DEF Half
<1>2. p0 = 65536 * (16 * x + y) + Plmns!Word(a, b, c, d)
    BY DEF Half, Plmns!Word
<1>3. /\ p0 \div 16 = p1 /\ p0 % 16 = d /\ p1 \div 16 = p2 /\ p1 % 16 = c
      /\ p2 \div 16 = p3 /\ p2 % 16 = b /\ p3 \div 16 = p4 /\ p3 % 16 = a
      /\ p4 \div 16 = p5 /\ p4 % 16 = y /\ p5 % 16 = x
    BY <1>1, SplitNibble DEF Half
<1> HIDE DEF p0, p1, p2, p3, p4, p5
<1>4. /\ p0 \div 1 = p0 /\ p0 \div 256 = p2 /\ p0 \div 4096 = p3 /\ p0 \div 65536 = p4
      /\ p0 \div 1048576 = p5
    BY <1>1, <1>3, Weights
<1>5. /\ Plmns!Nibble(p0, 0) = d /\ Plmns!Nibble(p0, 1) = c /\ Plmns!Nibble(p0, 2) = b
      /\ Plmns!Nibble(p0, 3) = a /\ Plmns!Nibble(p0, 4) = y /\ Plmns!Nibble(p0, 5) = x
    BY <1>3, <1>4, Weights DEF Plmns!Nibble
<1> QED BY <1>2, <1>5

(* The MNC of a string, with the filler in front of two digits. *)
MncTop(s) == IF Len(s) = 5 THEN Plmns!F ELSE s[4]
MncMid(s) == IF Len(s) = 5 THEN s[4] ELSE s[5]
MncLow(s) == IF Len(s) = 5 THEN s[5] ELSE s[6]

ValidText(s) == s \in Seq(Digit) /\ Len(s) \in {5, 6}

(* The two words of a valid string hold its digits. *)
LEMMA WordsOfText ==
  ASSUME NEW s, ValidText(s)
  PROVE  /\ s[1] \in Digit /\ s[2] \in Digit /\ s[3] \in Digit
         /\ MncTop(s) \in Digit \cup {Plmns!F} /\ MncMid(s) \in Digit /\ MncLow(s) \in Digit
         /\ Plmns!StringToMcc(SubSeq(s, 1, 3)) = Plmns!Word(Plmns!F, s[1], s[2], s[3])
         /\ Plmns!StringToMnc(SubSeq(s, 4, Len(s)))
              = Plmns!Word(Plmns!F, MncTop(s), MncMid(s), MncLow(s))
<1>1. s \in Seq(Digit) /\ Len(s) \in {5, 6}
    BY DEF ValidText
<1>2. /\ s[1] \in Digit /\ s[2] \in Digit /\ s[3] \in Digit
      /\ MncTop(s) \in Digit \cup {Plmns!F} /\ MncMid(s) \in Digit /\ MncLow(s) \in Digit
    BY <1>1 DEF MncTop, MncMid, MncLow
<1>3. \A t \in Seq(Digit) : Plmns!AllDigits(t)
    BY PlmnAssumption DEF Plmns!AllDigits, Digit, Plmns!ToSet
<1>4. ASSUME NEW m \in 1..6, NEW n \in 1..6, m <= n, n <= Len(s)
      PROVE  /\ SubSeq(s, m, n) \in Seq(Digit) /\ Len(SubSeq(s, m, n)) = n - m + 1
             /\ \A i \in 1..(n - m + 1) : SubSeq(s, m, n)[i] = s[m + i - 1]
    BY <1>1, <1>4
<1>5. Plmns!StringToMcc(SubSeq(s, 1, 3)) = Plmns!Word(Plmns!F, s[1], s[2], s[3])
  <2> DEFINE t == SubSeq(s, 1, 3)
  <2>1. t \in Seq(Digit) /\ Len(t) = 3 /\ t[1] = s[1] /\ t[2] = s[2] /\ t[3] = s[3]
      BY <1>1, <1>4
  <2> HIDE DEF t
  <2>2. Plmns!StringToMcc(t) = Plmns!Word(Plmns!F, s[1], s[2], s[3])
      BY <1>3, <2>1 DEF Plmns!StringToMcc
  <2> QED BY <2>2 DEF t
<1>6. Plmns!StringToMnc(SubSeq(s, 4, Len(s)))
        = Plmns!Word(Plmns!F, MncTop(s), MncMid(s), MncLow(s))
  <2> DEFINE t == SubSeq(s, 4, Len(s))
  <2>1. t \in Seq(Digit) /\ Len(t) = Len(s) - 3 /\ t[1] = s[4] /\ t[2] = s[5]
        /\ (Len(s) = 6 => t[3] = s[6])
      BY <1>1, <1>4
  <2> HIDE DEF t
  <2>2. Plmns!StringToMnc(t) = Plmns!Word(Plmns!F, MncTop(s), MncMid(s), MncLow(s))
      BY <1>1, <1>3, <2>1 DEF Plmns!StringToMnc, MncTop, MncMid, MncLow
  <2> QED BY <2>2 DEF t
<1> QED BY <1>2, <1>5, <1>6

(* The PLMN of a valid string, nibble by nibble. *)
LEMMA BcdOfText ==
  ASSUME NEW s, ValidText(s)
  PROVE  LET p == Plmns!StringToBcd(s) IN
         /\ Plmns!Nibble(p, 0) = MncMid(s) /\ Plmns!Nibble(p, 1) = MncLow(s)
         /\ Plmns!Nibble(p, 2) = s[3] /\ Plmns!Nibble(p, 3) = MncTop(s)
         /\ Plmns!Nibble(p, 4) = s[1] /\ Plmns!Nibble(p, 5) = s[2]
<1> DEFINE mcc == Plmns!Word(Plmns!F, s[1], s[2], s[3])
           mnc == Plmns!Word(Plmns!F, MncTop(s), MncMid(s), MncLow(s))
<1>1. /\ s[1] \in Half /\ s[2] \in Half /\ s[3] \in Half /\ Plmns!F \in Half
      /\ MncTop(s) \in Half /\ MncMid(s) \in Half /\ MncLow(s) \in Half
      /\ MncTop(s) = 15 \/ MncTop(s) \in 0..9
    BY WordsOfText DEF Digit, Half, Plmns!F
<1>2. /\ mcc \in Nat /\ mnc \in Nat
      /\ Plmns!Nibble(mcc, 0) = s[3] /\ Plmns!Nibble(mcc, 1) = s[2] /\ Plmns!Nibble(mcc, 2) = s[1]
      /\ Plmns!Nibble(mnc, 0) = MncLow(s) /\ Plmns!Nibble(mnc, 1) = MncMid(s)
      /\ Plmns!Nibble(mnc, 2) = MncTop(s)
      /\ mnc \div 256 = 16 * Plmns!F + MncTop(s)
    BY <1>1, NibblesOfWord
<1>3. Plmns!StringToBcd(s) = Plmns!MccMncToPlmn(mcc, mnc)
  <2>1. mcc # Plmns!None /\ mnc # Plmns!None
      BY <1>2 DEF Plmns!None
  <2> QED BY <2>1, WordsOfText DEF Plmns!StringToBcd, ValidText
<1> HIDE DEF mcc, mnc
<1>4. (IF mnc \div 256 = 255 THEN Plmns!F ELSE Plmns!Nibble(mnc, 2)) = MncTop(s)
    BY <1>1, <1>2 DEF Plmns!F
<1>5. Plmns!MccMncToPlmn(mcc, mnc)
        = 65536 * (16 * s[2] + s[1]) + Plmns!Word(MncTop(s), s[3], MncLow(s), MncMid(s))
    BY <1>2, <1>4 DEF Plmns!MccMncToPlmn
<1> QED BY <1>1, <1>3, <1>5, NibblesOfPlmn, SMTT(40)

(* The words are read back from the PLMN. *)
LEMMA WordsReadBack ==
  ASSUME NEW s, ValidText(s)
  PROVE  LET p == Plmns!StringToBcd(s) IN
         /\ Plmns!BcdToMcc(p) = Plmns!StringToMcc(SubSeq(s, 1, 3))
         /\ Plmns!BcdToMnc(p) = Plmns!StringToMnc(SubSeq(s, 4, Len(s)))
BY BcdOfText, WordsOfText DEF Plmns!BcdToMcc, Plmns!BcdToMnc

(* The octets hold two nibbles each, the first digit in the low one. *)
LEMMA OctetDigits ==
  ASSUME NEW lo \in Half, NEW hi \in Half
  PROVE  (lo + 16 * hi) % 16 = lo /\ (lo + 16 * hi) \div 16 = hi
         /\ (16 * hi + lo) % 16 = lo /\ (16 * hi + lo) \div 16 = hi
BY SplitNibble DEF Half

LEMMA DigitsOfText ==
  ASSUME NEW s, ValidText(s)
  PROVE  Plmns!Digits(Plmns!PlmnToBytes(Plmns!StringToBcd(s))) = Plmns!Identity(s)
<1> DEFINE p == Plmns!StringToBcd(s)
           mcc == Plmns!BcdToMcc(p)
           mnc == Plmns!BcdToMnc(p)
<1>1. /\ s[1] \in Half /\ s[2] \in Half /\ s[3] \in Half /\ Plmns!F \in Half
      /\ MncTop(s) \in Half /\ MncMid(s) \in Half /\ MncLow(s) \in Half
    BY WordsOfText DEF Digit, Half, Plmns!F
<1>2. /\ mcc = Plmns!Word(Plmns!F, s[1], s[2], s[3])
      /\ mnc = Plmns!Word(Plmns!F, MncTop(s), MncMid(s), MncLow(s))
    BY WordsReadBack, WordsOfText
<1>3. /\ Plmns!Nibble(mcc, 0) = s[3] /\ Plmns!Nibble(mcc, 1) = s[2] /\ Plmns!Nibble(mcc, 2) = s[1]
      /\ Plmns!Nibble(mnc, 0) = MncLow(s) /\ Plmns!Nibble(mnc, 1) = MncMid(s)
      /\ Plmns!Nibble(mnc, 2) = MncTop(s)
    BY <1>1, <1>2, NibblesOfWord
<1>4. Plmns!PlmnToBytes(p)
        = <<s[1] + 16 * s[2], s[3] + 16 * MncTop(s), 16 * MncLow(s) + MncMid(s)>>
    BY <1>3 DEF Plmns!PlmnToBytes
<1>5. Plmns!Digits(<<s[1] + 16 * s[2], s[3] + 16 * MncTop(s), 16 * MncLow(s) + MncMid(s)>>)
        = <<s[1], s[2], s[3], MncTop(s), MncMid(s), MncLow(s)>>
    BY <1>1, OctetDigits DEF Plmns!Digits
<1>6. <<s[1], s[2], s[3], MncTop(s), MncMid(s), MncLow(s)>> = Plmns!Identity(s)
  <2>1. CASE Len(s) = 5
      BY <2>1 DEF MncTop, MncMid, MncLow, Plmns!Identity
  <2>2. CASE Len(s) = 6
    <3>1. s \in Seq(Digit)
        BY DEF ValidText
    <3>2. s = <<s[1], s[2], s[3], s[4], s[5], s[6]>>
        BY <2>2, <3>1
    <3> QED BY <2>2, <3>2 DEF MncTop, MncMid, MncLow, Plmns!Identity
  <2> QED BY <2>1, <2>2 DEF ValidText
<1> QED BY <1>4, <1>5, <1>6

(* Every other string has the PLMN 000000. *)
LEMMA InvalidText ==
  ASSUME NEW s \in Seq(PlmnChars), ~(Len(s) \in {5, 6} /\ Plmns!AllDigits(s))
  PROVE  Plmns!StringToBcd(s) = 0
<1>1. CASE Len(s) \notin {5, 6}
    BY <1>1 DEF Plmns!StringToBcd
<1>2. CASE Len(s) \in {5, 6} /\ ~Plmns!AllDigits(s)
  <2>1. PICK i \in 1..Len(s) : s[i] = NoDigit
      BY <1>2 DEF Plmns!AllDigits, Plmns!ToSet
  <2>2. CASE i <= 3
    <3> DEFINE t == SubSeq(s, 1, 3)
    <3>1. Len(t) = 3 /\ i \in DOMAIN t /\ t[i] = NoDigit
        BY <1>2, <2>1, <2>2
    <3> HIDE DEF t
    <3>2. Plmns!StringToMcc(t) = Plmns!None
        BY <3>1 DEF Plmns!StringToMcc, Plmns!AllDigits, Plmns!ToSet
    <3> QED BY <3>2 DEF t, Plmns!StringToBcd
  <2>3. CASE i > 3
    <3> DEFINE t == SubSeq(s, 4, Len(s))
    <3>1. (i - 3) \in DOMAIN t /\ t[i - 3] = NoDigit
        BY <1>2, <2>1, <2>3
    <3> HIDE DEF t
    <3>2. Plmns!StringToMnc(t) = Plmns!None
        BY <3>1 DEF Plmns!StringToMnc, Plmns!AllDigits, Plmns!ToSet
    <3> QED BY <3>2 DEF t, Plmns!StringToBcd
  <2> QED BY <2>2, <2>3
<1> QED BY <1>1, <1>2

LEMMA DigitsOfZero ==
  Plmns!Digits(Plmns!PlmnToBytes(0)) = [i \in 1..6 |-> 0]
<1>1. \A k \in 0..5 : Plmns!Nibble(0, k) = 0
  <2>1. 0 = 65536 * (16 * 0 + 0) + Plmns!Word(0, 0, 0, 0) /\ 0 \in Half
      BY DEF Plmns!Word, Half
  <2> QED BY <2>1, NibblesOfPlmn
<1>2. Plmns!BcdToMcc(0) = Plmns!Word(15, 0, 0, 0) /\ Plmns!BcdToMnc(0) = Plmns!Word(15, 0, 0, 0)
    BY <1>1 DEF Plmns!BcdToMcc, Plmns!BcdToMnc, Plmns!F
<1>3. \A k \in 0..2 : Plmns!Nibble(Plmns!Word(15, 0, 0, 0), k) = 0
  <2> DEFINE w == Plmns!Word(15, 0, 0, 0)
  <2>1. Plmns!Nibble(w, 0) = 0 /\ Plmns!Nibble(w, 1) = 0 /\ Plmns!Nibble(w, 2) = 0
    <3>1. 15 \in Half /\ 0 \in Half
        BY DEF Half
    <3> QED BY <3>1, NibblesOfWord
  <2> HIDE DEF w
  <2>2. \A k \in 0..2 : Plmns!Nibble(w, k) = 0
      BY <2>1
  <2> QED BY <2>2 DEF w
<1>4. Plmns!PlmnToBytes(0) = <<0, 0, 0>>
    BY <1>2, <1>3 DEF Plmns!PlmnToBytes
<1>5. Plmns!Digits(<<0, 0, 0>>) = <<0, 0, 0, 0, 0, 0>>
    BY DEF Plmns!Digits
<1> QED BY <1>4, <1>5

(* The two functions have been applied as far as the program counter says. *)
PlmnInv ==
  /\ text \in Seq(PlmnChars)
  /\ plmnPc \in {"text", "plmn", "octets"}
  /\ plmnPc # "text" => plmn = Plmns!StringToBcd(text)
  /\ plmnPc = "octets" => octets = Plmns!PlmnToBytes(plmn)

LEMMA PlmnInvStep == PlmnInv /\ [Plmns!Next]_plmnVars => PlmnInv'
BY DEF PlmnInv, plmnVars, Plmns!Next, Plmns!ToPlmn, Plmns!ToOctets, Plmns!Done, Plmns!vars

LEMMA PlmnInvSuffices == PlmnInv => PlmnSurvives
<1> SUFFICES ASSUME PlmnInv PROVE PlmnSurvives
    OBVIOUS
<1>1. Plmns!Valid <=> Len(text) \in {5, 6} /\ Plmns!AllDigits(text)
    BY DEF Plmns!Valid
<1>2. ASSUME Plmns!Valid PROVE ValidText(text)
  <2>1. ASSUME NEW i \in 1..Len(text) PROVE text[i] \in Digit
    <3>1. text[i] \in PlmnChars
        BY DEF PlmnInv
    <3>2. text[i] # NoDigit
        BY <1>2 DEF PlmnInv, Plmns!Valid, Plmns!AllDigits, Plmns!ToSet
    <3> QED BY <3>1, <3>2, PlmnAssumption DEF Digit
  <2> QED BY <1>2, <2>1 DEF PlmnInv, Plmns!Valid, ValidText
<1>3. Plmns!ReadsBack
    BY <1>1, <1>2, DigitsOfText, InvalidText, DigitsOfZero DEF PlmnInv, Plmns!ReadsBack
<1>4. Plmns!WordsSurvive
    BY <1>2, WordsReadBack DEF PlmnInv, Plmns!WordsSurvive
<1> QED BY <1>3, <1>4 DEF PlmnSurvives

(* A PLMN string of any characters is read back from its octets, digit by  *)
(* digit, or is no PLMN and becomes 000000.                                *)
THEOREM PlmnSurvivesHolds == ControlSpec => []PlmnSurvives
<1>1. ControlInit => PlmnInv
  <2> SUFFICES ASSUME ControlInit PROVE PlmnInv
      OBVIOUS
  <2>1. PICK n \in {0, 4, 5, 6, 7} : text \in [1..n -> PlmnChars]
      BY DEF ControlInit, Plmns!Init
  <2>2. text \in Seq(PlmnChars)
      BY <2>1
  <2> QED BY <2>2 DEF ControlInit, Plmns!Init, PlmnInv
<1>2. PlmnInv /\ [ControlNext]_allVars => PlmnInv'
    BY PlmnInvStep DEF ControlNext, QuotaStep, LoopStep, LoopFrame, EncodingStep, PlmnStep,
                       PlmnInv, plmnVars, allVars
<1> QED BY <1>1, <1>2, PlmnInvSuffices, PTL DEF ControlSpec

-----------------------------------------------------------------------------
(* Requests and their reader: octets that stand somewhere in a frame, the  *)
(* length determinants, the five IEs one behind the other, and the frames  *)
(* of both modules.                                                        *)

(* s stands in f from position `at` on. *)
Holds(f, at, s) ==
  \A i \in 1..Len(s) : at + i - 1 \in 1..Len(f) /\ f[at + i - 1] = s[i]

LEMMA HoldsItself ==
  ASSUME NEW f \in Seq(Int)
  PROVE  Holds(f, 1, f)
BY DEF Holds

LEMMA HoldsParts ==
  ASSUME NEW f \in Seq(Int), NEW at \in Int, NEW s \in Seq(Int), NEW t \in Seq(Int)
  PROVE  Holds(f, at, s \o t) <=> Holds(f, at, s) /\ Holds(f, at + Len(s), t)
<1>1. /\ Len(s \o t) = Len(s) + Len(t) /\ Len(s) \in Nat /\ Len(t) \in Nat
      /\ \A i \in 1..Len(s) : (s \o t)[i] = s[i]
      /\ \A i \in 1..Len(t) : (s \o t)[Len(s) + i] = t[i]
    OBVIOUS
<1>2. ASSUME Holds(f, at, s \o t) PROVE Holds(f, at, s)
    BY <1>1, <1>2 DEF Holds
<1>3. ASSUME Holds(f, at, s \o t), NEW i \in 1..Len(t)
      PROVE  at + Len(s) + i - 1 \in 1..Len(f) /\ f[at + Len(s) + i - 1] = t[i]
  <2>1. Len(s) + i \in 1..Len(s \o t)
      BY <1>1
  <2>2. at + (Len(s) + i) - 1 \in 1..Len(f) /\ f[at + (Len(s) + i) - 1] = t[i]
      BY <1>1, <1>3, <2>1 DEF Holds
  <2>3. at + (Len(s) + i) - 1 = at + Len(s) + i - 1
      BY <1>1
  <2> QED BY <2>2, <2>3
<1>4. ASSUME Holds(f, at, s), Holds(f, at + Len(s), t), NEW i \in 1..Len(s \o t)
      PROVE  at + i - 1 \in 1..Len(f) /\ f[at + i - 1] = (s \o t)[i]
  <2>1. CASE i <= Len(s)
      BY <1>1, <1>4, <2>1 DEF Holds
  <2>2. CASE i > Len(s)
    <3> DEFINE k == i - Len(s)
    <3>1. k \in 1..Len(t) /\ Len(s) + k = i /\ at + Len(s) + k - 1 = at + i - 1
        BY <1>1, <2>2
    <3> HIDE DEF k
    <3>2. at + Len(s) + k - 1 \in 1..Len(f) /\ f[at + Len(s) + k - 1] = t[k]
        BY <1>4, <3>1 DEF Holds
    <3>3. (s \o t)[Len(s) + k] = t[k]
        BY <1>1, <3>1
    <3> QED BY <3>1, <3>2, <3>3
  <2> QED BY <1>1, <2>1, <2>2
<1> QED BY <1>2, <1>3, <1>4 DEF Holds

LEMMA HoldsInside ==
  ASSUME NEW f \in Seq(Int), NEW from \in Nat \ {0}, NEW s \in Seq(Int), NEW at \in Int,
         from <= at, Holds(f, at, s)
  PROVE  Holds(SubSeq(f, from, Len(f)), at - from + 1, s)
<1> DEFINE g == SubSeq(f, from, Len(f))
<1>1. from <= Len(f) =>
        Len(g) = Len(f) - from + 1 /\ \A i \in 1..Len(g) : g[i] = f[from + i - 1]
    OBVIOUS
<1> HIDE DEF g
<1>2. ASSUME NEW i \in 1..Len(s)
      PROVE  at - from + 1 + i - 1 \in 1..Len(g) /\ g[at - from + 1 + i - 1] = s[i]
  <2>1. at + i - 1 \in 1..Len(f) /\ f[at + i - 1] = s[i]
      BY DEF Holds
  <2>2. from <= Len(f) /\ Len(f) \in Nat /\ i \in Nat /\ i >= 1
      BY <2>1
  <2> DEFINE k == at - from + i
  <2>3. k \in 1..Len(g) /\ from + k - 1 = at + i - 1 /\ at - from + 1 + i - 1 = k
      BY <1>1, <2>1, <2>2
  <2> HIDE DEF k
  <2>4. g[k] = f[from + k - 1]
      BY <1>1, <2>2, <2>3
  <2> QED BY <2>1, <2>3, <2>4
<1> QED BY <1>2 DEF Holds, g

LEMMA HoldsSubSeq ==
  ASSUME NEW f \in Seq(Int), NEW at \in Nat \ {0}, NEW s \in Seq(Int),
         Holds(f, at, s), at + Len(s) <= Len(f) + 1
  PROVE  SubSeq(f, at, at + Len(s) - 1) = s
<1> DEFINE g == SubSeq(f, at, at + Len(s) - 1)
<1>1. g \in Seq(Int) /\ Len(g) = Len(s) /\ \A i \in 1..Len(s) : g[i] = f[at + i - 1]
    OBVIOUS
<1>2. \A i \in 1..Len(s) : g[i] = s[i]
  <2> HIDE DEF g
  <2> QED BY <1>1, Zenon DEF Holds
<1> HIDE DEF g
<1>3. g = s
  <2>1. g = [i \in 1..Len(g) |-> g[i]] /\ s = [i \in 1..Len(s) |-> s[i]]
      BY <1>1
  <2> QED BY <1>1, <1>2, <2>1
<1> QED BY <1>3 DEF g

-----------------------------------------------------------------------------
(* The octets of a length determinant: one below 128, two up to 16383. *)
Short(d, n) == n \in 0..127 /\ d = <<n>>
Long(d, n) == n \in Nat /\ n < 16384 /\ d = <<128 + (n \div 256), n % 256>>
Determinant(d, n) == Short(d, n) \/ Long(d, n)

LEMMA OctetsRead ==
  ASSUME NEW f \in Seq(Int), NEW at \in Nat \ {0}, NEW d \in Seq(Int), NEW v \in Seq(Int),
         Determinant(d, Len(v)), Holds(f, at, d), Holds(f, at + Len(d), v),
         at + Len(d) + Len(v) <= Len(f) + 1
  PROVE  /\ Encoding!ReadOctets(f, at) = [octets |-> v, next |-> at + Len(d) + Len(v)]
         /\ Encoding!ReadOctets(f, at) # Malformed
<1> DEFINE n == Len(v)
<1>1. SubSeq(f, at + Len(d), at + Len(d) + n - 1) = v
  <2>1. at + Len(d) \in Nat \ {0}
      OBVIOUS
  <2> QED BY <2>1, HoldsSubSeq
<1>2. Encoding!ReadOctets(f, at) = [octets |-> v, next |-> at + Len(d) + n]
  <2>1. CASE Short(d, n)
    <3>1. Len(d) = 1 /\ d[1] = n /\ n \in 0..127
        BY <2>1 DEF Short
    <3>2. at \in 1..Len(f) /\ f[at] = n
      <4>1. at + 1 - 1 \in 1..Len(f) /\ f[at + 1 - 1] = d[1]
          BY <3>1 DEF Holds
      <4> QED BY <3>1, <4>1
    <3>3. at + 1 + n - 1 <= Len(f)
        BY <3>1
    <3> HIDE DEF n
    <3>4. n < 128 /\ at <= Len(f)
        BY <3>1, <3>2
    <3>5. Encoding!ReadOctets(f, at) = [octets |-> SubSeq(f, at + 1, at + 1 + n - 1), next |-> at + 1 + n]
        BY <3>2, <3>3, <3>4, Zenon DEF Encoding!ReadOctets
    <3> QED BY <1>1, <3>1, <3>5
  <2>2. CASE Long(d, n)
    <3> HIDE DEF n
    <3> DEFINE q == n \div 256
               r == n % 256
    <3>1. q \in 0..63 /\ r \in 0..255 /\ n = 256 * q + r /\ d = <<128 + q, r>>
        BY <2>2 DEF Long
    <3> HIDE DEF q, r
    <3>2. Len(d) = 2 /\ d[1] = 128 + q /\ d[2] = r
        BY <3>1
    <3>3. at \in 1..Len(f) /\ at + 1 \in 1..Len(f) /\ f[at] = 128 + q /\ f[at + 1] = r
      <4>1. at + 1 - 1 \in 1..Len(f) /\ f[at + 1 - 1] = d[1]
          BY <3>2 DEF Holds
      <4>2. at + 2 - 1 \in 1..Len(f) /\ f[at + 2 - 1] = d[2]
          BY <3>2 DEF Holds
      <4> QED BY <3>2, <4>1, <4>2
    <3>4. at + 2 + n - 1 <= Len(f) /\ at < Len(f)
        BY <3>2, <3>3 DEF n
    <3>5. ~(f[at] < 128) /\ (f[at] - 128) * 256 + f[at + 1] = n
        BY <3>1, <3>3
    <3>6. Encoding!ReadOctets(f, at) = [octets |-> SubSeq(f, at + 2, at + 2 + n - 1), next |-> at + 2 + n]
      <4>1. f[at] \in 128..191
          BY <3>1, <3>3
      <4> QED BY <3>4, <3>5, <4>1, Zenon DEF Encoding!ReadOctets
    <3> QED BY <1>1, <3>2, <3>6
  <2> QED BY <2>1, <2>2 DEF Determinant
<1>3. [octets |-> v, next |-> at + Len(d) + n] \in [octets : Seq(Int), next : Int]
    OBVIOUS
<1> QED BY <1>2, <1>3, EncodingAssumption

LEMMA AllRead ==
  ASSUME NEW d \in Seq(Int), NEW v \in Seq(Int), Determinant(d, Len(v))
  PROVE  Encoding!ReadAll(d \o v) = v
<1> DEFINE f == d \o v
<1>1. f \in Seq(Int) /\ Len(f) = Len(d) + Len(v)
    OBVIOUS
<1>2. Holds(f, 1, d) /\ Holds(f, 1 + Len(d), v)
  <2>1. Holds(f, 1, d \o v) /\ 1 \in Int
    <3>1. Holds(f, 1, f)
        BY <1>1, HoldsItself
    <3> QED BY <3>1
  <2> HIDE DEF f
  <2> QED BY <1>1, <2>1, HoldsParts, Zenon
<1> HIDE DEF f
<1>3. 1 \in Nat \ {0} /\ 1 + Len(d) + Len(v) <= Len(f) + 1
    BY <1>1
<1>4. /\ Encoding!ReadOctets(f, 1) = [octets |-> v, next |-> 1 + Len(d) + Len(v)]
      /\ Encoding!ReadOctets(f, 1) # Malformed
    BY <1>1, <1>2, <1>3, OctetsRead
<1>5. 1 + Len(d) + Len(v) = Len(f) + 1
    BY <1>1
<1>6. Encoding!ReadAll(f) = v
    BY <1>4, <1>5 DEF Encoding!ReadAll
<1> QED BY <1>6 DEF f

(* The reader in front of an IE passes on to the next with its value. *)
Values == [Encoding!IEIds -> Seq(Int)]
Reading(f, at, values) == [body |-> f, next |-> at, values |-> values]

(* An IE with the length d and the value v has n octets; d is the length   *)
(* of v.                                                                   *)
Sized(d, v, n) ==
  /\ d \in Seq(Int) /\ v \in Seq(Int)
  /\ n = 3 + Len(d) + Len(v) /\ n \in Nat
Covers(d, v, n) == Sized(d, v, n) /\ Determinant(d, Len(v))

(* n octets of f from `at` on end before `to`. *)
Fits(f, at, n, to) ==
  f \in Seq(Int) /\ at \in Nat \ {0} /\ to = at + n /\ to <= Len(f) + 1

(* The reader takes the n-th IE with value v, which ends before `to`.      *)
Takes(f, at, vs, n, v, to, ws) ==
  Encoding!ReadIE(Reading(f, at, vs), n) = Reading(f, to, ws)
Sets(ws, vs, n, v) == ws = [vs EXCEPT ![n] = v]

LEMMA IERead ==
  ASSUME NEW f, NEW at, NEW x, NEW to, Fits(f, at, x, to),
         NEW n \in Int, NEW d, NEW v, Covers(d, v, x), Holds(f, at, Encoding!IE(n, d, v)),
         NEW vs \in Values, NEW ws, Sets(ws, vs, n, v)
  PROVE  Takes(f, at, vs, n, v, to, ws)
<1> f \in Seq(Int) /\ at \in Nat \ {0}
    BY DEF Fits
<1> d \in Seq(Int) /\ v \in Seq(Int) /\ Determinant(d, Len(v))
    BY DEF Covers, Sized
<1>0. at + 3 + Len(d) + Len(v) = to /\ at + 3 + Len(d) + Len(v) <= Len(f) + 1
    BY DEF Covers, Sized, Fits
<1> DEFINE head == <<0, n, 0>>
<1>1. /\ head \in Seq(Int) /\ Len(head) = 3 /\ at \in Int
      /\ head \o d \in Seq(Int) /\ Len(head \o d) = 3 + Len(d)
    OBVIOUS
<1>2. Holds(f, at, (head \o d) \o v)
    BY DEF Encoding!IE
<1> HIDE DEF head
<1>3. Holds(f, at, head \o d) /\ Holds(f, at + Len(head \o d), v)
    BY <1>1, <1>2, HoldsParts, Zenon
<1>4. Holds(f, at, head) /\ Holds(f, at + 3, d) /\ Holds(f, at + 3 + Len(d), v)
  <2>1. Holds(f, at, head) /\ Holds(f, at + Len(head), d)
      BY <1>1, <1>3, HoldsParts, Zenon
  <2>2. at + Len(head \o d) = at + 3 + Len(d)
      BY <1>1
  <2> QED BY <1>1, <1>3, <2>1, <2>2
<1>5. at + 2 <= Len(f) /\ SubSeq(f, at, at + 2) = head
  <2>1. at + Len(head) <= Len(f) + 1 /\ Len(f) \in Nat
    <3>1. Len(d) \in Nat /\ Len(v) \in Nat /\ Len(f) \in Nat
        OBVIOUS
    <3> QED BY <1>0, <1>1, <3>1
  <2>2. SubSeq(f, at, at + Len(head) - 1) = head
      BY <1>1, <1>4, <2>1, HoldsSubSeq, Zenon
  <2>3. at + Len(head) - 1 = at + 2 /\ at + 2 <= Len(f)
      BY <1>1, <2>1
  <2> QED BY <2>2, <2>3
<1>6. /\ Encoding!ReadOctets(f, at + 3) = [octets |-> v, next |-> at + 3 + Len(d) + Len(v)]
      /\ Encoding!ReadOctets(f, at + 3) # Malformed
  <2>1. at + 3 \in Nat \ {0}
      OBVIOUS
  <2> QED BY <1>0, <1>4, <2>1, OctetsRead
<1>7. Reading(f, at, vs) # Malformed
  <2>1. Reading(f, at, vs) \in [body : Seq(Int), next : Int, values : Values]
      BY <1>1, Zenon DEF Reading
  <2> QED BY <2>1, EncodingAssumption DEF Values
<1> DEFINE state == Reading(f, at, vs)
           value == Encoding!ReadOctets(f, at + 3)
<1>8. state.body = f /\ state.next = at /\ state.values = vs
    BY DEF Reading
<1> HIDE DEF state, value
<1>9. value = [octets |-> v, next |-> at + 3 + Len(d) + Len(v)] /\ value # Malformed
    BY <1>6 DEF value
<1>10. value.octets = v /\ value.next = at + 3 + Len(d) + Len(v)
    BY <1>9
<1>11. SubSeq(f, at, at + 2) = <<0, n, 0>>
    BY <1>5 DEF head
<1>12. Encoding!ReadIE(state, n) =
         [body |-> f, next |-> value.next, values |-> [vs EXCEPT ![n] = value.octets]]
    BY <1>5, <1>7, <1>8, <1>9, <1>11, Zenon DEF Encoding!ReadIE, state, value
<1> QED BY <1>0, <1>10, <1>12, Zenon DEF Reading, state, Takes, Sets

-----------------------------------------------------------------------------
LEMMA Joined ==
  ASSUME NEW s \in Seq(Int), NEW t \in Seq(Int)
  PROVE  s \o t \in Seq(Int) /\ Len(s \o t) = Len(s) + Len(t)
OBVIOUS

(* s consists of six parts. *)
Consists(s, b, c, d, e, f, g) ==
  /\ b \in Seq(Int) /\ c \in Seq(Int) /\ d \in Seq(Int)
  /\ e \in Seq(Int) /\ f \in Seq(Int) /\ g \in Seq(Int)
  /\ s = b \o c \o d \o e \o f \o g

(* The parts stand one behind the other, from the positions c1 .. g1 on, up *)
(* to the end n.                                                           *)
Positions(b, c, d, e, f, g, c1, d1, e1, f1, g1, n) ==
  /\ c1 = 1 + Len(b) /\ d1 = c1 + Len(c) /\ e1 = d1 + Len(d)
  /\ f1 = e1 + Len(e) /\ g1 = f1 + Len(f) /\ n = g1 + Len(g) - 1

LEMMA SixParts ==
  ASSUME NEW s, NEW b, NEW c, NEW d, NEW e, NEW f, NEW g, Consists(s, b, c, d, e, f, g),
         NEW c1, NEW d1, NEW e1, NEW f1, NEW g1, NEW n,
         Positions(b, c, d, e, f, g, c1, d1, e1, f1, g1, n)
  PROVE  /\ s \in Seq(Int) /\ Len(s) = n
         /\ Holds(s, 1, b) /\ Holds(s, c1, c) /\ Holds(s, d1, d)
         /\ Holds(s, e1, e) /\ Holds(s, f1, f) /\ Holds(s, g1, g)
<1> /\ b \in Seq(Int) /\ c \in Seq(Int) /\ d \in Seq(Int)
    /\ e \in Seq(Int) /\ f \in Seq(Int) /\ g \in Seq(Int)
    BY DEF Consists
<1> DEFINE bc == b \o c
           bd == bc \o d
           be == bd \o e
           bf == be \o f
<1>1. bc \in Seq(Int) /\ Len(bc) = Len(b) + Len(c)
    BY Joined, Zenon
<1> HIDE DEF bc
<1>2. bd \in Seq(Int) /\ Len(bd) = Len(bc) + Len(d)
    BY <1>1, Joined, Zenon
<1> HIDE DEF bd
<1>3. be \in Seq(Int) /\ Len(be) = Len(bd) + Len(e)
    BY <1>2, Joined, Zenon
<1> HIDE DEF be
<1>4. bf \in Seq(Int) /\ Len(bf) = Len(be) + Len(f)
    BY <1>3, Joined, Zenon
<1> HIDE DEF bf
<1>5. s = bf \o g
    BY DEF Consists, bf, be, bd, bc
<1>6. s \in Seq(Int) /\ Len(s) = Len(bf) + Len(g) /\ 1 \in Int
  <2>1. bf \o g \in Seq(Int) /\ Len(bf \o g) = Len(bf) + Len(g)
      BY <1>4, Joined, Zenon
  <2>2. 1 \in Int
      OBVIOUS
  <2> QED BY <1>5, <2>1, <2>2, Zenon
<1>7. Holds(s, 1, bf \o g)
    BY <1>5, <1>6, HoldsItself, Zenon
<1>8. Holds(s, 1, be \o f) /\ Holds(s, 1 + Len(bf), g)
    BY <1>4, <1>6, <1>7, HoldsParts, Zenon DEF bf
<1>9. Holds(s, 1, bd \o e) /\ Holds(s, 1 + Len(be), f)
    BY <1>3, <1>6, <1>8, HoldsParts, Zenon DEF be
<1>10. Holds(s, 1, bc \o d) /\ Holds(s, 1 + Len(bd), e)
    BY <1>2, <1>6, <1>9, HoldsParts, Zenon DEF bd
<1>11. Holds(s, 1, b \o c) /\ Holds(s, 1 + Len(bc), d)
    BY <1>1, <1>6, <1>10, HoldsParts, Zenon DEF bc
<1>12. Holds(s, 1, b) /\ Holds(s, 1 + Len(b), c)
    BY <1>6, <1>11, HoldsParts, Zenon
<1>13. /\ 1 + Len(b) = c1 /\ 1 + Len(bc) = d1 /\ 1 + Len(bd) = e1 /\ 1 + Len(be) = f1
       /\ 1 + Len(bf) = g1 /\ Len(s) = n
  <2>1. \A q \in Seq(Int) : Len(q) \in Nat
      OBVIOUS
  <2>2. Len(b) \in Nat /\ Len(c) \in Nat /\ Len(d) \in Nat /\ Len(e) \in Nat /\ Len(f) \in Nat /\ Len(g) \in Nat
      BY <2>1, Zenon
  <2> QED BY <1>1, <1>2, <1>3, <1>4, <1>6, <2>2 DEF Positions
<1> QED BY <1>6, <1>8, <1>9, <1>10, <1>11, <1>12, <1>13, Zenon

LEMMA IETyped ==
  ASSUME NEW n \in Int, NEW d, NEW v, NEW x, Sized(d, v, x)
  PROVE  Encoding!IE(n, d, v) \in Seq(Int) /\ Len(Encoding!IE(n, d, v)) = x
<1> DEFINE head == <<0, n, 0>>
<1>0. d \in Seq(Int) /\ v \in Seq(Int) /\ x = 3 + Len(d) + Len(v) /\ x \in Nat
    BY DEF Sized
<1>1. head \in Seq(Int) /\ Len(head) = 3
    OBVIOUS
<1> HIDE DEF head
<1>2. head \o d \in Seq(Int) /\ Len(head \o d) = Len(head) + Len(d)
    BY <1>0, <1>1, Joined, Zenon
<1>3. (head \o d) \o v \in Seq(Int) /\ Len((head \o d) \o v) = Len(head \o d) + Len(v)
    BY <1>0, <1>2, Joined, Zenon
<1>4. Len((head \o d) \o v) = x
    BY <1>0, <1>1, <1>2, <1>3
<1> QED BY <1>3, <1>4 DEF Encoding!IE, head

LEMMA ValueSet ==
  ASSUME NEW vs \in Values, NEW n \in Encoding!IEIds, NEW v \in Seq(Int)
  PROVE  /\ [vs EXCEPT ![n] = v] \in Values /\ [vs EXCEPT ![n] = v][n] = v
         /\ \A k \in Encoding!IEIds \ {n} : [vs EXCEPT ![n] = v][k] = vs[k]
BY DEF Values

(* The tag and the five IEs stand in b one behind the other.               *)
Placed(b, id, func, hl, h, ml, m, x, y) ==
  /\ b \in Seq(Int) /\ Len(b) = 23 + x + y
  /\ Holds(b, 1, <<0, 0, 5>>) /\ Holds(b, 4, Encoding!IE(29, <<5>>, <<0, 0, id, 0, 0>>))
  /\ Holds(b, 13, Encoding!IE(5, <<2>>, <<0, func>>)) /\ Holds(b, 19, Encoding!IE(22, hl, h))
  /\ Holds(b, 19 + x, Encoding!IE(23, ml, m))
  /\ Holds(b, 19 + x + y, Encoding!IE(21, <<1>>, <<64>>))

LEMMA IEsPlaced ==
  ASSUME NEW id \in Int, NEW func \in Int,
         NEW hl, NEW h, NEW x \in Nat, Sized(hl, h, x),
         NEW ml, NEW m, NEW y \in Nat, Sized(ml, m, y),
         NEW b, b = Encoding!IEs(id, func, hl, h, ml, m, 1)
  PROVE  Placed(b, id, func, hl, h, ml, m, x, y)
<1> DEFINE tag == <<0, 0, 5>>
           idOctets == <<0, 0, id, 0, 0>>
           funcOctets == <<0, func>>
           ackOctets == <<64>>
           x1 == 9
           x2 == 6
           x5 == 5
           l1 == <<5>>
           l2 == <<2>>
           l5 == <<1>>
           one == Encoding!IE(29, l1, idOctets)
           two == Encoding!IE(5, l2, funcOctets)
           three == Encoding!IE(22, hl, h)
           four == Encoding!IE(23, ml, m)
           five == Encoding!IE(21, l5, ackOctets)
<1>1. tag \in Seq(Int) /\ Len(tag) = 3
    OBVIOUS
<1>3. Sized(l1, idOctets, x1) /\ Sized(l2, funcOctets, x2) /\ Sized(l5, ackOctets, x5)
    BY DEF Sized
<1>4. b = tag \o one \o two \o three \o four \o five
    BY DEF Encoding!IEs
<1>5. 29 \in Int /\ 5 \in Int /\ 22 \in Int /\ 23 \in Int /\ 21 \in Int
    OBVIOUS
<1> DEFINE p2 == 4
           p3 == 13
           p4 == 19
           p5 == 19 + x
           p6 == 19 + x + y
           p7 == 24 + x + y
<1>places. /\ x1 \in Nat /\ x2 \in Nat /\ x5 \in Nat
      /\ p2 \in Nat \ {0} /\ p2 = 4 /\ p3 \in Nat /\ p4 \in Nat /\ p5 \in Nat /\ p6 \in Nat /\ p7 \in Nat
      /\ p3 = p2 + x1 /\ p4 = p3 + x2 /\ p5 = p4 + x /\ p6 = p5 + y /\ p7 = p6 + x5
      /\ p3 = 13 /\ p4 = 19 /\ p5 = 19 + x /\ p6 = 19 + x + y /\ p7 = 24 + x + y
    OBVIOUS
<1> HIDE DEF tag, idOctets, funcOctets, ackOctets, l1, l2, l5, x1, x2, x5, p2, p3, p4, p5, p6, p7
<1>6. /\ one \in Seq(Int) /\ Len(one) = x1 /\ two \in Seq(Int) /\ Len(two) = x2
      /\ three \in Seq(Int) /\ Len(three) = x /\ four \in Seq(Int) /\ Len(four) = y
      /\ five \in Seq(Int) /\ Len(five) = x5
  <2>1. one \in Seq(Int) /\ Len(one) = x1
      BY <1>3, <1>5, IETyped, Zenon
  <2>2. two \in Seq(Int) /\ Len(two) = x2
      BY <1>3, <1>5, IETyped, Zenon
  <2>3. three \in Seq(Int) /\ Len(three) = x
      BY <1>5, IETyped, Zenon
  <2>4. four \in Seq(Int) /\ Len(four) = y
      BY <1>5, IETyped, Zenon
  <2>5. five \in Seq(Int) /\ Len(five) = x5
      BY <1>3, <1>5, IETyped, Zenon
  <2> HIDE DEF one, two, three, four, five
  <2> QED BY <2>1, <2>2, <2>3, <2>4, <2>5
<1> HIDE DEF one, two, three, four, five
<1>7. Consists(b, tag, one, two, three, four, five)
    BY <1>1, <1>4, <1>6, Zenon DEF Consists
<1> DEFINE end == p7 - 1
<1>8. /\ b \in Seq(Int) /\ Len(b) = end
      /\ Holds(b, 1, tag) /\ Holds(b, p2, one) /\ Holds(b, p3, two)
      /\ Holds(b, p4, three) /\ Holds(b, p5, four) /\ Holds(b, p6, five)
  <2>1. Positions(tag, one, two, three, four, five, p2, p3, p4, p5, p6, end)
      BY <1>places, <1>1, <1>6 DEF Positions
  <2> QED BY <1>7, <2>1, SixParts, Zenon
<1>9. Len(b) = 23 + x + y
  <2>1. Len(b) = end
      BY <1>8, Zenon
  <2> QED BY <1>places, <2>1
<1>10. b \in Seq(Int) /\ Holds(b, 1, tag)
    BY <1>8, Zenon
<1>11. Holds(b, 4, one) /\ Holds(b, 13, two) /\ Holds(b, 19, three)
    BY <1>places, <1>8
<1>12. Holds(b, 19 + x, four) /\ Holds(b, 19 + x + y, five)
    BY <1>places, <1>8
<1> QED BY <1>9, <1>10, <1>11, <1>12, Zenon
        DEF Placed, tag, one, two, three, four, five, idOctets, funcOctets, ackOctets, l1, l2, l5

(* What the reader has collected at the end of the five IEs of b.          *)
Collected(b, to, id, func, h, m) ==
  /\ b \in Seq(Int) /\ to = Len(b) + 1
  /\ \E vs \in Values :
       /\ Encoding!AtEnd(b) = Reading(b, to, vs)
       /\ vs[29] = <<0, 0, id, 0, 0>> /\ vs[5] = <<0, func>> /\ vs[21] = <<64>>
       /\ vs[22] = h /\ vs[23] = m

LEMMA IEsRead ==
  ASSUME NEW id \in Int, NEW func \in Int,
         NEW hl, NEW h, NEW x \in Nat, Covers(hl, h, x),
         NEW ml, NEW m, NEW y \in Nat, Covers(ml, m, y),
         NEW b, b = Encoding!IEs(id, func, hl, h, ml, m, 1),
         NEW to, to = 24 + x + y
  PROVE  Collected(b, to, id, func, h, m)
<1> DEFINE tag == <<0, 0, 5>>
           idOctets == <<0, 0, id, 0, 0>>
           funcOctets == <<0, func>>
           ackOctets == <<64>>
           x1 == 9
           x2 == 6
           x5 == 5
           l1 == <<5>>
           l2 == <<2>>
           l5 == <<1>>
           one == Encoding!IE(29, l1, idOctets)
           two == Encoding!IE(5, l2, funcOctets)
           three == Encoding!IE(22, hl, h)
           four == Encoding!IE(23, ml, m)
           five == Encoding!IE(21, l5, ackOctets)
<1>1. tag \in Seq(Int) /\ Len(tag) = 3
    OBVIOUS
<1>2. /\ idOctets \in Seq(Int) /\ funcOctets \in Seq(Int) /\ ackOctets \in Seq(Int)
      /\ h \in Seq(Int) /\ m \in Seq(Int)
    BY DEF Covers, Sized
<1>3. Covers(l1, idOctets, x1) /\ Covers(l2, funcOctets, x2) /\ Covers(l5, ackOctets, x5)
    BY DEF Covers, Sized, Determinant, Short
<1>5. 29 \in Int /\ 5 \in Int /\ 22 \in Int /\ 23 \in Int /\ 21 \in Int
    OBVIOUS
<1> DEFINE p2 == 4
           p3 == 13
           p4 == 19
           p5 == 19 + x
           p6 == 19 + x + y
           p7 == 24 + x + y
<1>places. /\ x1 \in Nat /\ x2 \in Nat /\ x5 \in Nat
      /\ p2 \in Nat \ {0} /\ p2 = 4 /\ p3 \in Nat /\ p4 \in Nat /\ p5 \in Nat /\ p6 \in Nat /\ p7 \in Nat
      /\ p3 = p2 + x1 /\ p4 = p3 + x2 /\ p5 = p4 + x /\ p6 = p5 + y /\ p7 = p6 + x5
      /\ p3 = 13 /\ p4 = 19 /\ p5 = 19 + x /\ p6 = 19 + x + y /\ p7 = 24 + x + y
    OBVIOUS
<1> HIDE DEF tag, idOctets, funcOctets, ackOctets, l1, l2, l5, x1, x2, x5, p2, p3, p4, p5, p6, p7
<1>4. Placed(b, id, func, hl, h, ml, m, x, y)
    BY IEsPlaced, Zenon DEF Covers
<1>9. b \in Seq(Int) /\ Len(b) = 23 + x + y
    BY <1>4 DEF Placed
<1>6. /\ Holds(b, 1, tag) /\ Holds(b, 4, one) /\ Holds(b, 13, two) /\ Holds(b, 19, three)
      /\ Holds(b, 19 + x, four) /\ Holds(b, 19 + x + y, five)
    BY <1>4, Zenon DEF Placed, tag, one, two, three, four, five, idOctets, funcOctets, ackOctets, l1, l2, l5
<1> HIDE DEF one, two, three, four, five
<1>8. /\ b \in Seq(Int) /\ Holds(b, 1, tag) /\ Holds(b, p2, one) /\ Holds(b, p3, two)
      /\ Holds(b, p4, three) /\ Holds(b, p5, four) /\ Holds(b, p6, five)
    BY <1>places, <1>6, <1>9
<1> DEFINE v0 == [n \in Encoding!IEIds |-> <<>>]
<1>10. Encoding!AtId(b) = Reading(b, p2, v0)
  <2>1. SubSeq(b, 1, 3) = tag
    <3>1. 1 + Len(tag) - 1 = 3 /\ 1 + Len(tag) <= Len(b) + 1 /\ 1 \in Nat \ {0}
        BY <1>1, <1>9
    <3>2. SubSeq(b, 1, 1 + Len(tag) - 1) = tag
        BY <1>1, <1>8, <3>1, HoldsSubSeq, Zenon
    <3> QED BY <3>1, <3>2
  <2>2. b # Malformed
      BY <1>8, EncodingAssumption
  <2> QED BY <2>1, <2>2, Zenon DEF Encoding!AtId, Reading, tag, v0, p2
<1> DEFINE v1 == [v0 EXCEPT ![29] = idOctets]
           v2 == [v1 EXCEPT ![5] = funcOctets]
           v3 == [v2 EXCEPT ![22] = h]
           v4 == [v3 EXCEPT ![23] = m]
           v5 == [v4 EXCEPT ![21] = ackOctets]
<1>11. /\ 29 \in Encoding!IEIds /\ 5 \in Encoding!IEIds /\ 22 \in Encoding!IEIds
       /\ 23 \in Encoding!IEIds /\ 21 \in Encoding!IEIds
    BY DEF Encoding!IEIds
<1>values0. v0 \in Values
    BY DEF Values
<1>values1. v1 \in Values /\ v1[29] = idOctets
    BY <1>2, <1>11, <1>values0, ValueSet
<1> HIDE DEF v1
<1>values2. v2 \in Values /\ v2[5] = funcOctets /\ v2[29] = v1[29]
    BY <1>2, <1>11, <1>values1, ValueSet
<1> HIDE DEF v2
<1>values3. v3 \in Values /\ v3[22] = h /\ v3[5] = v2[5] /\ v3[29] = v2[29]
    BY <1>2, <1>11, <1>values2, ValueSet
<1> HIDE DEF v3
<1>values4. v4 \in Values /\ v4[23] = m /\ v4[22] = v3[22] /\ v4[5] = v3[5] /\ v4[29] = v3[29]
    BY <1>2, <1>11, <1>values3, ValueSet
<1> HIDE DEF v4
<1>values5. /\ v5 \in Values /\ v5[21] = ackOctets
       /\ v5[23] = v4[23] /\ v5[22] = v4[22] /\ v5[5] = v4[5] /\ v5[29] = v4[29]
    BY <1>2, <1>11, <1>values4, ValueSet
<1> HIDE DEF v0, v5
<1>12. v5[29] = idOctets /\ v5[5] = funcOctets /\ v5[22] = h /\ v5[23] = m /\ v5[21] = ackOctets
    BY <1>values1, <1>values2, <1>values3, <1>values4, <1>values5
<1>13. /\ Fits(b, p2, x1, p3) /\ Fits(b, p3, x2, p4) /\ Fits(b, p4, x, p5)
       /\ Fits(b, p5, y, p6) /\ Fits(b, p6, x5, p7)
  <2>1. b \in Seq(Int)
      BY <1>8, Zenon
  <2> QED BY <1>places, <1>9, <2>1 DEF Fits
<1>14. Encoding!AtFunction(b) = Reading(b, p3, v1)
  <2>0. Fits(b, p2, x1, p3) /\ Holds(b, p2, Encoding!IE(29, l1, idOctets)) /\ v0 \in Values
      BY <1>8, <1>values0, <1>13 DEF one
  <2>2. Sets(v1, v0, 29, idOctets)
      BY DEF Sets, v1
  <2>1. Takes(b, p2, v0, 29, idOctets, p3, v1)
      BY <1>3, <1>5, <2>0, <2>2, IERead, Zenon
  <2> QED BY <1>10, <2>1, Zenon DEF Encoding!AtFunction, Takes
<1>15. Encoding!AtHeader(b) = Reading(b, p4, v2)
  <2>0. Fits(b, p3, x2, p4) /\ Holds(b, p3, Encoding!IE(5, l2, funcOctets)) /\ v1 \in Values
      BY <1>8, <1>values1, <1>13 DEF two
  <2>2. Sets(v2, v1, 5, funcOctets)
      BY DEF Sets, v2
  <2>1. Takes(b, p3, v1, 5, funcOctets, p4, v2)
      BY <1>3, <1>5, <2>0, <2>2, IERead, Zenon
  <2> QED BY <1>14, <2>1, Zenon DEF Encoding!AtHeader, Takes
<1>16. Encoding!AtMessage(b) = Reading(b, p5, v3)
  <2>0. Fits(b, p4, x, p5) /\ Holds(b, p4, Encoding!IE(22, hl, h)) /\ v2 \in Values
      BY <1>8, <1>values2, <1>13 DEF three
  <2>2. Sets(v3, v2, 22, h)
      BY DEF Sets, v3
  <2>1. Takes(b, p4, v2, 22, h, p5, v3)
      BY <1>5, <2>0, <2>2, IERead, Zenon
  <2> QED BY <1>15, <2>1, Zenon DEF Encoding!AtMessage, Takes
<1>17. Encoding!AtAck(b) = Reading(b, p6, v4)
  <2>0. Fits(b, p5, y, p6) /\ Holds(b, p5, Encoding!IE(23, ml, m)) /\ v3 \in Values
      BY <1>8, <1>values3, <1>13 DEF four
  <2>2. Sets(v4, v3, 23, m)
      BY DEF Sets, v4
  <2>1. Takes(b, p5, v3, 23, m, p6, v4)
      BY <1>5, <2>0, <2>2, IERead, Zenon
  <2> QED BY <1>16, <2>1, Zenon DEF Encoding!AtAck, Takes
<1>18. Encoding!AtEnd(b) = Reading(b, p7, v5)
  <2>0. Fits(b, p6, x5, p7) /\ Holds(b, p6, Encoding!IE(21, l5, ackOctets)) /\ v4 \in Values
      BY <1>8, <1>values4, <1>13 DEF five
  <2>2. Sets(v5, v4, 21, ackOctets)
      BY DEF Sets, v5
  <2>1. Takes(b, p6, v4, 21, ackOctets, p7, v5)
      BY <1>3, <1>5, <2>0, <2>2, IERead, Zenon
  <2> QED BY <1>17, <2>1, Zenon DEF Encoding!AtEnd, Takes
<1>19. /\ v5 \in Values /\ Encoding!AtEnd(b) = Reading(b, p7, v5)
       /\ v5[29] = <<0, 0, id, 0, 0>> /\ v5[5] = <<0, func>> /\ v5[21] = <<64>>
       /\ v5[22] = h /\ v5[23] = m
    BY <1>values5, <1>12, <1>18, Zenon DEF idOctets, funcOctets, ackOctets
<1>20. Encoding!AtEnd(b) = Reading(b, to, v5)
    BY <1>places, <1>19
<1>21. to = Len(b) + 1
  <2>1. Len(b) = 23 + x + y /\ to = 24 + x + y
      BY <1>9, Zenon
  <2> QED BY <2>1
<1> QED BY <1>9, <1>19, <1>20, <1>21, Zenon DEF Collected

(* The frame around the five IEs. *)
LEMMA LayoutRead ==
  ASSUME NEW T \in Seq(Int), NEW b \in Seq(Int)
  PROVE  Encoding!Body(Encoding!Layout(T, b)) = Encoding!ReadAll(T \o b)
<1> DEFINE head == <<0, 4, 0>>
           g == T \o b
           f == head \o g
<1>1. g \in Seq(Int) /\ head \in Seq(Int) /\ Len(head) = 3
    OBVIOUS
<1> HIDE DEF head, g
<1>2. f \in Seq(Int) /\ Len(f) = 3 + Len(g)
  <2>1. f \in Seq(Int) /\ Len(f) = Len(head) + Len(g)
      BY <1>1, Joined, Zenon
  <2> QED BY <1>1, <2>1
<1>3. Holds(f, 1, head) /\ Holds(f, 4, g)
  <2>1. Holds(f, 1, head \o g) /\ 1 \in Int
    <3>1. Holds(f, 1, f)
        BY <1>2, HoldsItself
    <3> QED BY <3>1
  <2> HIDE DEF f
  <2>2. Holds(f, 1, head) /\ Holds(f, 1 + Len(head), g)
      BY <1>1, <1>2, <2>1, HoldsParts, Zenon
  <2> QED BY <1>1, <2>2
<1> HIDE DEF f
<1>4. SubSeq(f, 1, 3) = head
  <2>1. 1 + Len(head) - 1 = 3 /\ 1 + Len(head) <= Len(f) + 1 /\ 1 \in Nat \ {0}
      BY <1>1, <1>2
  <2>2. SubSeq(f, 1, 1 + Len(head) - 1) = head
      BY <1>1, <1>2, <1>3, <2>1, HoldsSubSeq, Zenon
  <2> QED BY <2>1, <2>2
<1>5. SubSeq(f, 4, Len(f)) = g
  <2>1. 4 + Len(g) - 1 = Len(f) /\ 4 + Len(g) <= Len(f) + 1 /\ 4 \in Nat \ {0}
      BY <1>1, <1>2
  <2>2. SubSeq(f, 4, 4 + Len(g) - 1) = g
      BY <1>1, <1>2, <1>3, <2>1, HoldsSubSeq, Zenon
  <2> QED BY <2>1, <2>2
<1>6. Encoding!Body(f) = Encoding!ReadAll(g)
    BY <1>4, <1>5 DEF Encoding!Body, head
<1>7. Encoding!Layout(T, b) = f
    BY DEF Encoding!Layout, f, head, g
<1> QED BY <1>6, <1>7 DEF g

(* The E2 node reads f as a request with these values and acknowledgement. *)
ReadsAs(f, id, func, header, msg) ==
  Encoding!Read(f) = [id |-> id, func |-> func, header |-> header, msg |-> msg, ack |-> 1]

(* What the E2 node makes of a frame whose lengths are those of its parts. *)
LEMMA FrameRead ==
  ASSUME NEW id \in Int, NEW func \in Int,
         NEW hl, NEW h, NEW x \in Nat, Covers(hl, h, x),
         NEW ml, NEW m, NEW y \in Nat, Covers(ml, m, y),
         NEW n, n = 23 + x + y, NEW T \in Seq(Int), Determinant(T, n)
  PROVE  ReadsAs(Encoding!Layout(T, Encoding!IEs(id, func, hl, h, ml, m, 1)), id, func,
                 Encoding!ReadAll(h), Encoding!ReadAll(m))
<1> DEFINE b == Encoding!IEs(id, func, hl, h, ml, m, 1)
           f == Encoding!Layout(T, b)
<1> DEFINE to == 24 + x + y
<1>1. Collected(b, to, id, func, h, m)
    BY IEsRead, Zenon
<1>0. b \in Seq(Int) /\ Len(b) = 23 + x + y /\ to = Len(b) + 1 /\ to \in Int
  <2>1. b \in Seq(Int) /\ to = Len(b) + 1
      BY <1>1 DEF Collected
  <2> HIDE DEF b
  <2> QED BY <2>1
<1> HIDE DEF b, to
<1>2. Encoding!Body(f) = b
  <2>1. Encoding!Body(f) = Encoding!ReadAll(T \o b)
      BY <1>0, LayoutRead, Zenon
  <2>2. Encoding!ReadAll(T \o b) = b
      BY <1>0, AllRead, Zenon
  <2> QED BY <2>1, <2>2
<1> HIDE DEF f
<1>3. PICK vs \in Values :
           /\ Encoding!AtEnd(b) = Reading(b, to, vs)
           /\ vs[29] = <<0, 0, id, 0, 0>> /\ vs[5] = <<0, func>> /\ vs[21] = <<64>>
           /\ vs[22] = h /\ vs[23] = m
    BY <1>1, Zenon DEF Collected
<1>4. vs[29][3] = id /\ vs[5][2] = func /\ vs[21][1] \div 64 = 1
    BY <1>3
<1> DEFINE all == Reading(b, to, vs)
<1>5. all # Malformed
  <2>2. all \in [body : Seq(Int), next : Int, values : Values]
      BY <1>0, Zenon DEF Reading
  <2> QED BY <2>2, EncodingAssumption DEF Values
<1>6. all.next = Len(b) + 1 /\ all.values = vs
    BY <1>0 DEF Reading
<1> HIDE DEF all
<1>7. Encoding!Read(f) = [id |-> vs[29][3], func |-> vs[5][2],
                          header |-> Encoding!ReadAll(vs[22]),
                          msg |-> Encoding!ReadAll(vs[23]), ack |-> vs[21][1] \div 64]
    BY <1>2, <1>3, <1>5, <1>6, Zenon DEF Encoding!Read, all
<1> QED BY <1>3, <1>4, <1>7 DEF f, b, ReadsAs

(* encode_length is right up to 127 and from 256 to 16383.                 *)
LEMMA LengthEncoded ==
  ASSUME NEW n \in Nat, n < 128 \/ (256 <= n /\ n < 16384)
  PROVE  /\ Encoding!EncodeLength(n) \in Seq(Int) /\ Determinant(Encoding!EncodeLength(n), n)
         /\ Len(Encoding!EncodeLength(n)) = IF n < 128 THEN 1 ELSE 2
<1>1. CASE n < 128
  <2>1. Encoding!EncodeLength(n) = <<n>>
      BY <1>1 DEF Encoding!EncodeLength
  <2> QED BY <1>1, <2>1 DEF Determinant, Short
<1>2. CASE n >= 128
  <2>1. (n \div 256) % 64 = n \div 256 /\ n \div 256 \in Int /\ n % 256 \in Int
      BY <1>2
  <2>2. Encoding!EncodeLength(n) = <<128 + (n \div 256), n % 256>>
      BY <1>2, <2>1 DEF Encoding!EncodeLength
  <2>3. Long(Encoding!EncodeLength(n), n)
    <3>1. n \in Nat /\ n < 16384
        BY <1>2
    <3> QED BY <2>2, <3>1 DEF Long
  <2>4. /\ Encoding!EncodeLength(n) \in Seq(Int) /\ Len(Encoding!EncodeLength(n)) = 2
      BY <2>1, <2>2
  <2> QED BY <1>2, <2>3, <2>4 DEF Determinant
<1> QED BY <1>1, <1>2

LEMMA RunTyped ==
  ASSUME NEW byte \in Int, NEW n \in Nat
  PROVE  Encoding!Run(byte, n) \in Seq(Int) /\ Len(Encoding!Run(byte, n)) = n
BY DEF Encoding!Run

(* The octets v behind their length d, as the value of an IE whose length  *)
(* is l, which has n octets.                                               *)
Prefixed(l, d, v, n) ==
  /\ d \in Seq(Int) /\ v \in Seq(Int) /\ Determinant(d, Len(v))
  /\ l \in Seq(Int) /\ Determinant(l, Len(d) + Len(v)) /\ n = 3 + Len(l) + Len(d) + Len(v)

LEMMA OctetString ==
  ASSUME NEW l, NEW d, NEW v, NEW n, Prefixed(l, d, v, n)
  PROVE  Covers(l, d \o v, n) /\ Encoding!ReadAll(d \o v) = v
<1> DEFINE k == Len(d) + Len(v)
<1>0. /\ d \in Seq(Int) /\ v \in Seq(Int) /\ Determinant(d, Len(v))
      /\ l \in Seq(Int) /\ Determinant(l, k) /\ n = 3 + Len(l) + k
    BY DEF Prefixed
<1> HIDE DEF k
<1>1. Encoding!ReadAll(d \o v) = v
    BY <1>0, AllRead, Zenon
<1>2. d \o v \in Seq(Int) /\ Len(d \o v) = k
  <2>1. d \o v \in Seq(Int) /\ Len(d \o v) = Len(d) + Len(v)
      BY <1>0, Joined, Zenon
  <2> QED BY <2>1 DEF k
<1>3. n \in Nat /\ n = 3 + Len(l) + Len(d \o v)
  <2>1. Len(l) \in Nat /\ Len(d \o v) \in Nat
      BY <1>0, <1>2
  <2> QED BY <1>0, <1>2, <2>1
<1> QED BY <1>0, <1>1, <1>2, <1>3, Zenon DEF Covers, Sized

(* The arguments of a call. *)
Ratio == [min : Int, max : Int, dedicated : Int]

LEMMA CccMessageTyped ==
  ASSUME NEW a \in Ratio
  PROVE  /\ Encoding!CccMessage(a) \in Seq(Int)
         /\ Len(Encoding!CccMessage(a)) \in 739..751
<1> DEFINE k == 733 + 2 * (  Encoding!Digits(Encoding!Clamp(a.min))
                           + Encoding!Digits(Encoding!Clamp(a.max))
                           + Encoding!Digits(Encoding!Clamp(a.dedicated)))
<1>1. \A n \in Int : Encoding!Digits(Encoding!Clamp(n)) \in 1..3
    BY DEF Encoding!Digits
<1>2. a.min \in Int /\ a.max \in Int /\ a.dedicated \in Int
    BY DEF Ratio
<1>3. k \in 739..751
  <2>1. /\ Encoding!Digits(Encoding!Clamp(a.min)) \in 1..3
        /\ Encoding!Digits(Encoding!Clamp(a.max)) \in 1..3
        /\ Encoding!Digits(Encoding!Clamp(a.dedicated)) \in 1..3
      BY <1>1, <1>2
  <2> QED BY <2>1
<1> HIDE DEF k
<1>4. Encoding!MessageByte \in Int /\ k \in Nat
    BY <1>3 DEF Encoding!MessageByte
<1>5. Encoding!Run(Encoding!MessageByte, k) \in Seq(Int) /\ Len(Encoding!Run(Encoding!MessageByte, k)) = k
    BY <1>4, RunTyped, Zenon
<1>6. Encoding!CccMessage(a) = Encoding!Run(Encoding!MessageByte, k)
    BY DEF Encoding!CccMessage, k
<1>7. Len(Encoding!CccMessage(a)) = k
    BY <1>5, <1>6, Zenon
<1> QED BY <1>3, <1>5, <1>6, <1>7, Zenon

(* A CCC request is read back, whatever the ratios.                        *)
LEMMA CccRead ==
  ASSUME NEW id \in Int, NEW func \in Int, NEW H \in Seq(Int), Len(H) = 44,
         NEW M \in Seq(Int), Len(M) \in 739..751,
         NEW f, f = Encoding!CccFrame(id, func, H, M, 1), f # Malformed
  PROVE  ReadsAs(f, id, func, H, M)
<1> DEFINE m == Len(M)
           d == Encoding!EncodeLength(44)
           l == Encoding!EncodeLength(45)
           md == Encoding!EncodeLength(m)
           ml == Encoding!EncodeLength(m + 2)
           T == Encoding!EncodeLength(m + 79)
<1>0. m \in 739..751
    OBVIOUS
<1>1. /\ d \in Seq(Int) /\ Determinant(d, 44) /\ Len(d) = 1
      /\ l \in Seq(Int) /\ Determinant(l, 45) /\ Len(l) = 1
    BY LengthEncoded
<1>2. /\ md \in Seq(Int) /\ Determinant(md, m) /\ Len(md) = 2
      /\ ml \in Seq(Int) /\ Determinant(ml, m + 2) /\ Len(ml) = 2
      /\ T \in Seq(Int) /\ Determinant(T, m + 79)
  <2> HIDE DEF m
  <2>1. m \in Nat /\ 256 <= m /\ m + 79 < 16384
      BY <1>0
  <2> DEFINE m2 == m + 2
             m79 == m + 79
  <2>2. /\ m \in Nat /\ 256 <= m /\ m < 16384 /\ ~ (m < 128)
        /\ m2 \in Nat /\ 256 <= m2 /\ m2 < 16384 /\ ~ (m2 < 128)
        /\ m79 \in Nat /\ 256 <= m79 /\ m79 < 16384
      BY <2>1
  <2> HIDE DEF m2, m79
  <2>3. md \in Seq(Int) /\ Determinant(md, m) /\ Len(md) = 2
      BY <2>2, LengthEncoded
  <2>4. /\ Encoding!EncodeLength(m2) \in Seq(Int) /\ Determinant(Encoding!EncodeLength(m2), m2)
        /\ Len(Encoding!EncodeLength(m2)) = 2
      BY <2>2, LengthEncoded
  <2>5. Encoding!EncodeLength(m79) \in Seq(Int) /\ Determinant(Encoding!EncodeLength(m79), m79)
      BY <2>2, LengthEncoded
  <2> QED BY <2>3, <2>4, <2>5 DEF m2, m79
<1>3. f = Encoding!Layout(T, Encoding!IEs(id, func, l, d \o H, ml, md \o M, 1))
  <2>1. 32 + 44 + m + 1 + 2 = m + 79 /\ 44 + 1 = 45
      OBVIOUS
  <2> QED BY <2>1 DEF Encoding!CccFrame, Encoding!Octets
<1> HIDE DEF d, l, md, ml, T
<1> DEFINE x == 49
           y == m + 7
           n == m + 79
<1>4. x \in Nat /\ y \in Nat /\ n = 23 + x + y
    BY <1>0
<1>5. Prefixed(l, d, H, x)
    BY <1>1 DEF Prefixed
<1>6. Prefixed(ml, md, M, y)
  <2>1. Determinant(ml, Len(md) + Len(M)) /\ y = 3 + Len(ml) + Len(md) + Len(M)
    <3>1. m + 2 = Len(md) + Len(M) /\ y = 3 + Len(ml) + Len(md) + Len(M)
        BY <1>0, <1>2
    <3> QED BY <1>2, <3>1
  <2> QED BY <1>2, <2>1 DEF Prefixed
<1> HIDE DEF m, x, y, n
<1>7. Covers(l, d \o H, x) /\ Encoding!ReadAll(d \o H) = H
    BY <1>5, OctetString, Zenon
<1>8. Covers(ml, md \o M, y) /\ Encoding!ReadAll(md \o M) = M
    BY <1>6, OctetString, Zenon
<1>9. T \in Seq(Int) /\ Determinant(T, n)
    BY <1>2 DEF n
<1>10. ReadsAs(Encoding!Layout(T, Encoding!IEs(id, func, l, d \o H, ml, md \o M, 1)), id, func,
              Encoding!ReadAll(d \o H), Encoding!ReadAll(md \o M))
    BY <1>4, <1>7, <1>8, <1>9, FrameRead, Zenon
<1> QED BY <1>3, <1>7, <1>10, <1>8, Zenon

(* An RC request whose length fits the one octet is read back.             *)
LEMMA ShortRcRead ==
  ASSUME NEW id \in Int, NEW func \in Int, NEW H \in Seq(Int), NEW M \in Seq(Int),
         33 + Len(H) + Len(M) < 128,
         NEW f, f = Encoding!RcFrame(id, func, H, M, 1), f # Malformed
  PROVE  ReadsAs(f, id, func, H, M)
<1> DEFINE h == Len(H)
           m == Len(M)
           n == 33 + h + m
           x == h + 5
           y == m + 5
           T == <<n>>
           d == <<h>>
           l == <<h + 1>>
           md == <<m>>
           ml == <<m + 1>>
<1>1. h \in Nat /\ m \in Nat /\ n < 128 /\ n \in Nat /\ h < 127 /\ m < 127
    OBVIOUS
<1>2. f = Encoding!Layout(T, Encoding!IEs(id, func, l, d \o H, ml, md \o M, 1))
    BY DEF Encoding!RcFrame, Encoding!Octets
<1> HIDE DEF n
<1>3. Determinant(T, n) /\ T \in Seq(Int)
    BY <1>1 DEF Determinant, Short
<1>4. x \in Nat /\ y \in Nat /\ n = 23 + x + y
    BY <1>1 DEF n
<1> HIDE DEF T
<1>5. Prefixed(l, d, H, x)
  <2> HIDE DEF h
  <2>1. /\ d \in Seq(Int) /\ Determinant(d, h) /\ l \in Seq(Int) /\ Determinant(l, h + 1)
        /\ Len(d) = 1 /\ Len(l) = 1
      BY <1>1 DEF Determinant, Short
  <2> HIDE DEF d, l
  <2>2. Len(d) + h = h + 1 /\ x = 3 + Len(l) + Len(d) + h
      BY <1>1, <2>1
  <2> QED BY <2>1, <2>2 DEF Prefixed, h
<1>6. Prefixed(ml, md, M, y)
  <2> HIDE DEF m
  <2>1. /\ md \in Seq(Int) /\ Determinant(md, m) /\ ml \in Seq(Int) /\ Determinant(ml, m + 1)
        /\ Len(md) = 1 /\ Len(ml) = 1
      BY <1>1 DEF Determinant, Short
  <2> HIDE DEF md, ml
  <2>2. Len(md) + m = m + 1 /\ y = 3 + Len(ml) + Len(md) + m
      BY <1>1, <2>1
  <2> QED BY <2>1, <2>2 DEF Prefixed, m
<1> HIDE DEF h, m, x, y, d, l, md, ml
<1>7. Covers(l, d \o H, x) /\ Encoding!ReadAll(d \o H) = H
    BY <1>5, OctetString, Zenon
<1>8. Covers(ml, md \o M, y) /\ Encoding!ReadAll(md \o M) = M
    BY <1>6, OctetString, Zenon
<1>9. ReadsAs(Encoding!Layout(T, Encoding!IEs(id, func, l, d \o H, ml, md \o M, 1)), id, func,
              Encoding!ReadAll(d \o H), Encoding!ReadAll(md \o M))
    BY <1>3, <1>4, <1>7, <1>8, FrameRead, Zenon
<1> QED BY <1>2, <1>7, <1>8, <1>9, Zenon

(* Octets whose first is k >= 128 where it should be their number, with 0 *)
(* behind it, are not one whole run of octets: as the first of two length  *)
(* octets it announces none or more than 255, from 192 on it announces     *)
(* nothing that is read.                                                   *)
LEMMA LongOctetUnreadable ==
  ASSUME NEW g \in Seq(Int), NEW k \in Nat, k >= 128,
         Len(g) = k + 1, g[1] = k, g[2] = 0
  PROVE  Encoding!ReadAll(g) = Malformed
<1> DEFINE r == Encoding!ReadOctets(g, 1)
<1>1. CASE k > 191
  <2>1. ~ (g[1] < 128) /\ ~ (g[1] \in 128..191)
      BY <1>1
  <2>2. r = Malformed
      BY <2>1, Zenon DEF Encoding!ReadOctets
  <2> QED BY <2>2, Zenon DEF Encoding!ReadAll
<1>2. CASE k \in 128..191
  <2> DEFINE n == (k - 128) * 256
  <2>1. n \in Nat /\ n # k - 1
      BY <1>2
  <2>2. (g[1] - 128) * 256 + g[1 + 1] = n
      BY <1>2, <2>1
  <2>3. ~ (g[1] < 128)
      BY <1>2
  <2>4. \/ r = Malformed
        \/ r = [octets |-> SubSeq(g, 1 + 2, 1 + 2 + n - 1), next |-> 1 + 2 + n]
      BY <2>2, <2>3, Zenon DEF Encoding!ReadOctets
  <2> HIDE DEF n, r
  <2>5. 1 + 2 + n # Len(g) + 1
      BY <2>1
  <2>6. r = Malformed \/ r.next # Len(g) + 1
      BY <2>4, <2>5
  <2> QED BY <2>6, Zenon DEF Encoding!ReadAll, r
<1> QED BY <1>1, <1>2

LEMMA NoBodyNoRequest ==
  ASSUME NEW f, Encoding!Body(f) = Malformed
  PROVE  Encoding!Read(f) = Malformed
<1>1. Encoding!AtId(Malformed) = Malformed
    BY Zenon DEF Encoding!AtId
<1>2. \A n : Encoding!ReadIE(Malformed, n) = Malformed
    BY Zenon DEF Encoding!ReadIE
<1>3. Encoding!AtEnd(Malformed) = Malformed
    BY <1>1, <1>2, Zenon
       DEF Encoding!AtEnd, Encoding!AtAck, Encoding!AtMessage, Encoding!AtHeader, Encoding!AtFunction
<1> QED BY <1>3, Zenon DEF Encoding!Read

(* What an octet put in front of others makes of their first two.          *)
LEMMA Led ==
  ASSUME NEW s \in Seq(Int), NEW t \in Seq(Int), Len(s) = 1, Len(t) >= 1
  PROVE  (s \o t)[1] = s[1] /\ (s \o t)[2] = t[1]
<1> DEFINE g == s \o t
<1>1. g \in Seq(Int) /\ 1 \in Int
    OBVIOUS
<1>2. Holds(g, 1, s) /\ Holds(g, 1 + Len(s), t)
    BY <1>1, HoldsItself, HoldsParts, Zenon
<1> HIDE DEF g
<1>3. g[1 + 1 - 1] = s[1] /\ g[1 + Len(s) + 1 - 1] = t[1]
    BY <1>2 DEF Holds
<1>4. g[1] = s[1] /\ g[2] = t[1]
    BY <1>3
<1> QED BY <1>4 DEF g

(* An RC request whose length does not fit is read as nothing.             *)
LEMMA LongRcUnreadable ==
  ASSUME NEW id \in Int, NEW func \in Int, NEW H \in Seq(Int), NEW M \in Seq(Int),
         33 + Len(H) + Len(M) >= 128,
         NEW f, f = Encoding!RcFrame(id, func, H, M, 1), f # Malformed
  PROVE  Encoding!Read(f) = Malformed
<1> DEFINE h == Len(H)
           m == Len(M)
           k == 33 + h + m
           x == h + 5
           y == m + 5
           T == <<k>>
           d == <<h>>
           l == <<h + 1>>
           md == <<m>>
           ml == <<m + 1>>
           b == Encoding!IEs(id, func, l, d \o H, ml, md \o M, 1)
<1>1. h \in Nat /\ m \in Nat /\ k >= 128 /\ k \in Nat
    OBVIOUS
<1>2. f = Encoding!Layout(T, b)
    BY DEF Encoding!RcFrame, Encoding!Octets
<1>3. Sized(l, d \o H, x) /\ Sized(ml, md \o M, y)
  <2>1. /\ l \in Seq(Int) /\ d \in Seq(Int) /\ ml \in Seq(Int) /\ md \in Seq(Int)
        /\ Len(l) = 1 /\ Len(d) = 1 /\ Len(ml) = 1 /\ Len(md) = 1
      BY <1>1
  <2> HIDE DEF l, d, ml, md
  <2>2. /\ d \o H \in Seq(Int) /\ Len(d \o H) = Len(d) + Len(H)
        /\ md \o M \in Seq(Int) /\ Len(md \o M) = Len(md) + Len(M)
      BY <2>1, Joined, Zenon
  <2>3. Len(d \o H) = 1 + h /\ Len(md \o M) = 1 + m
      BY <2>1, <2>2
  <2> HIDE DEF h, m
  <2>4. /\ x = 3 + Len(l) + Len(d \o H) /\ x \in Nat
        /\ y = 3 + Len(ml) + Len(md \o M) /\ y \in Nat
      BY <1>1, <2>1, <2>3
  <2> QED BY <2>1, <2>2, <2>4, Zenon DEF Sized
<1>4. x \in Nat /\ y \in Nat /\ k = 23 + x + y
    BY <1>1
<1> HIDE DEF h, m, k, x, y, d, l, md, ml
<1>5. Placed(b, id, func, l, d \o H, ml, md \o M, x, y)
    BY <1>3, <1>4, IEsPlaced, Zenon
<1> HIDE DEF b
<1>6. b \in Seq(Int) /\ Len(b) = k
  <2>1. b \in Seq(Int) /\ Len(b) = 23 + x + y
      BY <1>5, Zenon DEF Placed
  <2> QED BY <1>4, <2>1
<1>7. b[1] = 0
  <2> DEFINE tag == <<0, 0, 5>>
  <2>1. tag[1] = 0 /\ 1 \in 1..Len(tag) /\ 1 + 1 - 1 = 1
      OBVIOUS
  <2>2. Holds(b, 1, tag)
      BY <1>5, Zenon DEF Placed
  <2> HIDE DEF tag
  <2> QED BY <2>1, <2>2 DEF Holds
<1>8. Encoding!ReadAll(T \o b) = Malformed
  <2>1. T \in Seq(Int) /\ Len(T) = 1 /\ T[1] = k
      BY <1>1
  <2> HIDE DEF T
  <2> DEFINE g == T \o b
  <2>5. g \in Seq(Int) /\ Len(g) = Len(T) + Len(b)
      BY <1>6, <2>1, Joined, Zenon
  <2>6. g[1] = T[1] /\ g[2] = b[1]
    <3>1. Len(b) >= 1
        BY <1>1, <1>6
    <3> QED BY <1>6, <2>1, <3>1, Led
  <2>2. g \in Seq(Int) /\ Len(g) = k + 1 /\ g[1] = k /\ g[2] = 0
    <3> HIDE DEF g
    <3> QED BY <1>1, <1>6, <1>7, <2>1, <2>5, <2>6
  <2>3. g \in Seq(Int) /\ Len(g) = k + 1 /\ g[1] = k /\ g[2] = 0
      BY <2>2
  <2> HIDE DEF g
  <2>4. Encoding!ReadAll(g) = Malformed
      BY <1>1, <2>3, LongOctetUnreadable
  <2> QED BY <2>4 DEF g
<1>9. Encoding!Body(f) = Malformed
  <2>1. T \in Seq(Int)
      BY <1>1
  <2> HIDE DEF T
  <2>2. Encoding!Body(Encoding!Layout(T, b)) = Encoding!ReadAll(T \o b)
      BY <1>6, <2>1, LayoutRead, Zenon
  <2> QED BY <1>2, <1>8, <2>2, Zenon
<1> QED BY <1>9, NoBodyNoRequest, Zenon

-----------------------------------------------------------------------------
LEMMA Least ==
  ASSUME NEW T, T \subseteq Nat, T # {}
  PROVE  \E n \in T : \A m \in T : n <= m
<1> DEFINE R == {ss \in Nat \X Nat : ss[1] < ss[2]}
<1>1. IsWellFoundedOn(R, Nat)
    BY NatLessThanWellFounded, Zenon DEF OpToRel
<1>2. PICK x \in T : \A y \in T : ~ (<<y, x>> \in R)
  <2> HIDE DEF R
  <2> QED BY <1>1, WFMin, Zenon
<1>3. \A y \in T : ~ (y < x)
    BY <1>2
<1> QED BY <1>3

(* A flattened tree: the ids of its parameters, the parent of each and the *)
(* ids of the bare lists.                                                  *)
IsTree(tree, ids, par, bare) ==
  /\ ids \subseteq 1..21
  /\ \A p \in tree : p.id \in ids /\ p.parent = par[p.id] /\ (p.choice = "bare list" <=> p.id \in bare)
  /\ \A n \in ids : (\E p \in tree : p.id = n) /\ par[n] \in ids \cup {0} /\ par[n] < n

(* No bare list is on the way to the parameters with an id in R.           *)
Reaches(R, ids, par, bare) ==
  \A n \in ids : n \in R <=> par[n] = 0 \/ (par[n] \notin bare /\ par[n] \in R)

(* What is encoded of a tree: the parameters with an id in R.              *)
Carries(tree, R) == Encoding!Encoded(tree) = {p \in tree : p.id \in R}

LEMMA EncodedIs ==
  ASSUME NEW tree, NEW ids, NEW par, NEW bare, IsTree(tree, ids, par, bare),
         NEW R, Reaches(R, ids, par, bare)
  PROVE  Carries(tree, R)
<1> DEFINE S(h, n) == \A q \in Encoding!Parents(tree, n) : q.choice # "bare list" /\ h[q.id]
           Step(h) == [n \in 0..21 |-> S(h, n)]
           Reached(n) == n \in ids => n \in R
<1>0. ids \subseteq 1..21 /\ \A n \in ids : n \in 0..21 /\ n # 0
  <2>1. ids \subseteq 1..21
      BY Zenon DEF IsTree
  <2> QED BY <2>1
<1>1. ASSUME NEW h, NEW n \in 0..21, n \in ids /\ par[n] # 0 => (h[par[n]] <=> par[n] \in R)
      PROVE  S(h, n) <=> Reached(n)
  <2>1. CASE n \notin ids
    <3>1. Encoding!Parents(tree, n) = {}
        BY <2>1, Zenon DEF IsTree, Encoding!Parents
    <3> QED BY <2>1, <3>1, Zenon
  <2>2. CASE n \in ids
    <3>1. PICK p \in tree : p.id = n
        BY <2>2, Zenon DEF IsTree
    <3>2. ASSUME NEW q \in tree PROVE q \in Encoding!Parents(tree, n) <=> q.id = par[n]
        BY <3>1, Zenon DEF IsTree, Encoding!Parents
    <3>3. CASE par[n] = 0
      <4>1. Encoding!Parents(tree, n) = {}
        <5>1. \A q \in tree : q.id # par[n]
            BY <1>0, <3>3, Zenon DEF IsTree
        <5>2. Encoding!Parents(tree, n) \subseteq tree
            BY Zenon DEF Encoding!Parents
        <5> QED BY <3>2, <5>1, <5>2, Zenon
      <4> QED BY <2>2, <3>3, <4>1, Zenon DEF Reaches
    <3>4. CASE par[n] # 0
      <4>1. par[n] \in ids
          BY <2>2, <3>4, Zenon DEF IsTree
      <4>2. PICK q \in tree : q.id = par[n]
          BY <4>1, Zenon DEF IsTree
      <4>3. S(h, n) <=> par[n] \notin bare /\ h[par[n]]
        <5>1. S(h, n) => par[n] \notin bare /\ h[par[n]]
            BY <3>2, <4>2, Zenon DEF IsTree
        <5>2. ASSUME par[n] \notin bare, h[par[n]], NEW r \in Encoding!Parents(tree, n)
              PROVE  r.choice # "bare list" /\ h[r.id]
          <6>1. r \in tree
              BY Zenon DEF Encoding!Parents
          <6>2. r.id = par[n] /\ r.id \notin bare
              BY <3>2, <5>2, <6>1, Zenon
          <6> QED BY <5>2, <6>1, <6>2, Zenon DEF IsTree
        <5> QED BY <5>1, <5>2, Zenon
      <4> QED BY <1>1, <2>2, <3>4, <4>3, Zenon DEF Reaches
    <3> QED BY <3>3, <3>4, Zenon
  <2> QED BY <2>1, <2>2, Zenon
<1>2. \E g : g = Step(g)
  <2> DEFINE g == [n \in 0..21 |-> Reached(n)]
  <2>1. ASSUME NEW n \in 0..21 PROVE S(g, n) <=> Reached(n)
    <3>1. ASSUME n \in ids, par[n] # 0 PROVE g[par[n]] <=> par[n] \in R
      <4>1. par[n] \in ids
          BY <3>1, Zenon DEF IsTree
      <4>2. par[n] \in 0..21
          BY <1>0, <4>1, Zenon
      <4>3. g[par[n]] = Reached(par[n])
          BY <4>2, Zenon
      <4> QED BY <4>1, <4>3, Zenon
    <3> HIDE DEF g, S, Reached
    <3> QED BY <1>1, <3>1, Zenon
  <2>2. g = Step(g)
    <3>1. ASSUME NEW n \in 0..21 PROVE Reached(n) = S(g, n)
      <4> HIDE DEF g
      <4> DEFINE a == Reached(n)
                 b == S(g, n)
      <4>1. a \in BOOLEAN /\ b \in BOOLEAN
          OBVIOUS
      <4>2. a <=> b
          BY <2>1, Zenon
      <4> HIDE DEF a, b
      <4>3. a = b
          BY <4>1, <4>2
      <4> QED BY <4>3, Zenon DEF a, b
    <3> HIDE DEF S, Reached
    <3> QED BY <3>1, Zenon
  <2> HIDE DEF g, Step
  <2> QED BY <2>2, Zenon
<1> DEFINE p == CHOOSE g : g = Step(g)
<1>3. p = Step(p)
  <2> HIDE DEF Step
  <2> QED BY <1>2
<1>4. Encoding!Encoded(tree) = {q \in tree : p[q.id]}
    BY Zenon DEF Encoding!Encoded
<1> HIDE DEF p
<1>5. ASSUME NEW n \in 0..21 PROVE p[n] = S(p, n)
  <2>1. Step(p)[n] = S(p, n)
    <3> HIDE DEF S
    <3> QED BY Zenon
  <2> HIDE DEF Step, S
  <2> QED BY <1>3, <2>1, Zenon
<1> HIDE DEF Step
<1>6. ASSUME NEW n \in 0..21 PROVE p[n] <=> Reached(n)
  <2> DEFINE D == {k \in 0..21 : ~ (p[k] <=> Reached(k))}
  <2>1. ASSUME D # {} PROVE FALSE
    <3>1. PICK k \in D : \A i \in D : k <= i
      <4>1. D \subseteq Nat
          OBVIOUS
      <4> HIDE DEF D
      <4> QED BY <2>1, <4>1, Least
    <3>2. k \in 0..21 /\ ~ (p[k] <=> Reached(k))
        BY Zenon
    <3>3. ASSUME k \in ids, par[k] # 0 PROVE p[par[k]] <=> par[k] \in R
      <4>1. par[k] \in ids /\ par[k] < k
          BY <3>3, Zenon DEF IsTree
      <4>2. par[k] \in 0..21
          BY <1>0, <4>1, Zenon
      <4>3. par[k] \notin D
        <5> HIDE DEF D
        <5> QED BY <3>1, <3>2, <4>1, <4>2
      <4>4. p[par[k]] <=> Reached(par[k])
          BY <4>2, <4>3, Zenon
      <4> QED BY <4>1, <4>4, Zenon
    <3> HIDE DEF S, Reached
    <3>4. S(p, k) <=> Reached(k)
        BY <1>1, <3>2, <3>3, Zenon
    <3> QED BY <1>5, <3>2, <3>4, Zenon
  <2> QED BY <2>1, Zenon
<1>7. ASSUME NEW q \in tree PROVE p[q.id] <=> q.id \in R
  <2>1. q.id \in ids
      BY Zenon DEF IsTree
  <2> QED BY <1>0, <1>6, <2>1, Zenon
<1> QED BY <1>4, <1>7, Zenon DEF Carries

QuotaIds == {1, 3, 4, 6, 7, 8, 9, 10, 11, 12}
QuotaParent ==
  [n \in QuotaIds |-> IF n = 1 THEN 0 ELSE IF n \in {3, 10, 11, 12} THEN 1
                      ELSE IF n = 4 THEN 3 ELSE IF n \in {6, 7} THEN 4 ELSE 7]

(* A quota request carries all its parameters. *)
LEMMA QuotaEncoded ==
  ASSUME NEW a
  PROVE  Encoding!Encoded(Encoding!QuotaTree(a)) = Encoding!QuotaTree(a)
<1> DEFINE tree == Encoding!QuotaTree(a)
<1>1. /\ \A p \in tree : p.id \in QuotaIds /\ p.parent = QuotaParent[p.id] /\ p.choice # "bare list"
      /\ \A n \in QuotaIds : \E p \in tree : p.id = n
    BY DEF Encoding!QuotaTree, Encoding!Param, QuotaIds, QuotaParent
<1> HIDE DEF tree
<1>2. /\ QuotaIds \subseteq 1..21
      /\ \A n \in QuotaIds : QuotaParent[n] \in QuotaIds \cup {0} /\ QuotaParent[n] < n
    BY DEF QuotaIds, QuotaParent
<1>3. IsTree(tree, QuotaIds, QuotaParent, {})
    BY <1>1, <1>2, Zenon DEF IsTree
<1>4. Reaches(QuotaIds, QuotaIds, QuotaParent, {})
    BY <1>2, Zenon DEF Reaches
<1>5. Carries(tree, QuotaIds)
    BY <1>3, <1>4, EncodedIs, Zenon
<1>6. Encoding!Encoded(tree) = tree
    BY <1>1, <1>5, Zenon DEF Carries
<1> QED BY <1>6 DEF tree

HandoverParent ==
  [n \in 1..21 |-> IF n \in {1, 7, 13, 19} THEN 0 ELSE IF n = 5 THEN 2
                  ELSE IF n \in {10, 16} THEN n - 2 ELSE n - 1]
BareLists == {7, 10, 13, 16, 19}

(* A handover request loses what is in its lists. *)
LEMMA HandoverEncoded ==
  {p.id : p \in Encoding!Encoded(Encoding!HandoverTree)} = 1..7 \cup {13, 19}
<1> DEFINE tree == Encoding!HandoverTree
           R == 1..7 \cup {13, 19}
           IsParam(p) == /\ p.id \in 1..21 /\ p.parent = HandoverParent[p.id]
                         /\ p.choice = "bare list" <=> p.id \in BareLists
<1> DEFINE item(n) == {Encoding!Param(n, 0, "bare list", 0), Encoding!Param(n + 1, n, "structure", 0),
                       Encoding!Param(n + 2, n + 1, "element", 0),
                       Encoding!Param(n + 3, n + 1, "bare list", 0),
                       Encoding!Param(n + 4, n + 3, "structure", 0),
                       Encoding!Param(n + 5, n + 4, "element", 0)}
           cell == {Encoding!Param(n, n - 1, "structure", 0) : n \in 1..3}
                   \cup {Encoding!Param(4, 3, "element", 0), Encoding!Param(5, 2, "structure", 0),
                         Encoding!Param(6, 5, "element", 0)}
           cells == {Encoding!Param(19, 0, "bare list", 0), Encoding!Param(20, 19, "structure", 0),
                     Encoding!Param(21, 20, "element", 0)}
<1>0. tree = cell \cup (UNION {item(n) : n \in {7, 13}}) \cup cells
    BY DEF Encoding!HandoverTree
<1> HIDE DEF tree
<1>1. \A p \in tree : IsParam(p)
  <2>1. \A p \in cell : IsParam(p)
    <3>1. \A n \in 1..3 : IsParam(Encoding!Param(n, n - 1, "structure", 0))
        BY DEF Encoding!Param, HandoverParent, BareLists
    <3>2. IsParam(Encoding!Param(4, 3, "element", 0))
        BY DEF Encoding!Param, HandoverParent, BareLists
    <3>3. IsParam(Encoding!Param(5, 2, "structure", 0))
        BY DEF Encoding!Param, HandoverParent, BareLists
    <3>4. IsParam(Encoding!Param(6, 5, "element", 0))
        BY DEF Encoding!Param, HandoverParent, BareLists
    <3> HIDE DEF IsParam
    <3> QED BY <3>1, <3>2, <3>3, <3>4, Zenon
  <2>2. ASSUME NEW n \in {7, 13} PROVE \A p \in item(n) : IsParam(p)
    <3>1. IsParam(Encoding!Param(n, 0, "bare list", 0))
        BY DEF Encoding!Param, HandoverParent, BareLists
    <3>2. IsParam(Encoding!Param(n + 1, n, "structure", 0))
        BY DEF Encoding!Param, HandoverParent, BareLists
    <3>3. IsParam(Encoding!Param(n + 2, n + 1, "element", 0))
        BY DEF Encoding!Param, HandoverParent, BareLists
    <3>4. IsParam(Encoding!Param(n + 3, n + 1, "bare list", 0))
        BY DEF Encoding!Param, HandoverParent, BareLists
    <3>5. IsParam(Encoding!Param(n + 4, n + 3, "structure", 0))
        BY DEF Encoding!Param, HandoverParent, BareLists
    <3>6. IsParam(Encoding!Param(n + 5, n + 4, "element", 0))
        BY DEF Encoding!Param, HandoverParent, BareLists
    <3> HIDE DEF IsParam
    <3> QED BY <3>1, <3>2, <3>3, <3>4, <3>5, <3>6, Zenon
  <2>3. \A p \in cells : IsParam(p)
    <3>1. IsParam(Encoding!Param(19, 0, "bare list", 0))
        BY DEF Encoding!Param, HandoverParent, BareLists
    <3>2. IsParam(Encoding!Param(20, 19, "structure", 0))
        BY DEF Encoding!Param, HandoverParent, BareLists
    <3>3. IsParam(Encoding!Param(21, 20, "element", 0))
        BY DEF Encoding!Param, HandoverParent, BareLists
    <3> HIDE DEF IsParam
    <3> QED BY <3>1, <3>2, <3>3, Zenon
  <2> HIDE DEF cell, item, cells, IsParam
  <2>4. \A p \in tree : p \in cell \/ (\E n \in {7, 13} : p \in item(n)) \/ p \in cells
      BY <1>0
  <2> QED BY <2>1, <2>2, <2>3, <2>4, Zenon
<1>2. \A n \in 1..21 : \E p \in tree : p.id = n
  <2>1. ASSUME NEW n \in 1..6 PROVE \E p \in cell : p.id = n
    <3>1. CASE n \in 1..3
      <4>1. Encoding!Param(n, n - 1, "structure", 0) \in cell
          BY <3>1
      <4> QED BY <4>1, Zenon DEF Encoding!Param
    <3>2. CASE n \in {4, 5, 6}
      <4>1. /\ Encoding!Param(4, 3, "element", 0) \in cell
            /\ Encoding!Param(5, 2, "structure", 0) \in cell
            /\ Encoding!Param(6, 5, "element", 0) \in cell
          BY Zenon
      <4> QED BY <3>2, <4>1, Zenon DEF Encoding!Param
    <3> QED BY <3>1, <3>2
  <2>2. ASSUME NEW n \in {7, 13}, NEW k \in n..n + 5 PROVE \E p \in item(n) : p.id = k
      BY DEF Encoding!Param
  <2>3. \A n \in 19..21 : \E p \in cells : p.id = n
      BY DEF Encoding!Param
  <2> HIDE DEF cell, item, cells
  <2>4. \A n \in 1..21 : n \in 1..6 \/ n \in 7..7 + 5 \/ n \in 13..13 + 5 \/ n \in 19..21
      OBVIOUS
  <2> SUFFICES ASSUME NEW n \in 1..21 PROVE \E p \in tree : p.id = n
      OBVIOUS
  <2>5. CASE n \in 1..6
      BY <1>0, <2>1, <2>5, Zenon
  <2>6. CASE n \in 7..7 + 5
      BY <1>0, <2>2, <2>6, Zenon
  <2>7. CASE n \in 13..13 + 5
      BY <1>0, <2>2, <2>7, Zenon
  <2>8. CASE n \in 19..21
    <3>1. PICK p \in cells : p.id = n
        BY <2>3, <2>8
    <3> QED BY <1>0, <3>1
  <2> QED BY <2>4, <2>5, <2>6, <2>7, <2>8
<1> HIDE DEF cell, item, cells
<1>3. \A n \in 1..21 : HandoverParent[n] \in 1..21 \cup {0} /\ HandoverParent[n] < n
    BY DEF HandoverParent
<1>4. IsTree(tree, 1..21, HandoverParent, BareLists)
    BY <1>1, <1>2, <1>3, Zenon DEF IsTree
<1>5. Reaches(R, 1..21, HandoverParent, BareLists)
    BY DEF Reaches, HandoverParent, BareLists
<1> HIDE DEF R, IsParam
<1>6. Carries(tree, R)
    BY <1>4, <1>5, EncodedIs, Zenon
<1>7. R \subseteq 1..21
    BY DEF R
<1>8. {p.id : p \in Encoding!Encoded(tree)} = R
    BY <1>2, <1>6, <1>7, Zenon DEF Carries
<1> QED BY <1>8 DEF tree, R

(* A call that was made has its arguments, and what was sent for it is     *)
(* what its function builds.                                               *)
CallTyped(c) ==
  c \in [fn : Encoding!Functions, args : Ratio, h : Nat, m : Nat, id : Int, func : Int]

SentInv ==
  /\ frame # Malformed
  /\ call.fn = "ccc" =>
       /\ Encoding!CccAccepts(call.args)
       /\ frame = Encoding!CccFrame(call.id, call.func, Encoding!CccHeader,
                                    Encoding!CccMessage(call.args), 1)
  /\ call.fn # "ccc" =>
       frame = Encoding!RcFrame(call.id, call.func, Encoding!RcBody[1], Encoding!RcBody[2], 1)
  /\ call.fn = "quota" => params = Encoding!Encoded(Encoding!QuotaTree(call.args))
  /\ call.fn = "handover" => params = Encoding!Encoded(Encoding!HandoverTree)

RequestInv == (callPc # "idle" => CallTyped(call)) /\ (callPc = "sent" => SentInv)

LEMMA RequestInvStep == RequestInv /\ [Encoding!Next]_encodingVars => RequestInv'
<1> SUFFICES ASSUME RequestInv, [Encoding!Next]_encodingVars PROVE RequestInv'
    OBVIOUS
<1>1. ASSUME NEW c \in Calls, Encoding!Call(c) PROVE RequestInv'
  <2>1. c \in [fn : Encoding!Functions, args : Ratio, h : Nat, m : Nat, last : Int, func : Int]
      BY EncodingAssumption, Zenon DEF Encoding!IsCall, Ratio
  <2>2. Encoding!NextId(c.last) \in Int
      BY <2>1 DEF Encoding!NextId
  <2>3. call' = [fn |-> c.fn, args |-> c.args, h |-> c.h, m |-> c.m,
                 id |-> Encoding!NextId(c.last), func |-> c.func]
        /\ callPc' = "called"
      BY <1>1, Zenon DEF Encoding!Call
  <2>4. CallTyped(call')
      BY <2>1, <2>2, <2>3 DEF CallTyped
  <2> QED BY <2>3, <2>4 DEF RequestInv
<1>2. CASE Encoding!SendQuota
  <2> DEFINE f == Encoding!RcFrame(call.id, call.func, Encoding!RcBody[1], Encoding!RcBody[2], 1)
  <2>1. /\ callPc = "called" /\ call.fn = "quota" /\ call' = call
        /\ params' = Encoding!Encoded(Encoding!QuotaTree(call.args))
        /\ frame' = (IF f = Malformed THEN <<>> ELSE f)
        /\ callPc' = (IF f = Malformed THEN "raised" ELSE "sent")
      BY <1>2, Zenon DEF Encoding!SendQuota, Encoding!Emit
  <2>2. CallTyped(call')
      BY <2>1, Zenon DEF RequestInv
  <2>3. ASSUME callPc' = "sent" PROVE SentInv'
    <3>1. f # Malformed /\ frame' = f
        BY <2>1, <2>3
    <3>2. Encoding!RcBody' = Encoding!RcBody
        BY <2>1 DEF Encoding!RcBody
    <3> QED BY <2>1, <3>1, <3>2 DEF SentInv
  <2> QED BY <2>2, <2>3 DEF RequestInv
<1>3. CASE Encoding!SendHandover
  <2> DEFINE f == Encoding!RcFrame(call.id, call.func, Encoding!RcBody[1], Encoding!RcBody[2], 1)
  <2>1. /\ callPc = "called" /\ call.fn = "handover" /\ call' = call
        /\ params' = Encoding!Encoded(Encoding!HandoverTree)
        /\ frame' = (IF f = Malformed THEN <<>> ELSE f)
        /\ callPc' = (IF f = Malformed THEN "raised" ELSE "sent")
      BY <1>3, Zenon DEF Encoding!SendHandover, Encoding!Emit
  <2>2. CallTyped(call')
      BY <2>1, Zenon DEF RequestInv
  <2>3. ASSUME callPc' = "sent" PROVE SentInv'
    <3>1. f # Malformed /\ frame' = f
        BY <2>1, <2>3
    <3>2. Encoding!RcBody' = Encoding!RcBody
        BY <2>1 DEF Encoding!RcBody
    <3> QED BY <2>1, <3>1, <3>2 DEF SentInv
  <2> QED BY <2>2, <2>3 DEF RequestInv
<1>4. CASE Encoding!SendPolicyRatio
  <2> DEFINE f == Encoding!CccFrame(call.id, call.func, Encoding!CccHeader,
                                    Encoding!CccMessage(call.args), 1)
  <2>1. /\ callPc = "called" /\ call.fn = "ccc" /\ call' = call
        /\ Encoding!CccAccepts(call.args)
        /\ frame' = (IF f = Malformed THEN <<>> ELSE f)
        /\ callPc' = (IF f = Malformed THEN "raised" ELSE "sent")
      BY <1>4, Zenon DEF Encoding!SendPolicyRatio, Encoding!Emit
  <2>2. CallTyped(call')
      BY <2>1, Zenon DEF RequestInv
  <2>3. ASSUME callPc' = "sent" PROVE SentInv'
    <3>1. f # Malformed /\ frame' = f
        BY <2>1, <2>3
    <3> QED BY <2>1, <3>1 DEF SentInv
  <2> QED BY <2>2, <2>3 DEF RequestInv
<1>5. CASE Encoding!RefusePolicyRatio
    BY <1>5 DEF Encoding!RefusePolicyRatio, RequestInv
<1>6. CASE Encoding!Return
    BY <1>6 DEF Encoding!Return, RequestInv
<1>7. CASE UNCHANGED encodingVars
    BY <1>7 DEF encodingVars, RequestInv, SentInv, Encoding!RcBody
<1> QED BY <1>1, <1>2, <1>3, <1>4, <1>5, <1>6, <1>7 DEF Encoding!Next

LEMMA Clamped == \A r \in Int : Encoding!Clamp(r) \in 0..100
BY DEF Encoding!Clamp

LEMMA FrameAsAsked ==
  ASSUME callPc = "sent", CallTyped(call), SentInv
  PROVE  Encoding!FrameReadable
<1>0. /\ call.args \in Ratio /\ call.id \in Int /\ call.func \in Int
      /\ call.h \in Nat /\ call.m \in Nat
    BY DEF CallTyped
<1>1. CASE call.fn = "ccc"
  <2> DEFINE H == Encoding!CccHeader
             M == Encoding!CccMessage(call.args)
  <2>1. H \in Seq(Int) /\ Len(H) = 44
    <3>1. 44 \in Nat /\ Encoding!HeaderByte \in Int
        BY DEF Encoding!HeaderByte
    <3> QED BY <3>1, RunTyped DEF Encoding!CccHeader
  <2>2. M \in Seq(Int) /\ Len(M) \in 739..751
      BY <1>0, CccMessageTyped, Zenon
  <2> HIDE DEF H, M
  <2>3. frame # Malformed /\ frame = Encoding!CccFrame(call.id, call.func, H, M, 1)
      BY <1>1, Zenon DEF SentInv, H, M
  <2>4. ReadsAs(frame, call.id, call.func, H, M)
      BY <1>0, <2>1, <2>2, <2>3, CccRead
  <2>5. Encoding!Asked = [id |-> call.id, func |-> call.func, ack |-> 1, header |-> H, msg |-> M]
      BY <1>1, Zenon DEF Encoding!Asked, H, M
  <2>6. Encoding!Read(frame) = Encoding!Asked
      BY <2>4, <2>5 DEF ReadsAs
  <2> QED BY <2>6, Zenon DEF Encoding!FrameReadable
<1>2. CASE call.fn # "ccc"
  <2> DEFINE H == Encoding!Run(Encoding!HeaderByte, call.h)
             M == Encoding!Run(Encoding!MessageByte, call.m)
  <2>1. H \in Seq(Int) /\ Len(H) = call.h /\ M \in Seq(Int) /\ Len(M) = call.m
    <3>1. Encoding!MessageByte \in Int /\ Encoding!HeaderByte \in Int
        BY DEF Encoding!HeaderByte, Encoding!MessageByte
    <3> QED BY <1>0, <3>1, RunTyped
  <2>0. Encoding!RcBody[1] = H /\ Encoding!RcBody[2] = M
      BY DEF Encoding!RcBody
  <2> HIDE DEF H, M
  <2>3. frame # Malformed /\ frame = Encoding!RcFrame(call.id, call.func, H, M, 1)
      BY <1>2, <2>0, Zenon DEF SentInv
  <2>5. Encoding!Asked = [id |-> call.id, func |-> call.func, ack |-> 1, header |-> H, msg |-> M]
      BY <1>2, <2>0, Zenon DEF Encoding!Asked
  <2>6. CASE 33 + Len(H) + Len(M) < 128
    <3>1. ReadsAs(frame, call.id, call.func, H, M)
        BY <1>0, <2>1, <2>3, <2>6, ShortRcRead
    <3>2. Encoding!Read(frame) = Encoding!Asked
        BY <2>5, <3>1 DEF ReadsAs
    <3> QED BY <3>2, Zenon DEF Encoding!FrameReadable
  <2>7. CASE 33 + Len(H) + Len(M) >= 128
    <3>1. Encoding!Read(frame) = Malformed
        BY <1>0, <2>1, <2>3, <2>7, LongRcUnreadable
    <3>2. 33 + call.h + call.m >= 128
        BY <2>1, <2>7
    <3> QED BY <1>2, <3>1, <3>2 DEF Encoding!FrameReadable
  <2> QED BY <1>0, <2>1, <2>6, <2>7
<1> QED BY <1>1, <1>2

LEMMA RequestInvSuffices == RequestInv => RequestAsMeant
<1> SUFFICES ASSUME RequestInv PROVE RequestAsMeant
    OBVIOUS
<1>1. CASE callPc # "sent"
    BY <1>1, Zenon DEF RequestAsMeant, Encoding!FrameReadable, Encoding!RatiosInRange,
                       Encoding!QuotaComplete, Encoding!HandoverNamesCell
<1>2. CASE callPc = "sent"
  <2>1. CallTyped(call) /\ SentInv
      BY <1>2 DEF RequestInv
  <2>2. call.args.min \in Int /\ call.args.max \in Int /\ call.args.dedicated \in Int
      BY <2>1 DEF CallTyped, Ratio
  <2>3. Encoding!FrameReadable
      BY <1>2, <2>1, FrameAsAsked, Zenon
  <2>4. Encoding!QuotaComplete
      BY <2>1, QuotaEncoded, Zenon DEF SentInv, Encoding!QuotaComplete
  <2>5. Encoding!HandoverNamesCell
    <3>1. call.fn = "handover" => params = Encoding!Encoded(Encoding!HandoverTree)
        BY <2>1, Zenon DEF SentInv
    <3> QED BY <3>1, HandoverEncoded DEF Encoding!HandoverNamesCell
  <2>6. Encoding!RatiosInRange
    <3>1. ASSUME call.fn = "quota", NEW id \in {10, 11, 12}
          PROVE  \E p \in params : p.id = id /\ p.value \in 0..100
      <4>1. params = Encoding!QuotaTree(call.args)
          BY <1>2, <2>4, <3>1, Zenon DEF Encoding!QuotaComplete
      <4>2. /\ Encoding!Param(10, 1, "element", Encoding!Clamp(call.args.min)) \in params
            /\ Encoding!Param(11, 1, "element", Encoding!Clamp(call.args.max)) \in params
            /\ Encoding!Param(12, 1, "element", Encoding!Clamp(call.args.dedicated)) \in params
          BY <4>1, Zenon DEF Encoding!QuotaTree
      <4>3. /\ Encoding!Clamp(call.args.min) \in 0..100 /\ Encoding!Clamp(call.args.max) \in 0..100
            /\ Encoding!Clamp(call.args.dedicated) \in 0..100
          BY <2>2, Clamped, Zenon
      <4>4. ASSUME NEW n, NEW v \in 0..100, Encoding!Param(n, 1, "element", v) \in params
            PROVE  \E p \in params : p.id = n /\ p.value \in 0..100
          BY <4>4, Zenon DEF Encoding!Param
      <4>5. CASE id = 10
          BY <4>2, <4>3, <4>4, <4>5, Zenon
      <4>6. CASE id = 11
          BY <4>2, <4>3, <4>4, <4>6, Zenon
      <4>7. CASE id = 12
          BY <4>2, <4>3, <4>4, <4>7, Zenon
      <4> QED BY <4>5, <4>6, <4>7, Zenon
    <3>2. ASSUME call.fn = "ccc"
          PROVE  Encoding!Clamp(call.args.min) <= Encoding!Clamp(call.args.max)
      <4>1. Encoding!Clamp(call.args.max) >= Encoding!Clamp(call.args.min)
          BY <2>1, <3>2, Zenon DEF SentInv, Encoding!CccAccepts
      <4>2. Encoding!Clamp(call.args.min) \in 0..100 /\ Encoding!Clamp(call.args.max) \in 0..100
          BY <2>2, Clamped, Zenon
      <4> QED BY <4>1, <4>2
    <3> QED BY <3>1, <3>2, Zenon DEF Encoding!RatiosInRange
  <2> QED BY <2>3, <2>4, <2>5, <2>6 DEF RequestAsMeant
<1> QED BY <1>1, <1>2

(* Whatever the arguments of a control request, what is sent is read by    *)
(* the E2 node as it was meant or not at all, its ratios are percentages   *)
(* and its parameters are those that the code spells out, up to the items  *)
(* of a handover's lists, which are lost.                                  *)
THEOREM RequestAsMeantHolds == ControlSpec => []RequestAsMeant
<1>1. ControlInit => RequestInv
    BY DEF ControlInit, Encoding!Init, RequestInv
<1>2. RequestInv /\ [ControlNext]_allVars => RequestInv'
    BY RequestInvStep DEF ControlNext, QuotaStep, LoopStep, LoopFrame, EncodingStep, PlmnStep, allVars
<1> QED BY <1>1, <1>2, RequestInvSuffices, PTL DEF ControlSpec
=============================================================================
