----------------------------- MODULE RanBringUp -----------------------------
(***************************************************************************)
(* The start of CU and DU and the verification of their E2 registration.   *)
(* The CU pod waits for an E2T endpoint; the DU pod waits for the CU and   *)
(* then for HoldOff, because the DU makes a single F1 Setup attempt and    *)
(* the CU rejects it as "Duplicate DU ID" until it has purged the entry of *)
(* the former DU. Both waits are init containers: a container that is      *)
(* restarted in its pod does not wait. verify_e2.yml waits for the E2 node *)
(* in e2mgr and, if it is absent while an E2T is there, restarts first the *)
(* CU and then the DU, once.                                               *)
(*                                                                         *)
(* External: CU, DU, E2Term and e2mgr, which lists a node from its E2      *)
(* Setup on; neither F1 nor E2 Setup is tried again by a process.          *)
(***************************************************************************)
EXTENDS Integers

CONSTANTS HoldOff,   (* duF1SetupHoldOffSec, in ticks                       *)
          Purge,     (* time from the loss of a DU to its purge by the CU   *)
          MaxFaults, (* bound: crashes and changes of E2Term                *)
          MaxRenewals (* bound: restarts of the DU by the other scripts     *)

ASSUME BringUpAssumption ==
  HoldOff \in Nat /\ Purge \in Nat /\ Purge <= HoldOff /\ MaxFaults \in Nat /\ MaxRenewals \in Nat

VARIABLES
  cu,       (* "waiting" in wait-for-e2t, or "running"                      *)
  du,       (* "waiting" for the CU, "holding" off, or "running"            *)
  hold,     (* what is left of the hold-off                                 *)
  stale,    (* what is left until the CU purges the former DU               *)
  f1,       (* of this DU process: "none", "ok", "rejected", "lost"         *)
  e2,       (* of this DU process: "none", "ok", "aborted"                  *)
  e2term,   (* an E2T endpoint is registered                                *)
  listed,   (* e2mgr lists the node                                         *)
  verify,   (* verify_e2.yml: the task it is at                             *)
  inPlace,  (* history: the DU process was restarted without its pod        *)
  disturbed, (* history: a fault or another restart since the CU restart    *)
  faults, renewals

ran == <<cu, du, hold, stale, f1, e2, listed, inPlace>>
bounds == <<faults, renewals>>
vars == <<ran, e2term, verify, disturbed, bounds>>

Init ==
  /\ cu = "waiting" /\ du = "waiting" /\ hold = 0 /\ stale = 0
  /\ f1 = "none" /\ e2 = "none" /\ e2term \in BOOLEAN /\ listed = FALSE
  /\ verify = "wait" /\ inPlace = FALSE /\ disturbed = FALSE
  /\ faults = 0 /\ renewals = 0

-----------------------------------------------------------------------------
(* The pods. *)
CuStarts ==
  /\ cu = "waiting" /\ e2term /\ cu' = "running"
  /\ UNCHANGED <<du, hold, stale, f1, e2, listed, inPlace, e2term, verify, disturbed, bounds>>

(* Mutant: the DU starts as soon as the CU is there. *)
CuSeenOnly ==
  /\ du = "waiting" /\ cu = "running"
  /\ du' = "holding" /\ hold' = 0
  /\ UNCHANGED <<cu, stale, f1, e2, listed, inPlace, e2term, verify, disturbed, bounds>>

CuSeen ==
  /\ du = "waiting" /\ cu = "running"
  /\ du' = "holding" /\ hold' = HoldOff
  /\ UNCHANGED <<cu, stale, f1, e2, listed, inPlace, e2term, verify, disturbed, bounds>>

Less(t) == IF t = 0 THEN 0 ELSE t - 1

Tick ==
  /\ hold + stale > 0
  /\ hold' = Less(hold) /\ stale' = Less(stale)
  /\ UNCHANGED <<cu, du, f1, e2, listed, inPlace, e2term, verify, disturbed, bounds>>

(* The single attempts of a DU process, the CU holding an old entry or not. *)
Attempt(old) ==
  /\ f1' = IF cu # "running" THEN "lost" ELSE IF old > 0 THEN "rejected" ELSE "ok"
  /\ e2' = IF e2term THEN "ok" ELSE "aborted"
  /\ listed' = (listed \/ e2term)
  /\ stale' = old /\ du' = "running"

DuStarts ==
  /\ du = "holding" /\ hold = 0
  /\ Attempt(stale) /\ inPlace' = FALSE
  /\ UNCHANGED <<cu, hold, e2term, verify, disturbed, bounds>>

(* What the CU holds when the DU goes away. *)
Left == IF f1 = "ok" THEN Purge ELSE stale

ReplaceDu ==
  /\ du' = "waiting" /\ hold' = 0 /\ stale' = Left
  /\ f1' = "none" /\ e2' = "none" /\ inPlace' = FALSE
  /\ UNCHANGED <<cu, listed>>

(* A new CU process knows no DU. *)
ForgetDu == stale' = 0 /\ f1' = IF f1 = "ok" THEN "lost" ELSE f1

ReplaceCu ==
  /\ cu' = "waiting" /\ ForgetDu
  /\ UNCHANGED <<du, hold, e2, listed, inPlace>>

-----------------------------------------------------------------------------
(* Faults: containers restart in their pods, E2Term comes and goes. *)
Fault ==
  /\ faults < MaxFaults /\ faults' = faults + 1 /\ disturbed' = TRUE
  /\ UNCHANGED <<verify, renewals>>

DuCrash ==
  /\ Fault /\ du = "running"
  /\ Attempt(Left) /\ inPlace' = TRUE
  /\ UNCHANGED <<cu, hold, e2term>>

CuCrash ==
  /\ Fault /\ cu = "running" /\ ForgetDu
  /\ UNCHANGED <<cu, du, hold, e2, listed, inPlace, e2term>>

E2TermChanges ==
  /\ Fault /\ e2term' = ~e2term
  /\ e2' = IF e2 = "ok" THEN "aborted" ELSE e2
  /\ UNCHANGED <<cu, du, hold, stale, f1, listed, inPlace>>

(* select-ue-lab-profile.sh and recover-ran-zmq.sh restart the DU, too. *)
Renew ==
  /\ renewals < MaxRenewals /\ renewals' = renewals + 1 /\ disturbed' = TRUE
  /\ ReplaceDu
  /\ UNCHANGED <<e2term, verify, faults>>

-----------------------------------------------------------------------------
(* verify_e2.yml *)
Task(from, to) == verify = from /\ verify' = to /\ UNCHANGED <<e2term, bounds>>

Registered ==
  /\ listed /\ \E at \in {"wait", "again"} : Task(at, "ok")
  /\ UNCHANGED <<ran, disturbed>>

(* The retries are over; one recovery if e2mgr has an E2T. *)
Absent ==
  /\ ~listed /\ Task("wait", IF e2term THEN "cu" ELSE "failed")
  /\ UNCHANGED <<ran, disturbed>>

RestartCu ==
  /\ Task("cu", "cuReady") /\ ReplaceCu /\ disturbed' = FALSE

CuReady ==
  /\ cu = "running" /\ Task("cuReady", "du")
  /\ UNCHANGED <<ran, disturbed>>

(* Mutant: the CU is restarted last. *)
RestartCuLast ==
  /\ Task("du", "duReady") /\ ReplaceCu
  /\ UNCHANGED disturbed

RestartDu ==
  /\ Task("du", "duReady") /\ ReplaceDu
  /\ UNCHANGED disturbed

DuReady ==
  /\ du = "running" /\ Task("duReady", "again")
  /\ UNCHANGED <<ran, disturbed>>

(* A rollout that cannot come to an end without an E2T expires. *)
RolloutExpires ==
  /\ cu = "waiting" /\ ~e2term
  /\ \E at \in {"cuReady", "duReady"} : Task(at, "failed")
  /\ UNCHANGED <<ran, disturbed>>

StillAbsent ==
  /\ ~listed /\ Task("again", "failed")
  /\ UNCHANGED <<ran, disturbed>>

Decided ==
  /\ verify \in {"ok", "failed"}
  /\ UNCHANGED vars

-----------------------------------------------------------------------------
Pods == CuStarts \/ CuSeen \/ Tick \/ DuStarts

Verify ==
  \/ Registered \/ Absent \/ RestartCu \/ CuReady \/ RestartDu \/ DuReady
  \/ RolloutExpires \/ StillAbsent

Next == Pods \/ Verify \/ DuCrash \/ CuCrash \/ E2TermChanges \/ Renew \/ Decided

Spec == Init /\ [][Next]_vars

-----------------------------------------------------------------------------
TypeOK ==
  /\ cu \in {"waiting", "running"} /\ du \in {"waiting", "holding", "running"}
  /\ hold \in 0..HoldOff /\ stale \in 0..Purge
  /\ f1 \in {"none", "ok", "rejected", "lost"} /\ e2 \in {"none", "ok", "aborted"}
  /\ e2term \in BOOLEAN /\ listed \in BOOLEAN
  /\ verify \in {"wait", "cu", "cuReady", "du", "duReady", "again", "ok", "failed"}
  /\ inPlace \in BOOLEAN /\ disturbed \in BOOLEAN
  /\ faults \in Nat /\ renewals \in Nat

(* The first attempt of a new DU pod does not meet the entry of the former *)
(* DU, whoever restarted which of the two pods, and when: the hold-off is  *)
(* long enough.                                                            *)
PodIsNoDuplicate == f1 = "rejected" => inPlace

(* The controlled recovery leads to F1 and E2 associations that are up,    *)
(* if nothing fails from the restart of the CU on: CU before DU, each      *)
(* awaited.                                                                *)
RecoveryAssociates == verify = "again" /\ ~disturbed => f1 = "ok" /\ e2 = "ok"

(* The DU is never rejected as a duplicate. *)
NoDuplicate == f1 # "rejected"
=============================================================================
