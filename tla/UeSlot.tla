------------------------------- MODULE UeSlot -------------------------------
(***************************************************************************)
(* The single ZMQ radio slot: select-ue-lab-profile.sh stops the srsUE,    *)
(* writes the identity of a profile into its Deployment, recreates the DU  *)
(* and starts the srsUE again; recover-ran-zmq.sh does the same with the   *)
(* identity that is there. A run may be interrupted, or one of its waits   *)
(* expire, between any two commands, and nothing keeps two operators from  *)
(* running the scripts at the same time.                                   *)
(*                                                                         *)
(* External: both Deployments are recreated, never rolled; a DU endpoint   *)
(* serves its first peer and not reliably another one; a UE whose DU is    *)
(* replaced does not find the new one by itself.                           *)
(***************************************************************************)
EXTENDS Integers

CONSTANTS Operator,
          Profile,
          Same,       (* not a profile: recover-ran-zmq.sh                  *)
          MaxFaults   (* bound: interruptions, expired waits and crashes    *)

ASSUME SlotAssumption == Same \notin Profile /\ MaxFaults \in Nat

VARIABLES
  pc,       (* per operator: the next command                               *)
  want,     (* per operator: the profile asked for, or Same                 *)
  replicas, (* srsue: desired replicas                                      *)
  template, (* srsue: the identity in the Deployment                        *)
  ue,       (* the srsUE: "none", "waiting" in wait-for-du, "searching",    *)
            (* "attached" with tun_srsue, or "lost" its DU after that       *)
  sim,      (* the identity rendered into ue.conf of the pod                *)
  du,       (* the DU: "starting" or "open"                                 *)
  used,     (* the endpoint of this DU has had a peer                       *)
  faults

ops == <<pc, want>>
ran == <<replicas, template, ue, sim, du, used>>
vars == <<ops, ran, faults>>

Steps == {"idle", "stop", "gone", "patch", "du", "cell", "start", "rollout", "probe", "attached"}

Init ==
  /\ pc = [o \in Operator |-> "idle"] /\ want = [o \in Operator |-> Same]
  /\ replicas \in {0, 1} /\ template \in Profile /\ sim = template
  /\ ue \in {"none", "searching", "attached", "lost"}
  /\ ue # "none" => replicas = 1
  /\ du = "open" /\ used = (ue # "none") /\ faults = 0

-----------------------------------------------------------------------------
(* The commands of a script; each needs the one before. *)
Step(o, from, to) ==
  /\ pc[o] = from /\ pc' = [pc EXCEPT ![o] = to]
  /\ UNCHANGED <<want, faults>>

(* The subscriber exists: countDocuments is 1. *)
Begin(o, p) ==
  /\ pc[o] \in {"idle", "attached"}
  /\ pc' = [pc EXCEPT ![o] = "stop"] /\ want' = [want EXCEPT ![o] = p]
  /\ UNCHANGED <<ran, faults>>

(* scale --replicas=0 *)
StopUe(o) ==
  /\ Step(o, "stop", "gone") /\ replicas' = 0
  /\ UNCHANGED <<template, ue, sim, du, used>>

(* Mutant: the deletion of the pod is not awaited. *)
UeGoneUnchecked(o) ==
  /\ Step(o, "gone", IF want[o] = Same THEN "du" ELSE "patch")
  /\ UNCHANGED ran

(* wait --for=delete *)
UeGone(o) ==
  /\ ue = "none"
  /\ Step(o, "gone", IF want[o] = Same THEN "du" ELSE "patch")
  /\ UNCHANGED ran

Patch(o) ==
  /\ Step(o, "patch", "du") /\ template' = want[o]
  /\ UNCHANGED <<replicas, ue, sim, du, used>>

(* What a UE is when its DU is replaced. *)
WithoutDu == IF ue \in {"attached", "lost"} THEN "lost" ELSE ue

NewDu ==
  /\ du' = "starting" /\ used' = (ue \in {"searching", "attached", "lost"})
  /\ ue' = WithoutDu

(* Mutant: the DU is kept. *)
KeepDu(o) ==
  /\ Step(o, "du", "cell")
  /\ UNCHANGED ran

(* rollout restart deployment/ocudu-du *)
RecreateDu(o) ==
  /\ Step(o, "du", "cell") /\ NewDu
  /\ UNCHANGED <<replicas, template, sim>>

(* rollout status deployment/ocudu-du *)
CellReady(o) ==
  /\ du = "open" /\ Step(o, "cell", "start")
  /\ UNCHANGED ran

(* scale --replicas=1 *)
StartUe(o) ==
  /\ Step(o, "start", "rollout") /\ replicas' = 1
  /\ UNCHANGED <<template, ue, sim, du, used>>

(* rollout status deployment/srsue: the init containers are through. *)
UeRunning(o) ==
  /\ ue \notin {"none", "waiting"} /\ Step(o, "rollout", "probe")
  /\ UNCHANGED ran

(* tun_srsue exists in the pod: the session is reported, with the profile  *)
(* asked for; the rendered identity is printed and not compared.           *)
Report(o) ==
  /\ ue \in {"attached", "lost"} /\ Step(o, "probe", "attached")
  /\ UNCHANGED ran

-----------------------------------------------------------------------------
(* Faults: a script ends early, a container crashes. *)
Fault == faults < MaxFaults /\ faults' = faults + 1

Interrupt(o) ==
  /\ pc[o] \notin {"idle", "attached"} /\ Fault
  /\ pc' = [pc EXCEPT ![o] = "idle"]
  /\ UNCHANGED <<want, ran>>

(* The container is restarted in its pod: a new process, the same peer. *)
UeCrash ==
  /\ ue \in {"searching", "attached", "lost"} /\ Fault
  /\ ue' = "searching"
  /\ UNCHANGED <<ops, replicas, template, sim, du, used>>

DuCrash ==
  /\ du = "open" /\ Fault /\ NewDu
  /\ UNCHANGED <<ops, replicas, template, sim>>

-----------------------------------------------------------------------------
(* External: Kubernetes and the radio. *)
CreateUe ==
  /\ replicas = 1 /\ ue = "none" /\ ue' = "waiting" /\ sim' = template
  /\ UNCHANGED <<ops, replicas, template, du, used, faults>>

(* Scaled to zero, or another identity in the Deployment (Recreate). *)
DeleteUe ==
  /\ ue # "none" /\ (replicas = 0 \/ sim # template)
  /\ ue' = "none"
  /\ UNCHANGED <<ops, replicas, template, sim, du, used, faults>>

(* wait-for-du: the ZMQ port of the DU is open. *)
UeStarts ==
  /\ ue = "waiting" /\ du = "open" /\ ue' = "searching"
  /\ UNCHANGED <<ops, replicas, template, sim, du, used, faults>>

Attach(first) ==
  /\ ue = "searching" /\ du = "open" /\ first = ~used
  /\ ue' = "attached" /\ used' = TRUE
  /\ UNCHANGED <<ops, replicas, template, sim, du, faults>>

DuOpens ==
  /\ du = "starting" /\ du' = "open"
  /\ UNCHANGED <<ops, replicas, template, ue, sim, used, faults>>

-----------------------------------------------------------------------------
Script(o) ==
  \/ StopUe(o) \/ UeGone(o) \/ Patch(o) \/ RecreateDu(o) \/ CellReady(o)
  \/ StartUe(o) \/ UeRunning(o) \/ Report(o)

Kubernetes == CreateUe \/ DeleteUe \/ UeStarts \/ DuOpens \/ Attach(TRUE)

Next ==
  \/ \E o \in Operator : \/ Script(o) \/ Interrupt(o)
                         \/ \E p \in Profile \cup {Same} : Begin(o, p)
  \/ UeCrash \/ DuCrash \/ Kubernetes \/ Attach(FALSE)

Spec == Init /\ [][Next]_vars

-----------------------------------------------------------------------------
TypeOK ==
  /\ pc \in [Operator -> Steps] /\ want \in [Operator -> Profile \cup {Same}]
  /\ replicas \in {0, 1} /\ template \in Profile /\ sim \in Profile
  /\ ue \in {"none", "waiting", "searching", "attached", "lost"}
  /\ du \in {"starting", "open"} /\ used \in BOOLEAN /\ faults \in Nat

(* When a script starts the UE, the endpoint of the DU has not had a peer, *)
(* however earlier runs ended and whatever crashed meanwhile.              *)
StartsFresh == \A o \in Operator : pc[o] \in {"cell", "start"} => ~used /\ ue = "none"

(* Whatever state earlier runs left, a run that nothing interrupts brings  *)
(* the UE up.                                                              *)
RerunRepairs ==
  \A o \in Operator, n \in 0..MaxFaults :
    (pc[o] = "stop" /\ faults = n) ~> (pc[o] = "attached" \/ faults # n)
=============================================================================
