---------------------------- MODULE MCAssociation ----------------------------
(***************************************************************************)
(* The associations of the RAN and the RIC for TLC: the start of CU and DU *)
(* with the verification of their E2 registration, and the recovery of the *)
(* routing to the xApps, side by side. They share no variable, so one      *)
(* behaviour is about one of them: `focus` names it, the other rests.      *)
(***************************************************************************)
EXTENDS RanBringUp

CONSTANTS XApp, MaxRecoveryFaults

VARIABLES
  focus,
  script, todo, awaited, e2Status, proc, inventory, loaded, known, asked, routed, refused,
  early, recoveryFaults, recoveryDisturbed

recoveryVars == <<script, todo, awaited, e2Status, proc, inventory, loaded, known, asked,
                  routed, refused, early, recoveryFaults, recoveryDisturbed>>
allVars == <<focus, vars, recoveryVars>>

Recovery == INSTANCE RoutingRecovery WITH
  MaxFaults <- MaxRecoveryFaults, e2 <- e2Status,
  faults <- recoveryFaults, disturbed <- recoveryDisturbed

AssociationInit ==
  /\ focus \in {"bringup", "recovery"}
  /\ Init /\ Recovery!Init
  /\ focus = "bringup" =>
       /\ e2Status = "CONNECTED" /\ inventory = {} /\ loaded /\ known = {} /\ routed = {}
       /\ proc = [x \in XApp |-> "waiting"]
  /\ focus = "recovery" => e2term

BringUpStep == focus = "bringup" /\ Next /\ UNCHANGED <<focus, recoveryVars>>
RecoveryFrame == focus = "recovery" /\ UNCHANGED <<focus, vars>>
RecoveryStep == RecoveryFrame /\ Recovery!Next
RecoveryScript == RecoveryFrame /\ Recovery!Script
XAppRuns(x) == RecoveryFrame /\ Recovery!Process(x)
RouteAsked(x) == RecoveryFrame /\ Recovery!RouteCreated(x)

AssociationNext == BringUpStep \/ RecoveryStep

(* The script and every xApp process run; SubMgr asks for every route. *)
AssociationSpec ==
  /\ AssociationInit /\ [][AssociationNext]_allVars
  /\ WF_allVars(RecoveryScript)
  /\ \A x \in XApp : WF_allVars(XAppRuns(x)) /\ WF_allVars(RouteAsked(x))

-----------------------------------------------------------------------------
(* After a reported recovery RTMgr knows every xApp once it has loaded the *)
(* inventory, and has refused no present subscription afterwards (the      *)
(* order of restarts in recover-ric-kpm.sh).                               *)
RecoveredIsRoutable == Recovery!TypeOK /\ Recovery!RecoveredIsRoutable

(* After a reported recovery every subscription gets its route, except     *)
(* those that RTMgr was asked for before it had loaded the inventory.      *)
RecoveredIsRouted == Recovery!RecoveredIsRouted
=============================================================================
