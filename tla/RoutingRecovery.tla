--------------------------- MODULE RoutingRecovery --------------------------
(***************************************************************************)
(* recover-ric-kpm.sh and the start of an xApp process. The script         *)
(* restarts the xApps so that they register with AppMgr, checks AppMgr's   *)
(* inventory, restarts RTMgr so that it loads the inventory, and restarts  *)
(* the xApps again so that they subscribe. Kubernetes calls a pod ready    *)
(* when its container runs (no Deployment has a readiness probe), which is *)
(* before the constructor of xAppBase has registered.                      *)
(*                                                                         *)
(* External: AppMgr and RTMgr lose what they hold at a restart. ric-rtmgr  *)
(* has no readiness probe either: its rollout ends when the process runs,  *)
(* and it loads the inventory some time later; it may load it again at any *)
(* time. SubMgr accepts a subscription first and then asks RTMgr for the   *)
(* route of indications (12050), which RTMgr refuses for an xApp it does   *)
(* not know.                                                               *)
(***************************************************************************)
EXTENDS Naturals, FiniteSets

CONSTANTS XApp,     (* XAPP_DEPLOYMENTS that exist                          *)
          MaxFaults (* bound: faults from outside of the script             *)

VARIABLES
  script,    (* where recover-ric-kpm.sh is, or how it ended                *)
  todo,      (* restart_xapps and the checks: xApps still to be handled     *)
  awaited,   (* the xApp whose rollout status the script waits for          *)
  e2,        (* connectionStatus of the E2 node at e2mgr                    *)
  proc,      (* per xApp: where the process of the present pod is           *)
  inventory, (* AppMgr: registered xApps                                    *)
  loaded,    (* RTMgr has loaded the inventory since its process started    *)
  known,     (* RTMgr: xApps it has loaded                                  *)
  asked,     (* xApps whose subscription SubMgr has accepted, no route yet  *)
  routed,    (* xApps with a route for the indications of the present pod   *)
  refused,   (* xApps whose present subscription RTMgr refused to route     *)
  early,     (* history: those of them refused before RTMgr had loaded      *)
  faults,    (* faults so far                                               *)
  disturbed  (* history: AppMgr or RTMgr restarted, not by the script,      *)
             (* since the inventory was found complete                      *)

routes == <<asked, routed, refused, early>>
ric == <<inventory, loaded, known, routes>>
vars == <<script, todo, awaited, e2, proc, ric, faults, disturbed>>

(* "waiting": the init container waits for the E2 node; "building": until  *)
(* the HTTP server runs; "unregistered", "settling": before and in the     *)
(* 12 s sleep of _register_with_appmgr; "asking": start() has begun;       *)
(* "subscribed": Subscribe has returned and the gauge is 1; "stuck":       *)
(* Subscribe raised, the thread is gone and the receive loop goes on.      *)
Phases == {"waiting", "building", "unregistered", "settling", "asking", "subscribed", "stuck"}

(* "absent" if e2mgr does not list the node. *)
Statuses == {"CONNECTED", "DISCONNECTED", "absent"}

Restarting == {"restart1", "restart2"}
Failures == {"noE2", "noRollout", "notRegistered", "notSubscribed"}
Ends == Failures \cup {"recovered"}

Init ==
  /\ script = "e2" /\ todo = {} /\ awaited = {} /\ e2 \in Statuses
  /\ proc \in [XApp -> {"waiting", "stuck", "subscribed"}]
  /\ inventory \in SUBSET XApp /\ known \in SUBSET XApp
  /\ loaded \in BOOLEAN /\ (~loaded => known = {})
  /\ refused = {} /\ early = {} /\ asked = {}
  /\ routed \in SUBSET {x \in known : proc[x] = "subscribed"}
  /\ faults = 0 /\ disturbed = FALSE

-----------------------------------------------------------------------------
(* The process of an xApp. *)

(* wait-for-gnb of the Deployment: until the E2 node is CONNECTED. *)
ContainerStarts(x) ==
  /\ proc[x] = "waiting" /\ e2 = "CONNECTED"
  /\ proc' = [proc EXCEPT ![x] = "building"]
  /\ UNCHANGED <<script, todo, awaited, e2, ric, faults, disturbed>>

(* The configuration, rmr_init, the wait for rmr_ready and the HTTP server. *)
Construct(x) ==
  /\ proc[x] = "building"
  /\ proc' = [proc EXCEPT ![x] = "unregistered"]
  /\ UNCHANGED <<script, todo, awaited, e2, ric, faults, disturbed>>

(* HTTP 201, or 400 and 409 for a name AppMgr has already. *)
Register(x) ==
  /\ proc[x] = "unregistered"
  /\ inventory' = inventory \cup {x}
  /\ proc' = [proc EXCEPT ![x] = "settling"]
  /\ UNCHANGED <<script, todo, awaited, e2, loaded, known, routes, faults, disturbed>>

(* Any other failure is printed, and the constructor goes on. *)
RegisterFails(x) ==
  /\ proc[x] = "unregistered"
  /\ faults < MaxFaults /\ faults' = faults + 1
  /\ proc' = [proc EXCEPT ![x] = "settling"]
  /\ UNCHANGED <<script, todo, awaited, e2, ric, disturbed>>

(* The 12 s are over; the main program connects the signals and calls      *)
(* start, which starts the xApp thread.                                    *)
Settle(x) ==
  /\ proc[x] = "settling"
  /\ proc' = [proc EXCEPT ![x] = "asking"]
  /\ UNCHANGED <<script, todo, awaited, e2, ric, faults, disturbed>>

Subscribe(x) ==
  /\ proc[x] = "asking"
  /\ proc' = [proc EXCEPT ![x] = "subscribed"]
  /\ asked' = asked \cup {x}
  /\ UNCHANGED <<script, todo, awaited, e2, inventory, loaded, known, routed, refused, early,
                 faults, disturbed>>

(* SubMgr is away or its answer has no SubscriptionId. *)
SubscribeRaises(x) ==
  /\ proc[x] = "asking"
  /\ faults < MaxFaults /\ faults' = faults + 1
  /\ proc' = [proc EXCEPT ![x] = "stuck"]
  /\ UNCHANGED <<script, todo, awaited, e2, ric, disturbed>>

(* The pod is replaced; what becomes of its subscription when it stops is  *)
(* the subject of XAppSubscriptions.                                       *)
Replace(x) ==
  /\ proc' = [proc EXCEPT ![x] = "waiting"]
  /\ asked' = asked \ {x} /\ routed' = routed \ {x}
  /\ refused' = refused \ {x} /\ early' = early \ {x}
  /\ UNCHANGED <<inventory, loaded, known>>

-----------------------------------------------------------------------------
(* External: SubMgr, RTMgr and what may fail. *)

RouteCreated(x) ==
  /\ x \in asked /\ asked' = asked \ {x}
  /\ IF x \in known
     THEN routed' = routed \cup {x} /\ UNCHANGED <<refused, early>>
     ELSE /\ refused' = refused \cup {x} /\ routed' = routed
          /\ early' = IF loaded THEN early ELSE early \cup {x}
  /\ UNCHANGED <<script, todo, awaited, e2, proc, inventory, loaded, known, faults, disturbed>>

(* A full refresh keeps routes of the xApps of the inventory only. *)
Poll ==
  /\ loaded /\ known' = inventory /\ routed' = routed \cap inventory
  /\ UNCHANGED <<script, todo, awaited, e2, proc, inventory, loaded, asked, refused, early,
                 faults, disturbed>>

(* The process runs and answers, but has loaded nothing. *)
RTMgrStarts ==
  /\ loaded' = FALSE /\ known' = {}
  /\ UNCHANGED <<inventory, routes>>

(* RTMgr may find some of the former routes again. *)
RTMgrLoads ==
  /\ ~loaded /\ loaded' = TRUE /\ known' = inventory
  /\ \E kept \in SUBSET routed : routed' = kept
  /\ UNCHANGED <<script, todo, awaited, e2, proc, inventory, asked, refused, early,
                 faults, disturbed>>

RTMgrRestart ==
  /\ faults < MaxFaults /\ faults' = faults + 1 /\ disturbed' = TRUE
  /\ RTMgrStarts
  /\ UNCHANGED <<script, todo, awaited, e2, proc>>

AppMgrRestart ==
  /\ faults < MaxFaults /\ faults' = faults + 1 /\ disturbed' = TRUE
  /\ inventory' = {}
  /\ UNCHANGED <<script, todo, awaited, e2, proc, loaded, known, routes>>

PodCrash(x) ==
  /\ faults < MaxFaults /\ faults' = faults + 1
  /\ Replace(x)
  /\ UNCHANGED <<script, todo, awaited, e2, disturbed>>

E2Changes ==
  /\ faults < MaxFaults /\ faults' = faults + 1
  /\ e2' \in Statuses \ {e2}
  /\ UNCHANGED <<script, todo, awaited, proc, ric, disturbed>>

-----------------------------------------------------------------------------
(* The script. A failing command or check ends it (set -e).                *)
Goto(from, to) ==
  /\ script = from /\ script' = to
  /\ UNCHANGED <<e2, faults>>

(* grep -F CONNECTED also finds it in "DISCONNECTED". *)
WaitForE2 ==
  /\ e2 # "absent" /\ Goto("e2", "reset")
  /\ UNCHANGED <<todo, awaited, proc, ric, disturbed>>

(* Any failing command or expired timeout. *)
GiveUp(at, reason) ==
  /\ Goto(at, reason)
  /\ UNCHANGED <<todo, awaited, proc, ric, disturbed>>

E2TimesOut == e2 = "absent" /\ GiveUp("e2", "noE2")

(* AppMgr is restarted if RESET_APPMGR says so. *)
ResetInventory ==
  /\ Goto("reset", "restart1") /\ todo' = XApp
  /\ inventory' \in {inventory, {}}
  /\ UNCHANGED <<awaited, proc, loaded, known, routes, disturbed>>

(* restart_xapps, used twice: rollout restart, then rollout status. *)
RolloutRestart(x) ==
  /\ script \in Restarting /\ x \in todo /\ awaited = {}
  /\ todo' = todo \ {x} /\ awaited' = {x}
  /\ Replace(x)
  /\ UNCHANGED <<script, e2, faults, disturbed>>

(* rollout status returns once; nobody looks at this pod again before the  *)
(* gauges.                                                                 *)
RolledOut(x) ==
  /\ x \in awaited /\ proc[x] # "waiting"
  /\ awaited' = {}
  /\ UNCHANGED <<script, todo, e2, proc, ric, faults, disturbed>>

(* rollout status waits for the pod at most 180 s. *)
RolloutTimesOut ==
  /\ \E at \in Restarting : GiveUp(at, "noRollout")
  /\ e2 # "CONNECTED" /\ \E y \in awaited : proc[y] = "waiting"

RoundEnds(from, to) ==
  /\ todo = {} /\ awaited = {}
  /\ Goto(from, to)

AllRestarted ==
  /\ RoundEnds("restart1", "inventory")
  /\ UNCHANGED <<todo, awaited, proc, ric, disturbed>>

(* Mutant: the inventory is not looked at. *)
CheckNothing ==
  /\ Goto("inventory", "rtmgr") /\ disturbed' = FALSE
  /\ UNCHANGED <<todo, awaited, proc, ric>>

CheckInventory ==
  /\ IF XApp \subseteq inventory
     THEN Goto("inventory", "rtmgr") /\ disturbed' = FALSE
     ELSE Goto("inventory", "notRegistered") /\ disturbed' = disturbed
  /\ UNCHANGED <<todo, awaited, proc, ric>>

(* Mutant: RTMgr is not restarted. *)
SkipRTMgr ==
  /\ Goto("rtmgr", "restart2") /\ todo' = XApp
  /\ UNCHANGED <<awaited, proc, ric, disturbed>>

(* The rollout of RTMgr; nobody waits until it has loaded the inventory.   *)
RestartRTMgr ==
  /\ Goto("rtmgr", "restart2") /\ todo' = XApp
  /\ RTMgrStarts
  /\ UNCHANGED <<awaited, proc, disturbed>>

(* The sleep of 15 s is not counted: the processes may be anywhere then.   *)
AllRenewed ==
  /\ RoundEnds("restart2", "gauges") /\ todo' = XApp
  /\ UNCHANGED <<awaited, proc, ric, disturbed>>

(* oran_xapp_active_subscriptions is 1 on the page of the present pod. *)
CheckGauge(x) ==
  /\ script = "gauges" /\ x \in todo
  /\ IF proc[x] = "subscribed"
     THEN /\ todo' = todo \ {x}
          /\ script' = IF todo = {x} THEN "recovered" ELSE script
     ELSE todo' = {} /\ script' = "notSubscribed"
  /\ UNCHANGED <<awaited, e2, proc, ric, faults, disturbed>>

Ended == script \in Ends /\ UNCHANGED vars

-----------------------------------------------------------------------------
Process(x) ==
  ContainerStarts(x) \/ Construct(x) \/ Register(x) \/ Settle(x) \/ Subscribe(x)

Script ==
  \/ WaitForE2 \/ E2TimesOut \/ ResetInventory \/ AllRestarted \/ CheckInventory
  \/ RestartRTMgr \/ AllRenewed \/ RolloutTimesOut
  \/ \E x \in XApp : RolloutRestart(x) \/ RolledOut(x) \/ CheckGauge(x)

Fault ==
  \/ RTMgrRestart \/ AppMgrRestart \/ E2Changes
  \/ \E x \in XApp : RegisterFails(x) \/ SubscribeRaises(x) \/ PodCrash(x)

Next ==
  \/ Script \/ Fault \/ Poll \/ RTMgrLoads \/ Ended
  \/ \E x \in XApp : Process(x)
  \/ \E x \in XApp : RouteCreated(x)

Spec == Init /\ [][Next]_vars

(* The script and every process run; SubMgr asks for every route. That     *)
(* RTMgr ever loads the inventory is not assumed.                          *)
FairSpec ==
  /\ Spec /\ WF_vars(Script)
  /\ \A x \in XApp : WF_vars(Process(x)) /\ WF_vars(RouteCreated(x))

-----------------------------------------------------------------------------
TypeOK ==
  /\ script \in {"e2", "reset", "inventory", "rtmgr", "gauges"} \cup Restarting \cup Ends
  /\ todo \subseteq XApp /\ awaited \subseteq XApp /\ e2 \in Statuses
  /\ proc \in [XApp -> Phases]
  /\ inventory \subseteq XApp /\ known \subseteq XApp /\ loaded \in BOOLEAN
  /\ asked \subseteq XApp /\ routed \subseteq XApp /\ refused \subseteq XApp
  /\ early \subseteq refused
  /\ faults \in Nat /\ disturbed \in BOOLEAN

(* When the script reports success and nobody else has restarted AppMgr or *)
(* RTMgr since the inventory was complete, RTMgr knows every xApp as soon  *)
(* as it has loaded, and it has refused the subscription of a present pod  *)
(* only before that, whatever pods crashed, registrations failed or routes *)
(* were refreshed on the way: an unregistered xApp is never the cause. The *)
(* script waits for the process of RTMgr and not for its inventory, so an  *)
(* xApp that asks in between keeps no route although recovery is reported. *)
RecoveredIsRoutable ==
  script = "recovered" /\ ~disturbed =>
    /\ loaded => XApp \subseteq known
    /\ refused \subseteq early

(* After a reported success no xApp whose process has subscribed stays     *)
(* without its route, unless it asked before RTMgr had loaded, AppMgr or   *)
(* RTMgr is restarted or its pod crashes once more.                        *)
RecoveredIsRouted ==
  \A x \in XApp :
    []<>(script = "recovered" /\ ~disturbed /\ proc[x] = "subscribed" => x \in routed \cup early)

(* The script says that an xApp is missing in the inventory only if        *)
(* something has failed.                                                   *)
MissingHasCause == script = "notRegistered" => faults > 0
=============================================================================
