------------------------- MODULE MCAssociation_proofs ------------------------
(***************************************************************************)
(* Proofs about the associations of the RAN and the RIC, for every value   *)
(* of the constants: the hold-off of the DU and the controlled recovery of *)
(* verify_e2.yml, then the order of the restarts in recover-ric-kpm.sh,    *)
(* and both side by side, as the association run checks them.              *)
(***************************************************************************)
EXTENDS MCAssociation, TLAPS

(* While a DU pod holds off, the entry of the former DU expires first.     *)
HoldCovers == du = "holding" => stale <= hold

(* What a recovery that nothing disturbs has brought about at each task.   *)
(* The CU found running at "du" was started after the restart, with an E2T.*)
Undisturbed ==
  ~disturbed =>
    /\ verify = "cuReady" /\ cu = "running" => e2term
    /\ verify \in {"du", "duReady", "again"} => cu = "running" /\ e2term
    /\ verify \in {"duReady", "again"} /\ du = "running" => f1 = "ok" /\ e2 = "ok"
    /\ verify = "again" => du = "running"

IInv == TypeOK /\ HoldCovers /\ PodIsNoDuplicate /\ Undisturbed

LEMMA ZeroTicks == 0 \in 0..HoldOff /\ 0 \in 0..Purge
BY BringUpAssumption

LEMMA IInvInit == Init => IInv
<1> SUFFICES ASSUME Init PROVE IInv
    OBVIOUS
<1>1. e2term \in BOOLEAN
    BY Zenon DEF Init
<1>2. TypeOK
  <2>1. hold \in 0..HoldOff /\ stale \in 0..Purge
      BY BringUpAssumption DEF Init
  <2>2. cu \in {"waiting", "running"} /\ du \in {"waiting", "holding", "running"}
      BY DEF Init
  <2>3. f1 \in {"none", "ok", "rejected", "lost"} /\ e2 \in {"none", "ok", "aborted"}
      BY DEF Init
  <2>4. listed \in BOOLEAN /\ inPlace \in BOOLEAN /\ disturbed \in BOOLEAN
      BY DEF Init
  <2>5. faults \in Nat /\ renewals \in Nat
      BY DEF Init
  <2>6. verify \in {"wait", "cu", "cuReady", "du", "duReady", "again", "ok", "failed"}
      BY DEF Init
  <2> QED BY <1>1, <2>1, <2>2, <2>3, <2>4, <2>5, <2>6 DEF TypeOK
<1>3. HoldCovers /\ PodIsNoDuplicate /\ Undisturbed
    BY DEF Init, HoldCovers, PodIsNoDuplicate, Undisturbed
<1> QED BY <1>2, <1>3 DEF IInv

(* A pod that is replaced leaves a stale entry of at most Purge.           *)
LEMMA LeftBounded == TypeOK => Left \in 0..Purge
BY BringUpAssumption DEF TypeOK, Left

(* The init containers, the attempts of a DU and the time keep it.         *)
LEMMA PodsKeepIInv == IInv /\ Pods => IInv'
<1> SUFFICES ASSUME IInv, Pods PROVE IInv'
    OBVIOUS
<1> USE BringUpAssumption DEF IInv, TypeOK, HoldCovers, PodIsNoDuplicate, Undisturbed, bounds
<1>1. CASE CuStarts
    BY <1>1 DEF CuStarts
<1>2. CASE CuSeen
    BY <1>2 DEF CuSeen
<1>3. CASE Tick
    BY <1>3 DEF Tick, Less
<1>4. CASE DuStarts
  <2>1. stale = 0
      BY <1>4 DEF DuStarts
  <2>2. f1' \in {"lost", "ok"} /\ (cu = "running" => f1' = "ok")
      BY <1>4, <2>1 DEF DuStarts, Attempt
  <2>3. e2' \in {"ok", "aborted"} /\ (e2term => e2' = "ok")
      BY <1>4 DEF DuStarts, Attempt
  <2>4. TypeOK'
    <3>1. listed' \in BOOLEAN
        BY <1>4, Zenon DEF DuStarts, Attempt
    <3> QED BY <1>4, <2>2, <2>3, <3>1 DEF DuStarts, Attempt
  <2>5. HoldCovers' /\ PodIsNoDuplicate'
      BY <1>4, <2>2 DEF DuStarts, Attempt
  <2>6. Undisturbed'
      BY <1>4, <2>2, <2>3 DEF DuStarts, Attempt
  <2> QED BY <2>4, <2>5, <2>6
<1> QED BY <1>1, <1>2, <1>3, <1>4 DEF Pods

(* The tasks of verify_e2.yml keep it; its CU restart ends a disturbance.  *)
LEMMA VerifyKeepsIInv == IInv /\ Verify => IInv'
<1> SUFFICES ASSUME IInv, Verify PROVE IInv'
    OBVIOUS
<1> USE BringUpAssumption DEF IInv, TypeOK, HoldCovers, PodIsNoDuplicate, Undisturbed,
        ran, bounds, Task
<1>1. CASE Registered
    BY <1>1 DEF Registered
<1>2. CASE Absent
    BY <1>2 DEF Absent
<1>3. CASE RestartCu
  <2>1. f1' \in {"none", "ok", "rejected", "lost"} /\ (f1' = "rejected" => f1 = "rejected")
      BY <1>3 DEF RestartCu, ReplaceCu, ForgetDu
  <2>2. cu' = "waiting" /\ verify' = "cuReady" /\ stale' = 0
      BY <1>3 DEF RestartCu, ReplaceCu, ForgetDu
  <2>3. UNCHANGED <<du, hold, e2, e2term, listed, inPlace, bounds>> /\ disturbed' = FALSE
      BY <1>3 DEF RestartCu, ReplaceCu
  <2>4. TypeOK'
      BY <2>1, <2>2, <2>3, ZeroTicks
  <2>5. HoldCovers' /\ PodIsNoDuplicate' /\ Undisturbed'
      BY <2>1, <2>2, <2>3
  <2> QED BY <2>4, <2>5
<1>4. CASE CuReady
    BY <1>4 DEF CuReady
<1>5. CASE RestartDu
  <2>1. stale' \in 0..Purge /\ du' = "waiting" /\ hold' = 0
      BY <1>5, LeftBounded DEF RestartDu, ReplaceDu
  <2>2. f1' = "none" /\ e2' = "none" /\ inPlace' = FALSE
      BY <1>5 DEF RestartDu, ReplaceDu
  <2>3. verify = "du" /\ verify' = "duReady"
      BY <1>5 DEF RestartDu
  <2>4. UNCHANGED <<cu, e2term, listed, disturbed, bounds>>
      BY <1>5 DEF RestartDu, ReplaceDu
  <2>5. TypeOK'
      BY <2>1, <2>2, <2>3, <2>4, ZeroTicks
  <2>6. HoldCovers' /\ PodIsNoDuplicate' /\ Undisturbed'
      BY <2>1, <2>2, <2>3, <2>4
  <2> QED BY <2>5, <2>6
<1>6. CASE DuReady
    BY <1>6 DEF DuReady
<1>7. CASE RolloutExpires
    BY <1>7 DEF RolloutExpires
<1>8. CASE StillAbsent
    BY <1>8 DEF StillAbsent
<1> QED BY <1>1, <1>2, <1>3, <1>4, <1>5, <1>6, <1>7, <1>8 DEF Verify

(* So do crashes, changes of E2Term and restarts by other scripts.         *)
LEMMA FaultsKeepIInv ==
  IInv /\ (DuCrash \/ CuCrash \/ E2TermChanges \/ Renew) => IInv'
<1> SUFFICES ASSUME IInv, DuCrash \/ CuCrash \/ E2TermChanges \/ Renew PROVE IInv'
    OBVIOUS
<1> USE BringUpAssumption DEF IInv, TypeOK, HoldCovers, PodIsNoDuplicate, Undisturbed, Fault
<1>1. CASE DuCrash
  <2>1. stale' \in 0..Purge
      BY <1>1, LeftBounded DEF DuCrash, Attempt
  <2>2. f1' \in {"lost", "rejected", "ok"} /\ e2' \in {"ok", "aborted"}
      BY <1>1 DEF DuCrash, Attempt
  <2>3. listed' \in BOOLEAN
      BY <1>1, Zenon DEF DuCrash, Attempt
  <2> QED BY <1>1, <2>1, <2>2, <2>3 DEF DuCrash, Attempt
<1>2. CASE CuCrash
    BY <1>2 DEF CuCrash, ForgetDu
<1>3. CASE E2TermChanges
    BY <1>3 DEF E2TermChanges
<1>4. CASE Renew
  <2>1. stale' \in 0..Purge /\ du' = "waiting" /\ hold' = 0
      BY <1>4, LeftBounded DEF Renew, ReplaceDu
  <2>2. f1' = "none" /\ e2' = "none" /\ inPlace' = FALSE
      BY <1>4 DEF Renew, ReplaceDu
  <2>3. disturbed' = TRUE /\ renewals' \in Nat
      BY <1>4 DEF Renew
  <2>4. UNCHANGED <<cu, listed, e2term, verify, faults>>
      BY <1>4 DEF Renew, ReplaceDu
  <2>5. TypeOK'
      BY <2>1, <2>2, <2>3, <2>4, ZeroTicks
  <2>6. HoldCovers' /\ PodIsNoDuplicate' /\ Undisturbed'
      BY <2>1, <2>2, <2>3, <2>4
  <2> QED BY <2>5, <2>6
<1> QED BY <1>1, <1>2, <1>3, <1>4

LEMMA IInvStep == IInv /\ [Next]_vars => IInv'
<1> SUFFICES ASSUME IInv, [Next]_vars PROVE IInv'
    OBVIOUS
<1>1. CASE UNCHANGED vars
    BY <1>1 DEF vars, ran, bounds, IInv, TypeOK, HoldCovers, PodIsNoDuplicate, Undisturbed
<1>2. CASE Decided
    BY <1>1, <1>2 DEF Decided
<1> QED BY <1>1, <1>2, PodsKeepIInv, VerifyKeepsIInv, FaultsKeepIInv DEF Next

-----------------------------------------------------------------------------
(* The recovery of the routing to the xApps. *)
(* After the inventory was found complete it stays complete; after the     *)
(* restart of RTMgr, RTMgr knows it once it has loaded. A subscription     *)
(* that RTMgr refused otherwise belongs to a pod still to be replaced.     *)
InventoryKept == script \in {"rtmgr", "restart2", "gauges", "recovered"} => XApp \subseteq inventory
InventoryLoaded ==
  script \in {"restart2", "gauges", "recovered"} /\ loaded => XApp \subseteq known
Renewed == /\ script = "restart2" => refused \subseteq todo \cup early
           /\ script \in {"gauges", "recovered"} => refused \subseteq early

RecoveryInv ==
  Recovery!TypeOK /\ (~recoveryDisturbed => InventoryKept /\ InventoryLoaded /\ Renewed)

LEMMA RecoveryInvInit == Recovery!Init => RecoveryInv
<1> SUFFICES ASSUME Recovery!Init PROVE RecoveryInv
    OBVIOUS
<1>2. Recovery!TypeOK
    BY DEF Recovery!Init, Recovery!TypeOK, Recovery!Phases, Recovery!Restarting,
           Recovery!Ends, Recovery!Failures
<1>3. InventoryKept /\ InventoryLoaded /\ Renewed
    BY DEF Recovery!Init, InventoryKept, InventoryLoaded, Renewed
<1> QED BY <1>2, <1>3 DEF RecoveryInv

(* A step of a process moves its phase and adds to inventory and asked.    *)
LEMMA ProcessKeepsRecoveryInv ==
  ASSUME RecoveryInv, NEW x \in XApp,
         Recovery!Process(x) \/ Recovery!RegisterFails(x) \/ Recovery!SubscribeRaises(x)
  PROVE  RecoveryInv'
<1> USE DEF RecoveryInv, Recovery!TypeOK, InventoryKept, InventoryLoaded, Renewed,
        Recovery!Phases, Recovery!Statuses, Recovery!ric, Recovery!routes
<1>1. CASE Recovery!ContainerStarts(x)
    BY <1>1 DEF Recovery!ContainerStarts
<1>2. CASE Recovery!Construct(x)
    BY <1>2 DEF Recovery!Construct
<1>3. CASE Recovery!Register(x)
    BY <1>3 DEF Recovery!Register
<1>4. CASE Recovery!Settle(x)
    BY <1>4 DEF Recovery!Settle
<1>5. CASE Recovery!Subscribe(x)
    BY <1>5 DEF Recovery!Subscribe
<1>6. CASE Recovery!RegisterFails(x)
    BY <1>6 DEF Recovery!RegisterFails
<1>7. CASE Recovery!SubscribeRaises(x)
    BY <1>7 DEF Recovery!SubscribeRaises
<1> QED BY <1>1, <1>2, <1>3, <1>4, <1>5, <1>6, <1>7 DEF Recovery!Process

(* What RTMgr and AppMgr do by themselves, and the other faults.           *)
LEMMA WorldKeepsRecoveryInv ==
  ASSUME RecoveryInv,
         \/ Recovery!Poll \/ Recovery!RTMgrLoads \/ Recovery!RTMgrRestart
         \/ Recovery!AppMgrRestart \/ Recovery!E2Changes
         \/ \E x \in XApp : Recovery!RouteCreated(x) \/ Recovery!PodCrash(x)
  PROVE  RecoveryInv'
<1> USE DEF RecoveryInv, Recovery!TypeOK, InventoryKept, InventoryLoaded, Renewed,
        Recovery!Phases, Recovery!Statuses, Recovery!ric, Recovery!routes
<1>1. CASE Recovery!Poll
    BY <1>1 DEF Recovery!Poll
<1>2. CASE Recovery!RTMgrRestart
  <2>1. loaded' = FALSE /\ known' = {} /\ recoveryDisturbed' = TRUE
        /\ recoveryFaults' = recoveryFaults + 1
        /\ UNCHANGED <<script, todo, awaited, e2Status, proc, inventory>>
        /\ UNCHANGED <<asked, routed, refused, early>>
      BY <1>2 DEF Recovery!RTMgrRestart, Recovery!RTMgrStarts
  <2>2. loaded' \in BOOLEAN
      BY ONLY <2>1
  <2>3. Recovery!TypeOK'
      BY <2>1, <2>2
  <2> QED BY <2>1, <2>3
<1>3. CASE Recovery!AppMgrRestart
    BY <1>3 DEF Recovery!AppMgrRestart
<1>4. CASE Recovery!E2Changes
    BY <1>4 DEF Recovery!E2Changes
<1>5. ASSUME NEW x \in XApp, Recovery!RouteCreated(x) PROVE RecoveryInv'
  <2>1. CASE x \in known
      BY <1>5, <2>1 DEF Recovery!RouteCreated
  <2>2. CASE x \notin known
    <3>1. recoveryDisturbed \/ script \notin {"restart2", "gauges", "recovered"} \/ ~loaded
        BY <2>2
    <3>2. CASE loaded
        BY <1>5, <2>2, <3>1, <3>2 DEF Recovery!RouteCreated
    <3>3. CASE ~loaded
        BY <1>5, <2>2, <3>3 DEF Recovery!RouteCreated
    <3> QED BY <3>2, <3>3
  <2> QED BY <2>1, <2>2
<1>6. ASSUME NEW x \in XApp, Recovery!PodCrash(x) PROVE RecoveryInv'
    BY <1>6 DEF Recovery!PodCrash, Recovery!Replace
<1>7. CASE Recovery!RTMgrLoads
    BY <1>7 DEF Recovery!RTMgrLoads
<1> QED BY <1>1, <1>2, <1>3, <1>4, <1>5, <1>6, <1>7

(* The commands of the script: CheckInventory establishes InventoryKept,   *)
(* RestartRTMgr InventoryLoaded, and the second round of restarts Renewed. *)
LEMMA ScriptKeepsRecoveryInv == RecoveryInv /\ Recovery!Script => RecoveryInv'
<1> SUFFICES ASSUME RecoveryInv, Recovery!Script PROVE RecoveryInv'
    OBVIOUS
<1> USE DEF RecoveryInv, Recovery!TypeOK, InventoryKept, InventoryLoaded, Renewed,
        Recovery!Phases, Recovery!Restarting,
           Recovery!Ends, Recovery!Failures,
        Recovery!ric, Recovery!routes, Recovery!Goto
<1>1. CASE Recovery!WaitForE2
    BY <1>1 DEF Recovery!WaitForE2
<1>2. CASE Recovery!E2TimesOut
    BY <1>2 DEF Recovery!E2TimesOut, Recovery!GiveUp
<1>3. CASE Recovery!ResetInventory
    BY <1>3 DEF Recovery!ResetInventory
<1>4. CASE Recovery!AllRestarted
    BY <1>4 DEF Recovery!AllRestarted, Recovery!RoundEnds
<1>5. CASE Recovery!CheckInventory
  <2>1. CASE XApp \subseteq inventory
      BY <1>5, <2>1 DEF Recovery!CheckInventory
  <2>2. CASE ~(XApp \subseteq inventory)
      BY <1>5, <2>2 DEF Recovery!CheckInventory
  <2> QED BY <2>1, <2>2
<1>6. CASE Recovery!RestartRTMgr
    BY <1>6 DEF Recovery!RestartRTMgr, Recovery!RTMgrStarts
<1>7. CASE Recovery!AllRenewed
    BY <1>7 DEF Recovery!AllRenewed, Recovery!RoundEnds
<1>8. CASE Recovery!RolloutTimesOut
    BY <1>8 DEF Recovery!RolloutTimesOut, Recovery!GiveUp
<1>9. ASSUME NEW x \in XApp, Recovery!RolloutRestart(x) PROVE RecoveryInv'
    BY <1>9 DEF Recovery!RolloutRestart, Recovery!Replace
<1>10. ASSUME NEW x \in XApp, Recovery!CheckGauge(x) PROVE RecoveryInv'
    BY <1>10 DEF Recovery!CheckGauge
<1>11. ASSUME NEW x \in XApp, Recovery!RolledOut(x) PROVE RecoveryInv'
    BY <1>11 DEF Recovery!RolledOut
<1> QED BY <1>1, <1>2, <1>3, <1>4, <1>5, <1>6, <1>7, <1>8, <1>9, <1>10, <1>11 DEF Recovery!Script

LEMMA RecoveryInvStep == RecoveryInv /\ [Recovery!Next]_(Recovery!vars) => RecoveryInv'
<1> SUFFICES ASSUME RecoveryInv, [Recovery!Next]_(Recovery!vars) PROVE RecoveryInv'
    OBVIOUS
<1>1. CASE UNCHANGED Recovery!vars
    BY <1>1 DEF Recovery!vars, Recovery!ric, Recovery!routes, RecoveryInv, Recovery!TypeOK, InventoryKept,
           InventoryLoaded, Renewed
<1>2. CASE Recovery!Ended
    BY <1>1, <1>2 DEF Recovery!Ended
<1>3. CASE Recovery!Script
    BY <1>3, ScriptKeepsRecoveryInv
<1>4. CASE Recovery!Fault
    BY <1>4, ProcessKeepsRecoveryInv, WorldKeepsRecoveryInv DEF Recovery!Fault
<1>5. CASE Recovery!Poll \/ Recovery!RTMgrLoads
    BY <1>5, WorldKeepsRecoveryInv
<1>6. ASSUME NEW x \in XApp, Recovery!Process(x) PROVE RecoveryInv'
    BY <1>6, ProcessKeepsRecoveryInv
<1>7. ASSUME NEW x \in XApp, Recovery!RouteCreated(x) PROVE RecoveryInv'
    BY <1>7, WorldKeepsRecoveryInv
<1> QED BY <1>1, <1>2, <1>3, <1>4, <1>5, <1>6, <1>7 DEF Recovery!Next

-----------------------------------------------------------------------------
(* Both components side by side: the one that rests keeps its invariant.   *)
AssociationInv == IInv /\ RecoveryInv

LEMMA AssociationInvInit == AssociationInit => AssociationInv
BY IInvInit, RecoveryInvInit DEF AssociationInit, AssociationInv

(* An invariant of a component does not notice the steps of the other.     *)
LEMMA IInvRests == IInv /\ UNCHANGED vars => IInv'
BY IInvStep

LEMMA RecoveryInvRests == RecoveryInv /\ UNCHANGED recoveryVars => RecoveryInv'
<1>1. UNCHANGED recoveryVars => UNCHANGED Recovery!vars
    BY DEF recoveryVars, Recovery!vars, Recovery!ric, Recovery!routes
<1> QED BY <1>1, RecoveryInvStep

LEMMA AssociationInvStep == AssociationInv /\ [AssociationNext]_allVars => AssociationInv'
<1> SUFFICES ASSUME AssociationInv, [AssociationNext]_allVars PROVE AssociationInv'
    OBVIOUS
<1>1. IInv /\ RecoveryInv
    BY DEF AssociationInv
<1>2. CASE BringUpStep
    BY <1>1, <1>2, IInvStep, RecoveryInvRests DEF BringUpStep, AssociationInv
<1>3. CASE RecoveryStep
    BY <1>1, <1>3, IInvRests, RecoveryInvStep DEF RecoveryStep, RecoveryFrame, AssociationInv
<1>4. CASE UNCHANGED allVars
  <2>1. UNCHANGED vars /\ UNCHANGED recoveryVars
      BY <1>4 DEF allVars
  <2> QED BY <1>1, <2>1, IInvRests, RecoveryInvRests DEF AssociationInv
<1> QED BY <1>2, <1>3, <1>4 DEF AssociationNext

THEOREM AssociationInvHolds == AssociationSpec => []AssociationInv
BY AssociationInvInit, AssociationInvStep, PTL DEF AssociationSpec

(* Pods, timers and tasks, and the script, the processes and the RIC, stay *)
(* within their ranges for any constants.                                  *)
THEOREM TypeCorrect == AssociationSpec => [](TypeOK /\ Recovery!TypeOK)
<1>1. AssociationInv => TypeOK /\ Recovery!TypeOK
    BY DEF AssociationInv, IInv, RecoveryInv
<1> QED BY <1>1, AssociationInvHolds, PTL

(* No new DU pod meets the entry of its predecessor, for every hold-off    *)
(* of at least the purge time (duF1SetupHoldOffSec of the RAN chart).      *)
THEOREM PodIsNoDuplicateHolds == AssociationSpec => []PodIsNoDuplicate
<1>1. AssociationInv => PodIsNoDuplicate
    BY DEF AssociationInv, IInv
<1> QED BY <1>1, AssociationInvHolds, PTL

(* A controlled recovery that nothing disturbs leaves F1 and E2 up: CU     *)
(* before DU, each awaited (verify_e2.yml).                                *)
THEOREM RecoveryAssociatesHolds == AssociationSpec => []RecoveryAssociates
<1>1. AssociationInv => RecoveryAssociates
    BY DEF AssociationInv, IInv, Undisturbed, RecoveryAssociates
<1> QED BY <1>1, AssociationInvHolds, PTL

(* A reported recovery means that RTMgr knows every xApp once it has       *)
(* loaded, and refused a present subscription only before it had           *)
(* (recover-ric-kpm.sh, steps 4 to 6).                                     *)
THEOREM RecoveredIsRoutableHolds == AssociationSpec => []RecoveredIsRoutable
<1>1. AssociationInv => RecoveredIsRoutable
    BY DEF AssociationInv, RecoveryInv, InventoryLoaded, Renewed, RecoveredIsRoutable,
           Recovery!RecoveredIsRoutable
<1> QED BY <1>1, AssociationInvHolds, PTL
=============================================================================
