----------------------- MODULE VariantApproval_proofs -----------------------
(***************************************************************************)
(* Type correctness of VariantApproval and its two guarantees, for any     *)
(* number of versions of the manifest.                                     *)
(***************************************************************************)
EXTENDS VariantApproval, TLAPS

(* The newest revision was generated from the version the controller last  *)
(* acted on.                                                               *)
LatestIsReconciled == latest # 0 => carries[latest] = reconciled

UpToDate == reconciled = generation /\ target = latest

(* What a run that began with the status up to date, and read the previous *)
(* target, knows at each of its steps.  While a new revision is due, the   *)
(* status still names the previous one or the controller has caught up.    *)
Knows ==
    /\ pc = "previous" => UpToDate
    /\ pc = "before" => UpToDate /\ previous = target
    /\ pc = "apply" => UpToDate /\ previous = target /\ before \in {0, generation}
    /\ pc = "poll" => \/ UpToDate
                      \/ /\ require
                         /\ target = previous
                         /\ latest = previous \/ reconciled = generation
    /\ pc \in Approving => UpToDate /\ revision = latest

QuietRun ==
    /\ pc = "previous" => ~missed
    /\ quiet /\ ~missed /\ pc \notin Resting => Knows

IInv == TypeOK /\ LatestIsReconciled /\ QuietRun

LEMMA IInvInit == Init => IInv
<1> SUFFICES ASSUME Init PROVE IInv
    OBVIOUS
<1>1. carries \in [Versions -> 0..MaxGeneration] /\ lifecycle \in [Versions -> Lifecycles]
    BY MaxGenerationAssumption DEF Init, Lifecycles
<1>2. TypeOK
  <2>1. 0 \in 0..MaxGeneration /\ 0 \in 0..0
      BY MaxGenerationAssumption
  <2> QED BY <1>1, <2>1 DEF Init, TypeOK, Resting, Approving
<1>3. LatestIsReconciled /\ QuietRun
    BY DEF Init, LatestIsReconciled, QuietRun, Resting
<1> QED BY <1>2, <1>3 DEF IInv

(* The steps of the operator and of the controllers keep the invariant.    *)
LEMMA ClusterKeepsIInv == IInv /\ Cluster => IInv'
<1> SUFFICES ASSUME IInv, Cluster PROVE IInv'
    OBVIOUS
<1> USE MaxGenerationAssumption DEF IInv, TypeOK, LatestIsReconciled, QuietRun, Knows,
        UpToDate, Resting, Approving, Versions, Lifecycles, script
<1>1. CASE EditManifest
    BY <1>1, SMTT(30) DEF EditManifest
<1>2. CASE OperatorApplies
    BY <1>2, SMTT(30) DEF OperatorApplies
<1>3. CASE Reconcile
  <2>1. latest' \in 1..reconciled' /\ latest' >= latest
      BY <1>3 DEF Reconcile
  <2>2. carries'[latest'] = generation /\ carries' \in [Versions -> 0..MaxGeneration]
      BY <1>3, <2>1 DEF Reconcile
  <2>3. lifecycle' \in [Versions -> Lifecycles]
      BY <1>3, <2>1 DEF Reconcile
  <2>4. TypeOK'
      BY <1>3, <2>1, <2>2, <2>3 DEF Reconcile
  <2>5. QuietRun'
      BY <1>3, <2>1 DEF Reconcile
  <2> QED BY <1>3, <2>2, <2>4, <2>5 DEF Reconcile
<1>4. CASE UpdateStatus
    BY <1>4, SMTT(30) DEF UpdateStatus
<1>5. CASE PolicyPromotes
    BY <1>5, SMTT(30) DEF PolicyPromotes
<1> QED BY <1>1, <1>2, <1>3, <1>4, <1>5 DEF Cluster

(* The steps of the script keep the invariant.                             *)
LEMMA ScriptKeepsIInv == IInv /\ Script => IInv'
<1> SUFFICES ASSUME IInv, Script PROVE IInv'
    OBVIOUS
<1> USE MaxGenerationAssumption DEF IInv, TypeOK, LatestIsReconciled, QuietRun, Knows,
        UpToDate, Resting, Approving, Versions, Lifecycles, cluster
<1>1. CASE Begin
  <2>1. quiet' \in BOOLEAN /\ (quiet' => UpToDate) /\ missed' = FALSE
      BY <1>1, Zenon DEF Begin
  <2>2. /\ pc' \in {"previous", "poll"} /\ require' = FALSE
        /\ previous' = 0 /\ before' = 0 /\ revision' = 0
        /\ UNCHANGED cluster
      BY <1>1 DEF Begin
  <2>3. TypeOK' /\ LatestIsReconciled'
    <3>1. 0 \in 0..MaxGeneration /\ 0 \in 0..latest
        BY MaxGenerationAssumption
    <3>2. pc' \notin Approving \cup {"reported"}
        BY <2>2
    <3> QED BY <2>1, <2>2, <3>1, <3>2
  <2>4. quiet' => Knows'
    <3> SUFFICES ASSUME quiet' PROVE Knows'
        OBVIOUS
    <3>1. UpToDate'
        BY <1>1, <2>1 DEF Begin
    <3> QED BY <2>2, <3>1
  <2> QED BY <2>1, <2>3, <2>4
<1>2. CASE ReadPrevious
  <2>1. missed' \in BOOLEAN
      BY <1>2, Zenon DEF ReadPrevious
  <2>2. ~missed /\ (~missed' => previous' = target)
      BY <1>2 DEF ReadPrevious
  <2>3. TypeOK' /\ LatestIsReconciled'
      BY <1>2, <2>1 DEF ReadPrevious
  <2>4. QuietRun'
      BY <1>2, <2>2 DEF ReadPrevious
  <2> QED BY <2>3, <2>4
<1>3. CASE ReadBefore
    BY <1>3, SMTT(30) DEF ReadBefore
<1>4. CASE Apply
    BY <1>4, SMTT(30) DEF Apply
<1>5. CASE Poll
    BY <1>5, SMTT(30) DEF Poll
<1>6. CASE GiveUp
    BY <1>6, SMTT(30) DEF GiveUp
<1>7. CASE ReadLifecycle
    BY <1>7, SMTT(30) DEF ReadLifecycle, OnError
<1>8. CASE Propose
    BY <1>8, SMTT(30) DEF Propose, Promote, OnError
<1>9. CASE WaitProposed
    BY <1>9, SMTT(30) DEF WaitProposed, Await, OnError
<1>10. CASE Approve
    BY <1>10, SMTT(30) DEF Approve, Promote, OnError
<1>11. CASE WaitPublished
    BY <1>11, SMTT(30) DEF WaitPublished, Await, OnError
<1>12. CASE Interrupt
    BY <1>12, SMTT(30) DEF Interrupt
<1> QED BY <1>1, <1>2, <1>3, <1>4, <1>5, <1>6, <1>7, <1>8, <1>9, <1>10, <1>11, <1>12
        DEF Script

LEMMA IInvStep == IInv /\ [Next]_vars => IInv'
<1> SUFFICES ASSUME IInv, [Next]_vars PROVE IInv'
    OBVIOUS
<1>1. CASE Next
    BY <1>1, ClusterKeepsIInv, ScriptKeepsIInv DEF Next
<1>2. CASE UNCHANGED vars
    BY <1>2 DEF vars, cluster, script, IInv, TypeOK, LatestIsReconciled, QuietRun, Knows,
                UpToDate
<1> QED BY <1>1, <1>2

(* The inductive invariant holds in every reachable state.                 *)
THEOREM ApprovalInvariance == Spec => []IInv
  BY IInvInit, IInvStep, PTL DEF Spec

(* TypeOK for every bound on the manifest: in particular the status never  *)
(* names a revision the controller has not created, and the revision under *)
(* approval exists.                                                        *)
THEOREM TypeCorrect == Spec => []TypeOK
<1>1. IInv => TypeOK
    BY DEF IInv
<1> QED BY <1>1, ApprovalInvariance, PTL

(* A run that reports has just seen its revision published, and knows it   *)
(* is the newest.                                                          *)
LEMMA ReportsKnown ==
    ASSUME IInv, [Next]_vars
    PROVE  [Reports /\ quiet /\ ~missed => carries[revision] = generation]_vars
<1> SUFFICES ASSUME Next, Reports, quiet, ~missed
             PROVE  carries[revision] = generation
    OBVIOUS
<1>1. pc = "waitPublished"
    BY DEF Next, Reports, Cluster, Script, EditManifest, OperatorApplies, Reconcile,
           UpdateStatus, PolicyPromotes, Begin, ReadPrevious, ReadBefore, Apply, Poll,
           GiveUp, ReadLifecycle, Propose, WaitProposed, Approve, WaitPublished,
           Interrupt, Promote, Await, OnError, script
<1> QED BY <1>1 DEF IInv, QuietRun, Knows, UpToDate, LatestIsReconciled, TypeOK, Resting,
                    Approving

(* A run that began with the status up to date, and read the previous      *)
(* target, reports the package of the variant as last applied; this is the *)
(* work of the comparison in approve_and_wait_for_variant.                 *)
THEOREM StaleReportNeedsCauseHolds == Spec => StaleReportNeedsCause
<1>1. IInv /\ [Next]_vars => [Reports /\ quiet /\ ~missed => carries[revision] = generation]_vars
    BY ReportsKnown
<1> QED BY <1>1, ApprovalInvariance, PTL DEF Spec, StaleReportNeedsCause

-----------------------------------------------------------------------------

(* With errexit in force, a run that reports success has awaited the       *)
(* publication of its revision, and a published revision stays published.  *)
LEMMA HelperKeepsReported ==
    ASSUME ~Onboarding, IInv, ReportedIsPublished, [Next]_vars
    PROVE  ReportedIsPublished'
<1> USE DEF ReportedIsPublished, IInv, TypeOK, Versions
<1>1. CASE Cluster
  <2> SUFFICES ASSUME pc = "reported" PROVE lifecycle'[revision] = "Published"
      BY <1>1 DEF Cluster, EditManifest, OperatorApplies, Reconcile, UpdateStatus,
                  PolicyPromotes, script
  <2>1. revision \in Versions /\ revision <= latest /\ lifecycle[revision] = "Published"
      BY MaxGenerationAssumption
  <2>2. CASE Reconcile
    <3>1. latest' # revision
        BY <2>1, <2>2 DEF Reconcile
    <3> QED BY <2>1, <2>2, <3>1 DEF Reconcile
  <2>3. CASE PolicyPromotes
      BY <2>1, <2>3 DEF PolicyPromotes
  <2>4. CASE EditManifest \/ OperatorApplies \/ UpdateStatus
      BY <2>1, <2>4 DEF EditManifest, OperatorApplies, UpdateStatus
  <2> QED BY <1>1, <2>2, <2>3, <2>4 DEF Cluster
<1>2. CASE Script
  <2>1. CASE WaitPublished
      BY <2>1 DEF WaitPublished, Await, OnError, cluster
  <2>2. CASE ~WaitPublished
      BY <1>2, <2>2 DEF Script, Begin, ReadPrevious, ReadBefore, Apply, Poll, GiveUp,
             ReadLifecycle, Propose, WaitProposed, Approve, Interrupt, Promote, Await, OnError
  <2> QED BY <2>1, <2>2
<1>3. CASE UNCHANGED vars
    BY <1>3 DEF vars, cluster, script
<1> QED BY <1>1, <1>2, <1>3 DEF Next

(* approve-packagevariant.sh exits with success only for a published       *)
(* revision, whatever the controllers do meanwhile.                        *)
THEOREM ReportedIsPublishedHolds ==
    ASSUME ~Onboarding
    PROVE  Spec => []ReportedIsPublished
<1>1. Init => ReportedIsPublished
    BY DEF Init, ReportedIsPublished
<1>2. IInv /\ ReportedIsPublished /\ [Next]_vars => ReportedIsPublished'
    BY HelperKeepsReported
<1> QED BY <1>1, <1>2, ApprovalInvariance, PTL DEF Spec
=============================================================================
