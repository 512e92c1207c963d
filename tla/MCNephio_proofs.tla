--------------------------- MODULE MCNephio_proofs ---------------------------
(***************************************************************************)
(* The guarantees of the Nephio scripts side by side: those of the         *)
(* approval, proved in VariantApproval_proofs for either script, carried   *)
(* over to the behaviours the run explores, and those of the publication.  *)
(***************************************************************************)
EXTENDS MCNephio, VariantApproval_proofs

HelperP == INSTANCE VariantApproval_proofs WITH Onboarding <- FALSE

-----------------------------------------------------------------------------
(* The approval. The invariant does not depend on the script.              *)

LEMMA HelperNext == Helper!Next => HelperP!Next
BY Zenon DEF Helper!Next, HelperP!Next,
       Helper!Cluster, HelperP!Cluster, Helper!EditManifest, HelperP!EditManifest,
       Helper!OperatorApplies, HelperP!OperatorApplies, Helper!Reconcile,
       HelperP!Reconcile, Helper!UpdateStatus, HelperP!UpdateStatus,
       Helper!PolicyPromotes, HelperP!PolicyPromotes, Helper!Script, HelperP!Script,
       Helper!Begin, HelperP!Begin, Helper!ReadPrevious, HelperP!ReadPrevious,
       Helper!ReadBefore, HelperP!ReadBefore, Helper!Apply, HelperP!Apply, Helper!Poll,
       HelperP!Poll, Helper!GiveUp, HelperP!GiveUp, Helper!ReadLifecycle,
       HelperP!ReadLifecycle, Helper!Propose, HelperP!Propose, Helper!WaitProposed,
       HelperP!WaitProposed, Helper!Approve, HelperP!Approve, Helper!WaitPublished,
       HelperP!WaitPublished, Helper!Interrupt, HelperP!Interrupt, Helper!Promote,
       HelperP!Promote, Helper!Await, HelperP!Await, Helper!OnError, HelperP!OnError,
       Helper!cluster, HelperP!cluster, Helper!script, HelperP!script, Helper!Resting,
       HelperP!Resting

LEMMA HelperInv == IInv <=> HelperP!IInv
BY Zenon DEF IInv, HelperP!IInv, TypeOK, HelperP!TypeOK, LatestIsReconciled,
       HelperP!LatestIsReconciled, QuietRun, HelperP!QuietRun, Knows, HelperP!Knows,
       UpToDate, HelperP!UpToDate, Resting, HelperP!Resting, Approving, HelperP!Approving,
       Versions, HelperP!Versions, Lifecycles, HelperP!Lifecycles

LEMMA HelperInvNext == IInv' <=> HelperP!IInv'
BY Zenon DEF IInv, HelperP!IInv, TypeOK, HelperP!TypeOK, LatestIsReconciled,
       HelperP!LatestIsReconciled, QuietRun, HelperP!QuietRun, Knows, HelperP!Knows,
       UpToDate, HelperP!UpToDate, Resting, HelperP!Resting, Approving, HelperP!Approving,
       Versions, HelperP!Versions, Lifecycles, HelperP!Lifecycles

ApprovalInv == IInv /\ HelperReportsPublished

LEMMA ApprovalInvStep == ApprovalInv /\ [NephioNext]_allVars => ApprovalInv'
<1> SUFFICES ASSUME ApprovalInv, [NephioNext]_allVars PROVE ApprovalInv'
    OBVIOUS
<1>1. CASE OnboardingStep
  <2>1. IInv'
      BY <1>1, IInvStep DEF ApprovalInv, OnboardingStep
  <2> QED BY <1>1, <2>1 DEF ApprovalInv, OnboardingStep, HelperReportsPublished
<1>2. CASE HelperStep
  <2>1. HelperP!Next /\ HelperP!IInv /\ focus = "helper" /\ focus' = "helper"
      BY <1>2, HelperNext, HelperInv DEF ApprovalInv, HelperStep
  <2>2. HelperP!ReportedIsPublished
      BY <2>1 DEF ApprovalInv, HelperReportsPublished, ReportedIsPublished,
                  HelperP!ReportedIsPublished
  <2>3. HelperP!IInv'
      BY <2>1, HelperP!IInvStep, MaxGenerationAssumption
  <2>4. HelperP!ReportedIsPublished'
      BY <2>1, <2>2, HelperP!HelperKeepsReported, MaxGenerationAssumption
  <2> QED BY <2>1, <2>3, <2>4, HelperInvNext DEF ApprovalInv, HelperReportsPublished,
             ReportedIsPublished, HelperP!ReportedIsPublished
<1>3. CASE PublicationStep \/ UNCHANGED allVars
  <2>1. UNCHANGED vars /\ UNCHANGED focus
      BY <1>3 DEF PublicationStep, allVars
  <2>2. IInv'
      BY <2>1, IInvStep DEF ApprovalInv
  <2> QED BY <2>1, <2>2 DEF ApprovalInv, HelperReportsPublished, ReportedIsPublished,
                            vars, cluster, script
<1> QED BY <1>1, <1>2, <1>3 DEF NephioNext

THEOREM ApprovalInvHolds == NephioSpec => []ApprovalInv
<1>1. NephioInit => ApprovalInv
    BY IInvInit DEF NephioInit, Init, ApprovalInv, HelperReportsPublished,
                    ReportedIsPublished
<1> QED BY <1>1, ApprovalInvStep, PTL DEF NephioSpec

(* approve-packagevariant.sh reports success only for a published revision *)
(* in every behaviour of the run.                                          *)
THEOREM HelperReportsPublishedHolds == NephioSpec => []HelperReportsPublished
<1>1. ApprovalInv => HelperReportsPublished
    BY DEF ApprovalInv
<1> QED BY <1>1, ApprovalInvHolds, PTL

(* Neither script reports an outdated package without a cause.             *)
THEOREM StaleReportNeedsCauseInRun == NephioSpec => StaleReportNeedsCause
<1>1. ApprovalInv /\ [NephioNext]_allVars
      => [Reports /\ quiet /\ ~missed => carries[revision] = generation]_vars
  <2> SUFFICES ASSUME ApprovalInv, [NephioNext]_allVars
               PROVE  [Reports /\ quiet /\ ~missed => carries[revision] = generation]_vars
      OBVIOUS
  <2>1. CASE OnboardingStep
      BY <2>1, ReportsKnown DEF ApprovalInv, OnboardingStep
  <2>2. CASE HelperStep
    <3>1. HelperP!IInv /\ HelperP!Next
        BY <2>2, HelperInv, HelperNext DEF ApprovalInv, HelperStep
    <3>2. [HelperP!Reports /\ quiet /\ ~missed => carries[revision] = generation]_(HelperP!vars)
        BY <3>1, HelperP!ReportsKnown, MaxGenerationAssumption
    <3> QED BY <3>2 DEF Reports, HelperP!Reports, vars, cluster, script, HelperP!vars,
                        HelperP!cluster, HelperP!script
  <2>3. CASE PublicationStep \/ UNCHANGED allVars
      BY <2>3 DEF PublicationStep, allVars
  <2> QED BY <2>1, <2>2, <2>3 DEF NephioNext
<1> QED BY <1>1, ApprovalInvHolds, PTL DEF NephioSpec, StaleReportNeedsCause

-----------------------------------------------------------------------------
(* The publication.                                                        *)

PublicationTyped ==
  /\ life \in {"absent", "Draft", "Proposed", "Published"}
  /\ content \in 0..MaxVersion /\ version \in 1..MaxVersion
  /\ command \in [Operator -> Publication!Ends \cup Publication!Commands]
  /\ mine \in [Operator -> 0..MaxVersion] /\ hurt \in [Operator -> BOOLEAN]
  /\ faults \in Nat

(* What is pushed is a version of the source; once an operator is to       *)
(* propose, the revision is there and holds one, and keeps one.            *)
PushedFirst ==
  /\ \A o \in Operator :
       /\ command[o] = "push" => mine[o] # 0
       /\ command[o] = "propose" => content # 0 /\ life # "absent"
  /\ Publication!PublishedIsPushed

(* Where the revision stands in a run that is alone and that nothing has   *)
(* disturbed: the commands find the stage they need, except that a draft   *)
(* may have been proposed already, and then the run fails on the proposal. *)
Alone(o) == \A p \in Operator \ {o} : command[p] = "idle"

Stage(o) ==
  /\ command[o] = "create" => life = "absent"
  /\ command[o] \in {"pull", "push"} => life \in {"Draft", "Proposed"}
  /\ command[o] = "propose" => life = "Draft"
  /\ command[o] \in {"proposed", "approve", "failed"} => life = "Proposed"
  /\ command[o] = "published" => life = "Published"

OnTrack == \A o \in Operator : Alone(o) /\ ~hurt[o] => Stage(o)

PublicationInv == PublicationTyped /\ PushedFirst /\ OnTrack

LEMMA PublicationInvInit == Publication!Init => PublicationInv
BY PublicationAssumption
   DEF Publication!Init, PublicationInv, PublicationTyped, PushedFirst, OnTrack, Stage,
       Publication!PublishedIsPushed, Publication!Ends, Publication!Commands

(* An operator leaves "idle" for good, and only its own command moves: the *)
(* others were alone before only if they are no longer.                    *)
LEMMA OnTrackOf ==
  ASSUME PublicationInv, NEW o \in Operator, NEW next, next # "idle",
         command' = [command EXCEPT ![o] = next], \A p \in Operator \ {o} : hurt'[p] = hurt[p],
         Alone(o) /\ ~hurt'[o] => Stage(o)'
  PROVE  OnTrack'
<1> SUFFICES ASSUME NEW p \in Operator, Alone(p)', ~hurt'[p] PROVE Stage(p)'
    BY DEF OnTrack
<1>1. command \in [Operator -> Publication!Ends \cup Publication!Commands]
    BY DEF PublicationInv, PublicationTyped
<1>2. CASE p = o
  <2>1. Alone(o)
      BY <1>1, <1>2 DEF Alone
  <2> QED BY <1>2, <2>1
<1>3. CASE p # o
  <2>1. command'[o] = next /\ o \in Operator \ {p}
      BY <1>1, <1>3
  <2> QED BY <2>1 DEF Alone
<1> QED BY <1>2, <1>3

LEMMA RunKeepsPublicationInv ==
  ASSUME PublicationInv, NEW o \in Operator,
         \/ Publication!Start(o) \/ Publication!Create(o) \/ Publication!Pull(o)
         \/ Publication!Push(o) \/ Publication!Propose(o) \/ Publication!IsProposed(o)
         \/ Publication!Approve(o) \/ Publication!IsPublished(o)
         \/ Publication!Refused(o) \/ Publication!Fails(o)
  PROVE  PublicationInv'
<1> USE PublicationAssumption
    DEF PublicationTyped, PushedFirst, Publication!PublishedIsPushed, Publication!Ends,
        Publication!Commands, Publication!porch, Publication!Goto
<1>1. PublicationTyped /\ PushedFirst
    BY DEF PublicationInv
<1>2. Alone(o) /\ ~hurt[o] => Stage(o)
    BY DEF PublicationInv, OnTrack
<1>3. CASE Publication!Start(o)
  <2> DEFINE next == CASE life = "absent" -> "create"
                       [] life = "Published" -> "already"
                       [] OTHER -> "pull"
  <2>1. /\ next \in {"create", "already", "pull"}
        /\ next = "create" => life = "absent"
        /\ next = "pull" => life \in {"Draft", "Proposed"}
      BY <1>1
  <2>2. command' = [command EXCEPT ![o] = next] /\ hurt' = [hurt EXCEPT ![o] = FALSE]
      BY <1>3 DEF Publication!Start
  <2> HIDE DEF next
  <2>3. PublicationTyped' /\ PushedFirst'
      BY <1>1, <1>3, <2>1, <2>2 DEF Publication!Start
  <2>4. Stage(o)'
      BY <1>1, <1>3, <2>1, <2>2 DEF Publication!Start, Stage
  <2>5. OnTrack'
      BY <1>1, <2>1, <2>2, <2>4, OnTrackOf
  <2> QED BY <2>3, <2>5 DEF PublicationInv
<1>4. CASE Publication!Create(o)
  <2>1. PublicationTyped' /\ PushedFirst'
      BY <1>1, <1>4 DEF Publication!Create
  <2>2. Stage(o)'
      BY <1>1, <1>4 DEF Publication!Create, Stage
  <2>3. OnTrack'
      BY <1>4, <2>2, OnTrackOf DEF Publication!Create
  <2> QED BY <2>1, <2>3 DEF PublicationInv
<1>5. CASE Publication!Pull(o)
  <2>1. PublicationTyped' /\ PushedFirst'
      BY <1>1, <1>5 DEF Publication!Pull
  <2>2. Alone(o) /\ ~hurt'[o] => Stage(o)'
      BY <1>1, <1>2, <1>5 DEF Publication!Pull, Stage
  <2>3. OnTrack'
      BY <1>5, <2>2, OnTrackOf DEF Publication!Pull
  <2> QED BY <2>1, <2>3 DEF PublicationInv
<1>6. CASE Publication!Push(o)
  <2>1. PublicationTyped' /\ PushedFirst'
      BY <1>1, <1>6 DEF Publication!Push
  <2>2. Stage(o)'
      BY <1>1, <1>6 DEF Publication!Push, Stage
  <2>3. OnTrack'
      BY <1>6, <2>2, OnTrackOf DEF Publication!Push
  <2> QED BY <2>1, <2>3 DEF PublicationInv
<1>7. CASE Publication!Propose(o)
  <2>1. PublicationTyped' /\ PushedFirst'
      BY <1>1, <1>7 DEF Publication!Propose
  <2>2. Stage(o)'
      BY <1>1, <1>7 DEF Publication!Propose, Stage
  <2>3. OnTrack'
      BY <1>7, <2>2, OnTrackOf DEF Publication!Propose
  <2> QED BY <2>1, <2>3 DEF PublicationInv
<1>8. CASE Publication!IsProposed(o)
  <2>1. PublicationTyped' /\ PushedFirst'
      BY <1>1, <1>8 DEF Publication!IsProposed
  <2>2. Stage(o)'
      BY <1>1, <1>8 DEF Publication!IsProposed, Stage
  <2>3. OnTrack'
      BY <1>8, <2>2, OnTrackOf DEF Publication!IsProposed
  <2> QED BY <2>1, <2>3 DEF PublicationInv
<1>9. CASE Publication!Approve(o)
  <2>1. PublicationTyped' /\ PushedFirst'
      BY <1>1, <1>9 DEF Publication!Approve
  <2>2. Stage(o)'
      BY <1>1, <1>9 DEF Publication!Approve, Stage
  <2>3. OnTrack'
      BY <1>9, <2>2, OnTrackOf DEF Publication!Approve
  <2> QED BY <2>1, <2>3 DEF PublicationInv
<1>10. CASE Publication!IsPublished(o)
  <2>1. PublicationTyped' /\ PushedFirst'
      BY <1>1, <1>10 DEF Publication!IsPublished
  <2>2. Stage(o)'
      BY <1>1, <1>10 DEF Publication!IsPublished, Stage
  <2>3. OnTrack'
      BY <1>10, <2>2, OnTrackOf DEF Publication!IsPublished
  <2> QED BY <2>1, <2>3 DEF PublicationInv
(* A command is refused on the stage it does not expect: alone, only on a  *)
(* proposal. *)
<1>11. CASE Publication!Refused(o)
  <2>1. PublicationTyped' /\ PushedFirst'
      BY <1>1, <1>11 DEF Publication!Refused
  <2>2. Alone(o) /\ ~hurt'[o] => Stage(o)'
    <3> SUFFICES ASSUME Alone(o), ~hurt[o] PROVE life = "Proposed"
        BY <1>1, <1>11 DEF Publication!Refused, Stage
    <3>1. Stage(o) /\ command[o] \in Publication!Commands
        BY <1>2, <1>11 DEF Publication!Refused
    <3>2. life \notin Publication!Accepts[command[o]]
        BY <1>11 DEF Publication!Refused
    <3> QED BY <3>1, <3>2 DEF Stage, Publication!Accepts
  <2>3. OnTrack'
      BY <1>11, <2>2, OnTrackOf DEF Publication!Refused
  <2> QED BY <2>1, <2>3 DEF PublicationInv
<1>12. CASE Publication!Fails(o)
  <2>1. PublicationTyped' /\ PushedFirst'
      BY <1>1, <1>12 DEF Publication!Fails
  <2>2. hurt'[o] /\ \A p \in Operator \ {o} : hurt'[p] = hurt[p]
      BY <1>1, <1>12 DEF Publication!Fails
  <2>3. OnTrack'
      BY <1>12, <2>2, OnTrackOf DEF Publication!Fails
  <2> QED BY <2>1, <2>3 DEF PublicationInv
<1> QED BY <1>3, <1>4, <1>5, <1>6, <1>7, <1>8, <1>9, <1>10, <1>11, <1>12

LEMMA PublicationInvStep == PublicationInv /\ [Publication!Next]_publicationVars => PublicationInv'
<1> SUFFICES ASSUME PublicationInv, [Publication!Next]_publicationVars PROVE PublicationInv'
    OBVIOUS
<1> USE PublicationAssumption
    DEF PublicationInv, PublicationTyped, PushedFirst, Publication!PublishedIsPushed,
        OnTrack, Stage, Alone, Publication!porch
<1>1. CASE Publication!Edit
    BY <1>1 DEF Publication!Edit
<1>2. CASE Publication!Reject
    BY <1>2 DEF Publication!Reject
<1>3. CASE UNCHANGED publicationVars
    BY <1>3 DEF publicationVars
<1> QED BY <1>1, <1>2, <1>3, RunKeepsPublicationInv DEF Publication!Next

THEOREM PublicationInvHolds == NephioSpec => []PublicationInv
<1>1. NephioInit => PublicationInv
    BY PublicationInvInit DEF NephioInit
<1>2. PublicationInv /\ [NephioNext]_allVars => PublicationInv'
    BY PublicationInvStep DEF NephioNext, OnboardingStep, HelperStep, PublicationStep, allVars
<1> QED BY <1>1, <1>2, PTL DEF NephioSpec

(* No package is proposed or published with the content of its creation,   *)
(* and a run alone fails by itself or on a proposal, for any number of     *)
(* operators, versions and failing commands.                               *)
THEOREM PublicationKeptHolds == NephioSpec => []PublicationKept
<1>1. PublicationInv => PublicationKept
    BY DEF PublicationInv, PushedFirst, OnTrack, Stage, Alone, PublicationKept,
           Publication!OnlyProposalBlocks
<1> QED BY <1>1, PublicationInvHolds, PTL
=============================================================================
