-------------------------- MODULE VariantApproval --------------------------
(***************************************************************************)
(* Publication of the downstream package of one Porch PackageVariant, as   *)
(* two scripts of infra/nephio/blueprints drive it: onboard-blueprints.sh  *)
(* (Onboarding = TRUE), which applies the variant itself and approves what *)
(* comes out of it, and approve-packagevariant.sh (Onboarding = FALSE),    *)
(* which an operator runs after applying the variant by hand.              *)
(*                                                                         *)
(* Both read the revision to approve from the variant's status, which the  *)
(* PackageVariant controller writes some time after the specification      *)
(* changed.  The scripts also differ in what a failing command does: the   *)
(* helper stops (set -e), the onboarding carries on, because               *)
(* approve_and_wait_for_variant is called on the left of || and bash then  *)
(* suspends errexit inside it.                                             *)
(*                                                                         *)
(* Revisions are numbered in the order the controller creates them; 0      *)
(* stands for an empty answer.  A generation is the version of the         *)
(* manifest that was applied, so applying an unchanged file changes        *)
(* nothing, as metadata.generation does.                                   *)
(***************************************************************************)
EXTENDS Naturals

CONSTANTS
    MaxGeneration,   \* bound on the versions of the variant's manifest
    Onboarding       \* which of the two scripts is run

ASSUME MaxGenerationAssumption == MaxGeneration \in Nat \ {0}
ASSUME OnboardingAssumption == Onboarding \in BOOLEAN

VARIABLES
    \* the cluster
    manifest,     \* version of the variant's file in the checkout
    generation,   \* version last applied to the cluster
    reconciled,   \* version the PackageVariant controller last acted on
    latest,       \* newest downstream revision, 0 when there is none
    carries,      \* the version each revision was generated from
    lifecycle,    \* Porch lifecycle of each revision
    target,       \* status.downstreamTargets[-1].name
    \* the running script
    pc, previous, before, require, revision,
    \* history of the run, read by the properties only
    quiet,        \* the status was up to date when the run began
    missed        \* the run failed to read an existing previous target

cluster == <<manifest, generation, reconciled, latest, carries, lifecycle, target>>
script == <<pc, previous, before, require, revision, quiet, missed>>
vars == <<cluster, script>>

Versions == 1..MaxGeneration
Lifecycles == {"absent", "Draft", "Proposed", "Published"}
Resting == {"idle", "reported", "failed"}
Approving == {"lifecycle", "propose", "waitProposed", "approve", "waitPublished"}

TypeOK ==
    /\ manifest \in 0..MaxGeneration
    /\ generation \in 0..manifest
    /\ reconciled \in 0..generation
    /\ latest \in 0..reconciled
    /\ carries \in [Versions -> 0..MaxGeneration]
    /\ lifecycle \in [Versions -> Lifecycles]
    /\ target \in 0..latest
    /\ pc \in Resting \cup Approving \cup {"previous", "before", "apply", "poll"}
    /\ previous \in 0..MaxGeneration
    /\ before \in 0..MaxGeneration
    /\ require \in BOOLEAN
    /\ revision \in 0..latest
    /\ pc \in Approving \cup {"reported"} => revision # 0
    /\ quiet \in BOOLEAN
    /\ missed \in BOOLEAN

Init ==
    /\ manifest = 0 /\ generation = 0 /\ reconciled = 0 /\ latest = 0 /\ target = 0
    /\ carries = [r \in Versions |-> 0]
    /\ lifecycle = [r \in Versions |-> "absent"]
    /\ pc = "idle"
    /\ previous = 0 /\ before = 0 /\ require = FALSE /\ revision = 0
    /\ quiet = FALSE /\ missed = FALSE

-----------------------------------------------------------------------------
(* The operator.                                                           *)

EditManifest ==
    /\ manifest < MaxGeneration
    /\ manifest' = manifest + 1
    /\ UNCHANGED <<generation, reconciled, latest, carries, lifecycle, target, script>>

\* kubectl apply by hand, before running approve-packagevariant.sh.
OperatorApplies ==
    /\ ~Onboarding
    /\ pc \in Resting
    /\ generation < manifest
    /\ generation' = manifest
    /\ UNCHANGED <<manifest, reconciled, latest, carries, lifecycle, target, script>>

-----------------------------------------------------------------------------
(* Porch and the Nephio controllers.                                       *)

\* An unpublished downstream revision is edited in place, under its name;
\* after a published one the controller creates an edit revision.
Reconcile ==
    /\ reconciled < generation
    /\ reconciled' = generation
    /\ latest' = IF latest # 0 /\ lifecycle[latest] # "Published"
                 THEN latest ELSE latest + 1
    /\ carries' = [carries EXCEPT ![latest'] = generation]
    /\ lifecycle' = [lifecycle EXCEPT ![latest'] = "Draft"]
    /\ UNCHANGED <<manifest, generation, target, script>>

UpdateStatus ==
    /\ target # latest
    /\ target' = latest
    /\ UNCHANGED <<manifest, generation, reconciled, latest, carries, lifecycle, script>>

\* approval.nephio.org/policy: initial promotes the first revision by itself.
PolicyPromotes ==
    /\ latest = 1
    /\ \/ lifecycle[1] = "Draft" /\ lifecycle' = [lifecycle EXCEPT ![1] = "Proposed"]
       \/ lifecycle[1] = "Proposed" /\ lifecycle' = [lifecycle EXCEPT ![1] = "Published"]
    /\ UNCHANGED <<manifest, generation, reconciled, latest, carries, target, script>>

-----------------------------------------------------------------------------
(* The scripts.                                                            *)

Begin ==
    /\ pc \in Resting
    /\ pc' = IF Onboarding THEN "previous" ELSE "poll"
    /\ previous' = 0 /\ before' = 0 /\ require' = FALSE /\ revision' = 0
    /\ quiet' = (reconciled = generation /\ target = latest)
    /\ missed' = FALSE
    /\ UNCHANGED cluster

\* 2>/dev/null || true: a failed read is an empty answer.
ReadPrevious ==
    /\ pc = "previous"
    /\ pc' = "before"
    /\ \/ previous' = target /\ UNCHANGED missed
       \/ previous' = 0 /\ missed' = (target # 0)
    /\ UNCHANGED <<cluster, before, require, revision, quiet>>

\* || printf '0': a failed read is generation 0.
ReadBefore ==
    /\ pc = "before"
    /\ pc' = "apply"
    /\ before' \in {generation, 0}
    /\ UNCHANGED <<cluster, previous, require, revision, quiet, missed>>

\* kubectl apply, and the comparison of the generations around it.
Apply ==
    /\ pc = "apply"
    /\ pc' = "poll"
    /\ generation' = manifest
    /\ require' = (generation' > before)
    /\ UNCHANGED <<manifest, reconciled, latest, carries, lifecycle, target>>
    /\ UNCHANGED <<previous, before, revision, quiet, missed>>

(* Mutant: the previous target is accepted as well. *)
PollAnyTarget ==
    /\ pc = "poll"
    /\ target # 0
    /\ revision' = target
    /\ pc' = "lifecycle"
    /\ UNCHANGED <<cluster, previous, before, require, quiet, missed>>

\* A named revision, and not the previous one when a new one is due.
Poll ==
    /\ pc = "poll"
    /\ target # 0
    /\ ~(require /\ target = previous)
    /\ revision' = target
    /\ pc' = "lifecycle"
    /\ UNCHANGED <<cluster, previous, before, require, quiet, missed>>

\* The loop runs out: the status did not change in time, or its reads failed.
GiveUp ==
    /\ pc = "poll"
    /\ pc' = "failed"
    /\ UNCHANGED <<cluster, previous, before, require, revision, quiet, missed>>

(* Mutant: the script does not stop at a failing command. *)
OnErrorContinues(next) == pc' = next

\* What a failing command does to the script.
OnError(next) == pc' = IF Onboarding THEN next ELSE "failed"

ReadLifecycle ==
    /\ pc = "lifecycle"
    /\ \/ pc' = CASE lifecycle[revision] = "Draft" -> "propose"
                  [] lifecycle[revision] = "Proposed" -> "approve"
                  [] OTHER -> "waitPublished"
       \/ OnError("waitPublished")
    /\ UNCHANGED <<cluster, previous, before, require, revision, quiet, missed>>

\* A porchctl command that takes the revision from one stage to the next is
\* refused on any other stage, and may fail on the right one.
Promote(from, to, next) ==
    /\ \/ /\ lifecycle[revision] = from
          /\ lifecycle' = [lifecycle EXCEPT ![revision] = to]
          /\ pc' = next
       \/ OnError(next) /\ UNCHANGED lifecycle
    /\ UNCHANGED <<manifest, generation, reconciled, latest, carries, target>>
    /\ UNCHANGED <<previous, before, require, revision, quiet, missed>>

Propose == pc = "propose" /\ Promote("Draft", "Proposed", "waitProposed")
Approve == pc = "approve" /\ Promote("Proposed", "Published", "waitPublished")

\* kubectl wait --for lifecycle=stage, which may time out.
Await(stage, next) ==
    /\ \/ lifecycle[revision] = stage /\ pc' = next
       \/ OnError(next)
    /\ UNCHANGED <<cluster, previous, before, require, revision, quiet, missed>>

WaitProposed == pc = "waitProposed" /\ Await("Proposed", "approve")
WaitPublished == pc = "waitPublished" /\ Await("Published", "reported")

\* The terminal is lost, or a command outside the function fails.
Interrupt ==
    /\ pc \notin Resting
    /\ pc' = "failed"
    /\ UNCHANGED <<cluster, previous, before, require, revision, quiet, missed>>

Cluster == EditManifest \/ OperatorApplies \/ Reconcile \/ UpdateStatus \/ PolicyPromotes

Script ==
    \/ Begin \/ ReadPrevious \/ ReadBefore \/ Apply \/ Poll \/ GiveUp
    \/ ReadLifecycle \/ Propose \/ WaitProposed \/ Approve \/ WaitPublished \/ Interrupt

Next == Cluster \/ Script

Spec == Init /\ [][Next]_vars

-----------------------------------------------------------------------------

(* A run that ends with success names a revision that Porch has published: *)
(* the exit status of approve-packagevariant.sh and the message "Published *)
(* ... variant" of onboard-blueprints.sh mean what they say.               *)
ReportedIsPublished ==
    pc = "reported" => lifecycle[revision] = "Published"

Reports == pc # "reported" /\ pc' = "reported"

(* A run that reports success has approved the package generated from the  *)
(* variant as last applied, not the one before it.                         *)
ReportsCurrentGeneration ==
    [][Reports => carries[revision] = generation]_vars

(* The comparison with the previous target and generation does its work: a *)
(* run can only report an outdated package when the controller was still   *)
(* behind as the run began, or when reading the previous target failed.    *)
StaleReportNeedsCause ==
    [][Reports /\ quiet /\ ~missed => carries[revision] = generation]_vars

=============================================================================
