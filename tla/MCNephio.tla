------------------------------ MODULE MCNephio ------------------------------
(***************************************************************************)
(* The Nephio scripts for TLC: the approval of a PackageVariant by either  *)
(* script, and the publication of a package by two operators, side by      *)
(* side. They share no variable, so one behaviour is about one of them:    *)
(* `focus` names it, the other rests.                                      *)
(***************************************************************************)
EXTENDS VariantApproval

CONSTANTS Operator, MaxVersion, MaxFaults

ASSUME PublicationAssumption == MaxVersion \in Nat \ {0} /\ MaxFaults \in Nat

VARIABLES focus, life, content, version, command, mine, hurt, faults

publicationVars == <<life, content, version, command, mine, hurt, faults>>
allVars == <<focus, vars, publicationVars>>

(* approve-packagevariant.sh on the variables of onboard-blueprints.sh.    *)
Helper == INSTANCE VariantApproval WITH Onboarding <- FALSE

Publication == INSTANCE PackagePublication WITH pc <- command

NephioInit ==
  /\ focus \in {"onboarding", "helper", "publication"}
  /\ Init /\ Publication!Init

OnboardingStep == focus = "onboarding" /\ Next /\ UNCHANGED <<focus, publicationVars>>
HelperStep == focus = "helper" /\ Helper!Next /\ UNCHANGED <<focus, publicationVars>>
PublicationStep == focus = "publication" /\ Publication!Next /\ UNCHANGED <<focus, vars>>

NephioNext == OnboardingStep \/ HelperStep \/ PublicationStep

NephioSpec == NephioInit /\ [][NephioNext]_allVars

-----------------------------------------------------------------------------
(* approve-packagevariant.sh ends well only when the revision it names is  *)
(* published.                                                              *)
HelperReportsPublished == focus = "helper" => ReportedIsPublished

(* No package is proposed or published with the content of its creation,   *)
(* and a run alone only fails by itself or on a proposal (the four publish *)
(* scripts).                                                               *)
PublicationKept == Publication!PublishedIsPushed /\ Publication!OnlyProposalBlocks
=============================================================================
