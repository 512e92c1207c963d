------------------------- MODULE PackagePublication -------------------------
(***************************************************************************)
(* The scripts that publish a package through Porch (publish-xapp-package, *)
(* publish-smoke-package, publish-team-blueprint, publish-xapp-blueprint): *)
(* create a draft unless there is a revision, replace its content, propose *)
(* and approve it. They run with set -e, so a failing command ends a run   *)
(* wherever it is, and a later run starts from what that one left.         *)
(*                                                                         *)
(* External: Porch takes a push and a proposal for a Draft only, an        *)
(* approval for a Proposed revision only; a reviewer may reject it.        *)
(***************************************************************************)
EXTENDS Naturals

CONSTANTS Operator,
          MaxVersion, (* bound: versions of the source directory            *)
          MaxFaults   (* bound: commands that fail by themselves            *)

VARIABLES
  life,    (* "absent", "Draft", "Proposed" or "Published"                  *)
  content, (* what the revision holds: 0 after its creation, or a version   *)
  version, (* the version in the source directory                           *)
  pc,      (* per operator: the next command, or how the run ended          *)
  mine,    (* per operator: the version this run copied                     *)
  hurt,    (* history: since the run began a command failed by itself, or a *)
           (* proposal was rejected                                         *)
  faults

porch == <<life, content>>
vars == <<porch, version, pc, mine, hurt, faults>>

Ends == {"idle", "done", "already", "failed"}
Commands == {"create", "pull", "push", "propose", "proposed", "approve", "published"}

Init ==
  /\ life = "absent" /\ content = 0 /\ version = 1
  /\ pc = [o \in Operator |-> "idle"] /\ mine = [o \in Operator |-> 0]
  /\ hurt = [o \in Operator |-> FALSE] /\ faults = 0

-----------------------------------------------------------------------------
Goto(o, from, to) ==
  /\ pc[o] = from /\ pc' = [pc EXCEPT ![o] = to]
  /\ UNCHANGED <<version, hurt, faults>>

(* kubectl get packagerevision: whether it exists, and its lifecycle. *)
Start(o) ==
  /\ pc[o] \in Ends
  /\ pc' = [pc EXCEPT ![o] = CASE life = "absent" -> "create"
                               [] life = "Published" -> "already"
                               [] OTHER -> "pull"]
  /\ hurt' = [hurt EXCEPT ![o] = FALSE]
  /\ UNCHANGED <<porch, version, mine, faults>>

(* init, or copy of the base revision. *)
Create(o) ==
  /\ life = "absent" /\ Goto(o, "create", "pull")
  /\ life' = "Draft" /\ content' = 0
  /\ UNCHANGED mine

(* pull, and the files of the source directory copied over it. *)
Pull(o) ==
  /\ Goto(o, "pull", "push") /\ mine' = [mine EXCEPT ![o] = version]
  /\ UNCHANGED porch

Push(o) ==
  /\ life = "Draft" /\ Goto(o, "push", "propose")
  /\ content' = mine[o]
  /\ UNCHANGED <<life, mine>>

(* Mutant: a draft is proposed before the content is replaced. *)
ProposeEarly(o) ==
  /\ life = "Draft" /\ life' = "Proposed"
  /\ Goto(o, "propose", "proposed") \/ Goto(o, "push", "proposed")
  /\ UNCHANGED <<content, mine>>

Propose(o) ==
  /\ life = "Draft" /\ Goto(o, "propose", "proposed")
  /\ life' = "Proposed"
  /\ UNCHANGED <<content, mine>>

IsProposed(o) ==
  /\ life = "Proposed" /\ Goto(o, "proposed", "approve")
  /\ UNCHANGED <<porch, mine>>

Approve(o) ==
  /\ life = "Proposed" /\ Goto(o, "approve", "published")
  /\ life' = "Published"
  /\ UNCHANGED <<content, mine>>

IsPublished(o) ==
  /\ life = "Published" /\ Goto(o, "published", "done")
  /\ UNCHANGED <<porch, mine>>

(* What Porch needs for a command; a wait without it expires. *)
Accepts == [create |-> {"absent"}, pull |-> {"Draft", "Proposed", "Published"},
            push |-> {"Draft"}, propose |-> {"Draft"}, proposed |-> {"Proposed"},
            approve |-> {"Proposed"}, published |-> {"Published"}]

Refused(o) ==
  /\ pc[o] \in Commands /\ life \notin Accepts[pc[o]]
  /\ pc' = [pc EXCEPT ![o] = "failed"]
  /\ UNCHANGED <<porch, version, mine, hurt, faults>>

(* A command fails by itself, or the run is interrupted. *)
Fails(o) ==
  /\ pc[o] \in Commands /\ faults < MaxFaults /\ faults' = faults + 1
  /\ pc' = [pc EXCEPT ![o] = "failed"] /\ hurt' = [hurt EXCEPT ![o] = TRUE]
  /\ UNCHANGED <<porch, version, mine>>

Edit ==
  /\ version < MaxVersion /\ version' = version + 1
  /\ UNCHANGED <<porch, pc, mine, hurt, faults>>

Reject ==
  /\ life = "Proposed" /\ faults < MaxFaults /\ faults' = faults + 1
  /\ life' = "Draft"
  /\ hurt' = [o \in Operator |-> TRUE]
  /\ UNCHANGED <<content, version, pc, mine>>

Next ==
  \/ \E o \in Operator :
       \/ Start(o) \/ Create(o) \/ Pull(o) \/ Push(o) \/ Propose(o) \/ IsProposed(o)
       \/ Approve(o) \/ IsPublished(o) \/ Refused(o) \/ Fails(o)
  \/ Edit \/ Reject

Spec == Init /\ [][Next]_vars

-----------------------------------------------------------------------------
Versions == 0..MaxVersion

TypeOK ==
  /\ life \in {"absent", "Draft", "Proposed", "Published"}
  /\ content \in Versions /\ version \in Versions
  /\ pc \in [Operator -> Ends \cup Commands] /\ mine \in [Operator -> Versions]
  /\ \A o \in Operator : pc[o] \in {"push", "propose", "approve"} => mine[o] \in 1..version
  /\ hurt \in [Operator -> BOOLEAN] /\ faults \in Nat

(* No revision is published, or waits for approval, with the content of    *)
(* its creation, whatever runs of several operators failed where.          *)
PublishedIsPushed == life \in {"Proposed", "Published"} => content # 0

(* While no other operator has published anything, a proposal that nobody  *)
(* approves or rejects is the only state that makes a run fail in which no *)
(* command fails by itself: any draft that is found is taken over.         *)
OnlyProposalBlocks ==
  \A o \in Operator :
    /\ pc[o] = "failed" /\ ~hurt[o]
    /\ \A p \in Operator \ {o} : pc[p] = "idle"
    => life = "Proposed"
=============================================================================
