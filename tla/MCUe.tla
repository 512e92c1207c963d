-------------------------------- MODULE MCUe --------------------------------
(***************************************************************************)
(* What a UE depends on outside the radio stack, for TLC: the ZMQ slot and *)
(* its scripts, and the database of the core, side by side. They share no  *)
(* variable, so one behaviour is about one of them: `focus` names it, the  *)
(* other rests. Of the database, the Ansible task runs with "replica" and  *)
(* the documents are written with "store": they meet in `primary` only,    *)
(* which elections change at any time.                                     *)
(***************************************************************************)
EXTENDS UeSlot

(* Desired is the host of mongodb-init-rs.js, Hosts has those of the init  *)
(* scripts of the Helm chart and of Ansible.                               *)
CONSTANTS Hosts, Desired, MaxSqn, MaxResets, MaxVault

ASSUME StoreAssumption ==
  Desired \in Hosts /\ MaxSqn \in Nat /\ MaxResets \in Nat /\ MaxVault \in Nat \ {0}

VARIABLES
  focus,
  rs, primary, labRead, labInit, subs, auth4g, vault, prov, usim,
  resets, resyncs, seeded, overlap, raced

storeVars == <<rs, primary, labRead, labInit, subs, auth4g, vault, prov, usim,
               resets, resyncs, seeded, overlap, raced>>
allVars == <<focus, vars, storeVars>>

Store == INSTANCE SubscriberStore

UeInit ==
  /\ focus \in {"slot", "replica", "store"} /\ Init /\ Store!Init
  /\ focus # "slot" =>
       replicas = 0 /\ template = CHOOSE p \in Profile : TRUE

SlotFrame == focus = "slot" /\ UNCHANGED <<focus, storeVars>>
SlotStep == SlotFrame /\ Next
SlotScript(o) == SlotFrame /\ Script(o)
SlotKubernetes == SlotFrame /\ Kubernetes
StoreFrame == Store!Next /\ UNCHANGED <<focus, vars>>
ReplicaStep == focus = "replica" /\ StoreFrame /\ UNCHANGED <<subs, auth4g, vault>>
StoreStep == focus = "store" /\ StoreFrame /\ UNCHANGED labRead

UeNext == SlotStep \/ ReplicaStep \/ StoreStep

(* A script that is not interrupted goes on; Kubernetes does its work, and *)
(* a UE attaches to a DU that has not had a peer.                          *)
UeSpec ==
  /\ UeInit /\ [][UeNext]_allVars
  /\ WF_allVars(SlotKubernetes)
  /\ \A o \in Operator : WF_allVars(SlotScript(o))

-----------------------------------------------------------------------------
(* Once the Ansible task has run, the replica set keeps the wanted host,   *)
(* unless a script initiated it between the read and the write of the task *)
(* (mongodb-init-rs.js against init-mongodb.js and the chart).             *)
HostSettled == Store!TypeOK /\ Store!HostSettled

(* Provisioned profiles share the key of the base, and no script brings    *)
(* back an old key except one that had read it before (the three seeds).   *)
CredentialsKept == Store!ProfilesAlike /\ Store!VaultKeyKept

(* A UE meets a sync failure at most once per write of a script.           *)
ResyncsPaidFor == Store!ResyncsPaidFor
=============================================================================
