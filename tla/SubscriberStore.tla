--------------------------- MODULE SubscriberStore ---------------------------
(***************************************************************************)
(* The MongoDB of the 5G core: the replica-set configuration that two init *)
(* scripts and an Ansible task bring about, and the subscriber documents   *)
(* that three seeds write: init-webui-data.js (inserts what is missing),   *)
(* mongodb-seed.js.j2 (sets the base subscriber from the Vault) and        *)
(* provision-ue-lab-profiles.sh (copies the base to three profiles). Each  *)
(* of the scripts may run at any time and any number of times.             *)
(* Open5GS authenticates UEs meanwhile, which moves the sequence number of *)
(* a subscriber; a UE that is offered an old one asks for a resync.        *)
(***************************************************************************)
EXTENDS Integers, Sequences, SequencesExt

CONSTANTS Hosts,       (* hosts of the replica-set member in the scripts      *)
          Desired,     (* the host of mongodb-init-rs.js                      *)
          MaxSqn,      (* bound: sequence numbers                             *)
          MaxResets,   (* bound: writes of the scripts per subscriber         *)
          MaxVault     (* bound: versions of the key in the Vault             *)

VARIABLES
  rs,        (* replica-set configuration: host and version, 0 for none     *)
  primary,   (* the member is PRIMARY: writes succeed                       *)
  labRead,   (* the Ansible task: the configuration it found, or NotRunning *)
  labInit,   (* the Ansible task has ended well once                        *)
  subs,      (* the subscribers collection                                  *)
  auth4g,    (* the auths document of the 4G subscriber                     *)
  vault,     (* external: version of the key in the Vault                   *)
  prov,      (* provision-ue-lab-profiles.sh: the base it read, what is left *)
  usim,      (* external: the highest sequence number each UE accepted      *)
  resets,    (* history: writes of the scripts that set the number to 0     *)
  resyncs,   (* history: resyncs of each UE                                 *)
  seeded,    (* history: the present Vault key was written to the base      *)
  overlap,   (* history: it was written while prov held an older base       *)
  raced      (* history: another script initiated the set while the task    *)
             (* had found none, and no later run of the task has ended      *)

store == <<subs, auth4g>>
lab == <<labRead, labInit, raced>>
history == <<resets, resyncs, seeded, overlap>>
vars == <<rs, primary, lab, store, vault, prov, usim, history>>

UE == {"ue1", "ue2", "ue3"}
Absent == [key |-> -1, sqn |-> 0, epc |-> FALSE]
NoKey == 0
Idle == [base |-> Absent, todo |-> <<>>]
NoConfig == [host |-> "none", version |-> 0]
NotRunning == [host |-> "none", version |-> -1]

Init ==
  /\ rs = NoConfig /\ primary = FALSE
  /\ labRead = NotRunning /\ labInit = FALSE /\ raced = FALSE
  /\ subs = [u \in UE |-> Absent] /\ auth4g = Absent
  /\ vault = 1 /\ prov = Idle
  /\ usim = [u \in UE |-> 0]
  /\ resets = [u \in UE |-> 0] /\ resyncs = [u \in UE |-> 0]
  /\ seeded = FALSE /\ overlap = FALSE

-----------------------------------------------------------------------------
(* init-mongodb.js: the exception of a set that is initiated is printed.   *)
InitiateAs(h) ==
  /\ rs = NoConfig /\ rs' = [host |-> h, version |-> 1]
  /\ raced' = (labRead = NoConfig)
  /\ UNCHANGED <<primary, labRead, labInit, store, vault, prov, usim, history>>

Initiate == InitiateAs("mongodb:27017")

(* External: the script of the Helm chart, the same with another host. *)
InitiateChart == \E h \in Hosts : InitiateAs(h)

(* mongodb-init-rs.js: findOne. *)
LabReads ==
  /\ labRead = NotRunning /\ labRead' = rs
  /\ UNCHANGED <<rs, primary, labInit, raced, store, vault, prov, usim, history>>

(* Mutant: a set that is configured is left alone. *)
LabLeaves ==
  /\ labRead.version > 0 /\ UNCHANGED <<rs, primary>>
  /\ labRead' = NotRunning /\ labInit' = TRUE /\ raced' = FALSE
  /\ UNCHANGED <<store, vault, prov, usim, history>>

(* A configuration was found: it is replaced by force if the host is       *)
(* another one. *)
LabReconfigure ==
  /\ labRead.version > 0
  /\ IF labRead.host = Desired THEN UNCHANGED <<rs, primary>>
     ELSE rs' = [host |-> Desired, version |-> labRead.version + 1] /\ primary' = FALSE
  /\ labRead' = NotRunning /\ labInit' = TRUE /\ raced' = FALSE
  /\ UNCHANGED <<store, vault, prov, usim, history>>

(* None was found: rs.initiate. That of a set which another script has     *)
(* initiated meanwhile raises, which is caught and printed, and the task   *)
(* ends well with the host of the other script. *)
LabInitiate ==
  /\ labRead = NoConfig
  /\ IF rs = NoConfig THEN rs' = [host |-> Desired, version |-> 1] /\ primary' = FALSE
     ELSE UNCHANGED <<rs, primary>>
  /\ labRead' = NotRunning /\ labInit' = TRUE
  /\ UNCHANGED <<raced, store, vault, prov, usim, history>>

(* Interrupted, or an exception outside of the try. *)
LabStops ==
  /\ labRead # NotRunning /\ labRead' = NotRunning
  /\ UNCHANGED <<rs, primary, labInit, raced, store, vault, prov, usim, history>>

(* External: the member is elected, the pod restarts. *)
Elect ==
  /\ rs # NoConfig /\ ~primary /\ primary' = TRUE
  /\ UNCHANGED <<rs, lab, store, vault, prov, usim, history>>
StepDown ==
  /\ primary /\ primary' = FALSE
  /\ UNCHANGED <<rs, lab, store, vault, prov, usim, history>>

-----------------------------------------------------------------------------
(* $setOnInsert with upsert; ok says whether the server took the write, a  *)
(* refusal is caught and printed. *)
Insert(doc, ok, new) == IF ok /\ doc = Absent THEN new ELSE doc

(* Mutant: the base subscriber is set, not inserted. *)
SeedSampleSets(ok5g, ok4g, okAuth) ==
  /\ primary \/ ~(ok5g \/ ok4g \/ okAuth)
  /\ resets["ue1"] < MaxResets
  /\ subs' = [subs EXCEPT
       !["ue1"] = IF ok5g THEN [key |-> vault, sqn |-> 0, epc |-> FALSE] ELSE @,
       !["ue2"] = Insert(@, ok4g, [key |-> NoKey, sqn |-> 0, epc |-> TRUE])]
  /\ auth4g' = Insert(auth4g, okAuth, [key |-> vault, sqn |-> 0, epc |-> TRUE])
  /\ UNCHANGED <<rs, primary, lab, vault, prov, usim, history>>

(* init-webui-data.js: the 5G subscriber, the 4G subscriber, whose key is  *)
(* in another collection, and that collection. *)
SeedSample(ok5g, ok4g, okAuth) ==
  /\ primary \/ ~(ok5g \/ ok4g \/ okAuth)
  /\ subs' = [subs EXCEPT
       !["ue1"] = Insert(@, ok5g, [key |-> vault, sqn |-> 0, epc |-> FALSE]),
       !["ue2"] = Insert(@, ok4g, [key |-> NoKey, sqn |-> 0, epc |-> TRUE])]
  /\ auth4g' = Insert(auth4g, okAuth, [key |-> vault, sqn |-> 0, epc |-> TRUE])
  /\ UNCHANGED <<rs, primary, lab, vault, prov, usim, history>>

Write(u, doc) ==
  /\ primary /\ resets[u] < MaxResets
  /\ subs' = [subs EXCEPT ![u] = doc]
  /\ resets' = [resets EXCEPT ![u] = @ + 1]

(* mongodb-seed.js.j2: $set of the whole security document. *)
SeedVault ==
  /\ Write("ue1", [key |-> vault, sqn |-> 0, epc |-> subs["ue1"].epc])
  /\ seeded' = TRUE
  /\ overlap' = (prov.todo # <<>> /\ prov.base.key # vault)
  /\ UNCHANGED <<rs, primary, lab, auth4g, vault, prov, usim, resyncs>>

(* External: the key in the Vault is changed. *)
Rotate ==
  /\ vault < MaxVault /\ vault' = vault + 1
  /\ seeded' = FALSE /\ overlap' = FALSE
  /\ UNCHANGED <<rs, primary, lab, store, prov, usim, resets, resyncs>>

(* The base must have its key. *)
ProvisionReads ==
  /\ prov = Idle /\ subs["ue1"].key > NoKey
  /\ prov' = [base |-> subs["ue1"], todo |-> <<"ue1", "ue2", "ue3">>]
  /\ UNCHANGED <<rs, primary, lab, store, vault, usim, history>>

(* Mutant: profiles are inserted, not set. *)
ProvisionInserts ==
  /\ prov.todo # <<>>
  /\ LET u == Head(prov.todo) IN
       Write(u, IF subs[u] # Absent THEN subs[u]
                ELSE [key |-> prov.base.key, sqn |-> 0, epc |-> prov.base.epc])
  /\ prov' = [prov EXCEPT !.todo = Tail(@)]
  /\ UNCHANGED <<rs, primary, lab, auth4g, vault, usim, resyncs, seeded, overlap>>

(* $set of the copy of the base, with number 0: fields of the profile that *)
(* the base lacks, those of the 4G sample, stay. *)
ProvisionWrites ==
  /\ prov.todo # <<>>
  /\ LET u == Head(prov.todo) IN
       Write(u, [key |-> prov.base.key, sqn |-> 0, epc |-> subs[u].epc \/ prov.base.epc])
  /\ prov' = [prov EXCEPT !.todo = Tail(@)]
  /\ UNCHANGED <<rs, primary, lab, auth4g, vault, usim, resyncs, seeded, overlap>>

(* The three profiles are there: UE_LAB_PROFILES_READY; or the script      *)
(* fails or is interrupted. *)
Ready == prov.base # Absent /\ prov.todo = <<>>

ProvisionEnds ==
  /\ prov # Idle /\ prov' = Idle
  /\ UNCHANGED <<rs, primary, lab, store, vault, usim, history>>

-----------------------------------------------------------------------------
(* External: Open5GS offers the number of the subscriber, the UE accepts   *)
(* it or answers with its own, from which both go on. *)
Authenticate(u) ==
  /\ primary /\ subs[u].key = vault
  /\ LET old == subs[u].sqn < usim[u]
         next == (IF old THEN usim[u] ELSE subs[u].sqn) + 1
     IN  /\ next <= MaxSqn
         /\ usim' = [usim EXCEPT ![u] = next]
         /\ subs' = [subs EXCEPT ![u].sqn = next]
         /\ resyncs' = IF old THEN [resyncs EXCEPT ![u] = @ + 1] ELSE resyncs
  /\ UNCHANGED <<rs, primary, lab, auth4g, vault, prov, resets, seeded, overlap>>

Replica ==
  \/ Initiate \/ InitiateChart \/ Elect \/ StepDown
  \/ LabReads \/ LabReconfigure \/ LabInitiate \/ LabStops

Next ==
  \/ Replica
  \/ \E a, b, c \in BOOLEAN : SeedSample(a, b, c)
  \/ SeedVault \/ Rotate
  \/ ProvisionReads \/ ProvisionWrites \/ ProvisionEnds
  \/ \E u \in UE : Authenticate(u)

Spec == Init /\ [][Next]_vars

-----------------------------------------------------------------------------
(* Once the Ansible task has run, the member keeps the wanted host: no     *)
(* init script or repetition changes it, and the configuration was         *)
(* replaced at most once. The exception is a set that another script       *)
(* initiates between findOne and rs.initiate of the task, until the task   *)
(* is repeated. *)
HostSettled == labInit /\ ~raced => rs.host = Desired /\ rs.version <= 2

(* When provisioning reports success, the profiles other than the base     *)
(* share its key, and the base has that key or a later one of the Vault    *)
(* that was written meanwhile. *)
ProfilesAlike ==
  Ready => /\ subs["ue2"].key = prov.base.key /\ subs["ue3"].key = prov.base.key
           /\ subs["ue1"].key \in prov.base.key..vault

(* No script brings back an older key once the present one is written,     *)
(* except a provisioning that had read the base before. *)
VaultKeyKept == seeded /\ ~overlap => subs["ue1"].key = vault

(* A UE meets a sync failure at most once per write of a script: samples   *)
(* that are inserted again and Open5GS itself never cost one. *)
ResyncsPaidFor == \A u \in UE : resyncs[u] <= resets[u]

TypeOK ==
  /\ rs.host \in Hosts \cup {"none", "mongodb:27017"} /\ rs.version \in 0..2
  /\ subs \in [UE -> [key : -1..MaxVault, sqn : 0..MaxSqn, epc : BOOLEAN]]
  /\ \A u \in UE : subs[u].sqn <= usim[u]
=============================================================================
