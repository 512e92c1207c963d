----------------------------- MODULE MCUe_proofs -----------------------------
(***************************************************************************)
(* The scripts of the ZMQ slot start the UE against a DU that no UE has    *)
(* used, as long as one operator at a time runs them; and whatever the     *)
(* order and number of the scripts that write the database, the replica    *)
(* set, the keys and the sequence numbers of the subscribers stay right.   *)
(***************************************************************************)
EXTENDS MCUe, Sequences, TLAPS

-----------------------------------------------------------------------------
(* The slot. *)

(* One operator; with two, one starts the UE between commands of the other.*)
Solo == \A o, p \in Operator : o = p

(* The Deployment is at zero from the first command to the last but one;   *)
(* once the pod is awaited, no UE exists; the new DU has had no peer; and  *)
(* recover-ran-zmq.sh patches nothing.                                     *)
Prepared ==
  \A o \in Operator :
    /\ pc[o] \in {"gone", "patch", "du", "cell", "start"} => replicas = 0
    /\ pc[o] \in {"patch", "du", "cell", "start"} => ue = "none"
    /\ pc[o] \in {"cell", "start"} => ~used
    /\ pc[o] = "patch" => want[o] # Same

IInv == TypeOK /\ Prepared

LEMMA IInvInit == Init => IInv
<1> SUFFICES ASSUME Init PROVE IInv
    OBVIOUS
<1>1. used \in BOOLEAN
    BY Zenon DEF Init
<1>2. TypeOK
    BY <1>1 DEF Init, TypeOK, Steps
<1>3. Prepared
    BY DEF Init, Prepared
<1> QED BY <1>2, <1>3 DEF IInv

(* A command moves its own operator only. *)
LEMMA StepMoves ==
  ASSUME NEW o \in Operator, NEW from, NEW to \in Steps, TypeOK, Step(o, from, to)
  PROVE  /\ pc' \in [Operator -> Steps] /\ pc[o] = from /\ pc'[o] = to
         /\ UNCHANGED <<want, faults>>
BY DEF TypeOK, Step

(* Without a UE the new DU has had no peer, and no UE comes about by it.   *)
LEMMA NewDuIsFresh ==
  ASSUME TypeOK, NewDu
  PROVE  /\ used' \in BOOLEAN /\ du' = "starting"
         /\ ue' \in {"none", "waiting", "searching", "attached", "lost"}
         /\ ue = "none" => ue' = "none" /\ ~used'
<1>1. (ue \in {"searching", "attached", "lost"}) \in BOOLEAN
    OBVIOUS
<1>4. used' \in BOOLEAN
    BY <1>1 DEF NewDu
<1>2. ue' \in {"none", "waiting", "searching", "attached", "lost"}
    BY DEF TypeOK, NewDu, WithoutDu
<1>3. ue = "none" => ue' = "none" /\ ~used'
    BY DEF NewDu, WithoutDu
<1> QED BY <1>4, <1>2, <1>3 DEF NewDu

(* The commands of the one operator keep the invariant. *)
LEMMA ScriptKeepsIInv ==
  ASSUME Solo, IInv, NEW o \in Operator, Script(o)
  PROVE  IInv'
<1> USE DEF IInv, TypeOK, Prepared, Solo, Steps, ran, Step
<1>1. CASE StopUe(o)
    BY <1>1 DEF StopUe
<1>2. CASE UeGone(o)
    BY <1>2 DEF UeGone
<1>3. CASE Patch(o)
  <2>1. want[o] \in Profile
      BY <1>3 DEF Patch
  <2> QED BY <1>3, <2>1 DEF Patch
<1>4. CASE RecreateDu(o)
  <2>1. ue = "none"
      BY <1>4 DEF RecreateDu
  <2>2. ue' = "none" /\ ~used' /\ used' \in BOOLEAN /\ du' = "starting"
      BY <1>4, <2>1, NewDuIsFresh DEF RecreateDu
  <2> QED BY <1>4, <2>2 DEF RecreateDu
<1>5. CASE CellReady(o)
    BY <1>5 DEF CellReady
<1>6. CASE StartUe(o)
    BY <1>6 DEF StartUe
<1>7. CASE UeRunning(o)
    BY <1>7 DEF UeRunning
<1>8. CASE Report(o)
    BY <1>8 DEF Report
<1> QED BY <1>1, <1>2, <1>3, <1>4, <1>5, <1>6, <1>7, <1>8 DEF Script

LEMMA OperatorKeepsIInv ==
  ASSUME Solo, IInv, NEW o \in Operator,
         Interrupt(o) \/ \E p \in Profile \cup {Same} : Begin(o, p)
  PROVE  IInv'
<1> USE DEF IInv, TypeOK, Prepared, Solo, Steps, ran
<1>1. CASE Interrupt(o)
    BY <1>1 DEF Interrupt, Fault
<1>2. ASSUME NEW p \in Profile \cup {Same}, Begin(o, p) PROVE IInv'
    BY <1>2 DEF Begin
<1> QED BY <1>1, <1>2

(* Crashes, Kubernetes and the radio: none of them makes a UE out of none  *)
(* while the Deployment is at zero, nor uses a DU without a UE.            *)
LEMMA WorldKeepsIInv ==
  ASSUME IInv, UeCrash \/ DuCrash \/ Kubernetes \/ Attach(FALSE)
  PROVE  IInv'
<1> USE SlotAssumption DEF IInv, TypeOK, Prepared, ops
<1>1. CASE UeCrash
    BY <1>1 DEF UeCrash, Fault
<1>2. CASE DuCrash
  <2>1. /\ used' \in BOOLEAN /\ du' = "starting"
        /\ ue' \in {"none", "waiting", "searching", "attached", "lost"}
        /\ ue = "none" => ue' = "none" /\ ~used'
      BY <1>2, NewDuIsFresh DEF DuCrash
  <2> QED BY <1>2, <2>1 DEF DuCrash, Fault
<1>3. CASE CreateUe
    BY <1>3 DEF CreateUe
<1>4. CASE DeleteUe
    BY <1>4 DEF DeleteUe
<1>5. CASE UeStarts
    BY <1>5 DEF UeStarts
<1>6. CASE DuOpens
    BY <1>6 DEF DuOpens
<1>7. CASE Attach(TRUE) \/ Attach(FALSE)
    BY <1>7 DEF Attach
<1> QED BY <1>1, <1>2, <1>3, <1>4, <1>5, <1>6, <1>7 DEF Kubernetes

LEMMA IInvStep == Solo /\ IInv /\ [Next]_vars => IInv'
<1> SUFFICES ASSUME Solo, IInv, [Next]_vars PROVE IInv'
    OBVIOUS
<1>1. CASE UNCHANGED vars
    BY <1>1 DEF vars, ops, ran, IInv, TypeOK, Prepared
<1> QED BY <1>1, ScriptKeepsIInv, OperatorKeepsIInv, WorldKeepsIInv DEF Next

THEOREM IInvHolds == ASSUME Solo PROVE Spec => []IInv
<1>1. IInv /\ [Next]_vars => IInv'
    BY IInvStep
<1> QED BY <1>1, IInvInit, PTL DEF Spec

(* With one operator the slot stays well typed, for any set of profiles    *)
(* and any number of faults.                                               *)
THEOREM TypeCorrect == ASSUME Solo PROVE Spec => []TypeOK
<1>1. IInv => TypeOK
    BY DEF IInv
<1> QED BY <1>1, IInvHolds, PTL

(* select-ue-lab-profile.sh and recover-ran-zmq.sh start the UE only       *)
(* against a fresh DU, whatever crashed or was interrupted before.         *)
THEOREM StartsFreshHolds == ASSUME Solo PROVE Spec => []StartsFresh
<1>1. IInv => StartsFresh
    BY DEF IInv, Prepared, StartsFresh
<1> QED BY <1>1, IInvHolds, PTL

(* The same of the behaviours the run explores, where the slot rests while *)
(* the database moves.                                                     *)
THEOREM SlotStartsFresh == ASSUME Solo PROVE UeSpec => []StartsFresh
<1>1. UeInit => IInv
    BY IInvInit DEF UeInit
<1>2. IInv /\ [UeNext]_allVars => IInv'
    BY IInvStep DEF UeNext, SlotStep, SlotFrame, ReplicaStep, StoreStep, StoreFrame, allVars
<1>3. IInv => StartsFresh
    BY DEF IInv, Prepared, StartsFresh
<1> QED BY <1>1, <1>2, <1>3, PTL DEF UeSpec

-----------------------------------------------------------------------------
(* The database. *)

Documents == [key : -1..MaxVault, sqn : 0..MaxSqn, epc : BOOLEAN]
Suffixes == {<<"ue1", "ue2", "ue3">>, <<"ue2", "ue3">>, <<"ue3">>, <<>>}

StoreTyped ==
  /\ Store!TypeOK
  /\ vault \in 1..MaxVault
  /\ prov \in [base : Documents, todo : Suffixes]
  /\ usim \in [Store!UE -> Nat]
  /\ resets \in [Store!UE -> Nat] /\ resyncs \in [Store!UE -> Nat]

(* What the Ansible task found is older than what it writes: a set that    *)
(* exists stays, and none changes its host but the task, once. One that    *)
(* came about behind its back is noticed.                                  *)
HostInv ==
  /\ labRead \in {Store!NotRunning, Store!NoConfig, rs}
  /\ rs = Store!NoConfig \/ rs.version \in 1..2
  /\ rs.version = 2 => rs.host = Desired
  /\ labRead = Store!NoConfig /\ rs # Store!NoConfig => raced
  /\ labInit => rs # Store!NoConfig
  /\ labInit /\ ~raced => rs.host = Desired

(* A running provisioning holds a key of the Vault, and its profiles have  *)
(* it as far as they are written, the base that key or a later one.        *)
Provisioned ==
  prov # Store!Idle =>
    /\ prov.base.key \in 1..vault
    /\ subs["ue1"].key \in prov.base.key..vault
    /\ Len(prov.todo) <= 1 => subs["ue2"].key = prov.base.key
    /\ Len(prov.todo) = 0 => subs["ue3"].key = prov.base.key

(* The base is not older than the Vault says: as long as nothing overlaps, *)
(* what provisioning still has to write is the present key.                *)
Current ==
  /\ subs["ue1"].key <= vault
  /\ seeded /\ ~overlap =>
       /\ subs["ue1"].key = vault
       /\ prov.todo # <<>> => prov.base.key = vault

(* A UE that is ahead of its subscriber has a resync to come, which the    *)
(* write that reset the number pays for.                                   *)
Debt(u) == IF subs[u].sqn < usim[u] THEN 1 ELSE 0
Paid == \A u \in Store!UE : resyncs[u] + Debt(u) <= resets[u]

StoreInv == StoreTyped /\ HostInv /\ Provisioned /\ Current /\ Paid

LEMMA Keys ==
  ASSUME StoreTyped
  PROVE  /\ subs \in [Store!UE -> Documents] /\ vault \in Int
         /\ subs["ue1"].key \in Int /\ prov.base.key \in Int
<1>1. subs \in [Store!UE -> Documents] /\ subs["ue1"] \in Documents
    BY DEF StoreTyped, Store!TypeOK, Documents, Store!UE
<1> QED BY <1>1 DEF Documents, StoreTyped

LEMMA StoreInvInit == Store!Init => StoreInv
<1> USE StoreAssumption DEF Store!Init, Store!UE, Store!Absent, Store!Idle
<1>1. Store!Init => StoreTyped
    BY DEF Store!NoConfig, StoreTyped, Store!TypeOK, Documents, Suffixes
<1>2. Store!Init => HostInv /\ Provisioned /\ Current /\ Paid
    BY DEF Store!NoConfig, Store!NotRunning, HostInv, Provisioned, Current, Paid, Debt
<1> QED BY <1>1, <1>2 DEF StoreInv

(* What moves the replica set leaves the documents alone, and the reverse. *)
LEMMA ReplicaKeepsStoreInv == StoreInv /\ Store!Replica => StoreInv'
<1> SUFFICES ASSUME StoreInv, Store!Replica PROVE StoreInv'
    OBVIOUS
<1> USE StoreAssumption DEF StoreInv, StoreTyped, Store!TypeOK, HostInv
<1>1. UNCHANGED <<subs, auth4g, vault, prov, usim, resets, resyncs, seeded, overlap>>
    BY DEF Store!Replica, Store!Initiate, Store!InitiateChart, Store!InitiateAs,
           Store!LabReads, Store!LabReconfigure, Store!LabInitiate, Store!LabStops,
           Store!Elect, Store!StepDown, Store!store, Store!history
<1>2. /\ Provisioned' /\ Current' /\ Paid'
      /\ (vault \in 1..MaxVault)' /\ (prov \in [base : Documents, todo : Suffixes])'
      /\ (usim \in [Store!UE -> Nat])'
      /\ (resets \in [Store!UE -> Nat])' /\ (resyncs \in [Store!UE -> Nat])'
      /\ (subs \in [Store!UE -> Documents])' /\ (\A u \in Store!UE : subs[u].sqn <= usim[u])'
    BY <1>1 DEF Provisioned, Current, Paid, Debt, Documents
<1>3. HostInv' /\ (rs.host \in Hosts \cup {"none", "mongodb:27017"} /\ rs.version \in 0..2)'
  <2> USE DEF Store!NotRunning, Store!NoConfig
  <2>1. ASSUME NEW h \in Hosts \cup {"mongodb:27017"}, Store!InitiateAs(h)
        PROVE  HostInv' /\ (rs.host \in Hosts \cup {"none", "mongodb:27017"} /\ rs.version \in 0..2)'
    <3>1. rs = Store!NoConfig /\ rs' = [host |-> h, version |-> 1] /\ UNCHANGED <<labRead, labInit>>
      BY <2>1 DEF Store!InitiateAs
    <3>2. raced' <=> labRead = Store!NoConfig
      BY <2>1, Zenon DEF Store!InitiateAs
    <3>3. ~labInit /\ labRead \in {Store!NotRunning, Store!NoConfig}
      BY <3>1
    <3> QED BY <3>1, <3>2, <3>3
  <2>2. CASE Store!LabReads
    BY <2>2 DEF Store!LabReads
  <2>3. CASE Store!LabReconfigure
    BY <2>3 DEF Store!LabReconfigure
  <2>4. CASE Store!LabInitiate
    BY <2>4 DEF Store!LabInitiate
  <2>5. CASE Store!LabStops \/ Store!Elect \/ Store!StepDown
    BY <2>5 DEF Store!LabStops, Store!Elect, Store!StepDown, Store!lab
  <2> QED BY <2>1, <2>2, <2>3, <2>4, <2>5
          DEF Store!Replica, Store!Initiate, Store!InitiateChart
<1> QED BY <1>2, <1>3 DEF Documents

(* A document that is there stays; an absent one gets number 0 again.      *)
LEMMA InsertKeeps ==
  ASSUME NEW doc \in Documents, NEW ok \in BOOLEAN, NEW new \in Documents, new.sqn = 0
  PROVE  /\ Store!Insert(doc, ok, new) \in {doc, new}
         /\ Store!Insert(doc, ok, new).sqn = doc.sqn
         /\ doc.key >= 0 => Store!Insert(doc, ok, new) = doc
<1>1. CASE doc = Store!Absent
    BY <1>1 DEF Store!Insert, Store!Absent
<1>2. CASE doc # Store!Absent
    BY <1>2 DEF Store!Insert
<1> QED BY <1>1, <1>2

LEMMA SampleKeeps ==
  ASSUME StoreTyped, NEW a \in BOOLEAN, NEW b \in BOOLEAN, NEW c \in BOOLEAN,
         Store!SeedSample(a, b, c)
  PROVE  /\ subs' \in [Store!UE -> Documents]
         /\ \A u \in Store!UE : subs'[u].sqn = subs[u].sqn
         /\ \A u \in Store!UE : subs[u].key >= 0 => subs'[u] = subs[u]
         /\ subs'["ue1"].key \in {subs["ue1"].key, vault}
<1> DEFINE first == [key |-> vault, sqn |-> 0, epc |-> FALSE]
           second == [key |-> Store!NoKey, sqn |-> 0, epc |-> TRUE]
           new1 == Store!Insert(subs["ue1"], a, first)
           new2 == Store!Insert(subs["ue2"], b, second)
<1>1. first \in Documents /\ second \in Documents /\ first.sqn = 0 /\ second.sqn = 0
    BY StoreAssumption DEF StoreTyped, Documents, Store!NoKey
<1>2. subs \in [Store!UE -> Documents] /\ first.key = vault
    BY Keys
<1>3. subs' = [subs EXCEPT !["ue1"] = new1, !["ue2"] = new2]
    BY DEF Store!SeedSample
<1> HIDE DEF first, second
<1>4. /\ new1 \in {subs["ue1"], first} /\ new1.sqn = subs["ue1"].sqn
      /\ subs["ue1"].key >= 0 => new1 = subs["ue1"]
    BY <1>1, <1>2, InsertKeeps DEF Store!UE
<1>5. /\ new2 \in {subs["ue2"], second} /\ new2.sqn = subs["ue2"].sqn
      /\ subs["ue2"].key >= 0 => new2 = subs["ue2"]
    BY <1>1, <1>2, InsertKeeps DEF Store!UE
<1> HIDE DEF new1, new2
<1>6. new1 \in Documents /\ new2 \in Documents
    BY <1>1, <1>2, <1>4, <1>5 DEF Store!UE
<1>7. /\ subs'["ue1"] = new1 /\ subs'["ue2"] = new2 /\ subs'["ue3"] = subs["ue3"]
      /\ subs' \in [Store!UE -> Documents]
    BY <1>2, <1>3, <1>6 DEF Store!UE
<1> QED BY <1>2, <1>4, <1>5, <1>7 DEF Store!UE

LEMMA SeedSampleKeepsStoreInv ==
  ASSUME StoreInv, NEW a \in BOOLEAN, NEW b \in BOOLEAN, NEW c \in BOOLEAN,
         Store!SeedSample(a, b, c)
  PROVE  StoreInv'
<1>1. UNCHANGED <<rs, labRead, labInit, raced, vault, prov, usim, resets, resyncs, seeded, overlap>>
    BY DEF Store!SeedSample, Store!lab, Store!history
<1>2. /\ subs' \in [Store!UE -> Documents]
      /\ \A u \in Store!UE : subs'[u].sqn = subs[u].sqn
      /\ \A u \in Store!UE : subs[u].key >= 0 => subs'[u] = subs[u]
      /\ subs'["ue1"].key \in {subs["ue1"].key, vault}
    BY SampleKeeps DEF StoreInv
<1>3. StoreTyped' /\ HostInv'
    BY <1>1, <1>2 DEF StoreInv, StoreTyped, Store!TypeOK, HostInv, Documents
<1>4. Provisioned'
  <2>1. CASE prov = Store!Idle
      BY <2>1, <1>1 DEF Provisioned
  <2>2. CASE prov # Store!Idle
    <3>1. prov.base.key \in 1..vault /\ subs["ue1"].key \in prov.base.key..vault
        BY <2>2 DEF StoreInv, Provisioned
    <3>2. subs'["ue1"] = subs["ue1"]
        BY <3>1, <1>2, Keys DEF StoreInv, Store!UE
    <3>3. Len(prov.todo) <= 1 => subs'["ue2"].key = prov.base.key
        BY <2>2, <3>1, <1>2, Keys DEF StoreInv, Provisioned, Store!UE
    <3>4. Len(prov.todo) = 0 => subs'["ue3"].key = prov.base.key
        BY <2>2, <3>1, <1>2, Keys DEF StoreInv, Provisioned, Store!UE
    <3> QED BY <1>1, <3>1, <3>2, <3>3, <3>4 DEF Provisioned
  <2> QED BY <2>1, <2>2
<1>5. Current'
    BY <1>1, <1>2, Keys DEF StoreInv, Current
<1>6. Paid'
    BY <1>1, <1>2 DEF StoreInv, Paid, Debt
<1> QED BY <1>3, <1>4, <1>5, <1>6 DEF StoreInv

(* A write sets the number to 0 and is counted. *)
LEMMA WriteIsPaid ==
  ASSUME StoreInv, NEW u \in Store!UE, NEW doc \in Documents, doc.sqn = 0,
         Store!Write(u, doc), UNCHANGED <<usim, resyncs>>
  PROVE  /\ subs' = [subs EXCEPT ![u] = doc] /\ subs' \in [Store!UE -> Documents]
         /\ resets' \in [Store!UE -> Nat]
         /\ \A v \in Store!UE : subs'[v].sqn <= usim'[v]
         /\ Paid'
<1> USE DEF StoreInv, StoreTyped, Store!TypeOK, Store!Write
<1>1. /\ subs' = [subs EXCEPT ![u] = doc] /\ subs' \in [Store!UE -> Documents]
      /\ resets' \in [Store!UE -> Nat]
    BY DEF Documents
<1>2. \A v \in Store!UE : subs'[v].sqn <= usim'[v]
    BY <1>1 DEF Documents
<1>3. ASSUME NEW v \in Store!UE PROVE (resyncs[v] + Debt(v) <= resets[v])'
  <2>1. CASE v = u
      BY <2>1, <1>1 DEF Paid, Debt
  <2>2. CASE v # u
      BY <2>2, <1>1 DEF Paid, Debt
  <2> QED BY <2>1, <2>2
<1>4. Paid'
    BY <1>3 DEF Paid
<1> QED BY <1>1, <1>2, <1>4

LEMMA SeedVaultKeepsStoreInv == StoreInv /\ Store!SeedVault => StoreInv'
<1> SUFFICES ASSUME StoreInv, Store!SeedVault PROVE StoreInv'
    OBVIOUS
<1> DEFINE doc == [key |-> vault, sqn |-> 0, epc |-> subs["ue1"].epc]
<1>1. doc \in Documents /\ doc.sqn = 0 /\ doc.key = vault
    BY StoreAssumption DEF StoreInv, StoreTyped, Store!TypeOK, Documents, Store!UE
<1>2. Store!Write("ue1", doc) /\ UNCHANGED <<usim, resyncs>>
    BY DEF Store!SeedVault
<1> HIDE DEF doc
<1>3. /\ subs' = [subs EXCEPT !["ue1"] = doc] /\ subs' \in [Store!UE -> Documents]
      /\ resets' \in [Store!UE -> Nat] /\ (\A v \in Store!UE : subs'[v].sqn <= usim'[v])
      /\ Paid'
    BY <1>1, <1>2, WriteIsPaid DEF Store!UE
<1>4. StoreTyped' /\ HostInv'
    BY <1>3 DEF StoreInv, StoreTyped, Store!TypeOK, Documents, Store!SeedVault, Store!lab, HostInv
<1>5. /\ UNCHANGED <<vault, prov>> /\ seeded' = TRUE
      /\ ~overlap' => prov.todo = <<>> \/ prov.base.key = vault
    BY Zenon DEF Store!SeedVault
<1>6. /\ subs'["ue1"].key = vault
      /\ subs'["ue2"] = subs["ue2"] /\ subs'["ue3"] = subs["ue3"]
    BY <1>1, <1>3, Keys DEF StoreInv, Store!UE
<1>7. Provisioned'
    BY <1>5, <1>6, Keys DEF StoreInv, Provisioned
<1>8. Current'
    BY <1>5, <1>6, Keys DEF StoreInv, Current
<1> QED BY <1>3, <1>4, <1>7, <1>8 DEF StoreInv

LEMMA RotateKeepsStoreInv == StoreInv /\ Store!Rotate => StoreInv'
<1> SUFFICES ASSUME StoreInv, Store!Rotate PROVE StoreInv'
    OBVIOUS
<1>1. /\ vault' = vault + 1 /\ seeded' = FALSE
      /\ UNCHANGED <<rs, labRead, labInit, raced, subs, prov, usim, resets, resyncs>>
    BY DEF Store!Rotate, Store!lab, Store!store
<1>2. StoreTyped' /\ HostInv'
    BY <1>1, StoreAssumption DEF StoreInv, StoreTyped, Store!TypeOK, HostInv, Store!Rotate, Store!lab
<1>3. Provisioned'
    BY <1>1, Keys DEF StoreInv, Provisioned
<1>4. Current'
    BY <1>1, Keys DEF StoreInv, Current
<1>5. Paid'
    BY <1>1 DEF StoreInv, Paid, Debt
<1> QED BY <1>2, <1>3, <1>4, <1>5 DEF StoreInv

LEMMA ProvisionWritesKeepsStoreInv == StoreInv /\ Store!ProvisionWrites => StoreInv'
<1> SUFFICES ASSUME StoreInv, Store!ProvisionWrites PROVE StoreInv'
    OBVIOUS
<1> DEFINE u == Head(prov.todo)
           doc == [key |-> prov.base.key, sqn |-> 0, epc |-> subs[u].epc \/ prov.base.epc]
<1>1. /\ prov.todo \in {<<"ue1", "ue2", "ue3">>, <<"ue2", "ue3">>, <<"ue3">>}
      /\ prov # Store!Idle
    BY DEF StoreInv, StoreTyped, Suffixes, Store!ProvisionWrites, Store!Idle
<1>2. /\ prov'.base = prov.base
      /\ \/ u = "ue1" /\ Len(prov.todo) = 3 /\ Len(prov'.todo) = 2
         \/ u = "ue2" /\ Len(prov.todo) = 2 /\ Len(prov'.todo) = 1
         \/ u = "ue3" /\ Len(prov.todo) = 1 /\ Len(prov'.todo) = 0
      /\ prov'.todo \in Suffixes
  <2>1. prov'.base = prov.base /\ prov'.todo = Tail(prov.todo)
      BY DEF StoreInv, StoreTyped, Store!ProvisionWrites
  <2>2. CASE prov.todo = <<"ue1", "ue2", "ue3">>
      BY <2>1, <2>2 DEF Suffixes
  <2>3. CASE prov.todo = <<"ue2", "ue3">>
      BY <2>1, <2>3 DEF Suffixes
  <2>4. CASE prov.todo = <<"ue3">>
      BY <2>1, <2>4 DEF Suffixes
  <2> QED BY <1>1, <2>1, <2>2, <2>3, <2>4
<1>3. u \in Store!UE
    BY <1>1, <1>2 DEF Store!UE
<1>4. doc \in Documents /\ doc.sqn = 0 /\ doc.key = prov.base.key
    BY <1>3, StoreAssumption DEF StoreInv, StoreTyped, Store!TypeOK, Documents
<1>5. Store!Write(u, doc) /\ UNCHANGED <<usim, resyncs, vault, seeded, overlap, rs, labRead, labInit, raced>>
    BY DEF Store!ProvisionWrites, Store!lab
<1>6. prov' \in [base : Documents, todo : Suffixes]
    BY <1>2 DEF StoreInv, StoreTyped, Store!ProvisionWrites
<1> HIDE DEF u, doc
<1>7. /\ subs' = [subs EXCEPT ![u] = doc] /\ subs' \in [Store!UE -> Documents]
      /\ resets' \in [Store!UE -> Nat] /\ (\A v \in Store!UE : subs'[v].sqn <= usim'[v])
      /\ Paid'
    BY <1>3, <1>4, <1>5, WriteIsPaid
<1>8. StoreTyped' /\ HostInv'
    BY <1>5, <1>6, <1>7 DEF StoreInv, StoreTyped, Store!TypeOK, HostInv, Documents
<1>11. /\ u = "ue1" => subs'["ue1"].key = prov.base.key
       /\ u = "ue2" => subs'["ue2"].key = prov.base.key /\ subs'["ue1"] = subs["ue1"]
       /\ u = "ue3" => /\ subs'["ue3"].key = prov.base.key
                       /\ subs'["ue1"] = subs["ue1"] /\ subs'["ue2"] = subs["ue2"]
    BY <1>4, <1>7, Keys DEF StoreInv, Store!UE
<1>9. Provisioned'
  <2>1. /\ prov.base.key \in 1..vault /\ subs["ue1"].key \in prov.base.key..vault
        /\ vault' = vault /\ prov'.base = prov.base
        /\ Len(prov.todo) <= 1 => subs["ue2"].key = prov.base.key
      BY <1>1, <1>2, <1>5 DEF StoreInv, Provisioned
  <2>2. CASE u = "ue1" /\ Len(prov'.todo) = 2
      BY <2>1, <2>2, <1>11, Keys DEF StoreInv, Provisioned
  <2>3. CASE u = "ue2" /\ Len(prov'.todo) = 1
      BY <2>1, <2>3, <1>11, Keys DEF StoreInv, Provisioned
  <2>4. CASE u = "ue3" /\ Len(prov.todo) = 1
      BY <2>1, <2>4, <1>11, Keys DEF StoreInv, Provisioned
  <2> QED BY <1>2, <2>2, <2>3, <2>4
<1>10. Current'
  <2>1. /\ prov.base.key <= vault /\ UNCHANGED <<vault, seeded, overlap>>
        /\ prov'.base = prov.base
      BY <1>1, <1>2, <1>5, Keys DEF StoreInv, Provisioned
  <2>3. prov.todo # <<>>
      BY DEF Store!ProvisionWrites
  <2>2. subs'["ue1"].key = prov.base.key \/ subs'["ue1"] = subs["ue1"]
      BY <1>2, <1>11
  <2> QED BY <2>1, <2>2, <2>3, Keys DEF StoreInv, Current
<1> QED BY <1>7, <1>8, <1>9, <1>10 DEF StoreInv

LEMMA ProvisionTurnsKeepStoreInv ==
  StoreInv /\ (Store!ProvisionReads \/ Store!ProvisionEnds) => StoreInv'
<1> SUFFICES ASSUME StoreInv, Store!ProvisionReads \/ Store!ProvisionEnds PROVE StoreInv'
    OBVIOUS
<1> USE StoreAssumption
    DEF StoreInv, StoreTyped, Store!TypeOK, Documents, Store!history, Store!store, Store!lab, Store!UE,
        HostInv, Current, Paid, Debt
<1>1. CASE Store!ProvisionReads
  <2>1. prov' \in [base : Documents, todo : Suffixes]
      BY <1>1 DEF Store!ProvisionReads, Suffixes
  <2>2. Provisioned'
    <3>1. /\ prov'.base.key = subs["ue1"].key /\ Len(prov'.todo) = 3
          /\ UNCHANGED <<subs, vault>> /\ subs["ue1"].key > 0
        BY <1>1 DEF Store!ProvisionReads, Store!NoKey, Store!store
    <3>2. subs["ue1"].key <= vault /\ subs["ue1"].key \in Int /\ vault \in Int
        BY Keys
    <3> QED BY ONLY <3>1, <3>2 DEF Provisioned
  <2> QED BY <1>1, <2>1, <2>2 DEF Store!ProvisionReads
<1>2. CASE Store!ProvisionEnds
  <2>1. prov' \in [base : Documents, todo : Suffixes]
      BY <1>2 DEF Store!ProvisionEnds, Suffixes, Store!Idle, Store!Absent
  <2>2. Provisioned' /\ prov'.todo = <<>>
      BY <1>2 DEF Store!ProvisionEnds, Provisioned, Store!Idle
  <2> QED BY <1>2, <2>1, <2>2 DEF Store!ProvisionEnds
<1> QED BY <1>1, <1>2

(* A resync takes the UE out of debt. *)
LEMMA AuthenticateKeepsStoreInv ==
  ASSUME StoreInv, NEW u \in Store!UE, Store!Authenticate(u)
  PROVE  StoreInv'
<1> DEFINE old == subs[u].sqn < usim[u]
           next == (IF old THEN usim[u] ELSE subs[u].sqn) + 1
<1>1. /\ next \in 0..MaxSqn /\ usim' = [usim EXCEPT ![u] = next]
      /\ subs' = [subs EXCEPT ![u].sqn = next]
      /\ resyncs' = IF old THEN [resyncs EXCEPT ![u] = @ + 1] ELSE resyncs
      /\ UNCHANGED <<rs, labRead, labInit, raced, vault, prov, resets, seeded, overlap>>
    BY StoreAssumption DEF StoreInv, StoreTyped, Store!TypeOK, Store!Authenticate, Store!lab
<1> HIDE DEF next
<1> USE DEF StoreInv, StoreTyped, Store!TypeOK
<1>2. /\ subs' \in [Store!UE -> Documents]
      /\ \A v \in Store!UE : subs'[v].key = subs[v].key
      /\ \A v \in Store!UE : v # u => subs'[v] = subs[v]
      /\ subs'[u].sqn = next /\ usim'[u] = next
    BY <1>1 DEF Documents
<1>3. StoreTyped' /\ HostInv'
    BY <1>1, <1>2 DEF HostInv, Documents
<1>4. Provisioned' /\ Current'
    BY <1>1, <1>2 DEF Provisioned, Current, Store!UE
<1>5. ASSUME NEW v \in Store!UE PROVE (resyncs[v] + Debt(v) <= resets[v])'
  <2>1. CASE v = u
      BY <2>1, <1>1, <1>2 DEF Paid, Debt
  <2>2. CASE v # u
      BY <2>2, <1>1, <1>2 DEF Paid, Debt
  <2> QED BY <2>1, <2>2
<1> QED BY <1>3, <1>4, <1>5 DEF Paid

LEMMA StoreInvStep == StoreInv /\ [Store!Next]_storeVars => StoreInv'
<1> SUFFICES ASSUME StoreInv, [Store!Next]_storeVars PROVE StoreInv'
    OBVIOUS
<1>1. CASE UNCHANGED storeVars
    BY <1>1 DEF storeVars, StoreInv, StoreTyped, Store!TypeOK, HostInv, Provisioned,
                Current, Paid, Debt
<1>2. CASE Store!Next
    BY <1>2, ReplicaKeepsStoreInv, SeedSampleKeepsStoreInv, SeedVaultKeepsStoreInv,
       RotateKeepsStoreInv, ProvisionWritesKeepsStoreInv, ProvisionTurnsKeepStoreInv,
       AuthenticateKeepsStoreInv DEF Store!Next
<1> QED BY <1>1, <1>2

THEOREM StoreInvHolds == UeSpec => []StoreInv
<1>1. UeInit => StoreInv
    BY StoreInvInit DEF UeInit
<1>2. StoreInv /\ [UeNext]_allVars => StoreInv'
    BY StoreInvStep DEF UeNext, SlotStep, SlotFrame, ReplicaStep, StoreStep, StoreFrame, allVars
<1> QED BY <1>1, <1>2, PTL DEF UeSpec

(* Once the Ansible task has run, the replica set keeps the wanted host,   *)
(* whatever hosts the other init scripts name, unless one of them ran      *)
(* between findOne and rs.initiate of the task.                            *)
THEOREM HostSettledHolds == UeSpec => []HostSettled
<1>1. StoreInv => HostSettled
    BY DEF StoreInv, StoreTyped, Store!TypeOK, HostInv, HostSettled, Store!HostSettled,
           Store!NoConfig
<1> QED BY <1>1, StoreInvHolds, PTL

(* A provisioning that reports success leaves three profiles of one key,   *)
(* and nothing brings an old key back, whatever the number of rotations.   *)
THEOREM CredentialsKeptHolds == UeSpec => []CredentialsKept
<1>1. StoreInv => Store!ProfilesAlike
    BY DEF StoreInv, Provisioned, Store!ProfilesAlike, Store!Ready, Store!Idle
<1>2. StoreInv => Store!VaultKeyKept
    BY DEF StoreInv, Current, Store!VaultKeyKept
<1>3. StoreInv => CredentialsKept
    BY <1>1, <1>2 DEF CredentialsKept
<1> QED BY <1>3, StoreInvHolds, PTL

(* The scripts cost a UE at most one sync failure per write of them.       *)
THEOREM ResyncsPaidForHolds == UeSpec => []ResyncsPaidFor
<1>1. StoreInv => ResyncsPaidFor
    BY DEF StoreInv, StoreTyped, Paid, Debt, ResyncsPaidFor, Store!ResyncsPaidFor
<1> QED BY <1>1, StoreInvHolds, PTL
=============================================================================
