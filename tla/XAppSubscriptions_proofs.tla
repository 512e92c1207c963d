---------------------- MODULE XAppSubscriptions_proofs ----------------------
(***************************************************************************)
(* Safety of the subscription table for every set of requests and ids.     *)
(***************************************************************************)
EXTENDS XAppSubscriptions, FiniteSetTheorems, FunctionTheorems, TLAPS

(* Groups of variables without a meaning of their own are always expanded. *)
USE DEF layout, locks, httpVars

(* The lock and the two halves of the rename: the callback holds the lock  *)
(* exactly while it moves an entry, the main thread while it looks one up. *)
LockInv ==
  /\ (moving # None) <=> (lock = "http")
  /\ mpc = "lookup" => lock = "main"

(* What each program counter guarantees about the data of its thread. *)
ControlInv ==
  /\ xpc \in {"waiting", "answered"} => cur # None
  /\ xpc = "answered" => sm[cur] # "unknown"
  /\ mpc \in {"handle", "lookup"} => ind # None
  /\ mpc = "dispatch" => disp # None
  /\ mpc = "delete" => iter.target # None
  /\ ind # None => ind.id \in {None, eid[ind.owner]} /\ sm[ind.owner] # "unknown"

(* SubMgr: an id is announced only after it was assigned. *)
SubMgrInv ==
  /\ \A r \in Requests : sm[r] # "unknown" => eid[r] # None
  /\ \A r \in net : sm[r] # "unknown"

(* The table: a REST key holds its own subscription, an instance key one   *)
(* with that id, and what is stored was answered and is not being stored.  *)
TableInv ==
  /\ \A r \in Requests : holder[r] \in {None, r}
  /\ \A e \in E2Ids : holder[e] # None => eid[holder[e]] = e
  /\ \A r \in Requests : pending[r] # None => pending[r] = eid[r] /\ sm[r] # "unknown"
  /\ \A k \in Keys : holder[k] # None => sm[holder[k]] # "unknown"
  /\ xpc \in {"waiting", "answered"} => \A k \in Keys : holder[k] # cur

(* The entry on its way from its REST key to its instance key. *)
MovingInv ==
  moving # None =>
    /\ eid[moving[1]] = moving[2]
    /\ sm[moving[1]] # "unknown"
    /\ pending[moving[1]] = None
    /\ \A k \in Keys : holder[k] # moving[1]
    /\ xpc \in {"waiting", "answered"} => moving[1] # cur

IInv == /\ TypeOK /\ LockInv /\ ControlInv /\ SubMgrInv /\ TableInv /\ MovingInv
        /\ NoStrandedMapping /\ OneKeyPerSubscription

-----------------------------------------------------------------------------
(* The dictionary has finitely many keys, so its sizes are numbers. *)
LEMMA TableFinite ==
  ASSUME TypeOK
  PROVE  /\ IsFiniteSet(Stored) /\ Cardinality(Stored) \in Nat
         /\ IsFiniteSet(Active) /\ Cardinality(Active) \in Nat
         /\ Active \subseteq Requests
<1>1. IsFiniteSet(Keys)
  BY ConstantsAssumption, FS_Union DEF Keys
<1>2. Stored \subseteq Keys /\ Active \subseteq Requests
  BY DEF Stored, Active, TypeOK
<1>3. IsFiniteSet(Stored) /\ IsFiniteSet(Active)
  BY <1>1, <1>2, FS_Subset, ConstantsAssumption
<1>4. QED
  BY <1>2, <1>3, FS_CardinalityType

(* What the fallback of _run returns: nothing, the subscription stored     *)
(* under the id, or the only one in the table.                             *)
LEMMA LookupResult ==
  ASSUME TypeOK, NEW id \in E2Ids \cup {None},
         LookupSubscription(id) # None
  PROVE  /\ LookupSubscription(id) \in Requests
         /\ \/ id # None /\ holder[id] = LookupSubscription(id)
            \/ Active = {LookupSubscription(id)}
<1>1. CASE id # None /\ holder[id] # None
  BY <1>1 DEF LookupSubscription, TypeOK, Keys
<1>2. CASE ~(id # None /\ holder[id] # None)
  <2>1. Cardinality(Active) = 1 /\ LookupSubscription(id) = CHOOSE r \in Active : TRUE
    BY <1>2 DEF LookupSubscription
  <2>2. PICK q : Active = {q}
    BY <2>1, TableFinite, FS_Singleton
  <2>3. QED
    BY <2>1, <2>2, TableFinite
<1>3. QED
  BY <1>1, <1>2

(* Re-packed entries have distinct positions, none beyond their number.    *)
LEMMA RankResult ==
  ASSUME TypeOK
  PROVE  /\ \A k \in Stored : Rank(k) \in 1..Cardinality(Stored)
         /\ \A j, k \in Stored : slot[j] # slot[k] => Rank(j) # Rank(k)
<1> DEFINE Behind(k) == {j \in Stored : slot[j] <= slot[k]}
<1>1. ASSUME NEW k \in Stored
      PROVE  /\ IsFiniteSet(Behind(k)) /\ Cardinality(Behind(k)) \in Nat
             /\ Cardinality(Behind(k)) <= Cardinality(Stored)
             /\ k \in Behind(k)
  <2>1. slot[k] \in Nat
    BY DEF TypeOK, Stored
  <2>2. QED
    BY <2>1, TableFinite, FS_Subset, FS_CardinalityType
<1>2. ASSUME NEW k \in Stored
      PROVE  Cardinality(Behind(k)) \in 1..Cardinality(Stored)
  <2>1. Cardinality(Behind(k)) # 0
    BY <1>1, FS_EmptySet
  <2>2. QED
    BY <1>1, <2>1, TableFinite
<1>3. ASSUME NEW j \in Stored, NEW k \in Stored, slot[j] < slot[k]
      PROVE  Cardinality(Behind(j)) # Cardinality(Behind(k))
  <2>1. \A i \in Stored : slot[i] \in Nat
    BY DEF TypeOK, Stored
  <2>2. Behind(j) \subseteq Behind(k) /\ k \notin Behind(j)
    BY <1>3, <2>1
  <2>3. Behind(j) # Behind(k)
    BY <1>1, <2>2
  <2> HIDE DEF Behind
  <2>4. QED
    BY <1>1, <2>2, <2>3, FS_Subset
<1>4. \A j, k \in Stored : slot[j] # slot[k] => slot[j] < slot[k] \/ slot[k] < slot[j]
  BY DEF TypeOK, Stored
<1>5. \A k \in Stored : Rank(k) = Cardinality(Behind(k))
  BY DEF Rank
<1> HIDE DEF Behind
<1>6. QED
  BY <1>2, <1>3, <1>4, <1>5

(* What Insert does to the table.                                          *)
LEMMA InsertResult ==
  ASSUME TypeOK, NEW k \in Keys, NEW r \in Requests, Insert(k, r)
  PROVE  /\ holder' \in [Keys -> Requests \cup {None}]
         /\ slot' \in [Keys -> Nat]
         /\ inserted' \in Nat /\ room' \in Nat
         /\ general' \in BOOLEAN /\ disturbed' \in BOOLEAN
         /\ holder'[k] = r
         /\ \A j \in Keys \ {k} : holder'[j] = holder[j]
<1> USE ConstantsAssumption
<1>1. /\ holder \in [Keys -> Requests \cup {None}] /\ slot \in [Keys -> Nat]
      /\ inserted \in Nat /\ room \in Nat /\ general \in BOOLEAN /\ disturbed \in BOOLEAN
  BY DEF TypeOK
<1>2. /\ holder'[k] = r /\ \A j \in Keys \ {k} : holder'[j] = holder[j]
      /\ holder' \in [Keys -> Requests \cup {None}]
      /\ general' \in BOOLEAN /\ disturbed' \in BOOLEAN
  BY <1>1 DEF Insert, Repacks
<1>3. slot' \in [Keys -> Nat] /\ inserted' \in Nat /\ room' \in Nat
  <2>1. CASE k \in Stored
    BY <1>1, <2>1 DEF Insert, Repacks
  <2>2. CASE k \notin Stored /\ ~Repacks(k)
    <3>1. room - 1 \in Nat
      BY <1>1, <2>2 DEF Repacks
    <3>2. QED
      BY <1>1, <2>2, <3>1 DEF Insert
  <2>3. CASE Repacks(k)
    <3>1. /\ slot' = [j \in Keys |-> IF j = k THEN Cardinality(Stored) + 1
                                    ELSE IF j \in Stored THEN Rank(j) ELSE 0]
          /\ inserted' = Cardinality(Stored) + 1
          /\ room' = Room(Cardinality(Stored)) - 1
      BY <2>3 DEF Insert, Repacks
    <3>2. Cardinality(Stored) \in Nat /\ \A j \in Stored : Rank(j) \in Nat
      BY TableFinite, RankResult
    <3>3. Room(Cardinality(Stored)) \in Nat \ {0}
      <4>1. IsFiniteSet(Keys) /\ Stored \subseteq Keys
        BY FS_Union DEF Keys, Stored
      <4>2. Cardinality(Keys) \in Nat /\ Cardinality(Stored) <= Cardinality(Keys)
        BY <4>1, FS_Subset, FS_CardinalityType
      <4>3. Cardinality(Stored) \in 0..Cardinality(Keys)
        BY <3>2, <4>2
      <4>4. QED
        BY <4>3 DEF Keys
    <3>4. slot' \in [Keys -> Nat]
      BY <3>1, <3>2
    <3>5. QED
      BY <3>1, <3>2, <3>3, <3>4
  <2>4. QED
    BY <2>1, <2>2, <2>3
<1>4. QED
  BY <1>2, <1>3

-----------------------------------------------------------------------------
LEMMA InitIInv == Init => IInv
<1> SUFFICES ASSUME Init PROVE IInv
  OBVIOUS
<1>1. TypeOK
  <2>1. Room(0) \in Nat
    <3>1. IsFiniteSet(Requests \cup E2Ids)
      BY ConstantsAssumption, FS_Union
    <3>2. 0 \in 0..Cardinality(Requests \cup E2Ids)
      BY <3>1, FS_CardinalityType
    <3>3. QED
      BY <3>2, ConstantsAssumption
  <2>2. QED
    BY <2>1, ConstantsAssumption DEF Init, TypeOK, Keys, NoIterator
<1>2. LockInv /\ ControlInv /\ SubMgrInv /\ TableInv /\ MovingInv
  BY ConstantsAssumption
     DEF Init, LockInv, ControlInv, SubMgrInv, TableInv, MovingInv, Keys
<1>3. NoStrandedMapping /\ OneKeyPerSubscription
  BY ConstantsAssumption
     DEF Init, NoStrandedMapping, OneKeyPerSubscription, Stored, Active, Keys
<1>4. QED
  BY <1>1, <1>2, <1>3 DEF IInv

-----------------------------------------------------------------------------
(* The table changes in three actions only; every other step keeps it, the *)
(* announcements and the entry being moved.                                *)
LEMMA StoreStep == IInv /\ StoreSubscription => IInv'
<1> SUFFICES ASSUME IInv, StoreSubscription PROVE IInv'
  OBVIOUS
<1> DEFINE key == IF pending[cur] = None THEN cur ELSE pending[cur]
<1> USE ConstantsAssumption
<1>1. /\ cur \in Requests /\ moving = None /\ key \in Keys
      /\ key \in Requests => key = cur
      /\ key \in E2Ids => key = eid[cur]
      /\ sm[cur] # "unknown"
      /\ \A k \in Keys : holder[k] # cur
  BY DEF IInv, TypeOK, LockInv, ControlInv, TableInv, StoreSubscription, Keys
<1>2. /\ holder' \in [Keys -> Requests \cup {None}]
      /\ slot' \in [Keys -> Nat]
      /\ inserted' \in Nat /\ room' \in Nat
      /\ general' \in BOOLEAN /\ disturbed' \in BOOLEAN
      /\ holder'[key] = cur
      /\ \A j \in Keys \ {key} : holder'[j] = holder[j]
  <2>1. TypeOK /\ Insert(key, cur)
    BY DEF IInv, StoreSubscription
  <2>2. QED
    BY <1>1, <2>1, InsertResult
<1>3. /\ pending' = [pending EXCEPT ![cur] = None]
      /\ xpc' = "ready"
      /\ UNCHANGED <<locks, moving, cur, mainVars, httpVars, submgrVars>>
  BY DEF StoreSubscription
<1> HIDE DEF key
<1>4. TypeOK'
  BY <1>1, <1>2, <1>3 DEF IInv, TypeOK, mainVars, submgrVars
<1>5. LockInv' /\ ControlInv' /\ SubMgrInv'
  BY <1>3 DEF IInv, LockInv, ControlInv, SubMgrInv, mainVars, submgrVars
<1>6. TableInv'
  BY <1>1, <1>2, <1>3 DEF IInv, TypeOK, TableInv, submgrVars, Keys
<1>7. MovingInv'
  BY <1>1, <1>3 DEF MovingInv
<1>8. NoStrandedMapping'
  BY <1>1, <1>2, <1>3 DEF IInv, TypeOK, TableInv, NoStrandedMapping, Keys
<1>9. OneKeyPerSubscription'
  BY <1>1, <1>2, <1>3 DEF IInv, OneKeyPerSubscription, Stored
<1>10. QED
  BY <1>4, <1>5, <1>6, <1>7, <1>8, <1>9 DEF IInv

LEMMA PopStep == ASSUME NEW r \in Requests PROVE IInv /\ CallbackPops(r) => IInv'
<1> SUFFICES ASSUME IInv, CallbackPops(r) PROVE IInv'
  OBVIOUS
<1> USE ConstantsAssumption
<1>1. /\ holder[r] = r /\ moving = None /\ mpc # "lookup"
      /\ sm[r] # "unknown" /\ eid[r] \in E2Ids /\ pending[r] = None
      /\ r \in Keys
      /\ \A k \in Keys : k # r => holder[k] # r
      /\ xpc \in {"waiting", "answered"} => cur # r
  BY DEF IInv, TypeOK, LockInv, SubMgrInv, TableInv, NoStrandedMapping,
         OneKeyPerSubscription, Stored, CallbackPops, HandleNotice, Keys
<1>2. /\ net' = net \ {r}
      /\ holder' = [holder EXCEPT ![r] = None]
      /\ moving' = <<r, eid[r]>>
      /\ lock' = "http"
      /\ UNCHANGED <<layout, pending, disturbed, held, xappVars, mainVars, httpVars, sm, eid,
                     notices>>
  BY <1>1 DEF CallbackPops, HandleNotice
<1>3. moving' # None
  BY <1>1, <1>2
<1>4. TypeOK'
  BY <1>1, <1>2 DEF IInv, TypeOK, xappVars, mainVars
<1>5. LockInv' /\ ControlInv' /\ SubMgrInv'
  BY <1>1, <1>2, <1>3 DEF IInv, LockInv, ControlInv, SubMgrInv, xappVars, mainVars
<1>6. TableInv' /\ NoStrandedMapping'
  BY <1>1, <1>2
     DEF IInv, TypeOK, ControlInv, TableInv, NoStrandedMapping, Keys, xappVars
<1>6a. MovingInv'
  <2>1. moving'[1] = r /\ moving'[2] = eid[r]
    BY <1>2
  <2>2. \A k \in Keys : holder'[k] # r
    BY <1>1, <1>2, ConstantsAssumption DEF IInv, TypeOK
  <2>3. QED
    BY <1>1, <1>2, <2>1, <2>2 DEF MovingInv, xappVars
<1>7. OneKeyPerSubscription'
  BY <1>1, <1>2 DEF IInv, TypeOK, OneKeyPerSubscription, Stored, Active
<1>8. QED
  BY <1>4, <1>5, <1>6, <1>6a, <1>7 DEF IInv

LEMMA InsertStep == IInv /\ CallbackInserts => IInv'
<1> SUFFICES ASSUME IInv, CallbackInserts PROVE IInv'
  OBVIOUS
<1> DEFINE r == moving[1]
           e == moving[2]
<1> USE ConstantsAssumption
<1>1. /\ r \in Requests /\ e \in E2Ids /\ e \in Keys
      /\ eid[r] = e /\ sm[r] # "unknown" /\ pending[r] = None
      /\ \A k \in Keys : holder[k] # r
      /\ xpc \in {"waiting", "answered"} => r # cur
      /\ lock = "http" /\ mpc # "lookup"
  BY DEF IInv, TypeOK, LockInv, MovingInv, CallbackInserts, Keys
<1>2. /\ holder' \in [Keys -> Requests \cup {None}]
      /\ slot' \in [Keys -> Nat]
      /\ inserted' \in Nat /\ room' \in Nat
      /\ general' \in BOOLEAN /\ disturbed' \in BOOLEAN
      /\ holder'[e] = r
      /\ \A j \in Keys \ {e} : holder'[j] = holder[j]
  <2>1. TypeOK /\ Insert(e, r)
    BY DEF IInv, CallbackInserts
  <2>2. QED
    BY <1>1, <2>1, InsertResult
<1>3. /\ moving' = None /\ lock' = "free" /\ serving' = "none"
      /\ UNCHANGED <<pending, held, xappVars, mainVars, gauge, submgrVars>>
  BY DEF CallbackInserts
<1> HIDE DEF r, e
<1>4. TypeOK'
  BY <1>1, <1>2, <1>3 DEF IInv, TypeOK, xappVars, mainVars, submgrVars
<1>5. LockInv' /\ ControlInv' /\ SubMgrInv' /\ MovingInv'
  BY <1>1, <1>3
     DEF IInv, LockInv, ControlInv, SubMgrInv, MovingInv, xappVars, mainVars, submgrVars
<1>6. TableInv' /\ NoStrandedMapping'
  BY <1>1, <1>2, <1>3
     DEF IInv, TypeOK, TableInv, NoStrandedMapping, Keys, xappVars, submgrVars
<1>7. OneKeyPerSubscription'
  BY <1>1, <1>2, <1>3 DEF IInv, OneKeyPerSubscription, Stored
<1>8. QED
  BY <1>4, <1>5, <1>6, <1>7 DEF IInv

LEMMA DeferStep == ASSUME NEW r \in Requests PROVE IInv /\ CallbackDefers(r) => IInv'
<1> SUFFICES ASSUME IInv, CallbackDefers(r) PROVE IInv'
  OBVIOUS
<1> USE ConstantsAssumption
<1>1. moving = None /\ sm[r] # "unknown" /\ eid[r] \in E2Ids /\ holder[r] = None
  BY DEF IInv, TypeOK, LockInv, SubMgrInv, CallbackDefers, HandleNotice
<1>2. /\ net' = net \ {r}
      /\ pending' = [pending EXCEPT ![r] = eid[r]]
      /\ serving' = "none"
      /\ UNCHANGED <<dictVars, disturbed, locks, moving, xappVars, mainVars, gauge, sm, eid,
                     notices>>
  BY DEF CallbackDefers, HandleNotice
<1>3. TypeOK'
  BY <1>1, <1>2 DEF IInv, TypeOK, dictVars, xappVars, mainVars
<1>4. LockInv' /\ ControlInv' /\ SubMgrInv' /\ MovingInv'
  BY <1>1, <1>2
     DEF IInv, LockInv, ControlInv, SubMgrInv, MovingInv, dictVars, xappVars, mainVars
<1>5. TableInv' /\ NoStrandedMapping' /\ OneKeyPerSubscription'
  BY <1>1, <1>2 DEF IInv, TypeOK, TableInv, NoStrandedMapping, OneKeyPerSubscription,
                    Stored, Active, dictVars, xappVars
<1>6. QED
  BY <1>3, <1>4, <1>5 DEF IInv

(* The other steps of the xApp thread and of SubMgr leave the table alone. *)
LEMMA XAppSubMgrStep ==
  ASSUME IInv,
         \/ \E r \in Requests : Subscribe(r) \/ SubMgrNotifies(r)
         \/ \E r \in Requests, e \in E2Ids : SubMgrCreates(r, e)
         \/ SubscribeAnswered \/ SubscribeFails \/ ThreadReturns
  PROVE  IInv'
<1> USE ConstantsAssumption
<1>1. /\ UNCHANGED <<tableVars, locks, moving, mainVars, httpVars>>
      /\ OneKeyPerSubscription' /\ NoStrandedMapping'
  BY DEF IInv, OneKeyPerSubscription, NoStrandedMapping, Stored, Active, tableVars,
         dictVars,
         Subscribe, SubMgrNotifies, SubMgrCreates, SubscribeAnswered, SubscribeFails,
         ThreadReturns
<1>2. CASE \E r \in Requests : Subscribe(r)
  <2>1. PICK r \in Requests : Subscribe(r)
    BY <1>2
  <2>2. TypeOK' /\ LockInv' /\ ControlInv' /\ SubMgrInv'
    BY <1>1, <2>1 DEF IInv, TypeOK, LockInv, ControlInv, SubMgrInv, Subscribe,
                      tableVars, dictVars, mainVars, submgrVars
  <2>3. TableInv' /\ MovingInv'
    BY <1>1, <2>1 DEF IInv, TypeOK, TableInv, MovingInv, Subscribe, tableVars, dictVars,
                      submgrVars
  <2>4. QED
    BY <1>1, <2>2, <2>3 DEF IInv
<1>3. CASE \E r \in Requests : SubMgrNotifies(r)
  <2>1. PICK r \in Requests : SubMgrNotifies(r)
    BY <1>3
  <2>2. TypeOK' /\ LockInv' /\ ControlInv' /\ SubMgrInv'
    BY <1>1, <2>1 DEF IInv, TypeOK, LockInv, ControlInv, SubMgrInv, SubMgrNotifies,
                      tableVars, dictVars, mainVars, xappVars
  <2>3. TableInv' /\ MovingInv'
    BY <1>1, <2>1 DEF IInv, TypeOK, TableInv, MovingInv, SubMgrNotifies, tableVars,
                      dictVars, xappVars
  <2>4. QED
    BY <1>1, <2>2, <2>3 DEF IInv
<1>4. CASE \E r \in Requests, e \in E2Ids : SubMgrCreates(r, e)
  <2>1. PICK r \in Requests, e \in E2Ids : SubMgrCreates(r, e)
    BY <1>4
  <2>2. /\ sm[r] = "unknown"
        /\ sm' = [sm EXCEPT ![r] = "active"]
        /\ eid' = [eid EXCEPT ![r] = e]
        /\ UNCHANGED <<xappVars, notices, net>>
    BY <2>1 DEF SubMgrCreates
  <2>3. TypeOK' /\ LockInv' /\ SubMgrInv'
    BY <1>1, <2>2 DEF IInv, TypeOK, LockInv, SubMgrInv, tableVars, dictVars, mainVars,
                      xappVars
  <2>4. ControlInv'
    BY <1>1, <2>2 DEF IInv, TypeOK, ControlInv, tableVars, dictVars, mainVars, xappVars
  <2>5. TableInv'
    BY <1>1, <2>2 DEF IInv, TypeOK, TableInv, tableVars, dictVars, xappVars, Keys
  <2>6. MovingInv'
    BY <1>1, <2>2 DEF IInv, TypeOK, MovingInv, tableVars, dictVars, xappVars
  <2>7. QED
    BY <1>1, <2>3, <2>4, <2>5, <2>6 DEF IInv
<1>5. CASE SubscribeAnswered \/ SubscribeFails \/ ThreadReturns
  <2>1. TypeOK' /\ LockInv' /\ ControlInv' /\ SubMgrInv'
    BY <1>1, <1>5 DEF IInv, TypeOK, LockInv, ControlInv, SubMgrInv, tableVars, dictVars,
                      mainVars,
                      submgrVars, SubscribeAnswered, SubscribeFails, ThreadReturns
  <2>2. TableInv' /\ MovingInv'
    BY <1>1, <1>5 DEF IInv, TypeOK, TableInv, MovingInv, tableVars, dictVars, submgrVars,
                      SubscribeAnswered, SubscribeFails, ThreadReturns
  <2>3. QED
    BY <1>1, <2>1, <2>2 DEF IInv
<1>6. QED
  BY <1>2, <1>3, <1>4, <1>5

(* A step that keeps the table, the entry being moved and the xApp thread, *)
(* and makes no subscription unknown, keeps everything said of the table.  *)
LEMMA TableFrame ==
  ASSUME IInv, UNCHANGED <<dictVars, pending, moving, xappVars, eid, net>>,
         \A r \in Requests : sm'[r] = "unknown" <=> sm[r] = "unknown"
  PROVE  /\ SubMgrInv' /\ TableInv' /\ MovingInv'
         /\ NoStrandedMapping' /\ OneKeyPerSubscription'
<1> USE ConstantsAssumption
<1>1. SubMgrInv' /\ NoStrandedMapping' /\ OneKeyPerSubscription'
  BY DEF IInv, TypeOK, SubMgrInv, NoStrandedMapping, OneKeyPerSubscription, Stored,
         Active, tableVars, dictVars
<1>2. TableInv' /\ MovingInv'
  BY DEF IInv, TypeOK, TableInv, MovingInv, tableVars, dictVars, xappVars
<1>3. QED
  BY <1>1, <1>2

(* The receive loop and the scrape. *)
LEMMA LoopStep ==
  ASSUME IInv,
         \/ \E request \in {"notice", "counters"} : Serve(request)
         \/ ScrapeCounters \/ Scrape \/ ScrapeSamples
         \/ LookupBegins \/ LookupEnds \/ DispatchEnds \/ ReleaseLock
         \/ \E l \in OtherLocks : HoldLock(l)
         \/ \E r \in Requests, id \in E2Ids \cup {None} : Receive(r, id)
  PROVE  IInv'
<1> USE ConstantsAssumption
<1>1. UNCHANGED <<tableVars, moving, xappVars, submgrVars, stopVars>>
  BY DEF Scrape, ScrapeCounters, ScrapeSamples, Serve, LookupBegins, HoldLock,
         ReleaseLock, LookupEnds, DispatchEnds, Receive, Main, stopVars,
         mainVars
<1>2. /\ SubMgrInv' /\ TableInv' /\ MovingInv'
      /\ NoStrandedMapping' /\ OneKeyPerSubscription'
  BY <1>1, TableFrame DEF tableVars, submgrVars
<1>3. CASE Scrape
  <2>1. gauge' \in Nat
    BY <1>3, TableFinite DEF IInv, Scrape, ScrapeCounters, ScrapeSamples, Serve
  <2>2. TypeOK' /\ LockInv' /\ ControlInv'
    BY <1>1, <1>3, <2>1 DEF IInv, TypeOK, LockInv, ControlInv, Scrape, ScrapeCounters,
                        ScrapeSamples, Serve, tableVars, dictVars,
                            xappVars, mainVars, submgrVars
  <2>3. QED
    BY <1>2, <2>2 DEF IInv
<1>4. CASE LookupBegins
  <2>1. TypeOK' /\ LockInv' /\ ControlInv'
    BY <1>1, <1>4 DEF IInv, TypeOK, LockInv, ControlInv, LookupBegins, HoldLock,
                      ReleaseLock, Main, tableVars, dictVars,
                      xappVars, stopVars, submgrVars
  <2>2. QED
    BY <1>2, <2>1 DEF IInv
<1>5. CASE LookupEnds
  <2>1. ind.id \in E2Ids \cup {None}
    BY <1>5 DEF IInv, TypeOK, ControlInv, LookupEnds
  <2>2. disp' \in Requests \cup {None}
    BY <1>5, <2>1, LookupResult DEF IInv, LookupEnds
  <2>3. TypeOK' /\ LockInv' /\ ControlInv'
    BY <1>1, <1>5, <2>2 DEF IInv, TypeOK, LockInv, ControlInv, LookupEnds, tableVars,
                        dictVars,
                            xappVars, stopVars, submgrVars
  <2>4. QED
    BY <1>2, <2>3 DEF IInv
<1>6. CASE DispatchEnds
  <2>1. TypeOK' /\ LockInv' /\ ControlInv'
    BY <1>1, <1>6 DEF IInv, TypeOK, LockInv, ControlInv, DispatchEnds, Main, tableVars,
                      dictVars,
                      xappVars, stopVars, submgrVars
  <2>2. QED
    BY <1>2, <2>1 DEF IInv
<1>7. CASE \E r \in Requests, id \in E2Ids \cup {None} : Receive(r, id)
  <2>1. PICK r \in Requests, id \in E2Ids \cup {None} : Receive(r, id)
    BY <1>7
  <2>2. /\ mpc' = "handle" /\ sm[r] # "unknown" /\ id \in {eid[r], None}
        /\ ind' = [owner |-> r, id |-> id]
        /\ UNCHANGED <<locks, disp, httpVars>>
    BY <2>1 DEF Receive, Main
  <2>3. TypeOK' /\ LockInv' /\ ControlInv'
    BY <1>1, <2>2 DEF IInv, TypeOK, LockInv, ControlInv, tableVars, dictVars, xappVars,
                      stopVars,
                      submgrVars
  <2>4. QED
    BY <1>2, <2>3 DEF IInv
<1>8. CASE \/ \E request \in {"notice", "counters"} : Serve(request)
           \/ ScrapeCounters \/ ScrapeSamples \/ ReleaseLock
           \/ \E l \in OtherLocks : HoldLock(l)
  <2>1. /\ UNCHANGED <<tableVars, lock, moving, xappVars, mainVars, gauge, submgrVars>>
        /\ held' \in OtherLocks \cup {"none"}
        /\ serving' \in {"none", "notice", "counters", "table", "samples"}
    BY <1>8 DEF IInv, TypeOK, Serve, ScrapeCounters, ScrapeSamples, ReleaseLock, HoldLock
  <2>2. TypeOK' /\ LockInv' /\ ControlInv'
    BY <2>1 DEF IInv, TypeOK, LockInv, ControlInv, tableVars, dictVars, xappVars, mainVars,
                submgrVars
  <2>3. QED
    BY <1>2, <2>2 DEF IInv
<1>9. QED
  BY <1>3, <1>4, <1>5, <1>6, <1>7, <1>8

(* The signal handler, up to the exit of the process. *)
LEMMA StopStep ==
  ASSUME IInv, Signal \/ Stop
  PROVE  IInv'
<1> USE ConstantsAssumption
<1>1. /\ UNCHANGED <<dictVars, pending, moving, xappVars, httpVars, eid, notices, net>>
      /\ disturbed' \in BOOLEAN
      /\ sm' \in [Requests -> {"unknown", "active", "deleted"}]
      /\ \A r \in Requests : sm'[r] = "unknown" <=> sm[r] = "unknown"
  <2>1. CASE \E status \in {204, 503} : DeleteReturns(status)
    BY <2>1 DEF tableVars, DeleteReturns, IInv, TypeOK, ControlInv
  <2>2. CASE ~\E status \in {204, 503} : DeleteReturns(status)
    BY <2>2 DEF tableVars, IInv, TypeOK, Signal, Stop, IterationFails, IterationContinues,
                IterationEnds, DeleteRaises, CloseServers, JoinAndExit, Unwind, submgrVars
  <2>3. QED
    BY <2>1, <2>2
<1>2. /\ SubMgrInv' /\ TableInv' /\ MovingInv'
      /\ NoStrandedMapping' /\ OneKeyPerSubscription'
  BY <1>1, TableFrame
<1>3. SUFFICES TypeOK' /\ LockInv' /\ ControlInv'
  BY <1>2 DEF IInv
<1>4. CASE Signal
  <2>1. Cardinality(Stored) \in Nat /\ Active \subseteq Requests
    BY TableFinite DEF IInv
  <2>2. QED
    BY <1>1, <1>4, <2>1 DEF IInv, TypeOK, LockInv, ControlInv, Signal, tableVars,
                        dictVars, xappVars
<1>5. ASSUME Unwind, asked' \in SUBSET Requests
      PROVE  TypeOK' /\ LockInv' /\ ControlInv'
  BY <1>1, <1>5 DEF IInv, TypeOK, LockInv, ControlInv, Unwind, NoIterator, tableVars,
                    dictVars, xappVars
<1>6. CASE IterationFails
  BY <1>5, <1>6 DEF IterationFails, IInv, TypeOK
<1>7. CASE DeleteRaises
  BY <1>5, <1>7 DEF DeleteRaises, IInv, TypeOK, ControlInv
<1>8. CASE \E k \in Keys : IterationContinues(k)
  <2>1. PICK k \in Keys : IterationContinues(k)
    BY <1>8
  <2>2. /\ mpc' = "delete" /\ iter.left > 0 /\ holder[k] # None
        /\ iter' = [iter EXCEPT !.last = slot[k], !.left = @ - 1, !.target = holder[k]]
        /\ UNCHANGED <<locks, resume, ind, disp, atSignal, asked, signals>>
    BY <2>1 DEF IterationContinues, Main, Unvisited, Stored
  <2>3. /\ iter' \in [size : Nat, last : Nat, left : Nat, target : Requests \cup {None}]
        /\ iter'.target # None
    <3>1. holder[k] \in Requests /\ slot[k] \in Nat
      BY <2>2 DEF IInv, TypeOK
    <3>2. iter \in [size : Nat, last : Nat, left : Nat, target : Requests \cup {None}]
      BY DEF IInv, TypeOK
    <3>3. iter.left - 1 \in Nat
      BY <2>2, <3>2
    <3>4. QED
      BY <2>2, <3>1, <3>2, <3>3
  <2>4. QED
    BY <1>1, <2>2, <2>3 DEF IInv, TypeOK, LockInv, ControlInv, tableVars, dictVars, xappVars
<1>9. CASE IterationEnds \/ CloseServers
  BY <1>1, <1>9 DEF IInv, TypeOK, LockInv, ControlInv, IterationEnds, CloseServers, Main,
                    stopVars, tableVars, dictVars, xappVars
<1>10. CASE \E status \in {204, 503} : DeleteReturns(status)
  <2>1. /\ mpc = "delete" /\ mpc' = "iterate" /\ asked' = asked \cup {iter.target}
        /\ UNCHANGED <<locks, resume, ind, disp, iter, atSignal, signals>>
    BY <1>10 DEF DeleteReturns, Main
  <2>2. QED
    BY <1>1, <2>1 DEF IInv, TypeOK, LockInv, ControlInv, tableVars, dictVars, xappVars
<1>11. CASE JoinAndExit
  BY <1>1, <1>11 DEF IInv, TypeOK, LockInv, ControlInv, JoinAndExit, Main, stopVars,
                     tableVars, dictVars, xappVars
<1>12. QED
  BY <1>4, <1>6, <1>7, <1>8, <1>9, <1>10, <1>11 DEF Stop

LEMMA NextIInv == IInv /\ [Next]_vars => IInv'
<1> SUFFICES ASSUME IInv, [Next]_vars PROVE IInv'
  OBVIOUS
<1>1. CASE UNCHANGED vars
  BY <1>1 DEF IInv, vars, tableVars, dictVars, mainVars, xappVars, submgrVars, TypeOK,
              LockInv,
              ControlInv, SubMgrInv, TableInv, MovingInv, NoStrandedMapping,
              OneKeyPerSubscription, Stored, Active
<1>2. CASE XAppThread
  BY <1>2, StoreStep, XAppSubMgrStep DEF XAppThread
<1>3. CASE HttpThread
  BY <1>3, PopStep, InsertStep, DeferStep, LoopStep DEF HttpThread, HandleRequest
<1>4. CASE SubMgr
  BY <1>4, XAppSubMgrStep DEF SubMgr
<1>5. CASE Loop \/ \E r \in Requests, id \in E2Ids \cup {None} : Receive(r, id)
  BY <1>5, LoopStep DEF Loop
<1>6. CASE Signal \/ Stop
  BY <1>6, StopStep
<1>7. QED
  BY <1>1, <1>2, <1>3, <1>4, <1>5, <1>6 DEF Next, IdlePoll, Terminated

(* The inductive invariant holds in every reachable state. *)
THEOREM Invariance == Spec => []IInv
<1>1. Init => IInv
  BY InitIInv
<1>2. IInv /\ [Next]_vars => IInv'
  BY NextIInv
<1>3. QED
  BY <1>1, <1>2, PTL DEF Spec

(* Every variable keeps its type. *)
THEOREM TypeCorrect == Spec => []TypeOK
BY Invariance, PTL DEF IInv

(* No subscription is left under its REST id while its instance id waits. *)
THEOREM NoStrandedMappingHolds == Spec => []NoStrandedMapping
BY Invariance, PTL DEF IInv

(* The table never holds one subscription twice. *)
THEOREM OneKeyPerSubscriptionHolds == Spec => []OneKeyPerSubscription
BY Invariance, PTL DEF IInv

(* While the main thread looks a callback up no entry is being moved, so   *)
(* the fallback sees every stored subscription.                            *)
THEOREM MisdispatchOnlyUnstoredHolds == Spec => MisdispatchOnlyUnstored
<1> DEFINE Goal == (mpc = "lookup" /\ mpc' = "dispatch") =>
                     \/ disp' = ind.owner
                     \/ eid[disp'] = eid[ind.owner]
                     \/ ind.owner \notin InTable
<1>1. IInv /\ [Next]_vars => [Goal]_vars
  <2> SUFFICES ASSUME IInv, Next, mpc = "lookup", mpc' = "dispatch"
               PROVE  Goal
    OBVIOUS
  <2> USE ConstantsAssumption
  <2>1. LookupEnds
    BY DEF Next, XAppThread, HttpThread, HandleRequest, SubMgr, Loop, Stop, Subscribe,
           SubscribeAnswered,
           SubscribeFails, StoreSubscription, ThreadReturns, CallbackPops, HandleNotice,
           CallbackInserts,
           CallbackDefers, SubMgrNotifies, SubMgrCreates, Scrape, ScrapeCounters,
           ScrapeSamples, Serve, LookupBegins, HoldLock, ReleaseLock,
           DispatchEnds, IterationFails, IterationContinues, IterationEnds, DeleteReturns,
           DeleteRaises, CloseServers, JoinAndExit, Signal, IdlePoll, Terminated, Receive,
           Main, mainVars
  <2>2. /\ ind.id \in E2Ids \cup {None} /\ ind.owner \in Requests /\ moving = None
        /\ ind.id \in {None, eid[ind.owner]}
    BY DEF IInv, TypeOK, ControlInv, LockInv
  <2>3. disp' = LookupSubscription(ind.id) /\ disp' # None
    BY <2>1 DEF LookupEnds
  <2>4. \/ ind.id # None /\ holder[ind.id] = disp'
        \/ Active = {disp'}
    BY <2>2, <2>3, LookupResult DEF IInv
  <2>5. CASE ind.id # None /\ holder[ind.id] = disp'
    BY <2>2, <2>3, <2>5 DEF IInv, TableInv
  <2>6. CASE Active = {disp'}
    BY <2>2, <2>6 DEF InTable
  <2>7. QED
    BY <2>4, <2>5, <2>6
<1>2. QED
  BY <1>1, Invariance, PTL DEF Spec, MisdispatchOnlyUnstored

-----------------------------------------------------------------------------
(* The two properties about a whole run of stop() and about two scrapes    *)
(* compare subscriptions by the id SubMgr gave them, so they rest on ids   *)
(* that never change once given.                                           *)
AssignedInv == \A r \in Requests : sm[r] = "unknown" => eid[r] = None

LEMMA AssignedStep ==
  ASSUME IInv, AssignedInv, [Next]_vars
  PROVE  /\ AssignedInv'
         /\ \A r \in Requests : eid[r] # None => eid'[r] = eid[r]
         /\ \A r, q \in Requests : Merged(r, q) => Merged(r, q)'
<1>1. /\ AssignedInv'
      /\ \A r \in Requests : eid[r] # None => eid'[r] = eid[r]
  <2>1. CASE \E r \in Requests, e \in E2Ids : SubMgrCreates(r, e)
    <3>1. PICK r \in Requests, e \in E2Ids :
            sm[r] = "unknown" /\ sm' = [sm EXCEPT ![r] = "active"]
            /\ eid' = [eid EXCEPT ![r] = e]
      BY <2>1 DEF SubMgrCreates
    <3>2. QED
      BY <3>1 DEF IInv, TypeOK, AssignedInv
  <2>2. CASE Stop
    <3>1. eid' = eid /\ \A r \in Requests : sm'[r] = "unknown" => sm[r] = "unknown"
      <4>1. CASE \E status \in {204, 503} : DeleteReturns(status)
        BY <4>1 DEF DeleteReturns, IInv, TypeOK, ControlInv
      <4>2. CASE ~\E status \in {204, 503} : DeleteReturns(status)
        BY <2>2, <4>2 DEF Stop, IterationFails, IterationContinues, IterationEnds,
                          DeleteRaises, CloseServers, JoinAndExit, submgrVars
      <4>3. QED
        BY <4>1, <4>2
    <3>2. QED
      BY <3>1 DEF AssignedInv
  <2>3. CASE ~Stop /\ ~\E r \in Requests, e \in E2Ids : SubMgrCreates(r, e)
    <3>1. UNCHANGED <<sm, eid>>
      BY <2>3 DEF Next, XAppThread, HttpThread, HandleRequest, SubMgr, Loop, Subscribe,
                  SubscribeAnswered,
           SubscribeFails, StoreSubscription, ThreadReturns, CallbackPops, HandleNotice,
           CallbackInserts,
           CallbackDefers, SubMgrNotifies, Scrape, ScrapeCounters, ScrapeSamples, Serve,
           LookupBegins, HoldLock, ReleaseLock, LookupEnds,
           DispatchEnds, Signal, IdlePoll, Terminated, Receive, submgrVars, vars
    <3>2. QED
      BY <3>1 DEF AssignedInv
  <2>4. QED
    BY <2>1, <2>2, <2>3
<1>2. \A r, q \in Requests : Merged(r, q) => Merged(r, q)'
  BY <1>1 DEF Merged
<1>3. QED
  BY <1>1, <1>2

(* The two actions that insert: a subscription that is in no entry goes    *)
(* under k, and the one it may replace there has the same instance id.     *)
Insertion(k, r) ==
  /\ Insert(k, r)
  /\ r \notin Active
  /\ holder[k] # None => eid[holder[k]] # None /\ eid[holder[k]] = eid[r]
  /\ moving = None \/ moving[1] = r
  /\ moving' = None
  /\ UNCHANGED <<mainVars, gauge, submgrVars>>

LEMMA InsertionStep ==
  ASSUME IInv, StoreSubscription \/ CallbackInserts
  PROVE  \E k \in Keys, r \in Requests : Insertion(k, r)
<1> USE ConstantsAssumption
<1>1. CASE StoreSubscription
  <2> DEFINE key == IF pending[cur] = None THEN cur ELSE pending[cur]
  <2>1. /\ cur \in Requests /\ moving = None /\ key \in Keys
        /\ key \in Requests => holder[key] = None
        /\ key \in E2Ids => key = eid[cur]
        /\ \A k \in Keys : holder[k] # cur
    BY <1>1 DEF IInv, TypeOK, LockInv, ControlInv, TableInv, StoreSubscription, Keys
  <2>2. Insert(key, cur) /\ moving' = moving
        /\ UNCHANGED <<mainVars, gauge, submgrVars>>
    BY <1>1 DEF StoreSubscription
  <2> HIDE DEF key
  <2>3. holder[key] # None => eid[holder[key]] # None /\ eid[holder[key]] = eid[cur]
    BY <2>1 DEF IInv, TypeOK, TableInv, Keys
  <2>4. Insertion(key, cur)
    BY <2>1, <2>2, <2>3 DEF Insertion, Active, Stored
  <2>5. QED
    BY <2>1, <2>4
<1>2. CASE CallbackInserts
  <2>1. PICK r \in Requests, e \in E2Ids : moving = <<r, e>>
    BY <1>2 DEF IInv, TypeOK, CallbackInserts
  <2>2. /\ Insert(e, r) /\ moving' = None /\ moving[1] = r /\ moving[2] = e
        /\ UNCHANGED <<mainVars, gauge, submgrVars>>
    BY <1>2, <2>1 DEF CallbackInserts
  <2>3. eid[r] = e /\ \A k \in Keys : holder[k] # r
    BY <2>1, <2>2 DEF IInv, MovingInv
  <2>4. holder[e] # None => eid[holder[e]] # None /\ eid[holder[e]] = eid[r]
    BY <2>1, <2>3 DEF IInv, TypeOK, TableInv, Keys
  <2>5. Insertion(e, r)
    BY <2>2, <2>3, <2>4 DEF Insertion, Active, Stored
  <2>6. QED
    BY <2>5 DEF Keys
<1>3. QED
  BY <1>1, <1>2

(* Every other step keeps the table, or only takes one entry out of it.    *)
LEMMA TableChanges ==
  ASSUME IInv, [Next]_vars
  PROVE  \/ dictVars' = dictVars
         \/ \E r \in Requests : CallbackPops(r)
         \/ StoreSubscription \/ CallbackInserts
BY DEF Next, XAppThread, HttpThread, HandleRequest, SubMgr, Loop, Stop, Subscribe,
       SubscribeAnswered,
       SubscribeFails, ThreadReturns, CallbackDefers, HandleNotice, SubMgrNotifies,
       SubMgrCreates, Scrape, ScrapeCounters, ScrapeSamples, Serve,
       LookupBegins, HoldLock, ReleaseLock, LookupEnds, DispatchEnds, IterationFails,
       IterationContinues,
       IterationEnds, DeleteReturns, DeleteRaises, CloseServers, JoinAndExit, Signal,
       IdlePoll, Terminated, Receive, Unwind, tableVars, vars

-----------------------------------------------------------------------------
(* /metrics: while SubMgr has merged nothing, no subscription leaves the   *)
(* table, the entry being moved included, so its size bounds every earlier *)
(* reading from above.                                                     *)
NothingMerged == \A r, q \in Requests : Merged(r, q) => r = q

GaugeInv == NothingMerged => gauge <= Cardinality(InTable)

LEMMA InTableFinite ==
  ASSUME IInv
  PROVE  /\ InTable \subseteq Requests /\ IsFiniteSet(InTable)
         /\ Cardinality(InTable) \in Nat
<1>1. InTable \subseteq Requests
  BY TableFinite DEF IInv, TypeOK, InTable
<1>2. QED
  BY <1>1, FS_Subset, FS_CardinalityType, ConstantsAssumption

LEMMA NothingLeaves ==
  ASSUME IInv, NothingMerged, [Next]_vars
  PROVE  InTable \subseteq InTable'
<1> USE ConstantsAssumption
<1>1. CASE StoreSubscription \/ CallbackInserts
  <2>1. PICK k \in Keys, r \in Requests : Insertion(k, r)
    BY <1>1, InsertionStep
  <2>2. holder[k] = None
    <3>1. SUFFICES ASSUME holder[k] # None PROVE FALSE
      OBVIOUS
    <3>2. holder[k] \in Requests /\ Merged(holder[k], r)
      BY <2>1, <3>1 DEF Insertion, Merged, IInv, TypeOK
    <3>3. holder[k] = r
      BY <3>2 DEF NothingMerged
    <3>4. QED
      BY <2>1, <3>1, <3>3 DEF Insertion, Active, Stored
  <2>3. holder' = [holder EXCEPT ![k] = r] /\ moving' = None
    BY <2>1 DEF Insertion, Insert
  <2>4. Active' = Active \cup {r}
    BY <2>2, <2>3 DEF Active, Stored, IInv, TypeOK
  <2>5. QED
    BY <2>1, <2>3, <2>4 DEF InTable, Insertion
<1>2. CASE \E r \in Requests : CallbackPops(r)
  <2>1. PICK r \in Requests : CallbackPops(r)
    BY <1>2
  <2>2. /\ holder[r] = r /\ holder' = [holder EXCEPT ![r] = None]
        /\ moving = None /\ moving' = <<r, eid[r]>>
    BY <2>1 DEF CallbackPops, HandleNotice, IInv, TypeOK, LockInv, TableInv
  <2>3. moving' # None /\ moving'[1] = r
    BY <2>1, <2>2 DEF IInv, TypeOK, SubMgrInv, CallbackPops, HandleNotice
  <2>4. Active \subseteq Active' \cup {r}
    BY <2>2 DEF Active, Stored, IInv, TypeOK, Keys
  <2>5. QED
    BY <2>2, <2>3, <2>4 DEF InTable
<1>3. CASE dictVars' = dictVars /\ ~StoreSubscription /\ ~CallbackInserts
           /\ ~\E r \in Requests : CallbackPops(r)
  <2>1. UNCHANGED <<holder, moving>>
    BY <1>3 DEF Next, XAppThread, HttpThread, HandleRequest, SubMgr, Loop, Stop, Subscribe,
         SubscribeAnswered, SubscribeFails, ThreadReturns, CallbackDefers, HandleNotice,
         SubMgrNotifies,
         SubMgrCreates, Scrape, ScrapeCounters, ScrapeSamples, Serve, LookupBegins,
         HoldLock, ReleaseLock, LookupEnds, DispatchEnds, IterationFails,
         IterationContinues, IterationEnds, DeleteReturns, DeleteRaises, CloseServers,
         JoinAndExit, Signal, IdlePoll, Terminated, Receive, Unwind, dictVars, vars
  <2>2. QED
    BY <2>1 DEF InTable, Active, Stored
<1>4. QED
  BY <1>1, <1>2, <1>3, TableChanges

(* The gauge changes in a scrape only, which counts the whole table.       *)
LEMMA GaugeChanges ==
  ASSUME IInv, [Next]_vars
  PROVE  gauge' = gauge \/ (gauge' = Cardinality(InTable) /\ InTable' = InTable)
<1>1. CASE Scrape
  <2>1. moving = None /\ gauge' = Cardinality(Active) /\ UNCHANGED <<holder, moving>>
    BY <1>1 DEF Scrape, ScrapeCounters, ScrapeSamples, Serve, IInv, LockInv, tableVars,
                dictVars
  <2>2. QED
    BY <2>1 DEF InTable, Active, Stored
<1>2. CASE ~Scrape
  BY <1>2 DEF Next, Serve, ScrapeCounters, ScrapeSamples, XAppThread, HttpThread,
              HandleRequest, SubMgr, Loop, Stop, Subscribe,
       SubscribeAnswered, SubscribeFails, StoreSubscription, ThreadReturns, CallbackPops,
       HandleNotice,
       CallbackInserts, CallbackDefers, SubMgrNotifies, SubMgrCreates, LookupBegins,
       HoldLock, ReleaseLock,
       LookupEnds, DispatchEnds, IterationFails, IterationContinues, IterationEnds,
       DeleteReturns, DeleteRaises, CloseServers, JoinAndExit, Signal, IdlePoll, Terminated,
       Receive, Unwind, stopVars, vars
<1>3. QED
  BY <1>1, <1>2

LEMMA GaugeStep ==
  ASSUME IInv, IInv', AssignedInv, GaugeInv, [Next]_vars
  PROVE  GaugeInv' /\ (gauge' >= gauge \/ ~NothingMerged)
<1>1. NothingMerged' => NothingMerged
  BY AssignedStep DEF NothingMerged, Merged
<1>2. CASE ~NothingMerged
  BY <1>1, <1>2 DEF GaugeInv
<1>3. CASE NothingMerged
  <2>1. /\ InTable \subseteq InTable' /\ IsFiniteSet(InTable')
        /\ Cardinality(InTable) \in Nat /\ Cardinality(InTable') \in Nat
        /\ gauge <= Cardinality(InTable) /\ gauge \in Nat
    <3>1. InTable' \subseteq Requests
      BY DEF InTable, Active, Stored, IInv, TypeOK
    <3>2. IsFiniteSet(InTable') /\ Cardinality(InTable') \in Nat
      BY <3>1, FS_Subset, FS_CardinalityType, ConstantsAssumption
    <3>3. QED
      BY <1>3, <3>2, NothingLeaves, InTableFinite DEF GaugeInv, IInv, TypeOK
  <2>2. Cardinality(InTable) <= Cardinality(InTable')
    BY <2>1, FS_Subset
  <2>3. QED
    BY <2>1, <2>2, GaugeChanges DEF GaugeInv
<1>4. QED
  BY <1>2, <1>3

THEOREM AssignedInvHolds == Spec => []AssignedInv
<1>1. Init => AssignedInv
  BY DEF Init, AssignedInv
<1>2. IInv /\ AssignedInv /\ [Next]_vars => AssignedInv'
  BY AssignedStep
<1>3. QED
  BY <1>1, <1>2, Invariance, PTL DEF Spec

(* A scrape never shows fewer subscriptions than an earlier one unless     *)
(* SubMgr has merged two: the rename is invisible to it.                   *)
THEOREM ActiveSubscriptionsMonotoneHolds == Spec => ActiveSubscriptionsMonotone
<1>1. Init => GaugeInv
  <2>1. SUFFICES ASSUME Init PROVE 0 <= Cardinality(InTable) /\ gauge = 0
    BY DEF GaugeInv
  <2>2. QED
    BY <2>1, InitIInv, InTableFinite DEF Init
<1>2. IInv /\ IInv' /\ AssignedInv /\ GaugeInv /\ [Next]_vars => GaugeInv'
  BY GaugeStep
<1>3. IInv /\ IInv' /\ AssignedInv /\ GaugeInv /\ [Next]_vars
        => [gauge' >= gauge \/ \E r, q \in Requests : r # q /\ Merged(r, q)]_vars
  BY GaugeStep DEF NothingMerged
<1>4. QED
  BY <1>1, <1>2, <1>3, Invariance, AssignedInvHolds, PTL
     DEF Spec, ActiveSubscriptionsMonotone

-----------------------------------------------------------------------------
(* stop(): what unsubscribe_all has gone past, while the callback renames  *)
(* and replaces entries under its iterator.                                *)
Stopping == mpc \in {"iterate", "delete", "closing", "join", "exited"}

Visited == asked \cup (IF mpc = "delete" THEN {iter.target} ELSE {})

AskedFor(r) == \E q \in Visited : Merged(r, q)

(* Entries are ordered by distinct positions, and the iterator is behind   *)
(* every position still to be given out.                                   *)
SlotInv ==
  /\ \A k \in Stored : slot[k] \in 1..inserted
  /\ \A j, k \in Stored : slot[j] = slot[k] => j = k
  /\ ~disturbed => iter.last <= inserted

(* The iterator remembers how many subscriptions there were at the signal; *)
(* without additions there are no others, and one merged with what every   *)
(* entry behind the iterator holds was asked for.                          *)
IteratorInv ==
  Stopping =>
    /\ iter.size = Cardinality(atSignal)
    /\ ~disturbed =>
         /\ Active \subseteq atSignal
         /\ \A k \in Stored : slot[k] <= iter.last => AskedFor(holder[k])

(* After the last entry this is true of every subscription of the signal.  *)
AfterInv ==
  mpc \in {"closing", "join", "exited"} /\ ~disturbed =>
    \A r \in atSignal : \E q \in asked : Merged(r, q)

StopInv == SlotInv /\ IteratorInv /\ AfterInv

(* One key per subscription makes the two counts of the table agree.       *)
LEMMA ActiveCount ==
  ASSUME IInv
  PROVE  Cardinality(Active) = Cardinality(Stored)
<1> DEFINE f == [k \in Stored |-> holder[k]]
<1>1. f \in Bijection(Stored, Active)
  <2>1. f \in [Stored -> Active] /\ \A r \in Active : \E k \in Stored : f[k] = r
    BY DEF Active
  <2>2. \A j, k \in Stored : f[j] = f[k] => j = k
    BY DEF IInv, OneKeyPerSubscription
  <2>3. QED
    BY <2>1, <2>2, Fun_IsBij
<1>2. ExistsBijection(Stored, Active)
  BY <1>1 DEF ExistsBijection
<1>3. QED
  BY <1>2, TableFinite, FS_Bijection DEF IInv

(* Insertion keeps positions distinct and within those in use. *)
LEMMA InsertKeepsSlots ==
  ASSUME IInv, SlotInv, NEW k \in Keys, NEW r \in Requests, Insert(k, r)
  PROVE  /\ Stored' = Stored \cup {k}
         /\ \A j \in Stored' : slot'[j] \in 1..inserted'
         /\ \A i, j \in Stored' : slot'[i] = slot'[j] => i = j
         /\ k \notin Stored /\ ~Repacks(k) => slot'[k] = inserted + 1
         /\ ~Repacks(k) => inserted' >= inserted /\ \A j \in Stored : slot'[j] = slot[j]
<1> USE ConstantsAssumption
<1>1. /\ holder \in [Keys -> Requests \cup {None}] /\ slot \in [Keys -> Nat]
      /\ inserted \in Nat /\ Stored \subseteq Keys
      /\ \A j \in Stored : slot[j] \in 1..inserted
      /\ \A i, j \in Stored : slot[i] = slot[j] => i = j
  BY DEF IInv, TypeOK, SlotInv, Stored
<1>2. Stored' = Stored \cup {k}
  BY <1>1 DEF Stored, Insert
<1>3. CASE k \in Stored
  BY <1>1, <1>2, <1>3 DEF Insert, Repacks
<1>4. CASE k \notin Stored /\ ~Repacks(k)
  <2>1. slot' = [slot EXCEPT ![k] = inserted + 1] /\ inserted' = inserted + 1
    BY <1>4 DEF Insert
  <2>2. slot'[k] = inserted + 1 /\ \A j \in Stored : slot'[j] = slot[j]
    BY <1>1, <1>4, <2>1
  <2>3. QED
    BY <1>1, <1>2, <1>4, <2>1, <2>2
<1>5. CASE Repacks(k)
  <2> DEFINE n == Cardinality(Stored)
  <2>1. /\ slot' = [j \in Keys |-> IF j = k THEN n + 1 ELSE IF j \in Stored THEN Rank(j) ELSE 0]
        /\ inserted' = n + 1 /\ k \notin Stored
    BY <1>5 DEF Insert, Repacks
  <2>2. n \in Nat /\ \A j \in Stored : Rank(j) \in 1..n
    BY TableFinite, RankResult DEF IInv
  <2>3. \A i, j \in Stored : Rank(i) = Rank(j) => i = j
    BY <1>1, RankResult DEF IInv
  <2> HIDE DEF n
  <2>4. slot'[k] = n + 1 /\ \A j \in Stored : slot'[j] = Rank(j)
    BY <1>1, <2>1
  <2>5. QED
    BY <1>2, <1>5, <2>1, <2>2, <2>3, <2>4
<1>6. QED
  BY <1>3, <1>4, <1>5 DEF Repacks

(* An entry that an insertion replaces holds a subscription merged with    *)
(* the new one, and an entry that it adds is ahead of the iterator, if the *)
(* table is not re-packed.                                                 *)
LEMMA InsertionKeepsStopInv ==
  ASSUME IInv, StopInv, NEW k \in Keys, NEW r \in Requests, Insertion(k, r)
  PROVE  StopInv'
<1>1. /\ Insert(k, r)
      /\ holder' = [holder EXCEPT ![k] = r]
      /\ disturbed' = (disturbed \/ r \notin atSignal \/ Repacks(k))
      /\ UNCHANGED <<mpc, iter, asked, atSignal, eid>>
  BY DEF Insertion, Insert, mainVars, submgrVars
<1>2. /\ holder \in [Keys -> Requests \cup {None}] /\ slot \in [Keys -> Nat]
      /\ inserted \in Nat /\ iter.last \in Nat /\ None \notin Requests
      /\ eid \in [Requests -> E2Ids \cup {None}] /\ disturbed \in BOOLEAN
  BY ConstantsAssumption DEF IInv, TypeOK
<1>3. Stored' = Stored \cup {k} /\ Active' \subseteq Active \cup {r}
  BY <1>1, <1>2 DEF Stored, Active
<1>3a. /\ \A j \in Stored' : slot'[j] \in 1..inserted'
       /\ \A i, j \in Stored' : slot'[i] = slot'[j] => i = j
       /\ ~disturbed' => ~disturbed /\ r \in atSignal /\ ~Repacks(k)
       /\ k \notin Stored /\ ~Repacks(k) => slot'[k] = inserted + 1
       /\ ~Repacks(k) => inserted' >= inserted /\ \A j \in Stored : slot'[j] = slot[j]
  BY <1>1, InsertKeepsSlots DEF StopInv
<1>3b. inserted' \in Nat
  BY <1>1, InsertResult DEF IInv
<1>4. SlotInv'
  <2>1. ~disturbed' => iter.last <= inserted'
    BY <1>2, <1>3a, <1>3b DEF StopInv, SlotInv
  <2>2. QED
    BY <1>1, <1>3a, <2>1 DEF SlotInv
<1>5. IteratorInv'
  <2>1. SUFFICES ASSUME Stopping PROVE IteratorInv'
    BY <1>1 DEF IteratorInv, Stopping
  <2>2. iter'.size = Cardinality(atSignal') /\ (~disturbed' => Active' \subseteq atSignal')
    BY <1>1, <1>3, <1>3a, <2>1 DEF StopInv, IteratorInv
  <2>3. Visited' = Visited
    BY <1>1 DEF Visited
  <2>4. ASSUME ~disturbed', NEW j \in Stored', slot'[j] <= iter'.last
        PROVE  \E q \in Visited : Merged(holder'[j], q)
    <3>1. CASE j # k
      <4>1. j \in Stored /\ slot[j] <= iter.last /\ ~disturbed /\ holder'[j] = holder[j]
        BY <1>1, <1>2, <1>3, <1>3a, <2>4, <3>1 DEF Stored
      <4>2. QED
        BY <2>1, <4>1 DEF StopInv, IteratorInv, AskedFor
    <3>2. CASE j = k
      <4>1. holder[k] # None /\ k \in Stored /\ slot[k] <= iter.last /\ ~disturbed
        BY <1>1, <1>2, <1>3a, <2>4, <3>2 DEF StopInv, SlotInv, Stored
      <4>2. PICK q \in Visited : Merged(holder[k], q)
        BY <2>1, <4>1 DEF StopInv, IteratorInv, AskedFor
      <4>3. holder'[k] = r /\ eid[holder[k]] # None /\ eid[holder[k]] = eid[r]
        BY <1>1, <1>2, <4>1 DEF Insertion
      <4>4. Merged(r, q)
        BY <4>2, <4>3 DEF Merged
      <4>5. QED
        BY <3>2, <4>3, <4>4
    <3>3. QED
      BY <3>1, <3>2
  <2>5. ~disturbed' => \A j \in Stored' : slot'[j] <= iter'.last => AskedFor(holder[j])'
    BY <1>1, <2>3, <2>4 DEF AskedFor, Merged
  <2>6. QED
    BY <2>2, <2>5 DEF IteratorInv
<1>6. AfterInv'
  BY <1>1, <1>3a DEF StopInv, AfterInv, Merged
<1>7. QED
  BY <1>4, <1>5, <1>6 DEF StopInv

LEMMA PopKeepsStopInv ==
  ASSUME IInv, StopInv, NEW r \in Requests, CallbackPops(r)
  PROVE  StopInv'
<1>1. /\ holder' = [holder EXCEPT ![r] = None]
      /\ UNCHANGED <<slot, inserted, disturbed, mpc, iter, asked, atSignal, eid>>
  BY DEF CallbackPops, HandleNotice, mainVars
<1>2. holder \in [Keys -> Requests \cup {None}]
  BY DEF IInv, TypeOK
<1>3. Stored' \subseteq Stored /\ Active' \subseteq Active
      /\ \A k \in Stored' : holder'[k] = holder[k]
  BY <1>1, <1>2 DEF Stored, Active
<1>4. SlotInv' /\ AfterInv'
  BY <1>1, <1>3 DEF StopInv, SlotInv, AfterInv, Merged
<1>5. IteratorInv'
  BY <1>1, <1>3 DEF StopInv, IteratorInv, Stopping, AskedFor, Visited, Merged
<1>6. QED
  BY <1>4, <1>5 DEF StopInv

(* The other threads leave the table and the handler alone.                *)
LEMMA OthersKeepStopInv ==
  ASSUME IInv, AssignedInv, StopInv, [Next]_vars, UNCHANGED <<dictVars, disturbed, mainVars>>
  PROVE  StopInv'
<1>1. UNCHANGED <<holder, slot, inserted, disturbed, mpc, iter, asked, atSignal>>
      /\ Stored' = Stored /\ Active' = Active /\ Visited' = Visited
  BY DEF dictVars, mainVars, Stored, Active, Visited
<1>2. /\ \A k \in Stored : holder[k] \in Requests
      /\ Visited \subseteq Requests /\ asked \subseteq Requests /\ atSignal \subseteq Requests
  BY DEF IInv, TypeOK, ControlInv, Visited, Stored
<1>3. \A r, q \in Requests : Merged(r, q) => Merged(r, q)'
  BY AssignedStep
<1>4. SlotInv'
  BY <1>1 DEF StopInv, SlotInv
<1>5. AfterInv'
  BY <1>1, <1>2, <1>3 DEF StopInv, AfterInv
<1>6. IteratorInv'
  <2>1. \A r \in Requests : AskedFor(r) => AskedFor(r)'
    BY <1>1, <1>2, <1>3 DEF AskedFor
  <2>2. QED
    BY <1>1, <1>2, <2>1 DEF StopInv, IteratorInv, Stopping
<1>7. QED
  BY <1>4, <1>5, <1>6 DEF StopInv

(* Outside the handler only the positions matter.                          *)
LEMMA LeavingKeepsStopInv ==
  ASSUME IInv, StopInv, UNCHANGED <<dictVars, disturbed>>, iter' = iter \/ iter' = NoIterator,
         mpc' \notin {"iterate", "delete", "closing", "join", "exited"}
  PROVE  StopInv'
<1>1. ~disturbed => iter'.last <= inserted
  BY DEF StopInv, SlotInv, IInv, TypeOK, NoIterator
<1>2. SlotInv'
  BY <1>1 DEF StopInv, SlotInv, dictVars, Stored
<1>3. IteratorInv' /\ AfterInv'
  BY DEF IteratorInv, AfterInv, Stopping
<1>4. QED
  BY <1>2, <1>3 DEF StopInv

LEMMA SignalKeepsStopInv ==
  ASSUME IInv, StopInv, Signal
  PROVE  StopInv'
<1>1. /\ UNCHANGED <<holder, slot, inserted, asked, eid>>
      /\ mpc' = "iterate" /\ atSignal' = Active
      /\ iter'.size = Cardinality(Stored) /\ iter'.last = 0
  BY DEF Signal, dictVars, submgrVars
<1>2. Stored' = Stored /\ Active' = Active
  BY <1>1 DEF Stored, Active
<1>3. inserted \in Nat /\ \A k \in Stored : slot[k] \in 1..inserted
  BY DEF IInv, TypeOK, StopInv, SlotInv
<1>4. SlotInv'
  BY <1>1, <1>2, <1>3 DEF StopInv, SlotInv
<1>5. AfterInv'
  BY <1>1 DEF AfterInv
<1>6. IteratorInv'
  <2>1. iter'.size = Cardinality(atSignal') /\ Active' \subseteq atSignal'
    BY <1>1, <1>2, ActiveCount
  <2>2. \A k \in Stored' : ~(slot'[k] <= iter'.last)
    BY <1>1, <1>2, <1>3
  <2>3. QED
    BY <2>1, <2>2 DEF IteratorInv
<1>7. QED
  BY <1>4, <1>5, <1>6 DEF StopInv

(* The next entry is the first one ahead: whatever is then behind was      *)
(* behind before, or is that entry.                                        *)
LEMMA ContinuesKeepsStopInv ==
  ASSUME IInv, StopInv, NEW k \in Keys, IterationContinues(k)
  PROVE  StopInv'
<1>1. /\ mpc = "iterate" /\ mpc' = "delete"
      /\ UNCHANGED <<holder, slot, inserted, disturbed, asked, atSignal, eid>>
      /\ k \in Stored /\ slot[k] > iter.last
      /\ \A j \in Stored : slot[j] > iter.last => slot[k] <= slot[j]
      /\ iter' = [iter EXCEPT !.last = slot[k], !.left = @ - 1, !.target = holder[k]]
  BY DEF IterationContinues, Main, Unvisited, tableVars, dictVars, submgrVars
<1>2. /\ iter'.size = iter.size /\ iter'.last = slot[k] /\ iter'.target = holder[k]
      /\ slot \in [Keys -> Nat] /\ inserted \in Nat /\ iter.last \in Nat
  <2>1. iter \in [size : Nat, last : Nat, left : Nat, target : Requests \cup {None}]
        /\ slot \in [Keys -> Nat] /\ inserted \in Nat
    BY DEF IInv, TypeOK
  <2>2. QED
    BY <1>1, <2>1
<1>3. Stored' = Stored /\ Active' = Active /\ Stored \subseteq Keys
  BY <1>1 DEF Stored, Active
<1>4. SlotInv'
  BY <1>1, <1>2, <1>3 DEF StopInv, SlotInv
<1>5. AfterInv'
  BY <1>1 DEF AfterInv
<1>6. IteratorInv'
  <2>1. Visited' = asked \cup {holder[k]} /\ Visited = asked
    BY <1>1, <1>2 DEF Visited
  <2>2. ASSUME ~disturbed, NEW j \in Stored, slot[j] <= slot[k]
        PROVE  \E q \in Visited' : Merged(holder[j], q)
    <3>1. CASE slot[j] <= iter.last
      BY <1>1, <2>1, <2>2, <3>1 DEF StopInv, IteratorInv, Stopping, AskedFor
    <3>2. CASE ~(slot[j] <= iter.last)
      <4>1. slot[j] = slot[k]
        BY <1>1, <1>2, <1>3, <2>2, <3>2
      <4>2. j = k
        BY <1>1, <4>1 DEF StopInv, SlotInv
      <4>3. QED
        BY <2>1, <4>2 DEF Merged
    <3>3. QED
      BY <3>1, <3>2
  <2>3. ~disturbed => \A j \in Stored' : slot'[j] <= iter'.last => AskedFor(holder[j])'
    BY <1>1, <1>2, <1>3, <2>2 DEF AskedFor, Merged
  <2>4. QED
    BY <1>1, <1>2, <1>3, <2>3 DEF StopInv, IteratorInv, Stopping
<1>7. QED
  BY <1>4, <1>5, <1>6 DEF StopInv

LEMMA DeleteKeepsStopInv ==
  ASSUME IInv, StopInv, NEW status \in {204, 503}, DeleteReturns(status)
  PROVE  StopInv'
<1>1. /\ mpc = "delete" /\ mpc' = "iterate" /\ asked' = asked \cup {iter.target}
      /\ UNCHANGED <<holder, slot, inserted, disturbed, iter, atSignal, eid>>
  BY DEF DeleteReturns, Main, tableVars, dictVars
<1>2. Stored' = Stored /\ Active' = Active /\ Visited' = Visited
  BY <1>1 DEF Stored, Active, Visited
<1>3. SlotInv' /\ AfterInv'
  BY <1>1, <1>2 DEF StopInv, SlotInv, AfterInv
<1>4. IteratorInv'
  BY <1>1, <1>2 DEF StopInv, IteratorInv, Stopping, AskedFor, Merged
<1>5. QED
  BY <1>3, <1>4 DEF StopInv

(* The iterator has seen as many entries as there were at the signal: a    *)
(* table without additions and of that size is the table of the signal.    *)
LEMMA EndsKeepsStopInv ==
  ASSUME IInv, StopInv, IterationEnds
  PROVE  StopInv'
<1>1. /\ mpc = "iterate" /\ mpc' = "closing"
      /\ UNCHANGED <<holder, slot, inserted, disturbed, iter, asked, atSignal, eid>>
      /\ Cardinality(Stored) = iter.size
      /\ \A k \in Stored : ~(slot[k] > iter.last)
  BY DEF IterationEnds, Main, Unvisited, tableVars, dictVars, submgrVars
<1>2. Stored' = Stored /\ Active' = Active /\ Visited = asked /\ Visited' = asked
  BY <1>1 DEF Stored, Active, Visited
<1>3. SlotInv'
  BY <1>1, <1>2 DEF StopInv, SlotInv
<1>4. IteratorInv'
  BY <1>1, <1>2 DEF StopInv, IteratorInv, Stopping, AskedFor, Merged
<1>5. ASSUME ~disturbed, NEW r \in atSignal
      PROVE  \E q \in asked : Merged(r, q)
  <2>1. Active \subseteq atSignal /\ Cardinality(Active) = Cardinality(atSignal)
    BY <1>1, <1>5, ActiveCount DEF StopInv, IteratorInv, Stopping
  <2>2. IsFiniteSet(atSignal)
    BY FS_Subset, ConstantsAssumption DEF IInv, TypeOK
  <2>3. Active = atSignal
    BY <2>1, <2>2, FS_Subset
  <2>4. PICK k \in Stored : holder[k] = r
    BY <2>3 DEF Active
  <2>5. slot[k] <= iter.last
    <3>1. slot[k] \in Nat /\ iter.last \in Nat
      BY DEF IInv, TypeOK, Stored
    <3>2. QED
      BY <1>1, <3>1
  <2>6. QED
    BY <1>1, <1>2, <1>5, <2>4, <2>5 DEF StopInv, IteratorInv, Stopping, AskedFor
<1>6. AfterInv'
  BY <1>1, <1>5 DEF AfterInv, Merged
<1>7. QED
  BY <1>3, <1>4, <1>6 DEF StopInv

LEMMA ExitKeepsStopInv ==
  ASSUME IInv, StopInv, CloseServers \/ JoinAndExit
  PROVE  StopInv'
<1>1. /\ mpc \in {"closing", "join"} /\ mpc' \in {"join", "exited"}
      /\ UNCHANGED <<holder, slot, inserted, disturbed, iter, asked, atSignal, eid>>
  BY DEF CloseServers, JoinAndExit, Main, stopVars, tableVars, dictVars, submgrVars
<1>2. Stored' = Stored /\ Active' = Active /\ Visited = asked /\ Visited' = asked
  BY <1>1 DEF Stored, Active, Visited
<1>3. SlotInv' /\ AfterInv'
  BY <1>1, <1>2 DEF StopInv, SlotInv, AfterInv, Merged
<1>4. IteratorInv'
  BY <1>1, <1>2 DEF StopInv, IteratorInv, Stopping, AskedFor, Merged
<1>5. QED
  BY <1>3, <1>4 DEF StopInv

LEMMA StopInvStep ==
  ASSUME IInv, AssignedInv, StopInv, [Next]_vars
  PROVE  StopInv'
<1>1. CASE StoreSubscription \/ CallbackInserts
  BY <1>1, InsertionStep, InsertionKeepsStopInv
<1>2. CASE \E r \in Requests : CallbackPops(r)
  BY <1>2, PopKeepsStopInv
<1>3. CASE Signal
  BY <1>3, SignalKeepsStopInv
<1>4. CASE \E k \in Keys : IterationContinues(k)
  BY <1>4, ContinuesKeepsStopInv
<1>5. CASE \E status \in {204, 503} : DeleteReturns(status)
  BY <1>5, DeleteKeepsStopInv
<1>6. CASE IterationEnds \/ CloseServers \/ JoinAndExit
  BY <1>6, EndsKeepsStopInv, ExitKeepsStopInv
<1>7. CASE IterationFails \/ DeleteRaises
  <2>1. Unwind
    BY <1>7 DEF IterationFails, DeleteRaises
  <2>2. QED
    BY <2>1, LeavingKeepsStopInv DEF Unwind, tableVars
<1>8. CASE \/ LookupBegins \/ LookupEnds \/ DispatchEnds
           \/ \E r \in Requests, id \in E2Ids \cup {None} : Receive(r, id)
  <2>1. UNCHANGED <<dictVars, disturbed, iter>> /\ mpc' \in {"poll", "handle", "lookup", "dispatch"}
    BY <1>8 DEF LookupBegins, LookupEnds, DispatchEnds, Receive, Main, stopVars, tableVars
  <2>2. QED
    BY <2>1, LeavingKeepsStopInv
<1>9. CASE \/ SubscribeAnswered \/ SubscribeFails \/ ThreadReturns \/ SubMgr
           \/ ScrapeCounters \/ Scrape \/ ScrapeSamples \/ ReleaseLock
           \/ \E l \in OtherLocks : HoldLock(l)
           \/ \E request \in {"notice", "counters"} : Serve(request)
           \/ \E r \in Requests : Subscribe(r) \/ CallbackDefers(r)
           \/ IdlePoll \/ Terminated \/ UNCHANGED vars
  <2>1. UNCHANGED <<dictVars, disturbed, mainVars>>
    BY <1>9 DEF HoldLock, ReleaseLock, SubscribeAnswered, SubscribeFails, ThreadReturns,
                SubMgr, SubMgrNotifies,
                SubMgrCreates, Scrape, ScrapeCounters, ScrapeSamples, Serve, Subscribe,
                CallbackDefers, HandleNotice, IdlePoll, Terminated,
                tableVars, vars
  <2>2. QED
    BY <2>1, OthersKeepStopInv
<1>10. QED
  BY <1>1, <1>2, <1>3, <1>4, <1>5, <1>6, <1>7, <1>8, <1>9
     DEF Next, XAppThread, HttpThread, HandleRequest, Loop, Stop

(* A clean exit has asked SubMgr about every subscription of the signal.   *)
THEOREM CleanExitAsksAllHolds == Spec => []CleanExitAsksAll
<1>1. Init => StopInv
  BY DEF Init, StopInv, SlotInv, IteratorInv, AfterInv, Stopping, Stored, NoIterator
<1>2. IInv /\ AssignedInv /\ StopInv /\ [Next]_vars => StopInv'
  BY StopInvStep
<1>3. StopInv => CleanExitAsksAll
  BY DEF StopInv, AfterInv, CleanExitAsksAll
<1>4. QED
  BY <1>1, <1>2, <1>3, Invariance, AssignedInvHolds, PTL DEF Spec

-----------------------------------------------------------------------------
(* The refinement: the abstract directory sees the instance keys as its    *)
(* routes, the REST keys and the entry being moved as accepted, and the    *)
(* pending announcements as announced.                                     *)
Route == [e \in E2Ids |-> holder[e]]
Accepted == {r \in Requests : holder[r] # None \/ (moving # None /\ moving[1] = r)}

LEMMA StoreRefines ==
  ASSUME IInv, StoreSubscription, NEW r \in Requests, r = cur PROVE Directory!Accept(r)
<1> USE ConstantsAssumption
<1>1. /\ moving = None /\ moving' = None
      /\ r \notin Accepted /\ \A e \in E2Ids : Route[e] # r
  BY DEF IInv, TypeOK, LockInv, ControlInv, TableInv, StoreSubscription, Keys, Accepted,
         Route
<1>2. pending' = [pending EXCEPT ![r] = None]
  BY DEF StoreSubscription
<1>3. CASE pending[r] = None
  <2>1. holder' = [holder EXCEPT ![r] = r]
    BY <1>3 DEF StoreSubscription, Insert
  <2>2. Accepted' = Accepted \cup {r} /\ Route' = Route /\ pending' = pending
    BY <1>1, <1>2, <1>3, <2>1 DEF IInv, TypeOK, Accepted, Route, Keys
  <2>3. QED
    BY <1>1, <1>3, <2>2 DEF Directory!Accept, Accepted, Route
<1>4. CASE pending[r] # None
  <2>1. pending[r] \in E2Ids /\ holder' = [holder EXCEPT ![pending[r]] = r]
    BY <1>1, <1>4 DEF StoreSubscription, Insert, IInv, TypeOK
  <2>2. \A q \in Requests : holder'[q] = holder[q]
    BY <2>1 DEF IInv, TypeOK, Keys
  <2>2a. Accepted' = Accepted
    BY <1>1, <2>2 DEF Accepted
  <2>2b. Route' = [Route EXCEPT ![pending[r]] = r]
    BY <2>1 DEF IInv, TypeOK, Route, Keys
  <2>3. QED
    BY <1>1, <1>2, <1>4, <2>2a, <2>2b DEF Directory!Accept, Accepted, Route
<1>5. QED
  BY <1>3, <1>4

LEMMA PopRefines ==
  ASSUME IInv, NEW r \in Requests, CallbackPops(r)
  PROVE  Route' = Route /\ Accepted' = Accepted /\ pending' = pending
<1> USE ConstantsAssumption
<1>1. /\ holder[r] = r /\ moving = None /\ moving' = <<r, eid[r]>> /\ eid[r] \in E2Ids
      /\ holder' = [holder EXCEPT ![r] = None] /\ pending' = pending
  BY DEF IInv, TypeOK, LockInv, SubMgrInv, TableInv, CallbackPops, HandleNotice
<1>2. moving' # None /\ moving'[1] = r
  BY <1>1
<1>3. Route' = Route
  BY <1>1 DEF IInv, TypeOK, Route, Keys
<1>4. Accepted' = Accepted
  BY <1>1, <1>2 DEF IInv, TypeOK, Accepted, Keys
<1>5. QED
  BY <1>1, <1>3, <1>4

LEMMA InsertRefines ==
  ASSUME IInv, CallbackInserts
  PROVE  \E r \in Requests, e \in E2Ids : Directory!Announce(r, e)
<1> USE ConstantsAssumption
<1>0. PICK r \in Requests, e \in E2Ids : moving = <<r, e>>
  BY DEF IInv, TypeOK, CallbackInserts
<1>1. /\ moving # None /\ moving[1] = r /\ moving[2] = e
      /\ moving' = None /\ pending' = pending
      /\ holder' = [holder EXCEPT ![e] = r]
  BY <1>0 DEF CallbackInserts, Insert
<1>1a. holder[r] = None
  BY <1>1 DEF IInv, MovingInv, TableInv, Keys
<1>2. r \in Accepted /\ Accepted' = Accepted \ {r}
  BY <1>1, <1>1a DEF IInv, TypeOK, Accepted, Keys
<1>3. Route' = [Route EXCEPT ![e] = r]
  BY <1>1 DEF IInv, TypeOK, Route, Keys
<1>4. Directory!Announce(r, e)
  BY <1>1, <1>2, <1>3 DEF Directory!Announce, Accepted, Route
<1>5. QED
  BY <1>4

LEMMA DeferRefines ==
  ASSUME IInv, NEW r \in Requests, CallbackDefers(r)
  PROVE  \E e \in E2Ids : Directory!Announce(r, e)
<1> USE ConstantsAssumption
<1>1. /\ moving = None /\ moving' = None /\ holder[r] = None /\ holder' = holder
      /\ pending' = [pending EXCEPT ![r] = eid[r]] /\ eid[r] \in E2Ids
  BY DEF dictVars, IInv, TypeOK, LockInv, SubMgrInv, CallbackDefers, HandleNotice
<1>2. r \notin Accepted /\ Accepted' = Accepted /\ Route' = Route
  BY <1>1 DEF Accepted, Route
<1>3. QED
  BY <1>1, <1>2 DEF Directory!Announce, Accepted, Route

(* The table, with its lock, its two-step rename and its threads, refines  *)
(* the directory that joins the two answers of SubMgr in either order.     *)
THEOREM Refinement == Spec => ImplementsDirectory
<1> USE ConstantsAssumption
<1>1. Init => Directory!DirInit
  BY DEF Init, Directory!DirInit, Keys
<1>2. IInv /\ IInv' /\ [Next]_vars => [Directory!DirNext]_(Directory!dirVars)
  <2> SUFFICES ASSUME IInv, IInv', [Next]_vars
               PROVE  Directory!DirNext \/ UNCHANGED <<Route, Accepted, pending>>
    BY DEF Directory!dirVars, Route, Accepted
  <2>1. CASE UNCHANGED vars
    BY <2>1 DEF vars, tableVars, dictVars, Route, Accepted
  <2>2. CASE StoreSubscription
    <3>1. PICK r \in Requests : r = cur
      BY <2>2 DEF IInv, TypeOK, ControlInv, StoreSubscription
    <3>2. Directory!Accept(r)
      BY <2>2, <3>1, StoreRefines
    <3>3. QED
      BY <3>2 DEF Directory!DirNext
  <2>3. CASE \E r \in Requests : CallbackPops(r)
    BY <2>3, PopRefines
  <2>4. CASE CallbackInserts
    BY <2>4, InsertRefines DEF Directory!DirNext
  <2>5. CASE \E r \in Requests : CallbackDefers(r)
    BY <2>5, DeferRefines DEF Directory!DirNext
  <2>6. CASE \/ SubscribeAnswered \/ SubscribeFails \/ ThreadReturns \/ SubMgr
             \/ \E r \in Requests : Subscribe(r)
    BY <2>6 DEF SubscribeAnswered, SubscribeFails, ThreadReturns, Subscribe, SubMgr,
                SubMgrNotifies, SubMgrCreates, tableVars, dictVars, Route, Accepted
  <2>7. CASE \/ ScrapeCounters \/ Scrape \/ ScrapeSamples
             \/ \E request \in {"notice", "counters"} : Serve(request)
             \/ Loop \/ Stop \/ Signal
             \/ \E r \in Requests, id \in E2Ids \cup {None} : Receive(r, id)
    BY <2>7 DEF Scrape, ScrapeCounters, ScrapeSamples, Serve, Loop, LookupBegins,
                HoldLock, ReleaseLock, LookupEnds, DispatchEnds, Receive, Signal, Stop,
                IterationFails, IterationContinues, IterationEnds, DeleteReturns,
                DeleteRaises, CloseServers, JoinAndExit, Unwind, tableVars, dictVars,
                Route, Accepted
  <2>8. QED
    BY <2>1, <2>2, <2>3, <2>4, <2>5, <2>6, <2>7
       DEF Next, XAppThread, HttpThread, HandleRequest, IdlePoll, Terminated
<1>3. QED
  BY <1>1, <1>2, Invariance, PTL DEF Spec, ImplementsDirectory, Directory!DirSpec
=============================================================================
