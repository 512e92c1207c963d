----------------------- MODULE SubscriptionDirectory -----------------------
(***************************************************************************)
(* What the subscription bookkeeping of xAppBase promises, without its     *)
(* threads, its lock or its dictionary: a subscription becomes reachable   *)
(* by the id its indications carry as soon as both halves of the           *)
(* asynchronous SubMgr exchange have arrived, in whichever order.          *)
(***************************************************************************)
CONSTANTS Requests,  (* subscriptions the xApp asks SubMgr for             *)
          E2Ids,     (* E2EventInstanceId values carried by indications    *)
          None

VARIABLES route,     (* the subscription an instance id is dispatched to   *)
          accepted,  (* answered by SubMgr, instance id not announced yet  *)
          announced  (* instance ids announced and not consumed            *)

dirVars == <<route, accepted, announced>>

DirInit ==
  /\ route = [e \in E2Ids |-> None]
  /\ accepted = {}
  /\ announced = [r \in Requests |-> None]

(* The answer to POST /subscriptions names r for the first time. *)
Accept(r) ==
  /\ r \notin accepted
  /\ \A e \in E2Ids : route[e] # r
  /\ \/ /\ announced[r] = None
        /\ accepted' = accepted \cup {r}
        /\ UNCHANGED <<route, announced>>
     \/ /\ announced[r] # None
        /\ route' = [route EXCEPT ![announced[r]] = r]
        /\ announced' = [announced EXCEPT ![r] = None]
        /\ UNCHANGED accepted

(* SubMgr announces that the indications of r carry e. *)
Announce(r, e) ==
  \/ /\ r \in accepted
     /\ route' = [route EXCEPT ![e] = r]
     /\ accepted' = accepted \ {r}
     /\ UNCHANGED announced
  \/ /\ r \notin accepted
     /\ announced' = [announced EXCEPT ![r] = e]
     /\ UNCHANGED <<route, accepted>>

DirNext == \E r \in Requests : Accept(r) \/ \E e \in E2Ids : Announce(r, e)

DirSpec == DirInit /\ [][DirNext]_dirVars

(* An evicted request (two announcements with one id) may be accepted      *)
(* again in this abstraction; the implementation never does so.            *)
=============================================================================
