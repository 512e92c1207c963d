------------------------- MODULE XAppSubscriptions -------------------------
(***************************************************************************)
(* The subscription table of xAppBase and the three threads that touch it: *)
(*   - the xApp thread started by start_function, which calls subscribe()  *)
(*     and blocks on the REST answer of SubMgr;                            *)
(*   - the HTTP server thread, which runs _subscription_response_callback; *)
(*   - the main thread, which runs the RMR loop _run and, on top of        *)
(*     whatever bytecode it was executing, the signal handler stop().      *)
(* SubMgr is external and modelled by what the code does with its answers. *)
(*                                                                         *)
(* my_subscriptions is a Python dict of CPython 3.11 (the base image of    *)
(* dockerfiles/xapp/Dockerfile.runner): `holder` is its contents, `slot`   *)
(* the position that iteration follows, `inserted` the positions in use.   *)
(* A deleted entry leaves a hole; a table that is full, or that holds      *)
(* strings only and is given its first number, is re-packed without holes. *)
(* REST ids are strings, instance ids numbers.                             *)
(***************************************************************************)
EXTENDS Naturals, FiniteSets

CONSTANTS Requests,    (* the subscribe() calls of one process, by REST id *)
          E2Ids,       (* E2EventInstanceId values SubMgr may announce     *)
          None,
          SharedIds,   (* SubMgr may announce one id for two requests      *)
          Faulty,      (* SubMgr may refuse or drop a POST or a DELETE     *)
          OtherLocks,  (* "metrics" and, in kpm_mon_tmt_xapp, "monitor";   *)
                       (* none: the loop is not followed while it counts   *)
          Room(_),     (* insertions a table re-packed with n entries takes *)
          MaxNotices,  (* bound: notifications SubMgr sends per request    *)
          MaxSignals   (* bound: SIGTERM/SIGINT/SIGQUIT deliveries         *)

ASSUME ConstantsAssumption ==
  /\ IsFiniteSet(Requests) /\ IsFiniteSet(E2Ids)
  /\ Requests \cap E2Ids = {}
  /\ None \notin Requests \cup E2Ids
  /\ None \notin Requests \X E2Ids
  /\ None \notin [owner : Requests, id : E2Ids \cup {None}]
  /\ SharedIds \in BOOLEAN
  /\ Faulty \in BOOLEAN
  /\ OtherLocks \subseteq {"metrics", "monitor"}
  /\ \A n \in 0..Cardinality(Requests \cup E2Ids) : Room(n) \in Nat \ {0}
  /\ MaxNotices \in Nat
  /\ MaxSignals \in Nat

VARIABLES
  holder,    (* my_subscriptions: key -> subscription or None              *)
  slot,      (* position of each key in the dict's iteration order         *)
  inserted,  (* last position in use, holes included                       *)
  room,      (* insertions left before the table is re-packed              *)
  general,   (* the table is laid out for keys other than strings          *)
  pending,   (* _pending_event_instance_ids                                *)
  disturbed, (* history: an addition or a re-packing since the last signal *)
  lock,      (* owner of _subscription_lock                                *)
  held,      (* which of the other locks the main thread holds             *)
  serving,   (* the request that the HTTP server's thread is handling      *)
  moving,    (* <<r, e>> between the pop and the insert of the callback    *)
  cur,       (* the request the xApp thread is subscribing                 *)
  xpc,       (* xApp thread                                                *)
  mpc,       (* main thread                                                *)
  resume,    (* where the main thread was when the signal arrived          *)
  ind,       (* the RIC indication being handled                           *)
  disp,      (* the subscription whose callback runs                       *)
  iter,      (* state of the dict iterator of unsubscribe_all              *)
  atSignal,  (* history: subscriptions in the table at the last signal     *)
  asked,     (* history: subscriptions a DELETE was sent for               *)
  gauge,     (* oran_xapp_active_subscriptions at the last scrape          *)
  signals,   (* signals delivered                                          *)
  sm,        (* SubMgr: state of each subscription                         *)
  eid,       (* SubMgr: instance id of each subscription                   *)
  notices,   (* SubMgr: notifications sent for each subscription           *)
  net        (* notifications posted and not yet served                    *)

layout     == <<slot, inserted, room, general>>
dictVars   == <<holder, layout>>
tableVars  == <<dictVars, pending, disturbed>>
mainVars   == <<mpc, resume, ind, disp, iter, atSignal, asked, signals>>
xappVars   == <<cur, xpc>>
locks      == <<lock, held>>
httpVars   == <<gauge, serving>>
submgrVars == <<sm, eid, notices, net>>
vars == <<tableVars, locks, moving, xappVars, mainVars, httpVars, submgrVars>>

Keys == Requests \cup E2Ids          \* REST ids and instance ids share the dict
Stored == {k \in Keys : holder[k] # None}
Active == {holder[k] : k \in Stored}

(* A new key needs a position, and there is none left or none of its kind. *)
Repacks(k) == k \notin Stored /\ (room = 0 \/ (~general /\ k \in E2Ids))

(* Re-packed entries keep their order.                                     *)
Rank(k) == Cardinality({j \in Stored : slot[j] <= slot[k]})

(* Insertion of a key: a new key goes to the end, an existing one keeps    *)
(* its place and loses its value. A subscription that was not in the table *)
(* at the last signal is an addition.                                      *)
Insert(k, r) ==
  /\ holder' = [holder EXCEPT ![k] = r]
  /\ general' = (general \/ k \in E2Ids)
  /\ disturbed' = (disturbed \/ r \notin atSignal \/ Repacks(k))
  /\ \/ k \in Stored /\ UNCHANGED <<slot, inserted, room>>
     \/ /\ k \notin Stored /\ ~Repacks(k)
        /\ slot' = [slot EXCEPT ![k] = inserted + 1]
        /\ inserted' = inserted + 1
        /\ room' = room - 1
     \/ /\ Repacks(k)
        /\ slot' = [j \in Keys |-> IF j = k THEN Cardinality(Stored) + 1
                                  ELSE IF j \in Stored THEN Rank(j) ELSE 0]
        /\ inserted' = Cardinality(Stored) + 1
        /\ room' = Room(Cardinality(Stored)) - 1

NoIterator == [size |-> 0, last |-> 0, left |-> 0, target |-> None]

TypeOK ==
  /\ holder \in [Keys -> Requests \cup {None}]
  /\ slot \in [Keys -> Nat]
  /\ inserted \in Nat
  /\ room \in Nat
  /\ general \in BOOLEAN
  /\ pending \in [Requests -> E2Ids \cup {None}]
  /\ disturbed \in BOOLEAN
  /\ lock \in {"free", "main", "http"}
  /\ held \in OtherLocks \cup {"none"}
  /\ serving \in {"none", "notice", "counters", "table", "samples"}
  /\ moving \in (Requests \X E2Ids) \cup {None}
  /\ cur \in Requests \cup {None}
  /\ xpc \in {"ready", "waiting", "answered", "finished"}
  /\ mpc \in {"poll", "handle", "lookup", "dispatch", "iterate", "delete",
              "closing", "join", "exited", "crashed"}
  /\ resume \in {"poll", "handle", "lookup", "dispatch"}
  /\ ind \in [owner : Requests, id : E2Ids \cup {None}] \cup {None}
  /\ disp \in Requests \cup {None}
  /\ iter \in [size : Nat, last : Nat, left : Nat, target : Requests \cup {None}]
  /\ atSignal \subseteq Requests
  /\ asked \subseteq Requests
  /\ gauge \in Nat
  /\ signals \in Nat
  /\ sm \in [Requests -> {"unknown", "active", "deleted"}]
  /\ eid \in [Requests -> E2Ids \cup {None}]
  /\ notices \in [Requests -> Nat]
  /\ net \subseteq Requests

Init ==
  /\ holder = [k \in Keys |-> None]
  /\ slot = [k \in Keys |-> 0]
  /\ inserted = 0
  /\ room = Room(0)
  /\ general = FALSE
  /\ pending = [r \in Requests |-> None]
  /\ disturbed = FALSE
  /\ lock = "free"
  /\ held = "none"
  /\ serving = "none"
  /\ moving = None
  /\ cur = None
  /\ xpc = "ready"
  /\ mpc = "poll"
  /\ resume = "poll"
  /\ ind = None
  /\ disp = None
  /\ iter = NoIterator
  /\ atSignal = {}
  /\ asked = {}
  /\ gauge = 0
  /\ signals = 0
  /\ sm = [r \in Requests |-> "unknown"]
  /\ eid = [r \in Requests |-> None]
  /\ notices = [r \in Requests |-> 0]
  /\ net = {}

-----------------------------------------------------------------------------
(* The xApp thread *)

(* subscribe() issues the POST and blocks until it is answered. *)
Subscribe(r) ==
  /\ xpc = "ready" /\ sm[r] = "unknown" /\ cur # r
  /\ cur' = r
  /\ xpc' = "waiting"
  /\ UNCHANGED <<tableVars, locks, moving, mainVars, httpVars, submgrVars>>

(* The REST answer reaches the thread: its id is known but not yet stored. *)
SubscribeAnswered ==
  /\ xpc = "waiting" /\ sm[cur] = "active"
  /\ xpc' = "answered"
  /\ UNCHANGED <<tableVars, locks, moving, cur, mainVars, httpVars, submgrVars>>

(* A refused or lost POST raises in subscribe() - the status is not        *)
(* checked, the body has no SubscriptionId - and ends the thread.          *)
SubscribeFails ==
  /\ Faulty /\ xpc = "waiting"
  /\ xpc' = "finished"
  /\ UNCHANGED <<tableVars, locks, moving, cur, mainVars, httpVars, submgrVars>>

(* Mutant: an announcement that came first is not looked at. *)
StoreIgnoringPending ==
  /\ xpc = "answered" /\ lock = "free"
  /\ Insert(cur, cur)
  /\ xpc' = "ready"
  /\ UNCHANGED <<pending, locks, moving, cur, mainVars, httpVars, submgrVars>>

(* The critical section of subscribe(): consume an early announcement, or  *)
(* store the subscription under its REST id.                               *)
StoreSubscription ==
  /\ xpc = "answered" /\ lock = "free"
  /\ LET key == IF pending[cur] = None THEN cur ELSE pending[cur]
     IN  Insert(key, cur)
  /\ pending' = [pending EXCEPT ![cur] = None]
  /\ xpc' = "ready"
  /\ UNCHANGED <<locks, moving, cur, mainVars, httpVars, submgrVars>>

(* The function given to start_function returns. *)
ThreadReturns ==
  /\ xpc = "ready" /\ cur # None
  /\ xpc' = "finished"
  /\ UNCHANGED <<tableVars, locks, moving, cur, mainVars, httpVars, submgrVars>>

-----------------------------------------------------------------------------
(* SubMgr *)

(* SubMgr creates the subscription and assigns its instance id. *)
SubMgrCreates(r, e) ==
  /\ xpc = "waiting" /\ cur = r /\ sm[r] = "unknown"
  /\ SharedIds \/ e \notin {eid[q] : q \in Requests}
  /\ sm' = [sm EXCEPT ![r] = "active"]
  /\ eid' = [eid EXCEPT ![r] = e]
  /\ UNCHANGED <<tableVars, locks, moving, xappVars, mainVars, httpVars, notices,
                 net>>

(* SubMgr posts the REST id -> instance id notification, perhaps before    *)
(* its answer to the POST is read, perhaps more than once.                 *)
SubMgrNotifies(r) ==
  /\ sm[r] = "active" /\ r \notin net /\ notices[r] < MaxNotices
  /\ net' = net \cup {r}
  /\ notices' = [notices EXCEPT ![r] = @ + 1]
  /\ UNCHANGED <<tableVars, locks, moving, xappVars, mainVars, httpVars, sm, eid>>

-----------------------------------------------------------------------------
(* The HTTP server thread: one request at a time *)

ServerUp == mpc \notin {"closing", "join", "exited"}

(* A notification, or a GET /metrics, is read from its connection.         *)
Serve(request) ==
  /\ ServerUp /\ serving = "none"
  /\ request = "notice" => net # {}
  /\ serving' = request
  /\ UNCHANGED <<tableVars, locks, moving, xappVars, mainVars, gauge, submgrVars>>

(* _subscription_response_callback has looked r up under the lock.         *)
HandleNotice(r) ==
  /\ serving = "notice" /\ r \in net /\ lock = "free"
  /\ net' = net \ {r}
  /\ UNCHANGED <<held, xappVars, mainVars, gauge, sm, eid, notices>>

(* Mutant: the lock is released between the pop and the insert. *)
PopUnlocked(r) ==
  /\ HandleNotice(r) /\ holder[r] # None /\ moving = None
  /\ holder' = [holder EXCEPT ![r] = None]
  /\ moving' = <<holder[r], eid[r]>>
  /\ UNCHANGED <<layout, pending, disturbed, lock, serving>>

(* Mutant: the entry is read under its REST id and left there. *)
GetWithoutPop(r) ==
  /\ HandleNotice(r) /\ holder[r] # None
  /\ moving' = <<holder[r], eid[r]>>
  /\ lock' = "http"
  /\ UNCHANGED <<tableVars, serving>>

(* The REST id is stored: the callback pops it ... *)
CallbackPops(r) ==
  /\ HandleNotice(r) /\ holder[r] # None
  /\ holder' = [holder EXCEPT ![r] = None]
  /\ moving' = <<holder[r], eid[r]>>
  /\ lock' = "http"
  /\ UNCHANGED <<layout, pending, disturbed, serving>>

(* ... and inserts it again under the instance id. *)
CallbackInserts ==
  /\ moving # None
  /\ Insert(moving[2], moving[1])
  /\ moving' = None
  /\ lock' = "free"
  /\ serving' = "none"
  /\ UNCHANGED <<pending, held, xappVars, mainVars, gauge, submgrVars>>

(* Mutant: the lock is not released. *)
DeferKeepingLock(r) ==
  /\ HandleNotice(r) /\ holder[r] = None
  /\ pending' = [pending EXCEPT ![r] = eid[r]]
  /\ lock' = "http"
  /\ serving' = "none"
  /\ UNCHANGED <<dictVars, disturbed, moving>>

(* The REST id is not stored: the announcement is kept for subscribe(). *)
CallbackDefers(r) ==
  /\ HandleNotice(r) /\ holder[r] = None
  /\ pending' = [pending EXCEPT ![r] = eid[r]]
  /\ serving' = "none"
  /\ UNCHANGED <<dictVars, disturbed, lock, moving>>

(* GET /metrics copies the counters under _metrics_lock, ...               *)
ScrapeCounters ==
  /\ serving = "counters" /\ held # "metrics"
  /\ serving' = "table"
  /\ UNCHANGED <<tableVars, locks, moving, xappVars, mainVars, gauge, submgrVars>>

(* ... counts the distinct wrappers under _subscription_lock, ...          *)
Scrape ==
  /\ serving = "table" /\ lock = "free"
  /\ gauge' = Cardinality(Active)
  /\ serving' = IF "monitor" \in OtherLocks THEN "samples" ELSE "none"
  /\ UNCHANGED <<tableVars, locks, moving, xappVars, mainVars, submgrVars>>

(* ... and, in the monitor, the samples under the monitor's lock.          *)
ScrapeSamples ==
  /\ serving = "samples" /\ held # "monitor"
  /\ serving' = "none"
  /\ UNCHANGED <<tableVars, locks, moving, xappVars, mainVars, gauge, submgrVars>>

-----------------------------------------------------------------------------
(* The main thread: _run *)

Main(from, to) == mpc = from /\ mpc' = to

stopVars == <<resume, iter, atSignal, asked, signals>>

(* The 500 ms receive returns a NULL buffer. *)
IdlePoll == mpc = "poll" /\ UNCHANGED vars

(* The counters are kept under _metrics_lock - receive errors, envelopes,  *)
(* measurements, dispatches - and the monitor's samples, in its callback,  *)
(* under a lock of their own.                                              *)
HoldLock(l) ==
  /\ mpc \in (IF l = "monitor" THEN {"dispatch"} ELSE {"poll", "handle", "dispatch"})
  /\ held = "none"
  /\ held' = l
  /\ UNCHANGED <<tableVars, lock, moving, xappVars, mainVars, httpVars, submgrVars>>

ReleaseLock ==
  /\ mpc \in {"poll", "handle", "dispatch"} /\ held # "none"
  /\ held' = "none"
  /\ UNCHANGED <<tableVars, lock, moving, xappVars, mainVars, httpVars, submgrVars>>

(* An indication of r arrives, with its instance id or with sub_id -1. *)
Receive(r, id) ==
  /\ Main("poll", "handle")
  /\ held = "none"
  /\ sm[r] = "active" /\ id \in {eid[r], None}
  /\ ind' = [owner |-> r, id |-> id]
  /\ UNCHANGED <<tableVars, locks, moving, xappVars, disp, stopVars, httpVars,
                 submgrVars>>

(* The subscription whose callback an indication with this id is given to: *)
(* the one stored under the id, or else the only one there is.             *)
LookupSubscription(id) ==
  IF id # None /\ holder[id] # None THEN holder[id]
  ELSE IF Cardinality(Active) = 1 THEN CHOOSE r \in Active : TRUE
  ELSE None

LookupBegins ==
  /\ Main("handle", "lookup")
  /\ held = "none" /\ lock = "free"
  /\ lock' = "main"
  /\ UNCHANGED <<tableVars, held, moving, xappVars, ind, disp, stopVars, httpVars,
                 submgrVars>>

LookupEnds ==
  /\ mpc = "lookup"
  /\ disp' = LookupSubscription(ind.id)
  /\ IF disp' = None THEN mpc' = "poll" /\ ind' = None
     ELSE mpc' = "dispatch" /\ UNCHANGED ind
  /\ lock' = "free"
  /\ UNCHANGED <<tableVars, held, moving, xappVars, stopVars, httpVars, submgrVars>>

(* The callback returns or raises; either way the buffer is freed and the  *)
(* loop goes on.                                                           *)
DispatchEnds ==
  /\ Main("dispatch", "poll")
  /\ held = "none"
  /\ ind' = None /\ disp' = None
  /\ UNCHANGED <<tableVars, locks, moving, xappVars, stopVars, httpVars,
                 submgrVars>>

-----------------------------------------------------------------------------
(* The main thread: signal_handler, stop, unsubscribe_all, unsubscribe *)

(* A signal interrupts the loop between two bytecodes and opens the dict   *)
(* iterator of unsubscribe_all, without the lock.                          *)
Signal ==
  /\ mpc \in {"poll", "handle", "lookup", "dispatch"}
  /\ signals < MaxSignals
  /\ signals' = signals + 1
  /\ resume' = mpc
  /\ mpc' = "iterate"
  /\ iter' = [size |-> Cardinality(Stored), last |-> 0,
              left |-> Cardinality(Stored), target |-> None]
  /\ atSignal' = Active
  /\ disturbed' = FALSE
  /\ UNCHANGED <<dictVars, pending, locks, moving, xappVars, ind, disp, asked,
                 httpVars, submgrVars>>

(* Mutant: only the entries already renamed are visited. *)
UnvisitedRenamed == {k \in Stored \ Requests : slot[k] > iter.last}

Unvisited == {k \in Stored : slot[k] > iter.last}

(* An exception leaves stop() for the interrupted code. `except Exception` *)
(* around the receive and around the dispatch swallows it and the loop     *)
(* goes on; between these two blocks, which poll, handle and dispatch      *)
(* extend beyond, it ends the main thread. `with` releases the lock.       *)
Unwind ==
  /\ mpc' \in IF resume = "lookup" THEN {"poll"} ELSE {"poll", "crashed"}
  /\ lock' = IF lock = "main" THEN "free" ELSE lock
  /\ held' = "none"
  /\ ind' = None /\ disp' = None
  /\ iter' = NoIterator /\ resume' = "poll"
  /\ UNCHANGED <<tableVars, moving, xappVars, atSignal, signals, httpVars>>

(* next() finds that the dict changed size, or an entry too many. *)
IterationFails ==
  /\ mpc = "iterate"
  /\ \/ Cardinality(Stored) # iter.size
     \/ Unvisited # {} /\ iter.left = 0
  /\ Unwind
  /\ UNCHANGED <<asked, submgrVars>>

IterationContinues(k) ==
  /\ Main("iterate", "delete")
  /\ Cardinality(Stored) = iter.size /\ iter.left > 0
  /\ k \in Unvisited /\ \A j \in Unvisited : slot[k] <= slot[j]
  /\ iter' = [iter EXCEPT !.last = slot[k], !.left = @ - 1, !.target = holder[k]]
  /\ UNCHANGED <<tableVars, locks, moving, xappVars, resume, ind, disp, atSignal,
                 asked, signals, httpVars, submgrVars>>

IterationEnds ==
  /\ Main("iterate", "closing")
  /\ Cardinality(Stored) = iter.size /\ Unvisited = {}
  /\ UNCHANGED <<tableVars, locks, moving, xappVars, resume, ind, disp, iter,
                 atSignal, asked, signals, httpVars, submgrVars>>

(* DELETE answered 204, or with another status that unsubscribe() only     *)
(* prints.                                                                 *)
DeleteReturns(status) ==
  /\ Main("delete", "iterate")
  /\ asked' = asked \cup {iter.target}
  /\ \/ /\ status = 204 /\ sm[iter.target] = "active"
        /\ sm' = [sm EXCEPT ![iter.target] = "deleted"]
     \/ /\ status # 204 /\ (Faulty \/ sm[iter.target] # "active")
        /\ UNCHANGED sm
  /\ UNCHANGED <<tableVars, locks, moving, xappVars, resume, ind, disp, iter,
                 atSignal, signals, httpVars, eid, notices, net>>

(* DELETE raises. *)
DeleteRaises ==
  /\ mpc = "delete" /\ Faulty
  /\ Unwind
  /\ asked' = asked \cup {iter.target}
  /\ UNCHANGED submgrVars

(* httpServer.stop() returns when the request being handled is answered;   *)
(* rmr_close(), running = False.                                           *)
CloseServers ==
  /\ Main("closing", "join")
  /\ serving = "none"
  /\ UNCHANGED <<tableVars, locks, moving, xappVars, ind, disp, stopVars,
                 httpVars, submgrVars>>

(* The xApp thread is joined and sys.exit(0) unwinds the interrupted code. *)
JoinAndExit ==
  /\ Main("join", "exited")
  /\ xpc = "finished"
  /\ lock' = IF lock = "main" THEN "free" ELSE lock
  /\ held' = "none"
  /\ UNCHANGED <<tableVars, moving, xappVars, ind, disp, stopVars, httpVars,
                 submgrVars>>

Terminated == mpc \in {"exited", "crashed"} /\ UNCHANGED vars

-----------------------------------------------------------------------------
XAppThread == SubscribeAnswered \/ SubscribeFails \/ StoreSubscription \/ ThreadReturns
              \/ \E r \in Requests : Subscribe(r)

HandleRequest == CallbackInserts \/ ScrapeCounters \/ Scrape \/ ScrapeSamples
                 \/ \E r \in Requests : CallbackPops(r) \/ CallbackDefers(r)

HttpThread == HandleRequest \/ \E request \in {"notice", "counters"} : Serve(request)

SubMgr == \E r \in Requests : SubMgrNotifies(r) \/ \E e \in E2Ids : SubMgrCreates(r, e)

Loop == LookupBegins \/ LookupEnds \/ DispatchEnds \/ ReleaseLock
        \/ \E l \in OtherLocks : HoldLock(l)

Stop == IterationFails \/ IterationEnds \/ DeleteRaises \/ CloseServers \/ JoinAndExit
        \/ (\E k \in Keys : IterationContinues(k))
        \/ (\E status \in {204, 503} : DeleteReturns(status))

Next == \/ XAppThread \/ HttpThread \/ SubMgr \/ Loop \/ Stop
        \/ Signal \/ IdlePoll \/ Terminated
        \/ \E r \in Requests, id \in E2Ids \cup {None} : Receive(r, id)

Spec == Init /\ [][Next]_vars

(* Every runnable thread is scheduled; a thread blocked on a lock is       *)
(* served although the others keep taking it; SubMgr answers and its       *)
(* notifications are delivered and served among the scrapes. Arrival of    *)
(* indications, signals and scrapes is not assumed, nor that the loop goes *)
(* on where it holds no lock.                                              *)
Fairness ==
  /\ SF_vars(XAppThread)
  /\ SF_vars(HandleRequest) /\ SF_vars(Serve("notice"))
  /\ WF_vars(LookupEnds \/ ReleaseLock \/ Stop)
  /\ \A r \in Requests : /\ WF_vars(\E e \in E2Ids : SubMgrCreates(r, e))
                        /\ WF_vars(SubMgrNotifies(r))

FairSpec == Spec /\ Fairness

-----------------------------------------------------------------------------
(* Stored, or between the pop and the insert of the callback. *)
InTable == Active \cup (IF moving = None THEN {} ELSE {moving[1]})

(* A subscription is never left under its REST id while the instance id    *)
(* that its indications carry is already known: whichever of the REST      *)
(* answer and the notification comes first, the second one finds it        *)
(* (xAppBase.py subscribe and _subscription_response_callback).            *)
NoStrandedMapping ==
  \A r \in Requests : holder[r] # None => pending[r] = None

(* No subscription is in the table under two keys, and none is there while *)
(* the callback is moving it: iteration and /metrics count it once.        *)
OneKeyPerSubscription ==
  /\ \A j, k \in Stored : holder[j] = holder[k] => j = k
  /\ moving # None => moving[1] \notin Active

(* An indication is given to another subscription's callback only when its *)
(* own is not stored at all, or shares the id: the single-subscription     *)
(* fallback never misfires because of a rename in progress.                *)
MisdispatchOnlyUnstored ==
  [][(mpc = "lookup" /\ mpc' = "dispatch") =>
       \/ disp' = ind.owner
       \/ eid[disp'] = eid[ind.owner]
       \/ ind.owner \notin InTable]_vars

(* SubMgr announced the same instance id for both, as it does for          *)
(* identical subscriptions.                                                *)
Merged(r, q) == r = q \/ (eid[r] # None /\ eid[r] = eid[q])

(* A process that exits normally has sent a DELETE for every subscription  *)
(* that was in the table when the signal came, or for one that SubMgr has  *)
(* merged with it, although the callback renames entries under the         *)
(* iterator of unsubscribe_all: a rename is either followed or raises. Two *)
(* things may not have happened since the signal, as either makes the      *)
(* iterator pass an entry by without an error: subscribe() has added an    *)
(* entry, which hides a removal from the comparison of the sizes; or a     *)
(* rename has re-packed the table - the first one does, and one that finds *)
(* it full - and moved entries to positions that the iterator has passed.  *)
CleanExitAsksAll ==
  mpc = "exited" /\ ~disturbed =>
    \A r \in atSignal : \E q \in asked : Merged(r, q)

(* Two scrapes never show oran_xapp_active_subscriptions going down unless *)
(* SubMgr has merged two subscriptions: the pop-and-insert of the callback *)
(* is not visible to /metrics.                                             *)
ActiveSubscriptionsMonotone ==
  [][gauge' >= gauge \/ \E r, q \in Requests : r # q /\ Merged(r, q)]_vars

(* xapps/python/kpm_mon_xapp.py: "xApp will unsubscribe all active         *)
(* subscriptions at exit."                                                 *)
AllUnsubscribedAtExit ==
  mpc = "exited" => \A r \in Requests : sm[r] # "active"

Routed(r) == eid[r] # None /\ holder[eid[r]] = r

(* A stored subscription that SubMgr has announced is eventually reachable *)
(* under its instance id, unless the process stops serving.                *)
EventuallyRouted ==
  \A r \in Requests :
    (r \in Active /\ notices[r] > 0) ~> (Routed(r) \/ ~ServerUp)

(* The HTTP server or the xApp thread waits for a lock that the code the   *)
(* signal interrupted holds.                                               *)
WaitsForMain ==
  \/ lock = "main" /\ (serving \in {"notice", "table"} \/ xpc = "answered")
  \/ held = "metrics" /\ serving = "counters"
  \/ held = "monitor" /\ serving = "samples"

(* stop() comes to an end - exit, crash, or back in the loop with its      *)
(* exception swallowed - although it waits for the request that the HTTP   *)
(* server is handling and for the xApp thread, unless one of the two waits *)
(* for a lock the interrupted code holds: that is the only way to hang.    *)
ShutdownReturns ==
  mpc = "iterate" ~> (mpc \in {"exited", "crashed", "poll"} \/ WaitsForMain)

(* The table implements the two-sided rendezvous of SubscriptionDirectory. *)
Directory == INSTANCE SubscriptionDirectory WITH
  route <- [e \in E2Ids |-> holder[e]],
  accepted <- {r \in Requests : holder[r] # None \/ (moving # None /\ moving[1] = r)},
  announced <- pending

ImplementsDirectory == Directory!DirSpec
=============================================================================
