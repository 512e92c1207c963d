# Verification of oran-stack

oran-stack deploys an O-RAN laboratory on Kubernetes: a 5G core (Open5GS), a RAN
(OCUDU CU and DU, srsUE over ZMQ), a Near-RT RIC (E2Term, E2Mgr, SubMgr, RTMgr,
AppMgr) and Python xApps that subscribe to KPM reports of the RAN and send RC and
CCC control requests to it. Most of the repository configures third-party programs.
What is its own is `xapps/python/` (the framework `lib/xAppBase.py`, the encoders
and decoders beside it, the xApps) and the scripts, Ansible tasks and Helm templates
that bring the parts up in an order that matters, recover them, and publish packages
through Nephio.

## Inventory

| Part | State | Operations | Hard behaviour | What makes it correct |
|---|---|---|---|---|
| xAppBase subscriptions | `my_subscriptions`, `_pending_event_instance_ids`, `_subscription_lock` | `subscribe`, `_subscription_response_callback`, lookup in `_run`, `stop`, `unsubscribe_all` | three threads and a signal handler; the notification overtakes the REST answer or is repeated; a dict changes, and is re-packed, under an iterator; stop() waits for threads that wait for it | an announced and stored subscription is reachable by its instance id; no indication reaches another callback; a clean exit deletes what was in the table |
| xAppBase receive loop and metrics | RMR buffer, counters, series | `_run`, `_ack_route_table_update`, `_record_kpm_measurements`, `_metrics_handler` | the ways out of the loop body, one of them past the free; a scrape at any statement, under two locks | each buffer freed once; scrapes consistent |
| xAppBase construction, AppMgr registration | inventory of AppMgr | `__init__`, `_register_with_appmgr`, `start_function` | 400/409 at restart is success, other failures are ignored; a pod is ready before it has registered | a subscribed xApp is routable |
| E2SM-KPM extraction | - | `extract_meas_data`, formats 1 to 3, `_kpm_measurement_samples` | missing lists, names, values | each value lands in its own series |
| KPM example xApps | report style | `start`, callbacks | the key a callback reads depends on the style | a callback fails only on what it did not subscribe to |
| kpm-mon-tmt | window, running sum, state, counters | `_observe`, `_snapshot`, `_metrics_handler`, `indication_callback` | a sum of floats kept by additions and subtractions; scrape under two locks | the state is that of the mean of the window, up to what roundings have lost; counters fit |
| kpm-load-watch, LoadClassifier | window, state, counters | `observe`, `snapshot`, `indication_callback`, `_metrics_handler` | thresholds, negative readings, log suppression | class within the extremes of the window; changes logged, logs bounded |
| E2SM-RC / CCC encoders | `requestorID` | `control_*`, `_build_ric_control_request`, `encode_length` | single-byte lengths, hand-made frames, clamps, deep parameter trees | the E2 node reads what was asked, or nothing |
| PLMN conversion | - | `utils.py` | two- and three-digit MNCs, swapped nibbles | a PLMN read back is the one written |
| RC slice-quota controllers | `running` | loop of send and sleep, `stop` | RMR is closed before the thread sees `running` | stop returns; a bounded number of late requests |
| simple_xapp | volumes and limit per UE | callback: accumulate, switch, send | exceptions half-way, lost or refused requests, restarts | switches are paid for; the believed limit is the enforced one |
| RIC routing recovery | inventory, RTMgr's table, subscriptions | restart xApps, check, restart RTMgr, restart xApps, check | parts forget at a restart and are told once; a rollout ends before the process has done its work | after a reported recovery every xApp has its route |
| RAN bring-up, E2 verification | CU, DU, F1, E2 | wait, hold-off, one recovery | one attempt per process; the CU keeps the former DU for a while | no duplicate DU; the recovery associates |
| UE profile slot | srsUE and DU deployments | select, recover | interruption between commands, crashes | the UE meets an unused DU; a further run repairs |
| Subscriber database | replica set, subscribers | two init scripts, three seeds | any order and repetition; a configuration read and then written; live sequence numbers | host settles, keys are kept, resyncs are bounded |
| PackageVariant approval | lifecycle of revisions, status | apply, poll, propose, approve, wait | the status is behind the specification; failing commands | success means a published package |
| Package publication | a package revision | create, push, propose, approve | interruption, two operators | nothing is published with initial content |
| Nephio copies of xAppBase, core entrypoint, cluster provisioning, document generators | - | - | - | not modelled, see below |

How they interact: the xApp thread calls SubMgr over REST and blocks. SubMgr creates
the subscription in the E2 node, answers with a REST id and, in an HTTP request of
its own, announces the `E2EventInstanceId` that indications will carry. RTMgr pushes
route tables (type 20), which `_run` acknowledges (type 22); E2Term sends
indications (12050), which `_run` decodes, records and dispatches; control requests
(12040) go out by `rmr_send`. Prometheus scrapes `/metrics` on the HTTP thread.
Signals run `stop()` on the main thread between two bytecodes. The scripts see these
processes only through Kubernetes, REST inventories and metrics. PROJECT.json lists
every hazard met in these parts at its line.

## Modules

Every module says in its head what it abstracts and what is external. A name that
the code has is kept. Operators called "Mutant" are defects the properties are tried
against; no specification uses them.

### Subscriptions: SubscriptionDirectory, XAppSubscriptions

`SubscriptionDirectory` is what the bookkeeping promises, without threads, lock or
dictionary: a rendezvous of the REST answer (`Accept`) and the notification
(`Announce`) in either order.

`XAppSubscriptions` is the code. `holder` is the dictionary, from REST ids and
instance ids to subscriptions. `slot` is the position of each entry, which Python's
iteration follows, `inserted` the last position in use. A deletion leaves a hole,
and CPython 3.11 re-packs the table without holes when an insertion finds it full
(`room`, with `Room(n)` for what a table of `n` entries then takes), or when a table
of strings is given its first number (`general`): REST ids are strings, instance ids
numbers, so the first rename always re-packs. `pending` and `lock` are the fields of
that name, `held` the other locks that the main thread may hold (`OtherLocks`:
`_metrics_lock`, and the monitor's in kpm-mon-tmt), `serving` the request that the
HTTP server's one thread handles. Each thread has a program counter: `xpc` (xApp
thread), `mpc` (main thread), and `moving` for the callback between the pop and the
insert of line 347. A critical section is one action where nothing outside can tell
it from its statements, and two where something can: the signal handler and the
iteration of `unsubscribe_all` do not take the lock, so the rename is two actions,
and so is the lookup, during which a signal can arrive with the lock held. An
exception that leaves `stop()` is raised into the interrupted code (`Unwind`): the
handlers around the receive (lines 459-484) and around the dispatch (515-563)
swallow it, elsewhere it ends the main thread. `iterate` follows CPython: `next()`
raises when the number of entries differs from the one at the start, or when it
finds an entry beyond that number; a re-packing moves entries to positions it has
passed. `CloseServers` is the HTTP server's stop: it waits for the request being
served, which may wait for a lock that the interrupted code holds. `atSignal`,
`asked`, `disturbed` are history variables. SubMgr is external: it creates a
subscription once per request, with a fresh instance id or, when `SharedIds`, any;
it notifies up to `MaxNotices` times; when `Faulty` it refuses POSTs and DELETEs.

Left out: message texts, `_unexpected_subscription_ids` (it only limits printing), a
notification that carries an ErrorCause or id 0 (the code looks at neither), a
signal during the handler of another signal, and the end of a crashed process. A
scrape that waits for a lock of the loop is followed with `OtherLocks` only; without
them the loop is not followed while it counts.

### Reports: IndicationLoop, KpmReport, KpmExport

`IndicationLoop` is `_run` statement by statement: `pc` is the statement, `buf` what
`sbuf` refers to, `live` the buffers RMR has given out. Statements that may raise
have a second outcome that goes where the handler sends it: to the free, out of the
thread for the MEID (line 513), which is outside the inner `try`, or, for
`message_summary` (461), back to the receive with the buffer still out
(`ReceiveUnreadable`, `unread`). `rmr_rts_msg` is external: it takes the update and
returns another buffer, or fails and leaves the update with the caller. The scrape
is two actions, one per lock.

`KpmReport` gives the extraction as functions: what `_extract_content_meas_data_*`
returns for a report of format 1, 2 or 3 with its list of names (optional in the
grammar), names, UE lists, records or values missing, or that it raises (`Raised`),
and which samples xAppBase takes from it (`Samples`). `KpmExport` runs it: one of
five xApps is started with a list of metrics and asks for an action definition of
its style (`ActionDefinition`); a report, of that definition or not, is received,
recorded in the series and given to the callback, which fails or not; a scrape
copies the series at any moment. The property `SeriesIsLatestReading` compares the
series with a definition of its own that looks at positions in the report and not at
the dictionaries of the code.

### Monitors: SampleWindow, MovingAverage, ActivityMonitor, LoadWatch

`ActivityMonitor` is `kpm_mon_tmt_xapp.py` with the parts of `xAppBase` its scrape
can be out of step with: an indication is decoded, recorded in the series (first
lock), observed (second lock) and counted; a scrape reads base class and monitor in
two steps. The running sum is one of floats: `FloatRounding` has numbers as
multiples of the smallest positive double, `Floats` as a set of them, and every
subtraction, addition and division of the code gives the nearest member. `drift`
adds up what the roundings of the sum have lost. `MovingAverage` is the promise: the
level of the mean of the last samples, recomputed each time, up to an `error`, which
is 0 as long as the sums that the code forms are floats themselves. `LoadWatch` is
`load_classifier.py` with the callback that logs and the scrape that takes a
snapshot; an undecodable header loses the log line but not the sample.
`SampleWindow` is Python's bounded deque.

### Control: SliceQuota, ControlLoop, ControlRequest, ControlEncoding, Plmn

`SliceQuota` is the callback of `simple_xapp.py`: volumes are added up UE by UE,
then the UEs (`todo`) are visited, and one over the threshold has its limit switched
before the request is sent. `sum()` may raise on an item without a number, the
request may raise, be lost (nobody looks at the buffer that `rmr_send_msg` returns)
or be refused; the pod may restart.

`ControlLoop` is the two threads of the four controller xApps, each with the
requests of its round; `running` is looked at once per round; `stop()` waits for the
scrape being served, which may wait for `_metrics_lock` of the interrupted loop
(`locked`, `serving`, `Blocked`), then closes RMR, and only then clears `running`.
What `rmr_send` does on a closed context is undefined: it may pass, raise or end the
process.

`ControlRequest` holds the pure parts: the clamps, the parameter trees of the quota
and the handover request, the E2AP frames octet by octet, `encode_length`, and
`Read`, an external reader of the five IEs. `ControlEncoding` calls the encoders
with each of `Calls` (arguments, and the lengths of what the codec makes of them)
and sends the frame. `Plmn` is `utils.py`, from a string to octets and back.

### Associations: RoutingRecovery, RanBringUp

`RoutingRecovery` is `recover-ric-kpm.sh`, command by command, against the processes
of the xApps (init container, constructor, registration, sleep of 12 s, Subscribe),
AppMgr's inventory, what RTMgr has loaded, and routes that SubMgr asks for and RTMgr
creates or refuses. The script waits for each rollout once (`awaited`). RTMgr has no
readiness probe: its rollout ends when the process runs (`RTMgrStarts`), and the
inventory is loaded at some later time or never (`RTMgrLoads`); `early` are the
xApps whose subscription it refused in between. AppMgr, RTMgr, pods and the E2 node
may fail at any moment. `disturbed` says that AppMgr or RTMgr was restarted by
somebody else since the inventory was found complete.

`RanBringUp` is the init containers of CU and DU, with the hold-off counted in
ticks, their single attempts at F1 and E2 Setup, and `verify_e2.yml` with its one
recovery. Containers crash in their pods, E2Term comes and goes, other scripts
restart the DU.

### UE: UeSlot, SubscriberStore

`UeSlot` is `select-ue-lab-profile.sh` and `recover-ran-zmq.sh`, one program counter
per operator. `used` says that the DU has had a peer: the ZMQ endpoint serves one. A
run may be interrupted between any two commands; UE and DU crash.

`SubscriberStore` is the replica-set configuration that `init-mongodb.js`,
`mongodb-init-rs.js` and the chart bring about, the second in two steps as it reads
the configuration (line 6) and then initiates (21) or forces a new one (8-15, with
`force: true`, so on any member), and the subscribers that `init-webui-data.js`,
`mongodb-seed.js.j2` and `provision-ue-lab-profiles.sh` write, in any order and
repeatedly, while UEs authenticate. Of a subscriber the key, the sequence number and
the mark of the 4G sample are kept. `raced` says that another script initiated the
set between the two steps of the task and that no later run of it has ended.

### Nephio: VariantApproval, PackagePublication

`VariantApproval` is the two scripts that approve what a PackageVariant produces:
`onboard-blueprints.sh` from line 24 on, and `approve-packagevariant.sh`; the
constant `Onboarding` chooses. `pc` is the command being run, `previous`, `before`,
`require`, `revision` are the shell variables. `OnError` is the difference that
matters: under `set -e` a failing command ends the helper, but in the onboarding the
commands are in a function called on the left of `||`, where bash suspends errexit,
so the next command runs. The cluster is external: the controller acts on a new
specification some time later (`Reconcile`) and only then updates the status
(`UpdateStatus`); Porch accepts `propose` on a Draft and `approve` on a Proposed
revision; the approval controller promotes the first revision
(`approval.nephio.org/policy: initial`). Two runs at once are not modelled.

`PackagePublication` is the four publish scripts, which share their commands: a
revision is created, pulled, overwritten, pushed, proposed, awaited, approved,
awaited. Two operators run them, commands fail, a proposal may be rejected, the
source changes.

## Runs

Components that share no variable are checked side by side in one module: a variable
`focus`, chosen at the start, names the component that moves, and the others rest.
So `MCReports`, `MCControl`, `MCAssociation`, `MCUe` and `MCNephio` explore the sum
and not the product of their parts, and a property of one part is not weakened: it
is evaluated in every state of that part. The replica set and the documents of
`SubscriberStore` are two such parts, as they meet in `primary` only.

| Run | Checks | Bounds, and why they suffice |
|---|---|---|
| sub_two | `NoStrandedMapping`, `OneKeyPerSubscription`, `CleanExitAsksAll`, `MisdispatchOnlyUnstored`, `ActiveSubscriptionsMonotone`, refinement of `SubscriptionDirectory` | two requests and two ids, which may be shared (every conflict over the lock or the order is between two), two notifications (a repeat), one signal, SubMgr faulty; `SmallRoom`, so that the third insertion finds the table full; symmetric in requests and ids |
| sub_stop | `EventuallyRouted`, `ShutdownReturns` | one request, as every xApp makes, with CPython's sizes of the table; scrapes, and a loop that holds any of the three locks; two notifications, two signals (the first may be swallowed); no symmetry, as liveness requires |
| reports | buffers, scrapes, series, callbacks, transitions, classes; refinement of `MovingAverage` | three RMR messages (a path, its successor, a repeated failure) and two scrapes; every report of two names, UEs and records, and reports without names, one at a time, and histories of three out of seven kinds; a window of two with four samples 0, 3 or 16 in floats of three binary digits (19 rounds to 20, so a sum goes wrong and stays wrong) around the threshold 2; a window of three with five readings below, at and above each threshold, none, negative, and a spike |
| control | quotas, late requests, frames, PLMNs, `StopReturns` | two UEs, three reports, one restart; four controllers and a signal anywhere; ratios on either side of both limits, message lengths on either side of every octet limit; strings up to length six over four characters |
| association | `PodIsNoDuplicate`, `RecoveryAssociates`, `RecoveredIsRoutable`, `RecoveredIsRouted` | hold-off 3 against a purge of 2, three faults and two restarts by others; two xApps (one subscribes before RTMgr has loaded, one after) and two faults (one before, one after a check) |
| ue | `StartsFresh`, `RerunRepairs`, `HostSettled`, `CredentialsKept`, `ResyncsPaidFor` | one operator, two profiles, three faults; two hosts, the three writers of the configuration in any order, in one or two steps; three subscribers, each written twice, sequence numbers to 2, one rotation of the key |
| nephio | `HelperReportsPublished`, `StaleReportNeedsCause`, `PublicationKept` | four versions of the manifest (a first package, an update, an update of an unapproved one, one more), any number of runs; two operators, three versions of the source, three faults |
| sub_exit | violated: `AllUnsubscribedAtExit` | one request, SubMgr without faults |
| variant_stale | violated: `ReportsCurrentGeneration` | three versions |
| variant_unpublished | violated: `ReportedIsPublished` by the onboarding | three versions |
| recovery_race | violated: `MissingHasCause` | two xApps, no fault |
| bringup_crash | violated: `NoDuplicate` | one crash |

Deadlock checking is off in the runs of `XAppSubscriptions`: the system may stop
there. `stop()` runs on top of code that may hold a lock which the xApp thread or
the HTTP request being served needs to finish, and waits for both. This is a state
of the code, not of the model; `ShutdownReturns` says that it is the only way not to
return (`WaitsForMain`), and `StopReturns` the same of the controllers, where the
state has the action `Blocked`. Elsewhere a program that has ended has an action
that says so (`Ended`, `Decided`, `Done`, `Exited`).

### Disagreements shown by a run

- `sub_exit`: a signal while the answer to Subscribe is in flight finds an empty
  table, so the process exits and leaves the subscription in SubMgr and in the E2
  node. Comments in four xApps say that all active subscriptions are removed.
- `variant_stale`: run right after an update, `approve-packagevariant.sh` reads the
  previous target, finds it published and succeeds; the new draft is not approved,
  although the guide names this command for that step.
- `variant_unpublished`: `onboard-blueprints.sh` reports a publication after every
  command that should have made it failed.
- `recovery_race`: a rollout ends when the container runs, which is before the
  constructor has registered; the inventory is read once, right then, and a healthy
  xApp is reported missing.
- `bringup_crash`: the hold-off is an init container; a DU that is restarted in its
  pod skips it and is rejected as a duplicate.

### Observations

Seen while modelling, in the models, and without a run of their own:

- `CleanExitAsksAll` has the premise that since the last signal nothing was added to
  the table and the table was not re-packed (`disturbed`). An addition by the xApp
  thread hides a pop from the size check of the iterator; a re-packing moves entries
  to positions that the iterator has passed. Either way an entry is skipped, no
  DELETE is sent for it and the exit looks clean. Two subscriptions are enough: the
  first rename of a process gives a table of strings its first number. That nothing
  added is left at the exit is not enough, as the proof showed: an addition may have
  been overwritten by a third subscription that SubMgr merged with it. No xApp of
  the repository subscribes twice.
- A signal while the loop holds `_metrics_lock` (`xAppBase.py:254`, `473`, `501`,
  `556`), or kpm-mon-tmt its `_state_lock`, and a scrape waits for it: `stop()`
  waits for the scrape and never returns; the DELETEs have been sent by then, and
  Kubernetes kills the process after the grace period (`WaitsForMain`).
- `xAppBase.py:461`: when `message_summary` raises, the handler continues without
  freeing the buffer it was given. `BufferDiscipline` and `BufferReturned` are about
  all other buffers, and say that those in `unread` are the only ones that leak.
- kpm-mon-tmt's running sum drifts: with floats of three digits, a window of two and
  samples 3, 16, 3, 0, the sum of <<3, 0>> is 4 and the state "active" at a
  threshold of 2, whose mean is 1.5. With doubles and throughputs in kbit/s a sample
  of 2^53 times another is needed to lose it entirely, but what is lost stays until
  the process ends.
- `recover-ric-kpm.sh:76`: the rollout of RTMgr ends before it has loaded the
  inventory, so an xApp of the second round may subscribe too early, be refused its
  route and still be counted as recovered (`early`). `deploy_xapp`
  (`tasks/main.yml:199-213`) waits up to 36 times 5 s for the routes after the same
  rollout; the script does not, although its step 6/6 announces a ready table.
- `mongodb-init-rs.js:26-28`: when another script initiates the set between lines 6
  and 21, AlreadyInitialized is caught and printed, the exit is 0 and the task
  reports success with the host of the other (`raced`). The next run of the task
  repairs it.
- `recover-ric-kpm.sh:27` looks for CONNECTED as a substring and finds it in
  DISCONNECTED (the chart compares the whole status, `deployment.yaml:48`): the pods
  are replaced and the run ends at a rollout that cannot finish, instead of with the
  advice to recover the RAN first (`WaitForE2`, `RolloutTimesOut`).
- `e2sm_rc_module.py:184`: the items of the handover lists are not wrapped in
  `sequence-of-ranParameters`, so that only the heads of the lists reach the wire
  (`HandoverNamesCell` says what does).
- `simple_rc_ho_xapp.py:39` calls `control_handover`, which `e2sm_rc_module` does
  not have: its thread ends with an exception (`SendRaises`), the process does not.
- An RC frame of 128 octets or more has a length determinant that a reader does not
  take for a length; no request of the repository is that long.
- `mongodb-seed.js.j2:1` calls the seed idempotent; it sets the sequence number of
  the base subscriber to 0 each time, and a UE that has moved on pays with one
  resynchronisation (`ResyncsPaidFor`).
- Two operators at the ZMQ slot: `select-ue-lab-profile.sh:84` prints the identity
  of the pod and does not compare it, so that each may report the profile of the
  other. `StartsFresh` fails with two operators, too.
- A publication interrupted between proposal and approval blocks later runs, whose
  push is refused by Porch (`publish-xapp-package.sh:42`), until somebody approves
  or rejects the proposal; `OnlyProposalBlocks` says that nothing else blocks.
- `StateWithinRecentSamples` needs a positive active threshold for "idle": with the
  permitted 0, clamped negative samples are active.

## Fairness

Only the liveness properties need it, and each run assumes no more than this.

- `XAppSubscriptions`: the steps of the main thread that wait for nothing else than
  themselves are weakly fair (`LookupEnds`, `ReleaseLock`, `Stop`), as the threads
  are Python threads of one process, scheduled in turn. Those that may wait for a
  lock are strongly fair (`XAppThread`, `HandleRequest`, and the server's taking up
  of a notification): a lock is released after a bounded number of bytecodes and
  taken again by others. `threading.Lock` does not promise an order; that a waiter
  is not passed over for ever is assumed. SubMgr answers and delivers its
  notifications, for `EventuallyRouted`.
- `IndicationLoop`: the main thread is fair while it has a message (`Handle`).
- `ControlLoop`: both threads run and a sleep ends (`Controller`, `Stop`); a scrape
  whose lock is free is answered (`Answer`).
- `RoutingRecovery`: the script goes on, every xApp process goes on, SubMgr asks for
  each route once; that RTMgr loads or refreshes its table is never assumed.
- `UeSlot`: a script that is not interrupted goes on, Kubernetes does its work, a UE
  attaches to a DU that has had no peer.

Arrival of indications, scrapes and signals, faults and operators are never assumed.

## Proofs

tlapm checks the eight modules `*_proofs`, for every value of the constants that the
named assumptions admit. Every safety invariant of a passing run is proved, and so
are its action properties and both refinements. A component that runs beside others
in an MC module has its invariant proved for that composition: its own step, and a
step of the others, which leaves its variables alone.

- `XAppSubscriptions_proofs`. `NoStrandedMapping` needs that a deferred announcement
  of a stored request cannot appear, which needs that the callback defers only when
  the REST id is absent; the second half of the rename needs that nothing was
  inserted meanwhile, which is the lock. So `IInv` adds: who holds the lock at which
  program counter (`LockInv`); what the xApp thread has when it is about to store
  (`ControlInv`); that SubMgr's ids are those announced, pending and stored
  (`SubMgrInv`); that each key belongs to its subscription (`TableInv`); and that a
  subscription being moved is under no key (`MovingInv`). One lemma per writer of
  the table and one for the steps that leave it alone. `Refinement` maps the store
  to `Accept`, insert and deferral to `Announce`, and all else to a stutter.
  `ActiveSubscriptionsMonotone`: as long as SubMgr has merged nothing, no key is
  overwritten, so the table never shrinks below what a scrape has shown
  (`GaugeInv`); that an id comes only from SubMgr is `AssignedInv`.
  `CleanExitAsksAll` is about CPython's dictionary: entries have distinct positions,
  before and after a re-packing (`SlotInv`); without an addition or a re-packing
  only subscriptions of the signal are there, and what each entry behind the
  iterator holds was asked for, or one merged with it (`IteratorInv`); so when the
  iterator finds the size unchanged at its end, all were asked for (`AfterInv`).
  Assumed: requests and ids are finite and distinct, and `None` is neither of them
  nor made from them.
- `IndicationLoop_proofs` adds that the buffers out are among those handed out
  (`BufferRange`), how far the counters are at each statement (`CounterInv`), what
  is stored (`StoredInv`) and that what a scrape has copied remains true
  (`ReadInv`).
- `MCReports_proofs` composes four components in `ReportsInv`. The activity monitor
  counts stays: the state that equals the first one has had one stay more than the
  other (`StayInv`), and the series is ahead of the monitor only between the two
  updates (`SeriesInv`); that the running sum is within `drift` of the sum of the
  window (`WindowInv`) makes it an implementation of `MovingAverage`, step by step.
  `NearestIs` gives the nearest float of a fraction its defining property, `RoundIs`
  says that a float rounds to itself, and `SumStaysNear` adds the two roundings of
  an update to the drift, which is 0 where nothing rounds. Of `Floats` it is assumed
  that 0, the samples and the threshold are among them. Sums of windows of any
  length come from lemmas on a function of partial sums: appending adds the sample,
  dropping the oldest subtracts it, and a mean lies between bounds of all samples.
  The load watch: the window is as long as the samples allow (`LoadWindowInv`), a
  sample younger than the last one that was idle, active, busy or a spike lacks that
  fact, and a spike in reach of the window is in it (`AgoInv`); with the class being
  the one of the mean (`ClassInv`) this bounds the class. Every change is printed,
  to be printed or had an undecodable header (`LogInv`); the class was left as often
  as it was entered, and a page copies one moment (`PageInv`). The export: each
  exported series is the last number of its metric and UE in the last stored report
  that has one, for reports of any length in the three formats (`RecordInv`). The
  code's loops append to dictionaries of lists; `Recursion`, `PickedIs` and
  `Concatenated` turn such a loop into a function from positions to what was
  collected, and the lemmas after them find the last number in it. `CountsInv` and
  `CallbackInv` carry `PageIsConsistent` and `FailureIsExcused`.
- `MCControl_proofs`. Slice limits: a UE over the threshold is still to be visited
  or was left behind by an exception, and while UEs are visited nothing is left
  behind (`Visiting`): `NobodyOverdue` alone says nothing about the middle of a
  callback. `SwitchesArePaidFor` and `BelievedIsEnforced` are inductive with it.
  Late requests are those of the round that began before the signal
  (`LateThisRound`). PLMNs: a word of four nibbles has one value of each nibble
  (`NibblesOfWord`), a BCD of six likewise (`NibblesOfPlmn`), so both conversions
  are followed digit by digit; `PlmnInv` says how far they have come. Control
  requests: `Holds(f, at, s)` says that the octets `s` stand in `f` at `at`. A
  length determinant is read as the length it was written for (`OctetsRead`: one
  octet below 128, two up to 16383; `LengthEncoded`: `encode_length` of the CCC
  module writes these except between 128 and 255, where no length of its requests
  lies), an IE at its place is read and the reader is put behind it (`IERead`), and
  five of them end the frame (`IEsRead`). So a CCC request is read back for all
  ratios, and an RC request below 128 octets for every header and message; beyond,
  the one length octet is taken for a different length and nothing is read
  (`LongOctetUnreadable`). Which parameters are encoded is the solution of a
  recursion over their parents (`EncodedIs`): no quota parameter is lost, and of a
  handover those inside bare lists.
- `MCAssociation_proofs`. `PodIsNoDuplicate` follows from the entry of the former DU
  expiring before the hold-off does (`HoldCovers`), which needs `Purge <= HoldOff`,
  the only assumption about the two times (23 s and the longer `duF1SetupHoldOffSec`
  in the chart). `Undisturbed` says what a recovery has brought about at each of its
  tasks. In the routing recovery (`RecoveryInv`) the inventory stays complete from
  its check on (`InventoryKept`), is known once RTMgr has loaded it
  (`InventoryLoaded`), and a subscription that was refused before that belongs to a
  pod that is still to be replaced, the reason why the script restarts the xApps
  twice, or was made too early (`Renewed`).
- `MCUe_proofs`. The slot, with one operator (`Solo`): the Deployment is at zero
  replicas from the first command to the last but one, once the pod is awaited no UE
  exists, and the new DU has had no peer (`Prepared`). The store, for any profiles,
  number of writes and rotations: the member has its host, the task is still to set
  it, or it was initiated between the two steps of the task (`HostInv`); a
  provisioned profile has the key that a provisioning has read (`Provisioned`),
  which is the current one unless it was rotated since (`Current`); and the distance
  between network and UE is paid for by writes (`Paid`).
- `VariantApproval_proofs` follows what a run knows about the status (`Knows`):
  until the poll that it is up to date; while a new revision is required, that it
  names the previous one or the controller has caught up; from then on that the
  chosen revision is the newest. With `LatestIsReconciled` this gives
  `StaleReportNeedsCause`. `ReportedIsPublished` is proved for the helper and is
  false for the onboarding.
- `MCNephio_proofs` takes the helper's invariant into the composed run and adds the
  publication: a revision that is proposed, approved or published has been pushed
  (`PushedFirst`), and an operator who is alone has at each command what the
  commands before it have brought about (`OnTrack`).

What the prover cannot do with data, induction included, is done by hand: a set of
naturals without a least element is empty (`Least`, from the well-foundedness of
`<`), so what 0 has and a successor inherits holds of all (`NatInd`), and a
recursive function, which is a CHOOSE to the prover, has its equation once a
solution is exhibited.

Only model-checked: liveness (`EventuallyRouted`, `ShutdownReturns`,
`BufferReturned`, `StopReturns`, `RecoveredIsRouted`, `RerunRepairs`), because
fairness and ENABLED are out of the prover's reach.

## Not modelled

- The Nephio copies of `xAppBase.py`: the same file but for the name of one gauge.
- `refresh-kpm-xapps.sh`: it waits until E2Mgr lists the E2 node and restarts the
  same Deployments one after the other, each with its rollout; it looks at no
  inventory and does not touch RTMgr. And the `deploy_xapp` role, which installs one
  xApp in the order that `RoutingRecovery` checks, waits where that script does not,
  and deletes the former subscription that it finds in a log.
- `demo-xapp-update-rollback.sh`, which compares commits with what Flux has applied,
  and the onboarding of Gitea repositories and tokens.
- The asn1tools codec and the grammars under `lib/asn1`, the RMR, RIC REST and SDL
  libraries: external, modelled by how the code uses them. The constructor waits for
  `rmr_ready`, which is assumed to come.
- The diagnostics of `verify_e2.yml`, probes and the other declarations of Helm and
  Ansible (kubeadm, VMs, third-party charts), the container entrypoint of the core:
  sequential set-up without a protocol of its own.
- The document generators under `scripts/build-*.py`: page layout.

## Plan

1. Done: the components above, and the proofs of all their safety invariants, action
   properties and refinements.
2. `refresh-kpm-xapps.sh` beside `RoutingRecovery`, with the routes that a rolling
   restart leaves.
3. The `deploy_xapp` role with the subscription that a former process leaves behind,
   composed with `XAppSubscriptions` for what `stop()` deletes.
