----------------------------- MODULE ControlLoop ----------------------------
(***************************************************************************)
(* The controller xApps: a thread that sends one control request of its    *)
(* schedule after the other, five seconds apart, and looks at running only *)
(* once per round; and the main thread, whose receive loop a signal turns  *)
(* into stop(), which stops the HTTP server and waits for the request it   *)
(* serves, closes RMR before it clears running and joins the thread.       *)
(* simple_rc_ho sends a single command through a method, control_handover, *)
(* that e2sm_rc does not have.                                             *)
(***************************************************************************)
EXTENDS Integers, Sequences

VARIABLES
  app,       (* the xApp                                                    *)
  broken,    (* its requests cannot be encoded: octets beyond 255           *)
  thread,    (* xApp thread: "top", "send", "sleep" or "ended"              *)
  step,      (* position in the schedule                                    *)
  running,   (* self.running                                                *)
  main,      (* main thread: "loop", then the statements of stop()          *)
  locked,    (* the main thread holds _metrics_lock                         *)
  serving,   (* the HTTP server serves a scrape of /metrics                 *)
  rmrOpen,   (* the RMR context is usable                                   *)
  late       (* history: requests sent after running was cleared            *)

httpVars == <<locked, serving>>
vars == <<app, broken, thread, step, running, main, httpVars, rmrOpen, late>>

(* A program: the maximum PRB ratios of one round of requests, whether it   *)
(* loops, and the method it calls for a request.                           *)
RcImplemented == [ratios |-> <<5, 50>>, loops |-> TRUE, calls |-> "slice_level_prb_quota"]
SimpleRc == [ratios |-> <<30, 50, 70, 100>>, loops |-> TRUE, calls |-> "slice_level_prb_quota"]
SimpleCcc == [ratios |-> <<25, 50, 75, 100>>, loops |-> TRUE, calls |-> "o_rrm_policy_ratio"]
SimpleRcHo == [ratios |-> <<0>>, loops |-> FALSE, calls |-> "control_handover"]
Apps == {RcImplemented, SimpleRc, SimpleCcc, SimpleRcHo}

(* The nice names the two modules give to their methods. *)
Methods == {"slice_level_prb_quota", "handover_control", "o_rrm_policy_ratio"}

Init ==
  /\ app \in Apps /\ broken \in BOOLEAN
  /\ thread = (IF app.loops THEN "top" ELSE "send") /\ step = 1
  /\ running = TRUE /\ main = "loop" /\ rmrOpen = TRUE
  /\ locked = FALSE /\ serving = FALSE
  /\ late = 0

-----------------------------------------------------------------------------
(* Mutant: the loop condition is always true. *)
LoopTopForever ==
  /\ thread = "top" /\ step' = 1
  /\ thread' = "send"
  /\ UNCHANGED <<app, broken, running, main, httpVars, rmrOpen, late>>

LoopTop ==
  /\ thread = "top" /\ step' = 1
  /\ thread' = IF running THEN "send" ELSE "ended"
  /\ UNCHANGED <<app, broken, running, main, httpVars, rmrOpen, late>>

(* The request is built and given to rmr_send. *)
SendRequest ==
  /\ thread = "send" /\ app.calls \in Methods /\ ~broken
  /\ late' = IF running THEN late ELSE late + 1
  /\ thread' = "sleep"
  /\ UNCHANGED <<app, broken, step, running, main, httpVars, rmrOpen>>

(* bytes() raises; RMR may fail in any way once it is closed; e2sm_rc has  *)
(* no control_handover. The exception ends the thread, and nothing tells   *)
(* the main thread.                                                        *)
SendRaises ==
  /\ thread = "send" /\ (broken \/ ~rmrOpen \/ app.calls \notin Methods)
  /\ thread' = "ended"
  /\ UNCHANGED <<app, broken, step, running, main, httpVars, rmrOpen, late>>

(* time.sleep(5), then the next request or the next round. *)
Wake ==
  /\ thread = "sleep"
  /\ IF step < Len(app.ratios)
     THEN step' = step + 1 /\ thread' = "send"
     ELSE step' = step /\ thread' = "top"
  /\ UNCHANGED <<app, broken, running, main, httpVars, rmrOpen, late>>

-----------------------------------------------------------------------------
Proceed(from, to) == main = from /\ main' = to

(* _run counts an envelope, or a receive error, under _metrics_lock.       *)
UpdateCounters ==
  /\ main = "loop" /\ locked' = ~locked
  /\ UNCHANGED <<app, broken, thread, step, running, main, serving, rmrOpen, late>>

(* _metrics_handler takes the same lock.                                   *)
Scrape ==
  /\ main = "loop" /\ ~serving /\ serving' = TRUE
  /\ UNCHANGED <<app, broken, thread, step, running, main, locked, rmrOpen, late>>

Answer ==
  /\ serving /\ ~locked /\ serving' = FALSE
  /\ UNCHANGED <<app, broken, thread, step, running, main, locked, rmrOpen, late>>

(* The handler runs on the main thread, which keeps a lock it holds. No    *)
(* subscription, so unsubscribe_all has nothing to do.                     *)
Signal ==
  /\ Proceed("loop", "http")
  /\ UNCHANGED <<app, broken, thread, step, running, httpVars, rmrOpen, late>>

(* The server ends after the request it is serving.                        *)
CloseHttp ==
  /\ Proceed("http", "rmr") /\ ~serving
  /\ UNCHANGED <<app, broken, thread, step, running, httpVars, rmrOpen, late>>

CloseRmr ==
  /\ Proceed("rmr", "flag") /\ rmrOpen' = FALSE
  /\ UNCHANGED <<app, broken, thread, step, running, httpVars, late>>

(* Mutant: running is left as it is. *)
ClearRunningNever ==
  /\ Proceed("flag", "join")
  /\ UNCHANGED <<app, broken, thread, step, running, httpVars, rmrOpen, late>>

ClearRunning ==
  /\ Proceed("flag", "join") /\ running' = FALSE
  /\ UNCHANGED <<app, broken, thread, step, httpVars, rmrOpen, late>>

Join ==
  /\ Proceed("join", "exited") /\ thread = "ended"
  /\ UNCHANGED <<app, broken, thread, step, running, httpVars, rmrOpen, late>>

(* rmr_send on a closed context is undefined: the process may die. *)
Crash ==
  /\ thread = "send" /\ ~rmrOpen /\ main # "exited"
  /\ main' = "exited" /\ thread' = "ended"
  /\ UNCHANGED <<app, broken, step, running, httpVars, rmrOpen, late>>

(* The scrape waits for a lock of the main thread, which waits for it.     *)
WaitsForMain == serving /\ locked

Blocked == main = "http" /\ WaitsForMain /\ UNCHANGED vars

Exited == main = "exited" /\ UNCHANGED vars

(* The main loop goes on polling without a controller. *)
Idle == main = "loop" /\ thread = "ended" /\ UNCHANGED vars

Controller == LoopTop \/ SendRequest \/ SendRaises \/ Wake
Stop == CloseHttp \/ CloseRmr \/ ClearRunning \/ Join

Next == \/ Controller \/ Stop \/ Signal \/ Crash \/ Blocked \/ Exited \/ Idle
        \/ UpdateCounters \/ Scrape \/ Answer

Spec == Init /\ [][Next]_vars

(* The three threads get time, sleeps end. *)
FairSpec == Spec /\ WF_vars(Controller) /\ WF_vars(Stop) /\ WF_vars(Answer)

-----------------------------------------------------------------------------
TypeOK ==
  /\ app \in Apps /\ broken \in BOOLEAN
  /\ thread \in {"top", "send", "sleep", "ended"}
  /\ step \in 1..Len(app.ratios)
  /\ running \in BOOLEAN /\ rmrOpen \in BOOLEAN
  /\ locked \in BOOLEAN /\ serving \in BOOLEAN
  /\ main \in {"loop", "http", "rmr", "flag", "join", "exited"}
  /\ late \in Nat

(* After running is cleared at most the requests of one round go out, so   *)
(* the join, too, waits for one round at most.                             *)
LateWithinRound == late <= Len(app.ratios)

(* A signal ends the process, wherever it finds the thread, unless it      *)
(* interrupts an update of the counters that a scrape is waiting for.      *)
StopReturns == (main = "http") ~> (main = "exited" \/ WaitsForMain)
=============================================================================
