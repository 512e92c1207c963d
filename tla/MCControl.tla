------------------------------ MODULE MCControl ------------------------------
(***************************************************************************)
(* The control path for TLC: the slice-quota loop of simple_xapp, the      *)
(* controller xApps with their shutdown, the encoders, and the PLMN        *)
(* conversion, side by side. They share no variable, so one behaviour is   *)
(* about one of them: `focus` names it, the others rest.                   *)
(***************************************************************************)
EXTENDS SliceQuota

CONSTANTS Malformed,
          Calls,       (* calls of the encoders tried                         *)
          PlmnChars,   (* characters of the PLMN strings tried                *)
          NoDigit      (* in PlmnChars, a letter                              *)

ASSUME PlmnAssumption ==
  NoDigit \notin 0..9 /\ PlmnChars \subseteq 0..9 \cup {NoDigit}

VARIABLES
  focus,
  app, broken, thread, step, running, main, locked, serving, rmrOpen, late,
  call, frame, params, callPc,
  text, plmn, octets, plmnPc

loopVars == <<app, broken, thread, step, running, main, locked, serving, rmrOpen, late>>
encodingVars == <<call, frame, params, callPc>>
plmnVars == <<text, plmn, octets, plmnPc>>
allVars == <<focus, vars, loopVars, encodingVars, plmnVars>>

Loop == INSTANCE ControlLoop

Encoding == INSTANCE ControlEncoding WITH pc <- callPc

(* What stands for an unreadable frame is no frame and nothing a reader    *)
(* returns.                                                                *)
ASSUME EncodingAssumption ==
  /\ \A c \in Calls : Encoding!IsCall(c)
  /\ Malformed \notin Seq(Int)
  /\ Malformed \notin [octets : Seq(Int), next : Int]
  /\ Malformed \notin [body : Seq(Int), next : Int, values : [Encoding!IEIds -> Seq(Int)]]

(* Ratios at and beyond both bounds; messages up to the octet that no      *)
(* longer fits, through the RC encoder and with two lengths of headers;    *)
(* the request id before and at its wrap.                                  *)
Ratios == [min : {-1, 0, 9, 10, 99, 100, 101}, max : {-1, 0, 9, 10, 99, 100, 101}, dedicated : {100}]
SomeCalls ==
  [fn : {"ccc"}, args : Ratios, h : {0}, m : {0}, last : {253, 254}, func : {2, 3, 4}]
  \cup [fn : {"quota"}, args : Ratios, h : {10}, m : {80}, last : {0}, func : {3}]
  \cup [fn : {"quota", "handover"}, args : {[min |-> 10, max |-> 30, dedicated |-> 100]},
        h : {1, 30}, m : {0, 1, 64, 65} \cup 93..95 \cup 191..230, last : {0}, func : {3}]

Plmns == INSTANCE Plmn WITH Char <- PlmnChars, pc <- plmnPc

ControlInit ==
  /\ focus \in {"quota", "loop", "encoding", "plmn"}
  /\ Init /\ Loop!Init /\ Encoding!Init /\ Plmns!Init
  /\ focus # "loop" => app.calls = "control_handover" /\ ~broken
  /\ focus # "plmn" => text = <<>>

Focus(component) == focus = component /\ UNCHANGED focus

QuotaStep == Focus("quota") /\ Next /\ UNCHANGED <<loopVars, encodingVars, plmnVars>>
LoopFrame == Focus("loop") /\ UNCHANGED <<vars, encodingVars, plmnVars>>
LoopController == LoopFrame /\ Loop!Controller
LoopStop == LoopFrame /\ Loop!Stop
LoopAnswer == LoopFrame /\ Loop!Answer
LoopStep == LoopFrame /\ Loop!Next
EncodingStep == Focus("encoding") /\ Encoding!Next /\ UNCHANGED <<vars, loopVars, plmnVars>>
PlmnStep == Focus("plmn") /\ Plmns!Next /\ UNCHANGED <<vars, loopVars, encodingVars>>

ControlNext == QuotaStep \/ LoopStep \/ EncodingStep \/ PlmnStep

(* The threads of a controller get time, sleeps end. *)
ControlSpec ==
  /\ ControlInit /\ [][ControlNext]_allVars
  /\ WF_allVars(LoopController) /\ WF_allVars(LoopStop) /\ WF_allVars(LoopAnswer)

-----------------------------------------------------------------------------
(* Once running is cleared, a controller sends the requests of one round   *)
(* at most (the loop looks at running only at its top).                    *)
LateWithinRound == Loop!TypeOK /\ Loop!LateWithinRound

(* A signal ends a controller, wherever it finds the thread, unless the    *)
(* HTTP server waits for a lock of the interrupted main thread.            *)
StopReturns == Loop!StopReturns

(* A control request that is sent is read by the E2 node as it was meant,  *)
(* or not at all, with ratios that are percentages (the hand-made frames   *)
(* and parameter trees of e2sm_rc_module and e2sm_ccc_module).             *)
RequestAsMeant ==
  /\ Encoding!FrameReadable /\ Encoding!RatiosInRange
  /\ Encoding!QuotaComplete /\ Encoding!HandoverNamesCell

(* A PLMN is read back from its octets, and its words from the PLMN        *)
(* (utils.py).                                                             *)
PlmnSurvives == Plmns!ReadsBack /\ Plmns!WordsSurvive
=============================================================================
