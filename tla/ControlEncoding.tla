--------------------------- MODULE ControlEncoding --------------------------
(***************************************************************************)
(* Requests of every shape through the encoders: an xApp calls one of the  *)
(* three control functions, the module builds the parameters and the       *)
(* frame, rmr_send passes it on, and the E2 node reads it.                 *)
(***************************************************************************)
EXTENDS ControlRequest

CONSTANT Calls   (* the calls xApps may make                                 *)

VARIABLES call,     (* the function that was called, with its arguments       *)
          frame,    (* what was sent: a frame, or <<>>                        *)
          params,   (* the RAN parameters in the message of an RC request     *)
          pc        (* "idle", "called", "sent", "raised", "refused"          *)

vars == <<call, frame, params, pc>>

(* A call: its function and ratios, the request id used last, the RAN      *)
(* function, and, external, the lengths of the encoded RC header and       *)
(* message.                                                                *)
Functions == {"quota", "ccc", "handover"}
IsCall(c) ==
  c \in [fn : Functions, args : [min : Int, max : Int, dedicated : Int],
        h : Nat, m : Nat, last : Int, func : Int]

Init == pc = "idle" /\ call = Malformed /\ frame = <<>> /\ params = {}

Call(c) ==
  /\ pc = "idle" /\ pc' = "called"
  /\ call' = [fn |-> c.fn, args |-> c.args, h |-> c.h, m |-> c.m,
              id |-> NextId(c.last), func |-> c.func]
  /\ UNCHANGED <<frame, params>>

Emit(f) == frame' = (IF f = Malformed THEN <<>> ELSE f)
           /\ pc' = (IF f = Malformed THEN "raised" ELSE "sent")

RcBody == <<Run(HeaderByte, call.h), Run(MessageByte, call.m)>>

(* send_control_request_style_2_action_6 *)
SendQuota ==
  /\ pc = "called" /\ call.fn = "quota"
  /\ params' = Encoded(QuotaTree(call.args))
  /\ Emit(RcFrame(call.id, call.func, RcBody[1], RcBody[2], 1))
  /\ UNCHANGED call

(* send_control_request_style_3_action_1 *)
SendHandover ==
  /\ pc = "called" /\ call.fn = "handover"
  /\ params' = Encoded(HandoverTree)
  /\ Emit(RcFrame(call.id, call.func, RcBody[1], RcBody[2], 1))
  /\ UNCHANGED call

(* send_control_request_style_2_o_rrm_policy_ratio *)
SendPolicyRatio ==
  /\ pc = "called" /\ call.fn = "ccc" /\ CccAccepts(call.args)
  /\ Emit(CccFrame(call.id, call.func, CccHeader, CccMessage(call.args), 1))
  /\ UNCHANGED <<call, params>>

RefusePolicyRatio ==
  /\ pc = "called" /\ call.fn = "ccc" /\ ~CccAccepts(call.args)
  /\ pc' = "refused"
  /\ UNCHANGED <<call, frame, params>>

Return ==
  /\ pc \in {"sent", "raised", "refused"} /\ pc' = "idle"
  /\ call' = Malformed /\ frame' = <<>> /\ params' = {}

Next ==
  \/ \E c \in Calls : Call(c)
  \/ SendQuota \/ SendHandover \/ SendPolicyRatio \/ RefusePolicyRatio \/ Return

Spec == Init /\ [][Next]_vars

-----------------------------------------------------------------------------
Asked ==
  [id |-> call.id, func |-> call.func, ack |-> 1,
   header |-> IF call.fn = "ccc" THEN CccHeader ELSE RcBody[1],
   msg |-> IF call.fn = "ccc" THEN CccMessage(call.args) ELSE RcBody[2]]

(* A frame that is sent is read back as the request it was built from: any *)
(* CCC request, for all ratios, and RC requests whose frame is shorter     *)
(* than 128 octets after its length. An RC frame that is longer is not     *)
(* read as another request: it is not readable, or bytes() raises and      *)
(* nothing is sent.                                                        *)
FrameReadable ==
  pc = "sent" => \/ Read(frame) = Asked
                 \/ /\ call.fn # "ccc" /\ 33 + call.h + call.m >= 128
                    /\ Read(frame) = Malformed

(* The ratios that are sent are percentages, whatever was asked for; a CCC *)
(* request never has its maximum below its minimum.                        *)
RatiosInRange ==
  /\ pc = "sent" /\ call.fn = "quota" =>
       \A id \in {10, 11, 12} : \E p \in params : p.id = id /\ p.value \in 0..100
  /\ pc = "sent" /\ call.fn = "ccc" => Clamp(call.args.min) <= Clamp(call.args.max)

(* A quota request carries each parameter that the code spells out, so the *)
(* E2 node never sees a slice without its ratios.                          *)
QuotaComplete == pc = "sent" /\ call.fn = "quota" => params = QuotaTree(call.args)

(* A handover request carries its target cell and the heads of its three   *)
(* lists; the items of the lists, which the code does not wrap, are lost.  *)
HandoverNamesCell ==
  pc = "sent" /\ call.fn = "handover" => {p.id : p \in params} = 1..7 \cup {13, 19}
=============================================================================
