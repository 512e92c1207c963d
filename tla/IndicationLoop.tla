--------------------------- MODULE IndicationLoop ---------------------------
(***************************************************************************)
(* The RMR receive loop xAppBase._run, statement by statement: who owns    *)
(* each message buffer, which counter moves when, and where an exception   *)
(* goes. The HTTP server thread scrapes /metrics meanwhile; it reads the   *)
(* counters under _metrics_lock first and the table under                  *)
(* _subscription_lock second. The subscription table is abstracted to the  *)
(* one subscription each xApp makes (`stored`: none, or the kind of its    *)
(* e2sm_type), set by the xApp thread; XAppSubscriptions models it in full.*)
(***************************************************************************)
EXTENDS Naturals

CONSTANTS MaxMessages,  (* bound: receives that return a buffer or fail    *)
          MaxScrapes    (* bound: scrapes of /metrics                      *)

VARIABLES
  pc,         (* statement of _run the main thread is at                   *)
  buf,        (* sbuf: the buffer _run refers to, 0 for none               *)
  live,       (* buffers RMR has handed to the process and not got back    *)
  unread,     (* history: buffers whose message_summary raised             *)
  allocated,  (* buffers handed out so far                                 *)
  doubleFree, (* a buffer was given back that the process did not own      *)
  received,   (* receives so far                                           *)
  stored,     (* kind of the subscription in the table, "none" before      *)
  counters,   (* the four counters exported by _metrics_handler            *)
  spc,        (* HTTP thread: progress of a scrape                         *)
  read,       (* counters copied by the scrape in progress                 *)
  shown,      (* the last scrape delivered: its counters and active gauge  *)
  scrapes     (* scrapes delivered                                         *)

loopVars == <<pc, buf, live, unread, allocated, doubleFree, received>>
scrapeVars == <<spc, read, shown, scrapes>>
vars == <<loopVars, stored, counters, scrapeVars>>

Counters == [rmr : Nat, kpm : Nat, errors : Nat, updates : Nat]
Zero == [rmr |-> 0, kpm |-> 0, errors |-> 0, updates |-> 0]

TypeOK ==
  /\ pc \in {"receive", "route", "envelope", "meid", "decode", "lookup", "unpack",
             "record", "callback", "count", "raw", "free", "dead"}
  /\ buf \in Nat
  /\ live \subseteq Nat
  /\ unread \subseteq Nat
  /\ allocated \in Nat
  /\ doubleFree \in BOOLEAN
  /\ received \in Nat
  /\ stored \in {"none", "kpm", "raw"}
  /\ counters \in Counters
  /\ spc \in {"idle", "counted"}
  /\ read \in Counters
  /\ shown \in [counters : Counters, active : BOOLEAN]
  /\ scrapes \in Nat

Init ==
  /\ pc = "receive" /\ buf = 0 /\ live = {} /\ unread = {} /\ allocated = 0
  /\ doubleFree = FALSE /\ received = 0
  /\ stored = "none" /\ counters = Zero
  /\ spc = "idle" /\ read = Zero /\ scrapes = 0
  /\ shown = [counters |-> Zero, active |-> FALSE]

-----------------------------------------------------------------------------
(* Moves of the main thread that touch no buffer. *)
Goto(from, to) ==
  /\ pc = from /\ pc' = to
  /\ UNCHANGED <<buf, live, unread, allocated, doubleFree, received>>

Bump(c) == counters' = [counters EXCEPT ![c] = @ + 1]

(* rmr_free_msg gives a buffer back. *)
Free(b) ==
  /\ live' = live \ {b}
  /\ doubleFree' = (doubleFree \/ b \notin live)

Idle == UNCHANGED <<stored, counters, scrapeVars>>

(* rmr_torcv_msg allocates a buffer; what follows depends on the state and *)
(* the type of the message. Types 12041 and 12042 are only printed.        *)
Receive(to) ==
  /\ pc = "receive" /\ received < MaxMessages
  /\ allocated' = allocated + 1
  /\ buf' = allocated'
  /\ live' = live \cup {allocated'}
  /\ received' = received + 1
  /\ pc' = to
  /\ UNCHANGED <<unread, doubleFree>>
  /\ Idle

(* The 500 ms poll expired: a NULL buffer, not counted as an error. *)
ReceiveNull == pc = "receive" /\ UNCHANGED vars

(* Any other exception of the receive is counted; before a buffer was      *)
(* returned there is nothing to free.                                      *)
ReceiveRaises ==
  /\ pc = "receive" /\ received < MaxMessages
  /\ received' = received + 1
  /\ Bump("errors")
  /\ UNCHANGED <<pc, buf, live, unread, allocated, doubleFree, stored, scrapeVars>>

(* message_summary(sbuf) raises on a buffer that rmr_torcv_msg did return: *)
(* the same handler counts it and continues without freeing the buffer,    *)
(* and the next receive overwrites sbuf.                                   *)
ReceiveUnreadable ==
  /\ pc = "receive" /\ received < MaxMessages
  /\ allocated' = allocated + 1
  /\ buf' = allocated'
  /\ live' = live \cup {allocated'}
  /\ unread' = unread \cup {allocated'}
  /\ received' = received + 1
  /\ Bump("errors")
  /\ UNCHANGED <<pc, doubleFree, stored, scrapeVars>>

(* rmr_rts_msg takes the route update and returns the buffer of the        *)
(* acknowledgement, which _run frees; if it returns NULL or another state  *)
(* than 0 the helper raises and _run frees what its sbuf still is, the     *)
(* update. The helper's own message_summary is taken not to raise: it reads*)
(* the envelope that the first one could read, with the code's own payload.*)
AckRouteTable ==
  /\ pc = "route"
  /\ allocated' = allocated + 1
  /\ buf' = allocated'
  /\ live' = (live \ {buf}) \cup {allocated'}
  /\ pc' = "free"
  /\ UNCHANGED <<unread, doubleFree, received>>
  /\ Idle

AckRaises == Goto("route", "free") /\ Idle

CountEnvelope ==
  /\ Goto("envelope", "meid")
  /\ Bump("rmr")
  /\ UNCHANGED <<stored, scrapeVars>>

(* The MEID is decoded outside the inner try: an exception leaves _run. *)
DecodeMeid(ok) == Goto("meid", IF ok THEN "decode" ELSE "dead") /\ Idle

(* IndicationMsg.decode inside the try. *)
DecodeIndication(ok) == Goto("decode", IF ok THEN "lookup" ELSE "free") /\ Idle

(* Mutant: the buffer of a dropped indication is not freed. *)
DropKeepingBuffer == stored = "none" /\ Goto("lookup", "receive") /\ Idle

(* Mutant: the `continue` after the drop is missing. *)
DropFallingThrough ==
  /\ pc = "lookup" /\ stored = "none"
  /\ Free(buf)
  /\ pc' = "free"
  /\ UNCHANGED <<buf, unread, allocated, received>>
  /\ Idle

(* No callback for the indication: it is dropped and its buffer freed. *)
DropIndication ==
  /\ pc = "lookup" /\ stored = "none"
  /\ Free(buf)
  /\ pc' = "receive"
  /\ UNCHANGED <<buf, unread, allocated, received>>
  /\ Idle

FindSubscription ==
  /\ stored # "none"
  /\ Goto("lookup", IF stored = "kpm" THEN "unpack" ELSE "raw")
  /\ Idle

Unpack(ok) == Goto("unpack", IF ok THEN "record" ELSE "free") /\ Idle

(* _record_kpm_measurements: the series gets an update when the record     *)
(* carries a finite number.                                                *)
Record ==
  /\ Goto("record", "callback")
  /\ (Bump("updates") \/ UNCHANGED counters)
  /\ UNCHANGED <<stored, scrapeVars>>

RecordRaises == Goto("record", "free") /\ Idle

Callback(ok) == Goto("callback", IF ok THEN "count" ELSE "free") /\ Idle

CountKpm ==
  /\ Goto("count", "free")
  /\ Bump("kpm")
  /\ UNCHANGED <<stored, scrapeVars>>

RawCallback == Goto("raw", "free") /\ Idle

FreeBuffer ==
  /\ pc = "free"
  /\ Free(buf)
  /\ pc' = "receive"
  /\ UNCHANGED <<buf, unread, allocated, received>>
  /\ Idle

-----------------------------------------------------------------------------
(* The xApp thread stores its subscription. *)
Store(kind) ==
  /\ stored = "none" /\ stored' = kind
  /\ UNCHANGED <<loopVars, counters, scrapeVars>>

(* The HTTP thread: _metrics_handler. *)
ScrapeCounters ==
  /\ spc = "idle" /\ scrapes < MaxScrapes
  /\ read' = counters
  /\ spc' = "counted"
  /\ UNCHANGED <<loopVars, stored, counters, shown, scrapes>>

(* Mutant: the gauge is derived from the previous scrape. *)
ScrapeStaleActive ==
  /\ spc = "counted" /\ spc' = "idle"
  /\ shown' = [counters |-> read, active |-> shown.counters.kpm > 0]
  /\ scrapes' = scrapes + 1
  /\ UNCHANGED <<loopVars, stored, counters, read>>

ScrapeActive ==
  /\ spc = "counted"
  /\ shown' = [counters |-> read, active |-> stored # "none"]
  /\ spc' = "idle"
  /\ scrapes' = scrapes + 1
  /\ UNCHANGED <<loopVars, stored, counters, read>>

Done == pc = "dead" /\ UNCHANGED vars

-----------------------------------------------------------------------------
Handle ==
  \/ AckRouteTable \/ AckRaises \/ CountEnvelope \/ DropIndication \/ FindSubscription
  \/ Record \/ RecordRaises \/ CountKpm \/ RawCallback \/ FreeBuffer
  \/ \E ok \in BOOLEAN : DecodeMeid(ok) \/ DecodeIndication(ok) \/ Unpack(ok) \/ Callback(ok)

Next == \/ Handle \/ ScrapeCounters \/ ScrapeActive \/ ReceiveNull
        \/ ReceiveRaises \/ ReceiveUnreadable \/ Done
        \/ \E to \in {"route", "envelope", "free"} : Receive(to)
        \/ \E kind \in {"kpm", "raw"} : Store(kind)

Spec == Init /\ [][Next]_vars

(* The main thread is scheduled while it has a message to handle. *)
FairSpec == Spec /\ WF_vars(Handle)

-----------------------------------------------------------------------------
(* A buffer whose envelope could be read is given back exactly once on     *)
(* every path of the loop - acknowledged, dropped, undecodable, callback   *)
(* raised - before the next receive asks for another one: the process      *)
(* keeps the one in hand and, for good, those whose message_summary raised.*)
BufferDiscipline ==
  /\ ~doubleFree
  /\ pc = "receive" => live = unread
  /\ pc # "receive" => live = unread \cup {buf} /\ buf \notin unread

(* A scrape never shows more dispatched indications, nor more updates of a *)
(* series, than envelopes, at whatever statement it interrupts the loop.   *)
DispatchedWithinReceived ==
  /\ shown.counters.kpm <= shown.counters.rmr
  /\ shown.counters.updates <= shown.counters.rmr

(* A scrape that shows a dispatched indication shows an active             *)
(* subscription, although the two are read under different locks.          *)
DispatchImpliesActive == shown.counters.kpm > 0 => shown.active

(* A buffer whose envelope could be read is given back, whatever fails on  *)
(* the way, unless an undecodable MEID ends the main thread first.         *)
BufferReturned == live \ unread # {} ~> (live = unread \/ pc = "dead")
=============================================================================
