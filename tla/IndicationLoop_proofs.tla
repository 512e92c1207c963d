------------------------ MODULE IndicationLoop_proofs ------------------------
(***************************************************************************)
(* Proofs about IndicationLoop. LoopInv adds to the checked invariants     *)
(* what makes them inductive: how far the counters have got at each        *)
(* statement of _run, and that what a scrape has copied was true of the    *)
(* counters when it was copied and stays true of the table.                *)
(***************************************************************************)
EXTENDS IndicationLoop, TLAPS

(* The envelope is counted before anything that its dispatch counts. *)
CounterInv ==
  /\ counters.kpm <= counters.rmr
  /\ counters.updates <= counters.rmr
  /\ pc \in {"meid", "decode", "lookup", "unpack", "record", "callback", "count", "raw"}
       => counters.kpm < counters.rmr
  /\ pc \in {"meid", "decode", "lookup", "unpack", "record"}
       => counters.updates < counters.rmr

(* Nothing is dispatched as KPM before the table holds the subscription. *)
StoredInv ==
  /\ pc \in {"unpack", "record", "callback", "count"} => stored # "none"
  /\ counters.kpm > 0 => stored # "none"

(* The copy a scrape holds between its two critical sections. *)
ReadInv ==
  /\ read.kpm <= read.rmr
  /\ read.updates <= read.rmr
  /\ read.kpm > 0 => stored # "none"

(* No buffer is handed out twice. *)
BufferRange ==
  /\ allocated \in Nat
  /\ live \subseteq 1..allocated
  /\ unread \subseteq live

LoopInv ==
  /\ TypeOK
  /\ BufferDiscipline /\ BufferRange
  /\ CounterInv
  /\ StoredInv
  /\ ReadInv
  /\ DispatchedWithinReceived
  /\ DispatchImpliesActive

LEMMA InitLoopInv == Init => LoopInv
<1> SUFFICES ASSUME Init PROVE LoopInv
  OBVIOUS
<1>1. Zero \in Counters
  BY DEF Zero, Counters
<1>2. TypeOK
  BY <1>1 DEF Init, TypeOK
<1>3. BufferDiscipline /\ BufferRange
  BY DEF Init, BufferDiscipline, BufferRange
<1>4. CounterInv /\ StoredInv /\ ReadInv /\ DispatchedWithinReceived /\ DispatchImpliesActive
  BY DEF Init, Zero, CounterInv, StoredInv, ReadInv, DispatchedWithinReceived,
     DispatchImpliesActive
<1> QED
  BY <1>2, <1>3, <1>4 DEF LoopInv

(* The statements of the loop leave the copies of the scrape alone. *)
LEMMA ScrapeFrame ==
  ASSUME LoopInv, UNCHANGED scrapeVars, stored # "none" => stored' # "none"
  PROVE  /\ spc' \in {"idle", "counted"} /\ read' \in Counters
         /\ shown' \in [counters : Counters, active : BOOLEAN] /\ scrapes' \in Nat
         /\ ReadInv' /\ DispatchedWithinReceived' /\ DispatchImpliesActive'
  BY DEF LoopInv, TypeOK, ReadInv, DispatchedWithinReceived, DispatchImpliesActive,
     scrapeVars

(* A buffer that has been handed out is at most as many as were. *)
LEMMA FreshBuffer ==
  ASSUME BufferRange, allocated' = allocated + 1
  PROVE  /\ allocated' \in Nat /\ allocated' \notin live
         /\ 1..allocated \subseteq 1..allocated' /\ allocated' \in 1..allocated'
<1>1. allocated \in Nat /\ live \subseteq 1..allocated
  BY DEF BufferRange
<1> QED BY <1>1

LEMMA BufferStep ==
  ASSUME LoopInv,
         Handle \/ ReceiveUnreadable \/ \E to \in {"route", "envelope", "free"} : Receive(to)
  PROVE  BufferDiscipline' /\ BufferRange'
<1>1. /\ ~doubleFree
      /\ pc = "receive" => live = unread
      /\ pc # "receive" => live = unread \cup {buf} /\ buf \notin unread
      /\ BufferRange
  BY DEF LoopInv, BufferDiscipline
<1>2. CASE AckRouteTable
  <2>1. /\ allocated' = allocated + 1 /\ buf' = allocated' /\ UNCHANGED <<unread, doubleFree>>
        /\ live' = (live \ {buf}) \cup {allocated'} /\ pc = "route" /\ pc' = "free"
    BY <1>2 DEF AckRouteTable
  <2>2. live' = unread \cup {buf'} /\ buf' \notin unread
    BY <1>1, <2>1, FreshBuffer DEF BufferRange
  <2> QED
    BY <1>1, <2>1, <2>2, FreshBuffer DEF BufferDiscipline, BufferRange
<1>3. CASE AckRaises \/ CountEnvelope \/ FindSubscription \/ Record \/ RecordRaises
           \/ CountKpm \/ RawCallback
           \/ \E ok \in BOOLEAN : DecodeMeid(ok) \/ DecodeIndication(ok) \/ Unpack(ok)
                                  \/ Callback(ok)
  <2>1. pc # "receive" /\ pc' # "receive" /\ UNCHANGED <<buf, live, unread, allocated, doubleFree>>
    BY <1>3 DEF Goto, AckRaises, CountEnvelope, FindSubscription, Record, RecordRaises, CountKpm,
       RawCallback, DecodeMeid, DecodeIndication, Unpack, Callback
  <2> QED
    BY <1>1, <2>1 DEF BufferDiscipline, BufferRange
<1>4. CASE DropIndication \/ FreeBuffer
  <2>1. /\ pc # "receive" /\ pc' = "receive" /\ UNCHANGED <<buf, unread, allocated>>
        /\ live' = live \ {buf} /\ doubleFree' = (doubleFree \/ buf \notin live)
    BY <1>4, Zenon DEF DropIndication, FreeBuffer, Free
  <2> QED
    BY <1>1, <2>1 DEF BufferDiscipline, BufferRange
<1>5. CASE \E to \in {"route", "envelope", "free"} : Receive(to)
  <2>1. /\ pc = "receive" /\ pc' # "receive" /\ allocated' = allocated + 1 /\ buf' = allocated'
        /\ live' = live \cup {allocated'} /\ UNCHANGED <<unread, doubleFree>>
    BY <1>5 DEF Receive
  <2> QED
    BY <1>1, <2>1, FreshBuffer DEF BufferDiscipline, BufferRange
<1>6. CASE ReceiveUnreadable
  <2>1. /\ pc = "receive" /\ pc' = pc /\ allocated' = allocated + 1 /\ doubleFree' = doubleFree
        /\ live' = live \cup {allocated'} /\ unread' = unread \cup {allocated'}
    BY <1>6 DEF ReceiveUnreadable
  <2> QED
    BY <1>1, <2>1, FreshBuffer DEF BufferDiscipline, BufferRange
<1> QED
  BY <1>2, <1>3, <1>4, <1>5, <1>6 DEF Handle

LEMMA LoopStep ==
  ASSUME LoopInv,
         Handle \/ ReceiveUnreadable \/ \E to \in {"route", "envelope", "free"} : Receive(to)
  PROVE  LoopInv'
<1> DEFINE Frame == UNCHANGED <<stored, scrapeVars>>
<1>1. BufferDiscipline' /\ BufferRange'
  BY BufferStep
<1>2. Frame
  BY DEF Handle, AckRouteTable, AckRaises, CountEnvelope, DropIndication, FindSubscription,
     Record, RecordRaises, CountKpm, RawCallback, FreeBuffer, DecodeMeid, DecodeIndication,
     Unpack, Callback, Receive, ReceiveUnreadable, Idle
<1>3. /\ spc' \in {"idle", "counted"} /\ read' \in Counters
      /\ shown' \in [counters : Counters, active : BOOLEAN] /\ scrapes' \in Nat
      /\ ReadInv' /\ DispatchedWithinReceived' /\ DispatchImpliesActive'
  BY <1>2, ScrapeFrame
<1>4. TypeOK'
  <2> USE DEF Handle, AckRouteTable, AckRaises, CountEnvelope, DropIndication,
          FindSubscription, Record, RecordRaises, CountKpm, RawCallback, FreeBuffer,
          DecodeMeid, DecodeIndication, Unpack, Callback, Receive, ReceiveUnreadable, Goto,
          Idle
  <2>1. /\ pc' \in {"receive", "route", "envelope", "meid", "decode", "lookup", "unpack",
                     "record", "callback", "count", "raw", "free", "dead"}
        /\ stored' \in {"none", "kpm", "raw"}
    BY <1>2 DEF LoopInv, TypeOK
  <2>2. allocated' \in Nat /\ buf' \in Nat /\ received' \in Nat
    BY DEF LoopInv, TypeOK, Free
  <2>4. live' \subseteq Nat /\ unread' \subseteq Nat
    <3>1. live \subseteq Nat /\ unread \subseteq Nat /\ buf' \in Nat /\ allocated' \in Nat
      BY <2>2 DEF LoopInv, TypeOK
    <3>2. live' \in {live, live \ {buf}, (live \ {buf}) \cup {allocated'},
                    live \cup {allocated'}}
          /\ unread' \in {unread, unread \cup {allocated'}}
      BY DEF Free
    <3> QED
      BY <3>1, <3>2
  <2>5. doubleFree' \in BOOLEAN
    <3>1. doubleFree' = doubleFree \/ doubleFree' = (doubleFree \/ buf \notin live)
      BY Zenon DEF Free
    <3> QED
      BY <3>1 DEF LoopInv, TypeOK
  <2>3. counters' \in Counters
    BY DEF LoopInv, TypeOK, Counters, Bump
  <2> HIDE DEF Handle, AckRouteTable, AckRaises, CountEnvelope, DropIndication,
          FindSubscription, Record, RecordRaises, CountKpm, RawCallback, FreeBuffer,
          DecodeMeid, DecodeIndication, Unpack, Callback, Receive, ReceiveUnreadable, Goto,
          Idle
  <2> QED
    BY <1>3, <2>1, <2>2, <2>3, <2>4, <2>5 DEF TypeOK
<1>5. CounterInv' /\ StoredInv'
  <2>1. CASE AckRouteTable \/ AckRaises \/ DropIndication \/ FindSubscription \/ RecordRaises
             \/ RawCallback \/ FreeBuffer
             \/ \E ok \in BOOLEAN : DecodeMeid(ok) \/ DecodeIndication(ok) \/ Unpack(ok)
                                    \/ Callback(ok)
             \/ \E to \in {"route", "envelope", "free"} : Receive(to)
    BY <2>1 DEF LoopInv, TypeOK, Counters, CounterInv, StoredInv, AckRouteTable, AckRaises,
       DropIndication, FindSubscription, RecordRaises, RawCallback, FreeBuffer, DecodeMeid,
       DecodeIndication, Unpack, Callback, Receive, Goto, Idle
  <2>2. CASE CountEnvelope \/ Record \/ CountKpm \/ ReceiveUnreadable
    BY <2>2 DEF LoopInv, TypeOK, Counters, CounterInv, StoredInv, CountEnvelope, Record,
       CountKpm, ReceiveUnreadable, Goto, Bump
  <2> QED
    BY <2>1, <2>2 DEF Handle
<1> QED
  BY <1>1, <1>3, <1>4, <1>5 DEF LoopInv

LEMMA NextLoopInv == LoopInv /\ [Next]_vars => LoopInv'
<1> SUFFICES ASSUME LoopInv, [Next]_vars PROVE LoopInv'
  OBVIOUS
<1>1. CASE Handle \/ ReceiveUnreadable
           \/ \E to \in {"route", "envelope", "free"} : Receive(to)
  BY <1>1, LoopStep
<1>2. CASE \E kind \in {"kpm", "raw"} : Store(kind)
  <2>1. UNCHANGED <<loopVars, counters, scrapeVars>> /\ stored' \in {"kpm", "raw"}
    BY <1>2 DEF Store
  <2> QED
    BY <2>1, ScrapeFrame DEF LoopInv, TypeOK, BufferDiscipline, BufferRange, CounterInv, StoredInv,
       loopVars
<1>3. CASE ScrapeCounters
  <2>1. /\ UNCHANGED <<loopVars, stored, counters, shown, scrapes>>
        /\ read' = counters /\ spc' = "counted"
    BY <1>3 DEF ScrapeCounters
  <2>2. ReadInv'
    BY <2>1 DEF LoopInv, CounterInv, StoredInv, ReadInv
  <2> QED
    BY <2>1, <2>2 DEF LoopInv, TypeOK, BufferDiscipline, BufferRange, CounterInv, StoredInv,
       DispatchedWithinReceived, DispatchImpliesActive, loopVars
<1>6. CASE ScrapeActive
  <2>1. /\ UNCHANGED <<loopVars, stored, counters, read>>
        /\ shown' = [counters |-> read, active |-> stored # "none"]
        /\ spc' = "idle" /\ scrapes' = scrapes + 1
    BY <1>6 DEF ScrapeActive
  <2>2. DispatchedWithinReceived' /\ DispatchImpliesActive'
    BY <2>1 DEF LoopInv, ReadInv, DispatchedWithinReceived, DispatchImpliesActive
  <2>3. TypeOK'
    BY <2>1 DEF LoopInv, TypeOK, loopVars
  <2> QED
    BY <2>1, <2>2, <2>3 DEF LoopInv, BufferDiscipline, BufferRange, CounterInv, StoredInv, ReadInv,
       loopVars
<1>4. CASE ReceiveRaises
  <2>1. UNCHANGED <<pc, buf, live, unread, allocated, doubleFree, stored, scrapeVars>>
    BY <1>4 DEF ReceiveRaises
  <2>2. /\ received' \in Nat /\ counters' \in Counters
        /\ \A c \in {"rmr", "kpm", "updates"} : counters'[c] = counters[c]
    BY <1>4 DEF ReceiveRaises, Bump, LoopInv, TypeOK, Counters
  <2> QED
    BY <2>1, <2>2, ScrapeFrame DEF LoopInv, TypeOK, BufferDiscipline, BufferRange, CounterInv, StoredInv
<1>5. CASE ReceiveNull \/ Done \/ UNCHANGED vars
  <2>1. UNCHANGED <<loopVars, stored, counters, scrapeVars>>
    BY <1>5 DEF ReceiveNull, Done, vars
  <2> QED
    BY <2>1, ScrapeFrame DEF LoopInv, TypeOK, BufferDiscipline, BufferRange, CounterInv, StoredInv,
       loopVars
<1> QED
  BY <1>1, <1>2, <1>3, <1>4, <1>5, <1>6 DEF Next

(* TypeOK and everything the proofs need hold in every reachable state. *)
THEOREM LoopInvariance == Spec => []LoopInv
  BY InitLoopInv, NextLoopInv, PTL DEF Spec

(* Buffers whose envelope could be read are given back exactly once, for   *)
(* any number of messages, unreadable ones among them.                     *)
THEOREM BufferDisciplineHolds == Spec => []BufferDiscipline
<1>1. LoopInv => BufferDiscipline
  BY DEF LoopInv
<1> QED
  BY <1>1, LoopInvariance, PTL

(* What a scrape shows is consistent, whenever it interrupts the loop. *)
THEOREM ScrapesConsistent == Spec => [](DispatchedWithinReceived /\ DispatchImpliesActive)
<1>1. LoopInv => DispatchedWithinReceived /\ DispatchImpliesActive
  BY DEF LoopInv
<1> QED
  BY <1>1, LoopInvariance, PTL
=============================================================================
