------------------------------ MODULE MCReports ------------------------------
(***************************************************************************)
(* The report path for TLC: the receive loop, the exported series, the     *)
(* activity monitor and the load watch, side by side. The components share *)
(* no variable, so one behaviour is about one of them: `focus` names it    *)
(* and the others rest in their initial state. A property of one component *)
(* holds of the others' behaviours because their variables do not move.    *)
(* The instances: floats of three binary digits, values around the         *)
(* threshold 2 of the monitor and one far above it, whose sum with another *)
(* rounds; readings of each class of the load watch, one negative, one     *)
(* spike that a window of three remembers.                                 *)
(***************************************************************************)
EXTENDS ActivityMonitor

CONSTANTS UE, Node, NoList, Raised, Metric, Requests, m1, m2, m3, u1, u2

(* Of the receive loop, the exported series and the load watch. *)
CONSTANTS LoopMessages, LoopScrapes,
          FormatReports, HistoryReports, UnitsKnown, PrintEvery, MaxHistory,
          LoadValues, LoadWindow, ActiveThreshold, BusyThreshold, LoadLogEvery, MaxLoads

(* LoadClassifier.__init__ raises on other thresholds and windows; the     *)
(* xApps take max(1, log_every). A history has room for a report.          *)
ASSUME ReportsAssumption ==
  /\ LoadValues \subseteq Int /\ NoValue \notin LoadValues
  /\ LoadWindow \in Nat \ {0}
  /\ ActiveThreshold \in Nat /\ BusyThreshold \in Nat /\ ActiveThreshold < BusyThreshold
  /\ LoadLogEvery \in Nat \ {0} /\ MaxLoads \in Nat
  /\ MaxHistory \in Nat \ {0}

VARIABLES
  focus,
  loopPc, buf, live, unread, allocated, doubleFree, received, stored, counters,
  loopSpc, loopRead, loopShown, loopScrapes,
  app, exportPc, current, series, rmr, exportKpm, count, page, recorded, failed,
  loadPc, loadValue, loadIndications, changed, window, load, loadTransitions,
  loadSamples, lines, unlogged, loadShown, ago

loopVars == <<loopPc, buf, live, unread, allocated, doubleFree, received, stored, counters,
              loopSpc, loopRead, loopShown, loopScrapes>>
exportVars == <<app, exportPc, current, series, rmr, exportKpm, count, page, recorded, failed>>
loadVars == <<loadPc, loadValue, loadIndications, changed, window, load, loadTransitions,
              loadSamples, lines, unlogged, loadShown, ago>>
allVars == <<focus, vars, loopVars, exportVars, loadVars>>

-----------------------------------------------------------------------------
Metrics == {m1, m2}
UEs == {u1, u2}
AnyRecord == {<<>>, <<1>>, <<NoValue>>, <<1, 2>>, <<2, NoValue>>, <<NoValue, 1>>,
              <<NoValue, NoValue>>}
(* Floats of three binary digits, over the range of the sums of a window. *)
ShortFloats == (-4..8) \cup {2 * m : m \in 4..8} \cup {4 * m : m \in 4..8}
SomeLoads == {-6, 0, 2, 4, 12}
SomeRequests == {<<m1, m2>>, <<m3>>}
Lists(S) == {<<>>} \cup {<<a>> : a \in S} \cup {<<a, b>> : a, b \in S}

(* Every report with two names, two UEs and two records of two items. *)
All1 == [format : {1}, names : {NoList} \cup (Lists(Metrics) \ {<<>>}),
         records : Lists(AnyRecord)]
Conditions == [metric : Metrics, ues : {NoList} \cup Lists(UEs)]
All2 == [format : {2},
         conditions : {<<c>> : c \in Conditions}
                      \cup {<<[metric |-> m, ues |-> <<u1>>], c>> : m \in Metrics, c \in Conditions},
         records : {<<>>} \cup {<<r>> : r \in AnyRecord} \cup {<<r, <<1, 2>> >> : r \in AnyRecord}]
Body(S) == [ue : UEs, names : {<<m1>>, <<m2, m1>>}, records : S]
Nameless == [ue |-> u2, names |-> NoList, records |-> <<<<1>>>>]
FewRecords == {<<>>, <<1>>, <<NoValue>>, <<1, 2>>}
All3 == [format : {3},
         ueReports : {<<b>> : b \in Body(Lists(FewRecords))}
                     \cup {<<b, c>> : b, c \in Body({<<r>> : r \in FewRecords})}
                     \cup {<<b, Nameless>> : b \in Body({<<<<1>>>>})}]
AllReports == All1 \cup All2 \cup All3 \cup {[format |-> 0]}

(* Reports for histories: each metric and UE present, absent, without a    *)
(* number, undecodable, without names or UE list, of every format.         *)
SomeReports ==
  {[format |-> 1, names |-> <<m1, m2>>, records |-> <<<<1, 2>>>>],
   [format |-> 1, names |-> <<m1>>, records |-> <<<<2>>, <<NoValue>>>>],
   [format |-> 1, names |-> <<m1>>, records |-> <<<<1, 2>>>>],
   [format |-> 1, names |-> <<m3>>, records |-> <<<<1>>>>],
   [format |-> 1, names |-> NoList, records |-> <<<<1>>>>],
   [format |-> 2, conditions |-> <<[metric |-> m1, ues |-> <<u1, u2>>]>>, records |-> <<<<1, 2>>>>],
   [format |-> 2, conditions |-> <<[metric |-> m1, ues |-> NoList]>>, records |-> <<>>],
   [format |-> 3, ueReports |-> <<[ue |-> u1, names |-> <<m1>>, records |-> <<<<2>>>>],
                                  [ue |-> u2, names |-> <<m1>>, records |-> <<<<NoValue>>>>]>>]}

-----------------------------------------------------------------------------
Loop == INSTANCE IndicationLoop WITH
  MaxMessages <- LoopMessages, MaxScrapes <- LoopScrapes,
  pc <- loopPc, spc <- loopSpc, read <- loopRead, shown <- loopShown, scrapes <- loopScrapes

Export == INSTANCE KpmExport WITH
  Reports <- FormatReports \cup HistoryReports, Units <- UnitsKnown, LogEvery <- PrintEvery,
  MaxReports <- MaxHistory,
  pc <- exportPc, kpm <- exportKpm

Load == INSTANCE LoadWatch WITH
  Values <- LoadValues, WindowSize <- LoadWindow, LogEvery <- LoadLogEvery,
  MaxIndications <- MaxLoads,
  pc <- loadPc, value <- loadValue, indications <- loadIndications, state <- load,
  transitions <- loadTransitions, samples <- loadSamples,
  shown <- loadShown

ASSUME ReportTypes == \A r \in FormatReports \cup HistoryReports : Export!IsReport(r)

ReportsInit ==
  /\ focus \in {"monitor", "loop", "formats", "history", "load"}
  /\ Init /\ Loop!Init /\ Export!Init /\ Load!Init
  /\ focus \notin {"formats", "history"} => app = [name |-> "simple_mon",
                                                   asked |-> [style |-> 1, metrics |-> <<m3>>]]

Focus(component) == focus = component /\ UNCHANGED focus

MonitorStep == Focus("monitor") /\ Next /\ UNCHANGED <<loopVars, exportVars, loadVars>>
LoopFrame == Focus("loop") /\ UNCHANGED <<vars, exportVars, loadVars>>
ExportFrame == UNCHANGED <<vars, loopVars, loadVars>>
ExportWorks == Export!Handle \/ Export!Scrape

(* One report of any content, and histories of a few. *)
FormatsStep ==
  /\ Focus("formats") /\ ExportFrame
  /\ ExportWorks \/ (rmr = 0 /\ \E r \in FormatReports : Export!Receive(r))

HistoryStep ==
  /\ Focus("history") /\ ExportFrame
  /\ ExportWorks \/ \E r \in HistoryReports : Export!Receive(r)

LoadStep == Focus("load") /\ Load!Next /\ UNCHANGED <<vars, loopVars, exportVars>>
LoopHandles == LoopFrame /\ Loop!Handle
LoopStep == LoopFrame /\ Loop!Next

ReportsNext == MonitorStep \/ LoopStep \/ FormatsStep \/ HistoryStep \/ LoadStep

(* The main thread is scheduled while it has a message to handle. *)
ReportsSpec == ReportsInit /\ [][ReportsNext]_allVars /\ WF_allVars(LoopHandles)

-----------------------------------------------------------------------------
(* The type invariants of the four components, the bounds of their windows *)
(* and counters among them.                                                *)
StateOK == TypeOK /\ Loop!TypeOK /\ Export!TypeOK /\ Load!TypeOK

(* Every buffer that RMR handed to _run and whose envelope could be read   *)
(* is given back exactly once.                                             *)
BufferDiscipline == Loop!BufferDiscipline

(* A scrape never shows more dispatched indications or updates than        *)
(* envelopes, nor a dispatched indication without a subscription           *)
(* (_metrics_handler reads them under two locks).                          *)
ScrapeConsistent == Loop!DispatchedWithinReceived /\ Loop!DispatchImpliesActive

(* Such a buffer is given back, whatever fails on the way. *)
BufferReturned == Loop!BufferReturned

(* A series shows the last number of its metric and UE, whatever report    *)
(* came after it (_record_kpm_measurements).                               *)
SeriesIsLatestReading == Export!SeriesIsLatestReading

(* A page of /metrics never runs ahead of its own totals. *)
PageIsConsistent == Export!PageIsConsistent

(* Callbacks fail only on reports that are not what they subscribed to. *)
FailureIsExcused == Export!FailureIsExcused

(* The class of the load lies between the extremes of the last WindowSize  *)
(* raw samples (LoadClassifier.observe).                                   *)
StateWithinRecentSamples == Load!StateWithinRecentSamples

(* A spike keeps the load busy while it is in the window. *)
SpikeKeepsBusy == Load!SpikeKeepsBusy

(* Every change of the class is logged, little else is, and a page shows   *)
(* as many changes as lead to the class it shows.                          *)
ChangesLogged == Load!ChangesLogged /\ Load!LogsBounded /\ Load!PageOfOneMoment
=============================================================================
