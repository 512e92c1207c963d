----------------------------- MODULE KpmExport -----------------------------
(***************************************************************************)
(* The path of a KPM report through a monitoring xApp: _run decodes it,    *)
(* _record_kpm_measurements updates the exported series under              *)
(* _metrics_lock, the callback of the xApp prints it, and /metrics copies  *)
(* the series for a scrape at any moment. Exceptions of either step end    *)
(* the handling of the report, not the loop.                               *)
(***************************************************************************)
EXTENDS KpmReport

CONSTANTS Metric,      (* metric names                                        *)
          Requests,    (* lists of metrics an xApp may be started with      *)
          Reports,     (* reports the E2 node may send                      *)
          Units,       (* metrics in metric_to_unit of kpm_implemented      *)
          LogEvery,    (* log_every of kpm_mon                              *)
          MaxReports   (* bound: reports received                           *)

VARIABLES
  app,      (* the xApp and the action definition of its subscription       *)
  pc,       (* statement of _run: "receive", "record" or "callback"         *)
  current,  (* the report being handled                                     *)
  series,   (* _kpm_measurements                                            *)
  rmr,      (* _rmr_indications_total, also the clock                       *)
  kpm,      (* _kpm_indications_total                                       *)
  count,    (* indication_count of kpm_mon                                  *)
  page,     (* the last page served by _metrics_handler                     *)
  recorded, (* history: reports stored, with the time of each               *)
  failed    (* history: reports whose callback raised                       *)

vars == <<app, pc, current, series, rmr, kpm, count, page, recorded, failed>>

(* E2SM-KPM: the format of the reports of each style. *)
FormatOf(style) == CASE style \in {1, 2} -> 1 [] style = 3 -> 2 [] OTHER -> 3

(* pack_action_def_format1 .. 5: a style and the metrics, one metric in    *)
(* format 3, where the packer exits on more. Conditions and UE ids are     *)
(* copied into the definition and bind the node, not the xApp.             *)
ActionDefinition(style, metrics) ==
  IF style = 3 /\ Len(metrics) > 1 THEN Raised
  ELSE [style |-> style, metrics |-> metrics]

(* What an invocation asks for: kpm_mon takes the style from the command   *)
(* line, exits on one its start function does not know and keeps the first *)
(* metric in style 3; kpm_implemented takes a style too, but subscribes to *)
(* style 1; the student xApps accept no other.                             *)
KpmMonApps ==
  {[name |-> "kpm_mon",
    asked |-> ActionDefinition(style, IF style = 3 THEN <<metrics[1]>> ELSE metrics)] :
      style \in 1..5, metrics \in Requests}
StyleOne(name) == {[name |-> name, asked |-> ActionDefinition(1, metrics)] : metrics \in Requests}
SimpleMonApps == StyleOne("simple_mon")
KpmImplementedApps == StyleOne("kpm_implemented")
TmtApps == StyleOne("kpm_mon_tmt")
LoadWatchApps == StyleOne("kpm_load_watch")
Apps == KpmMonApps \cup SimpleMonApps \cup KpmImplementedApps \cup TmtApps \cup LoadWatchApps

Init ==
  /\ app \in Apps
  /\ pc = "receive" /\ current = Raised
  /\ series = Empty /\ rmr = 0 /\ kpm = 0 /\ count = 0
  /\ page = [series |-> Empty, rmr |-> 0, kpm |-> 0]
  /\ recorded = <<>> /\ failed = {}

-----------------------------------------------------------------------------
(* An envelope of type 12050 for the subscription of the xApp. *)
Receive(report) ==
  /\ pc = "receive" /\ rmr < MaxReports
  /\ current' = report /\ rmr' = rmr + 1
  /\ pc' = "record"
  /\ UNCHANGED <<app, series, kpm, count, page, recorded, failed>>

(* Mutant: series that the report does not mention are dropped. *)
StoreOnly(old, samples, now) ==
  [s \in DOMAIN samples |->
     [value |-> samples[s], observed |-> now,
      updates |-> IF s \in DOMAIN old THEN old[s].updates + 1 ELSE 1]]

(* The loop under _metrics_lock: a new entry per sample, counting on. *)
Store(old, samples, now) ==
  [s \in DOMAIN old \cup DOMAIN samples |->
     IF s \notin DOMAIN samples THEN old[s]
     ELSE [value |-> samples[s], observed |-> now,
           updates |-> IF s \in DOMAIN old THEN old[s].updates + 1 ELSE 1]]

(* _record_kpm_measurements: all samples are collected before any is       *)
(* stored, so an exception leaves every series as it was.                  *)
Record ==
  /\ pc = "record" /\ Extract(current) # Raised
  /\ series' = Store(series, Samples(Extract(current)), rmr)
  /\ recorded' = Append(recorded, [report |-> current, at |-> rmr])
  /\ pc' = "callback"
  /\ UNCHANGED <<app, current, rmr, kpm, count, page, failed>>

RecordRaises ==
  /\ pc = "record" /\ Extract(current) = Raised
  /\ pc' = "receive"
  /\ UNCHANGED <<app, current, series, rmr, kpm, count, page, recorded, failed>>

(* kpm_mon prints the first report and one of log_every. *)
Prints(n) == app.name = "kpm_mon" => n = 1 \/ n % LogEvery = 0

(* Mutant: format-2 reports are looked up like format-1 reports. *)
KpmMonReadsLow(style) == IF style \in 1..3 THEN "measData" ELSE "ueMeasData"

(* The key kpm_mon indexes without a default. *)
KpmMonReads(style) == IF style \in {1, 2} THEN "measData" ELSE "ueMeasData"

(* The table metric_to_unit. *)
HasUnit(m) == m \in Units

(* kpm_implemented adds the values up and looks up the unit. *)
KpmImplementedRaises(data) ==
  \/ ~Has(data, "measData")
  \/ \E m \in DOMAIN data.measData : ~HasUnit(m) \/ NoValue \in ToSet(data.measData[m])

SimpleMonRaises(data) == ~Has(data, "measData")

KpmMonRaises(data) == ~Has(data, KpmMonReads(app.asked.style))

(* The callback extracts the data again and prints it; the student xApps   *)
(* look it up with defaults.                                               *)
PrintRaises(data) ==
  CASE app.name = "kpm_mon" -> KpmMonRaises(data)
    [] app.name = "simple_mon" -> SimpleMonRaises(data)
    [] app.name = "kpm_implemented" -> KpmImplementedRaises(data)
    [] OTHER -> FALSE

Callback ==
  /\ pc = "callback" /\ pc' = "receive"
  /\ count' = count + 1
  /\ IF Prints(count') /\ PrintRaises(Extract(current))
     THEN failed' = failed \cup {current} /\ UNCHANGED kpm
     ELSE kpm' = kpm + 1 /\ UNCHANGED failed
  /\ UNCHANGED <<app, current, series, rmr, page, recorded>>

(* Mutant: the totals of the page are those of the previous one. *)
ScrapeStaleTotals ==
  /\ page' = [series |-> series, rmr |-> page.rmr, kpm |-> page.kpm]
  /\ UNCHANGED <<app, pc, current, series, rmr, kpm, count, recorded, failed>>

(* The first critical section of _metrics_handler. *)
Scrape ==
  /\ page' = [series |-> series, rmr |-> rmr, kpm |-> kpm]
  /\ UNCHANGED <<app, pc, current, series, rmr, kpm, count, recorded, failed>>

Handle == Record \/ RecordRaises \/ Callback

Next == Handle \/ Scrape \/ \E r \in Reports : Receive(r)

Spec == Init /\ [][Next]_vars

-----------------------------------------------------------------------------
(* A decoded report: every record a list of items, a body perhaps with     *)
(* names, a condition with a metric and perhaps UEs.                       *)
Records == Seq(Seq(Int \cup {NoValue}))
Names == {NoList} \cup Seq(Metric)
IsReport(report) ==
  /\ report.format = 1 => report.names \in Names /\ report.records \in Records
  /\ report.format = 2 =>
       /\ report.conditions \in Seq([metric : Metric, ues : {NoList} \cup Seq(UE)]) \ {<<>>}
       /\ report.records \in Records
  /\ report.format = 3 =>
       report.ueReports \in Seq([ue : UE, names : Names, records : Records])

(* The table a report holds for a series, at most one, defined without the *)
(* dictionaries of the code: records, the owners of their columns, and the *)
(* owner the series belongs to. Of a UE that is listed twice, the last     *)
(* body counts.                                                            *)
Table(owners, x, records) == [owners |-> owners, of |-> x, records |-> records]

LastBodies(bodies, u) ==
  {bodies[b] : b \in {b \in DOMAIN bodies : /\ bodies[b].ue = u
                                            /\ \A c \in DOMAIN bodies : c > b => bodies[c].ue # u}}

Tables(report, s) ==
  CASE report.format = 1 ->
         IF s[2] = Node THEN {Table(report.names, s[1], report.records)} ELSE {}
    [] report.format = 2 ->
         LET c == Last(report.conditions)
         IN  IF c.ues = NoList \/ c.metric # s[1] THEN {}
             ELSE {Table(c.ues, s[2], report.records)}
    [] report.format = 3 ->
         {Table(body.names, s[1], body.records) : body \in LastBodies(report.ueReports, s[2])}
    [] OTHER -> {}

(* Item i of record r is a number of the table's owner, or is the last.    *)
Number(t, r, i) == t.owners[i] = t.of /\ t.records[r][i] # NoValue

IsLast(t, r, i) ==
  /\ Number(t, r, i)
  /\ \A q \in DOMAIN t.records : \A j \in DOMAIN t.records[q] :
       Number(t, q, j) => q < r \/ (q = r /\ j <= i)

Newest(t) ==
  UNION {{t.records[r][i] : i \in {i \in DOMAIN t.records[r] : IsLast(t, r, i)}} :
           r \in DOMAIN t.records}

(* The last number of the series in the report, if it has one.             *)
Readings(report, s) == UNION {Newest(t) : t \in Tables(report, s)}

AllSeries == Metric \X (UE \cup {Node})

Carriers(s) == {n \in DOMAIN recorded : Readings(recorded[n].report, s) # {}}

(* A series shows the last number of its metric and UE in the last stored  *)
(* report that has one, since when, and how many reports had one: neither  *)
(* a report without it, nor one that is undecodable, nor a callback that   *)
(* raises disturbs it, and no UE gets the value of another.                *)
SeriesIsLatestReading ==
  \A s \in AllSeries :
    LET C == Carriers(s) IN
    /\ (s \in DOMAIN series) <=> (C # {})
    /\ C # {} =>
         LET last == recorded[CHOOSE n \in C : \A k \in C : k <= n] IN
         /\ series[s].value \in Readings(last.report, s)
         /\ series[s].observed = last.at
         /\ series[s].updates = Cardinality(C)

(* A page never shows a reading newer than its own total of envelopes, nor *)
(* more updates of a series or more dispatched reports than envelopes,     *)
(* whichever statements of _run the scrape falls between.                  *)
PageIsConsistent ==
  /\ \A s \in DOMAIN page.series :
       page.series[s].observed <= page.rmr /\ page.series[s].updates <= page.rmr
  /\ page.kpm <= page.rmr

(* The node reports in the format of the style, and of the metrics asked.  *)
Answers(report) ==
  /\ report.format = FormatOf(app.asked.style)
  /\ report.format = 1 => ToSet(report.names) \subseteq ToSet(app.asked.metrics)

(* The callback fails only on a report that does not answer the action     *)
(* definition, on a format-2 report without UEs, and, in kpm_implemented,  *)
(* on an item without a value and when it asked for a metric it does not   *)
(* know.                                                                   *)
FailureIsExcused ==
  \A r \in failed :
    \/ ~Answers(r)
    \/ r.format = 2 /\ Last(r.conditions).ues = NoList
    \/ /\ app.name = "kpm_implemented"
       /\ \/ ~(ToSet(app.asked.metrics) \subseteq Units)
          \/ \E k \in DOMAIN r.records : NoValue \in ToSet(r.records[k])

TypeOK ==
  /\ app \in Apps
  /\ pc \in {"receive", "record", "callback"}
  /\ rmr \in 0..MaxReports /\ kpm \in 0..rmr /\ count \in 0..rmr
  /\ \A s \in DOMAIN series : series[s].updates \in 1..rmr /\ series[s].observed \in 1..rmr
=============================================================================
