----------------------------- MODULE KpmReport -----------------------------
(***************************************************************************)
(* What e2sm_kpm_module.extract_meas_data makes of a decoded indication    *)
(* message, and which Prometheus series xAppBase takes from the result.    *)
(* A report is the decoded message: format 1 is a list of metric names and *)
(* a list of records, format 2 a list of conditions (each a metric and the *)
(* UEs that match it) and records, format 3 one format-1 body per UE.      *)
(* Python exceptions (KeyError, IndexError) are the value Raised.          *)
(***************************************************************************)
EXTENDS Integers, Sequences, SequencesExt

CONSTANTS UE,       (* UE ids: the first value of the ueID choice           *)
          Node,     (* scope of a series that belongs to no UE              *)
          NoList,   (* matchingUEidList or measInfoList is absent           *)
          NoValue,  (* a record item that is no finite number               *)
          Raised    (* the extraction ends with an exception                *)

Empty == [x \in {} |-> x]

-----------------------------------------------------------------------------
(* The values of one record at the positions that belong to x.            *)
Picked(record, owners, x) ==
  LET picked[i \in 0..Len(record)] ==
        IF i = 0 THEN <<>>
        ELSE IF owners[i] = x THEN Append(picked[i - 1], record[i]) ELSE picked[i - 1]
  IN  picked[Len(record)]

(* meas_data_dict[x] after all appends: record by record, item by item.    *)
(* A name that occurs twice shares one list.                               *)
Column(owners, records, x) ==
  LET column[r \in 0..Len(records)] ==
        IF r = 0 THEN <<>> ELSE column[r - 1] \o Picked(records[r], owners, x)
  IN  column[Len(records)]

(* An index into the names (or UEs) beyond the end of the list. *)
Overlong(owners, records) ==
  \E r \in DOMAIN records : Len(records[r]) > Len(owners)

(* _extract_meas_data_ind_msg_f1, also the body of each UE in format 3,    *)
(* indexes measInfoList, which is OPTIONAL, without a default.             *)
MeasData(body) ==
  IF body.names = NoList \/ Overlong(body.names, body.records) THEN Raised
  ELSE [m \in ToSet(body.names) |-> Column(body.names, body.records, m)]

Format1(report) ==
  LET data == MeasData(report)
  IN  IF data = Raised THEN Raised ELSE [measData |-> data]

(* The comments restrict format 2 to one metric: measData of each UE is    *)
(* assigned anew per metric and keeps the last one, values go to the first *)
(* one; the UE list is that of the last condition.                         *)
Format2(report) ==
  LET names == [i \in DOMAIN report.conditions |-> report.conditions[i].metric]
      ues == Last(report.conditions).ues
      misfit == /\ names[1] # Last(names)
                /\ \E r \in DOMAIN report.records : report.records[r] # <<>>
  IN  IF ues = NoList THEN Empty
      ELSE IF Overlong(ues, report.records) \/ misfit THEN Raised
      ELSE [ueMeasData |->
              [u \in ToSet(ues) |-> [m \in {Last(names)} |-> Column(ues, report.records, u)]]]

(* A UE that is listed twice keeps its last body. *)
Format3(report) ==
  LET bodies == [i \in DOMAIN report.ueReports |-> MeasData(report.ueReports[i])]
      ids == [i \in DOMAIN report.ueReports |-> report.ueReports[i].ue]
  IN  IF Raised \in ToSet(bodies) THEN Raised
      ELSE [ueMeasData |->
              [u \in ToSet(ids) |-> bodies[SelectLastInSeq(ids, LAMBDA v : v = u)]]]

(* extract_meas_data; any other format yields the empty dictionary. *)
Extract(report) ==
  CASE report.format = 1 -> Format1(report)
    [] report.format = 2 -> Format2(report)
    [] report.format = 3 -> Format3(report)
    [] OTHER -> Empty

Has(data, field) == data # Raised /\ field \in DOMAIN data

-----------------------------------------------------------------------------
(* _latest_numeric: the newest finite number, or none. *)
LatestNumeric(values) ==
  LET numbers == {i \in DOMAIN values : values[i] # NoValue}
  IN  IF numbers = {} THEN NoValue
      ELSE values[CHOOSE i \in numbers : \A j \in numbers : j <= i]

(* The samples of _record_kpm_measurements: a series is a metric with the  *)
(* UE it belongs to, or Node; a list without a number gives no sample.     *)
NodeSamples(data) ==
  IF ~Has(data, "measData") THEN Empty
  ELSE LET kept == {m \in DOMAIN data.measData : LatestNumeric(data.measData[m]) # NoValue}
       IN  [s \in kept \X {Node} |-> LatestNumeric(data.measData[s[1]])]

UeSamples(data) ==
  IF ~Has(data, "ueMeasData") THEN Empty
  ELSE LET pairs == UNION {(DOMAIN data.ueMeasData[u]) \X {u} : u \in DOMAIN data.ueMeasData}
           value(s) == LatestNumeric(data.ueMeasData[s[2]][s[1]])
       IN  [s \in {p \in pairs : value(p) # NoValue} |-> value(s)]

Samples(data) ==
  LET node == NodeSamples(data)
      ue == UeSamples(data)
  IN  [s \in DOMAIN node \cup DOMAIN ue |-> IF s \in DOMAIN node THEN node[s] ELSE ue[s]]
=============================================================================
