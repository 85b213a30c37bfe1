--------------------------- MODULE InspectionIntake ---------------------------
(***************************************************************************)
(* From a report to an inspection entry: normalize of internal/inspection. *)
(*                                                                         *)
(* An inspector writes a report fact by fact, in the new form (one item    *)
(* for each entry of the checklist) or the old one (readings, observation  *)
(* and evidence for the whole task); after each fact the answer is what a  *)
(* request with the report as it stands would get.  The readings an item   *)
(* carries in the old way count as measurements of the item.  The task is  *)
(* one that RiskAssessment has planned.                                    *)
(***************************************************************************)
EXTENDS RiskAssessment, FiniteSets, FiniteSetsExt

CONSTANTS
  Trim,       \* raw string -> the string without the space around it
  RawCodes, RawRefs,  \* codes and evidence references as requests write them
  ValidRefs,  \* the references simpleEvidence and url.Parse accept
  Values,     \* metric -> the values that reports carry
  MaxFacts    \* bound on the measurements and references of a report

ASSUME TrimAssumption == RawCodes \cup RawRefs \subseteq DOMAIN Trim
ASSUME ValuesAssumption == \A m \in ToSet(Metrics) : Values[m] \subseteq Int
\* The name of a metric has no space around it.
ASSUME MetricsAreTrimmed == \A m \in ToSet(Metrics) \cap DOMAIN Trim : Trim[m] = m

VARIABLES
  report,  \* [items, readings, observation, unit, evidence]
  answer   \* what normalize returns for it

vars == <<request, risk, task, report, answer>>

ChecklistOrder == <<"environment", "appearance", "material", "emergency">>
ChecklistOf(t) == Checklist(t.level, t.group)

Conclusions == {"normal", "abnormal", "other"}
Observations == {"", "intact", "damaged"}
Units == {"", "matching", "other"}

\* The elements of s that are in S, in their order.
Among(s, S) ==
  LET found[n \in 0..Len(s)] ==
        IF n = 0 THEN <<>>
        ELSE IF s[n] \in S THEN Append(found[n - 1], s[n]) ELSE found[n - 1]
  IN  found[Len(s)]

Item(code, conclusion, observation) ==
  [code |-> code, conclusion |-> conclusion, observation |-> observation,
   measurements |-> <<>>, evidence |-> <<>>]

(***************************************************************************)
(* normalize.                                                              *)
(***************************************************************************)
\* The items that stand for a report in the old form.
LegacyItem(in, code) ==
  LET damaged == code = "appearance" /\ in.observation = "damaged"
      taken == Among(Metrics, {m \in ToSet(Metrics) : in.readings[m] # NoReading})
  IN  [code |-> code,
       conclusion |-> IF damaged THEN "abnormal" ELSE "normal",
       observation |-> IF in.observation = "" THEN "intact" ELSE in.observation,
       measurements |->
         IF code = "environment"
         THEN [n \in DOMAIN taken |-> [metric |-> taken[n], value |-> in.readings[taken[n]],
                                       unit |-> in.unit]]
         ELSE <<>>,
       evidence |-> IF damaged THEN in.evidence ELSE <<>>]

LegacyItems(t, in) ==
  LET codes == Among(ChecklistOrder, ChecklistOf(t))
  IN  [n \in DOMAIN codes |-> LegacyItem(in, codes[n])]

Explicit(in) == in.items # <<>>

Measurable == [temperature |-> [min |-> -300, max |-> 600],
               humidity    |-> [min |-> 0, max |-> 1000],
               illuminance |-> [min |-> 0, max |-> 100000]]

MeasurementFits(m, explicit) ==
  /\ m.unit = "matching" \/ (m.unit = "" /\ ~explicit)
  /\ m.value >= Measurable[m.metric].min /\ m.value <= Measurable[m.metric].max

AbnormalAtLimit(m, limits) ==  \* mutant: the upper limit itself counts as abnormal
  m.value >= limits[m.metric].max \/ (m.metric # "illuminance" /\ m.value < limits[m.metric].min)

Abnormal(m, limits) ==
  m.value > limits[m.metric].max \/ (m.metric # "illuminance" /\ m.value < limits[m.metric].min)

AbnormalMetrics(t, item) ==
  {m.metric : m \in {m \in ToSet(item.measurements) : Abnormal(m, Thresholds(t.group, t.high))}}

AnomaliesBefore(t, item, found) ==  \* mutant: computedAbnormal is not reset between items
  LET computed == AbnormalMetrics(t, item) \cup found
  IN  computed
      \cup (IF item.conclusion = "abnormal" /\ computed = {} THEN {item.code} ELSE {})
      \cup (IF item.code = "appearance" /\ item.observation = "damaged" THEN {"appearance"}
                                                                     ELSE {})

\* The anomalies of one item; found are those of the items before it.
ItemAnomalies(t, item, found) ==
  LET computed == AbnormalMetrics(t, item)
  IN  computed
      \cup (IF item.conclusion = "abnormal" /\ computed = {} THEN {item.code} ELSE {})
      \cup (IF item.code = "appearance" /\ item.observation = "damaged" THEN {"appearance"}
                                                                     ELSE {})

LacksEvidenceIfConcluded(t, in, item) ==  \* mutant: a reading out of range needs none
  item.conclusion = "abnormal" /\ item.evidence = <<>> /\ (Explicit(in) \/ in.evidence = <<>>)

LacksEvidence(t, in, item) ==
  /\ ItemAnomalies(t, item, {}) # {}
  /\ item.evidence = <<>>
  /\ Explicit(in) \/ in.evidence = <<>>

TrimAll(s) == [n \in DOMAIN s |-> Trim[s[n]]]

EvidenceFits(acc, item) ==
  LET all == acc.evidence \o TrimAll(item.evidence)
  IN  ToSet(all) \subseteq ValidRefs /\ IsInjective(all)

\* The measurements of metric m in an item, and the value of the last one.
MeasuredAt(item, m) == {n \in DOMAIN item.measurements : item.measurements[n].metric = m}
LastReading(item, m) == item.measurements[Max(MeasuredAt(item, m))].value

\* Of the readings of a metric the one read last counts for the whole inspection.
ReadingsAfter(readings, item) ==
  [m \in ToSet(Metrics) |->
     IF MeasuredAt(item, m) = {} THEN readings[m] ELSE LastReading(item, m)]

\* One item of the loop; the first error ends it.
CheckItem(t, in, acc, item) ==
  IF acc.error # "none" THEN acc
  ELSE IF \/ item.conclusion = "other"
          \/ item.observation = ""
          \/ \E m \in ToSet(item.measurements) : ~MeasurementFits(m, Explicit(in))
       THEN [acc EXCEPT !.error = "validation_error"]
  ELSE IF LacksEvidence(t, in, item) THEN [acc EXCEPT !.error = "evidence_required"]
  ELSE IF ~EvidenceFits(acc, item) THEN [acc EXCEPT !.error = "validation_error"]
  ELSE [error |-> "none",
        anomalies |-> acc.anomalies \cup ItemAnomalies(t, item, acc.anomalies),
        evidence |-> acc.evidence \o TrimAll(item.evidence),
        readings |-> ReadingsAfter(acc.readings, item),
        results |-> Append(acc.results, item)]

Refused(error) == [error |-> error, anomalies |-> {}, evidence |-> <<>>,
                   readings |-> [m \in ToSet(Metrics) |-> 0], results |-> <<>>]

\* What the loop has found after the first n items.
After(t, in, items) ==
  LET acc[n \in 0..Len(items)] ==
        IF n = 0 THEN Refused("none") ELSE CheckItem(t, in, acc[n - 1], items[n])
  IN  acc

\* The anomalies are returned sorted: here, as a set.
Normalize(t, in) ==
  LET items == IF Explicit(in) THEN in.items ELSE LegacyItems(t, in)
      codes == [n \in DOMAIN items |-> Trim[items[n].code]]
      expected == ChecklistOf(t)
      acc == After(t, in, items)[Len(items)]
  IN  IF ~(ToSet(codes) \subseteq expected /\ IsInjective(codes))
      THEN Refused("validation_error")
      ELSE IF expected # ToSet(codes) THEN Refused("checklist_incomplete")
      ELSE IF acc.error # "none" THEN Refused(acc.error) ELSE acc

(***************************************************************************)
(* Writing a report.                                                       *)
(***************************************************************************)
Facts(in) == FoldLeft(LAMBDA sum, item : sum + Len(item.measurements) + Len(item.evidence),
                      Len(in.evidence), in.items)

Blank == [items |-> <<>>, readings |-> [m \in ToSet(Metrics) |-> NoReading],
          observation |-> "", unit |-> "", evidence |-> <<>>]

AddItem(code, conclusion, observation) ==
  /\ [report EXCEPT !.items = <<>>] = Blank
  /\ Len(report.items) < Cardinality(ChecklistOf(task))
  /\ report' = [report EXCEPT !.items = Append(@, Item(code, conclusion, observation))]

Measure(metric, value, unit) ==
  /\ report.items # <<>> /\ Facts(report) < MaxFacts
  /\ report' = [report EXCEPT !.items[Len(report.items)].measurements =
                  Append(@, [metric |-> metric, value |-> value, unit |-> unit])]

Cite(ref) ==
  /\ report.items # <<>> /\ Facts(report) < MaxFacts
  /\ report' = [report EXCEPT !.items[Len(report.items)].evidence = Append(@, ref)]

\* The readings of the old form share one unit: each its own, none, or a wrong one.
ReadOldForm(metric, value, unit) ==
  /\ ~Explicit(report) /\ report.readings[metric] = NoReading
  /\ report' = [report EXCEPT !.readings[metric] = value, !.unit = unit]

ObserveOldForm(observation) ==
  /\ ~Explicit(report) /\ report.observation = ""
  /\ report' = [report EXCEPT !.observation = observation]

CiteOldForm(ref) ==
  /\ ~Explicit(report) /\ Facts(report) < MaxFacts
  /\ report' = [report EXCEPT !.evidence = Append(@, ref)]

Plan ==
  /\ PlanTask
  /\ report' = Blank /\ answer' = Normalize(task', Blank)

\* A report that is refused for what it holds already is not continued.
Continued ==
  /\ task # NoTask /\ answer.error # "validation_error"
  /\ After(task, report, report.items)[Len(report.items)].error # "validation_error"

WriteOn ==
  /\ Continued
  /\ \/ \E code \in RawCodes, conclusion \in Conclusions, observation \in Observations :
          AddItem(code, conclusion, observation)
     \/ \E m \in ToSet(Metrics) : \E x \in Values[m] :
          \E unit \in Units : ReadOldForm(m, x, unit) \/ Measure(m, x, unit)
     \/ \E observation \in Observations \ {""} : ObserveOldForm(observation)
     \/ \E ref \in RawRefs : Cite(ref) \/ CiteOldForm(ref)
  /\ answer' = Normalize(task, report')
  /\ UNCHANGED riskVars

Init == AssessInit /\ report = Blank /\ answer = Refused("not_found")

Next ==
  \/ AssessNext /\ UNCHANGED <<report, answer>>
  \/ Plan
  \/ WriteOn

Spec == Init /\ [][Next]_vars

(***************************************************************************)
(* Properties.                                                             *)
(***************************************************************************)
Accepted == answer.error = "none"
MeasuredIn(result, metric) ==
  {m.value : m \in {m \in ToSet(result.measurements) : m.metric = metric}}

\* The two packages judge a reading alike: it makes an anomaly exactly if the same reading
\* in a request to plan the task would have cost points.
InspectionAgreesWithRisk ==
  Accepted =>
    \A m \in ToSet(Metrics) :
      m \in answer.anomalies <=>
        \E n \in DOMAIN answer.results : \E x \in MeasuredIn(answer.results[n], m) :
          ReadingPoints(m, x, Thresholds(task.group, task.high)) > 0

\* Do all items that measure m come to the same reading?
OneReading(m) ==
  \A j, k \in {n \in DOMAIN answer.results : MeasuredAt(answer.results[n], m) # {}} :
    LastReading(answer.results[j], m) = LastReading(answer.results[k], m)

\* The order in which an inspector lists the items decides neither whether the report is
\* accepted nor which anomalies and references it has.  It does decide which reading of a
\* metric is recorded for the whole inspection, but only where items measure it differently.
OrderDoesNotMatter ==
  Accepted =>
    \A p \in {p \in [DOMAIN report.items -> DOMAIN report.items] : IsInjective(p)} :
      LET other == Normalize(task, [report EXCEPT !.items = [n \in DOMAIN @ |-> @[p[n]]]])
      IN  /\ other.error = "none"
          /\ other.anomalies = answer.anomalies
          /\ ToSet(other.evidence) = ToSet(answer.evidence)
          /\ \A m \in ToSet(Metrics) : other.readings[m] # answer.readings[m] => ~OneReading(m)

\* Does the result of one item show something abnormal?
ShowsAbnormal(result) ==
  \/ result.conclusion = "abnormal"
  \/ \E m \in ToSet(Metrics) : \E x \in MeasuredIn(result, m) :
       Deviation(m, x, Thresholds(task.group, task.high)) > 0

\* "异常检查项必须关联证据": every item that shows something abnormal is on record with
\* evidence of its own, which no other item uses.
AbnormalHasEvidence ==
  Accepted =>
    \A n \in DOMAIN answer.results :
      LET refs(k) == {Trim[r] : r \in ToSet(answer.results[k].evidence)} IN
      ShowsAbnormal(answer.results[n]) =>
        /\ refs(n) # {} /\ refs(n) \subseteq ToSet(answer.evidence)
        /\ \A k \in DOMAIN answer.results \ {n} : refs(k) \cap refs(n) = {}

\* The same of reports in the new form.
AbnormalHasEvidenceInNewForm == Explicit(report) => AbnormalHasEvidence
=============================================================================
