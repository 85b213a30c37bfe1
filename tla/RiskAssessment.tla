---------------------------- MODULE RiskAssessment ----------------------------
(***************************************************************************)
(* Requests to plan a task, each one fact worse than the one before it:    *)
(* a reading further from its limits, one more historical issue, an        *)
(* artifact found to be sensitive.  Every request is assessed on its own,  *)
(* until one of them is carried out: what the task keeps of it is the      *)
(* artifact and the level.                                                 *)
(***************************************************************************)
EXTENDS RiskRules

CONSTANTS
  Readings,    \* metric -> the readings that requests carry
  MaxIssues,   \* bound on the times one kind of issue is reported
  Planned,     \* bound on the tasks: those a request may lead to
  NoRequest, NoTask

ASSUME ReadingsAssumption == \A m \in ToSet(Metrics) : Readings[m] \subseteq Int

VARIABLES
  request,   \* the request assessed last: risk.Input
  risk,      \* its RiskSnapshot
  task       \* the task that was planned

riskVars == <<request, risk, task>>

Assessed == request # NoRequest
Limit == Thresholds(request.group, request.high)

\* x is at least as far out as y, on the same side.
FurtherOut(metric, x, y) ==
  LET limits == Limit[metric]
  IN  y # NoReading => IF x < y THEN y <= limits.max ELSE x > y /\ y >= limits.min

Assessing(r) == /\ Assessed /\ request' = r /\ risk' = Assess(r)
                /\ UNCHANGED task

ReadWorse(metric) ==
  \E x \in Readings[metric] :
    /\ FurtherOut(metric, x, request.readings[metric])
    /\ Assessing([request EXCEPT !.readings[metric] = x])

ReportIssue(i) ==
  request.issues[i] < MaxIssues /\ Assessing([request EXCEPT !.issues[i] = @ + 1])

FindSensitive == ~request.high /\ Assessing([request EXCEPT !.high = TRUE])

PlanTask ==
  /\ Assessed
  /\ task' = [group |-> request.group, high |-> request.high, level |-> risk.level]
  /\ task' \in Planned
  /\ request' = NoRequest /\ risk' = Assessment(NoPoints)

AssessInit ==
  /\ request \in [group : Groups, high : BOOLEAN, issues : [Issues -> {0}],
                  readings : [ToSet(Metrics) -> {NoReading}]]
  /\ risk = Assess(request)
  /\ task = NoTask

AssessNext ==
  Assessed /\ (\/ \E m \in ToSet(Metrics) : ReadWorse(m)
               \/ \E i \in Issues : ReportIssue(i)
               \/ FindSensitive)

(***************************************************************************)
(* Properties.                                                             *)
(***************************************************************************)
Rank == [low |-> 0, medium |-> 1, high |-> 2]

\* Are the points of a reading within the ints of the build?
Countable(in, m) ==
  LET x == in.readings[m]
      limits == Thresholds(in.group, in.high)
  IN  x = NoReading \/ Steps(m, Deviation(m, x, limits), limits) + 5 <= IntMax

\* What the first n details add up to.
Sums(details) ==
  LET sum[n \in 0..Len(details)] == IF n = 0 THEN 0 ELSE sum[n - 1] + details[n].score
  IN  sum

\* The details account for the score, point by point, and never exceed 100 together.
DetailsAddUp ==
  /\ risk.score \in 0..100
  /\ Sums(risk.details)[Len(risk.details)] = risk.score

\* A fact that makes things worse never lowers the score or the level, nor takes an item
\* off the checklist: the four tables and the caps agree with each other, as far as
\* points are ints.
WorseIsNotBetter ==
  [][ Assessed' /\ (\A m \in ToSet(Metrics) : Countable(request', m)) =>
      /\ risk'.score >= risk.score
      /\ Rank[risk'.level] >= Rank[risk.level]
      /\ Checklist(risk.level, request.group) \subseteq
           Checklist(risk'.level, request'.group) ]_riskVars

\* Every reading outside its limits has a detail of its own, unless the details before it
\* have used up the score or its points are too many for an int; a reading within them
\* has none.
DeviationIsScored ==
  Assessed => \A m \in ToSet(Metrics) :
    LET x == request.readings[m]
        out == x # NoReading /\ (x > Limit[m].max \/ (x < Limit[m].min /\ m # "illuminance"))
        named == \E n \in DOMAIN risk.details : risk.details[n].rule = m
    IN  IF out /\ Countable(request, m) THEN named \/ risk.score = 100 ELSE ~named
=============================================================================
