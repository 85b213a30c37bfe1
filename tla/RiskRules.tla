------------------------------ MODULE RiskRules ------------------------------
(***************************************************************************)
(* The rules of internal/risk: the thresholds that apply to an artifact,   *)
(* the score of a request to plan a task, and the checklist of the task.   *)
(*                                                                         *)
(* Temperatures and humidities are whole tenths, illuminances whole lux.   *)
(* On that grid the floating-point products of the source round up to the  *)
(* same points as the exact ones below.  A material stands for its group.  *)
(***************************************************************************)
EXTENDS Integers, Sequences, SequencesExt

CONSTANTS
  Kinds,       \* kinds of historical issues, numbered from 1 in the order of their names
  NoReading,   \* a reading the request leaves out
  IntMax,      \* the largest int of the build
  OutOfRange   \* what the build makes of a float that is too large for an int

ASSUME KindsAssumption == Kinds \in Nat
ASSUME NoReadingAssumption == NoReading \notin Int
\* The compiler's choice: amd64 yields the smallest int, arm64 the largest.  An int of Go has
\* at least 32 bits.
ASSUME ConversionAssumption ==
  IntMax \in Nat /\ IntMax > 1000000 /\ OutOfRange \in {IntMax, -IntMax - 1}

Groups == {"paper", "silk", "wood", "metal", "other"}
Metrics == <<"temperature", "humidity", "illuminance">>
Levels == <<"low", "medium", "high">>
Issues == 1..Kinds

Limits(tempMin, tempMax, humMin, humMax, illMax) ==
  [temperature |-> [min |-> 10 * tempMin, max |-> 10 * tempMax],
   humidity    |-> [min |-> 10 * humMin, max |-> 10 * humMax],
   illuminance |-> [min |-> 0, max |-> illMax]]

Normal ==
  [paper |-> Limits(18, 22, 45, 58, 50),  silk  |-> Limits(18, 22, 45, 58, 50),
   wood  |-> Limits(16, 24, 45, 60, 150), metal |-> Limits(16, 26, 30, 60, 200),
   other |-> Limits(18, 22, 40, 55, 100)]

Sensitive ==
  [paper |-> Limits(18, 21, 45, 55, 35),  silk  |-> Limits(18, 21, 45, 55, 35),
   wood  |-> Limits(18, 22, 48, 58, 100), metal |-> Limits(18, 24, 35, 55, 150),
   other |-> Limits(18, 21, 42, 52, 75)]

\* The thresholds a task keeps from its creation on.
Thresholds(group, high) == IF high THEN Sensitive[group] ELSE Normal[group]

DeviationAbove(metric, x, limits) ==  \* mutant: a reading below its range is overlooked
  IF x > limits[metric].max THEN x - limits[metric].max ELSE 0

\* A negative illuminance is not below any limit.
Deviation(metric, x, limits) ==
  IF x > limits[metric].max THEN x - limits[metric].max
  ELSE IF x < limits[metric].min /\ metric # "illuminance" THEN limits[metric].min - x
  ELSE 0

(***************************************************************************)
(* Points.                                                                 *)
(***************************************************************************)
Least(m, n) == IF m <= n THEN m ELSE n
RoundUp(n, d) == (n + d - 1) \div d

\* int(math.Ceil(...)), and the addition of two ints.
ToInt(n) == IF n > IntMax THEN OutOfRange ELSE n
Wrapped(n) == IF n > IntMax THEN n - 2 * IntMax - 2 ELSE n

\* Three points a degree, one and a half a percent, fifteen for every multiple of the limit.
Steps(metric, dev, limits) ==
  CASE metric = "temperature" -> RoundUp(3 * dev, 10)
    [] metric = "humidity"    -> RoundUp(3 * dev, 20)
    [] metric = "illuminance" -> RoundUp(15 * dev, limits.illuminance.max)

Cap == [temperature |-> 20, humidity |-> 30, illuminance |-> 25]

ReadingPoints(metric, x, limits) ==
  LET dev == IF x = NoReading THEN 0 ELSE Deviation(metric, x, limits)
  IN  IF dev = 0 THEN 0
      ELSE Least(Cap[metric], Wrapped(5 + ToInt(Steps(metric, dev, limits))))

IssuePoints(n) == Least(20, 4 * n + IF n > 1 THEN 3 * (n - 1) ELSE 0)

BasePoints(group, high) ==
  (IF group \in {"paper", "silk", "wood"} THEN 10 ELSE 5) + (IF high THEN 8 ELSE 0)

(***************************************************************************)
(* The assessment.                                                         *)
(***************************************************************************)
AddUncapped(snapshot, rule) ==  \* mutant: the detail that reaches the cap is not cut
  IF rule.score <= 0 \/ snapshot.score >= 100 THEN snapshot
  ELSE [score |-> Least(100, snapshot.score + rule.score),
        details |-> Append(snapshot.details, rule)]

\* The closure add of Assess: the total stops at 100, cutting the last detail.
AddRule(snapshot, rule) ==
  IF rule.score <= 0 \/ snapshot.score >= 100 THEN snapshot
  ELSE LET cut == Least(rule.score, 100 - snapshot.score)
       IN  [score |-> snapshot.score + cut,
            details |-> Append(snapshot.details, [rule EXCEPT !.score = cut])]

\* The rules in the order they are applied; the issues in the order of their names.
RulesFor(in) ==
  LET limits == Thresholds(in.group, in.high)
  IN  <<[rule |-> "material_sensitivity", score |-> BasePoints(in.group, in.high)]>>
      \o [n \in 1..Len(Metrics) |->
           [rule |-> Metrics[n],
            score |-> ReadingPoints(Metrics[n], in.readings[Metrics[n]], limits)]]
      \o [n \in Issues |-> [rule |-> "historical_issue", score |-> IssuePoints(in.issues[n])]]

Level(score) == IF score >= 60 THEN "high" ELSE IF score >= 30 THEN "medium" ELSE "low"

NoPoints == [score |-> 0, details |-> <<>>]
Assessment(total) ==
  [score |-> total.score, details |-> total.details, level |-> Level(total.score)]

\* What the first n rules add up to.
Totals(rules) ==
  LET total[n \in 0..Len(rules)] ==
        IF n = 0 THEN NoPoints ELSE AddRule(total[n - 1], rules[n])
  IN  total

Assess(in) ==
  LET rules == RulesFor(in)
  IN  Assessment(Totals(rules)[Len(rules)])

ChecklistMediumOnly(level, group) ==  \* mutant: the material item is for medium risk only
  {"environment", "appearance"}
  \cup (IF level = "medium" \/ group \in {"paper", "silk", "wood"} THEN {"material"} ELSE {})
  \cup (IF level = "high" THEN {"emergency"} ELSE {})

Checklist(level, group) ==
  {"environment", "appearance"}
  \cup (IF level # "low" \/ group \in {"paper", "silk", "wood"} THEN {"material"} ELSE {})
  \cup (IF level = "high" THEN {"emergency"} ELSE {})
=============================================================================
