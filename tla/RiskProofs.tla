------------------------------ MODULE RiskProofs ------------------------------
(***************************************************************************)
(* Proofs about the assessment of risks, for any readings, any number of   *)
(* kinds of issues and any width of an int: the details account for the    *)
(* score, a worse request never scores less, and every deviation is named. *)
(*                                                                         *)
(* The score is computed rule by rule.  What holds after each rule is      *)
(* shown by induction on their number: over the set of the numbers for     *)
(* which it holds, since the theorems on induction take an operator.       *)
(***************************************************************************)
EXTENDS InspectionIntake, SequenceTheorems, WellFoundedInduction, TLAPS

(***************************************************************************)
(* Induction and recursion up to a number.                                 *)
(***************************************************************************)
\* What holds of 0, and of n if of n - 1, holds of all numbers up to N.
LEMMA UpTo ==
  ASSUME NEW N \in Nat, NEW Good \in SUBSET (0..N), 0 \in Good,
         \A n \in 1..N : n - 1 \in Good => n \in Good
  PROVE  \A n \in 0..N : n \in Good
<1> DEFINE R == {ss \in Nat \X Nat : ss[1] < ss[2]}
           Bad == (0..N) \ Good
<1>1. SUFFICES ASSUME Bad # {} PROVE FALSE
  OBVIOUS
<1>2. IsWellFoundedOn(R, Nat)
  BY NatLessThanWellFounded DEF OpToRel
<1>3. \A y, x \in Nat : y < x => <<y, x>> \in R
  OBVIOUS
<1>4. Bad \subseteq Nat
  OBVIOUS
<1> HIDE DEF R, Bad
<1>5. PICK x \in Bad : \A y \in Bad : ~ (<<y, x>> \in R)
  BY <1>1, <1>2, <1>4, WFMin
<1>6. x \in 1..N /\ x - 1 \in 0..N /\ x - 1 < x
  BY <1>4 DEF Bad
<1>7. x - 1 \notin Bad
  BY <1>3, <1>4, <1>5, <1>6
<1>8. QED BY <1>6, <1>7 DEF Bad

\* f is defined by recursion: from b, the n-th step by G[n].
Recurses(f, N, b, G) == f[0] = b /\ \A n \in 1..N : f[n] = G[n][f[n - 1]]

LEMMA Recursion ==
  ASSUME NEW N \in Nat, NEW V, NEW b \in V, NEW G \in [1..N -> [V -> V]]
  PROVE  \E f \in [0..N -> V] : Recurses(f, N, b, G)
<1> DEFINE Partial(n, g) == g[0] = b /\ \A k \in 1..n : g[k] = G[k][g[k - 1]]
           Good == {n \in 0..N : \E g \in [0..n -> V] : Partial(n, g)}
<1>1. 0 \in Good
  <2> DEFINE g == [k \in 0..0 |-> b]
  <2>1. g \in [0..0 -> V] /\ g[0] = b /\ 0 \in 0..N /\ 1..0 = {}
    OBVIOUS
  <2> HIDE DEF g
  <2>2. Partial(0, g)
    BY <2>1
  <2>3. QED BY <2>1, <2>2
<1>2. ASSUME NEW n \in 1..N, n - 1 \in Good
      PROVE  n \in Good
  <2>1. PICK g \in [0..(n - 1) -> V] : Partial(n - 1, g)
    BY <1>2
  <2> DEFINE h == [k \in 0..n |-> IF k = n THEN G[n][g[n - 1]] ELSE g[k]]
  <2>2. n - 1 \in 0..(n - 1) /\ \A k \in 0..n : k # n => k \in 0..(n - 1)
    OBVIOUS
  <2>3. h \in [0..n -> V]
    BY <2>2
  <2>4. h[n] = G[n][g[n - 1]] /\ \A k \in 0..(n - 1) : h[k] = g[k]
    OBVIOUS
  <2> HIDE DEF h
  <2>5. h[0] = b /\ 0 \in 0..(n - 1)
    BY <2>1, <2>4
  <2>6. ASSUME NEW k \in 1..n PROVE h[k] = G[k][h[k - 1]]
    <3>1. CASE k = n
      BY <2>2, <2>4, <3>1
    <3>2. CASE k # n
      <4>1. k \in 1..(n - 1) /\ k \in 0..(n - 1) /\ k - 1 \in 0..(n - 1)
        BY <3>2
      <4>2. QED BY <2>1, <2>4, <4>1
    <3>3. QED BY <3>1, <3>2
  <2>7. QED BY <2>3, <2>5, <2>6
<1> HIDE DEF Good
<1>3. N \in Good
  <2>1. Good \in SUBSET (0..N)
    BY DEF Good
  <2>2. N \in 0..N
    OBVIOUS
  <2>3. QED BY <1>1, <1>2, <2>1, <2>2, UpTo
<1>4. QED BY <1>3 DEF Good, Recurses

(***************************************************************************)
(* Adding up rules, and adding up details.                                 *)
(***************************************************************************)
RuleNames == {"material_sensitivity", "temperature", "humidity", "illuminance", "historical_issue"}
Detail == [rule : RuleNames, score : Int]
Points == [score : 0..100, details : Seq(Detail)]

LEMMA LeastFacts ==
  ASSUME NEW m \in Int, NEW n \in Int
  PROVE  Least(m, n) \in Int /\ Least(m, n) <= m /\ Least(m, n) <= n /\ Least(m, n) \in {m, n}
BY DEF Least

\* The closure add leaves the snapshot alone, or appends one detail, cut to what is left of 100.
LEMMA RuleSkipped ==
  ASSUME NEW p \in Points, NEW rule \in Detail, rule.score <= 0 \/ p.score = 100
  PROVE  AddRule(p, rule) = p
<1>1. p.score = 100 => p.score >= 100
  OBVIOUS
<1>2. QED BY <1>1 DEF AddRule

LEMMA RuleAdded ==
  ASSUME NEW p \in Points, NEW rule \in Detail, rule.score > 0, p.score # 100
  PROVE  \E cut \in 1..100 :
           /\ cut = Least(rule.score, 100 - p.score) /\ p.score + cut \in 0..100
           /\ [rule |-> rule.rule, score |-> cut] \in Detail
           /\ AddRule(p, rule) =
                [score |-> p.score + cut,
                 details |-> Append(p.details, [rule |-> rule.rule, score |-> cut])]
<1> DEFINE cut == Least(rule.score, 100 - p.score)
<1>1. p.score \in 0..100 /\ rule.score \in Int /\ rule.rule \in RuleNames
  BY DEF Points, Detail
<1>2. p.score \in Int /\ 100 - p.score \in Int /\ p.score >= 0 /\ p.score < 100
  BY <1>1
<1>3. cut \in Int /\ cut <= 100 - p.score /\ cut \in {rule.score, 100 - p.score}
  BY <1>1, <1>2, LeastFacts
<1>4. ~(rule.score <= 0 \/ p.score >= 100)
  BY <1>1, <1>2
<1>5. AddRule(p, rule) =
        [score |-> p.score + cut, details |-> Append(p.details, [rule EXCEPT !.score = cut])]
  BY <1>4 DEF AddRule
<1> HIDE DEF cut
<1>6. cut > 0
  BY <1>1, <1>2, <1>3
<1>7. cut \in 1..100 /\ p.score + cut \in 0..100
  BY <1>2, <1>3, <1>6
<1>8. [rule EXCEPT !.score = cut] = [rule |-> rule.rule, score |-> cut]
  BY DEF Detail
<1>9. [rule |-> rule.rule, score |-> cut] \in Detail
  BY <1>1, <1>3 DEF Detail
<1>10. cut = Least(rule.score, 100 - p.score)
  BY DEF cut
<1> DEFINE d == [rule |-> rule.rule, score |-> cut]
<1>11. AddRule(p, rule) = [score |-> p.score + cut, details |-> Append(p.details, d)]
  BY <1>5, <1>8
<1>12. QED BY <1>7, <1>9, <1>10, <1>11

LEMMA RuleKeepsPoints ==
  ASSUME NEW p \in Points, NEW rule \in Detail
  PROVE  AddRule(p, rule) \in Points
<1>1. CASE rule.score <= 0 \/ p.score = 100
  BY <1>1, RuleSkipped
<1>2. CASE ~(rule.score <= 0 \/ p.score = 100)
  <2>1. rule.score > 0
    BY <1>2 DEF Detail
  <2>2. PICK cut \in 1..100 :
          /\ p.score + cut \in 0..100
          /\ [rule |-> rule.rule, score |-> cut] \in Detail
          /\ AddRule(p, rule) =
               [score |-> p.score + cut,
                details |-> Append(p.details, [rule |-> rule.rule, score |-> cut])]
    BY <1>2, <2>1, RuleAdded
  <2> DEFINE d == [rule |-> rule.rule, score |-> cut]
  <2>3. d \in Detail /\ p.details \in Seq(Detail)
    BY <2>2 DEF Points
  <2>4. AddRule(p, rule) = [score |-> p.score + cut, details |-> Append(p.details, d)]
    BY <2>2
  <2> HIDE DEF d
  <2>5. Append(p.details, d) \in Seq(Detail)
    BY <2>3
  <2>6. QED BY <2>2, <2>4, <2>5 DEF Points
<1>3. QED BY <1>1, <1>2

\* The totals of Assess and the sums of the details follow their recursions.
LEMMA TotalsFacts ==
  ASSUME NEW rules \in Seq(Detail)
  PROVE  /\ Totals(rules)[0] = NoPoints
         /\ \A n \in 1..Len(rules) : Totals(rules)[n] = AddRule(Totals(rules)[n - 1], rules[n])
         /\ \A n \in 0..Len(rules) : Totals(rules)[n] \in Points
<1> DEFINE N == Len(rules)
           t == Totals(rules)
           Step(f) == [n \in 0..N |-> IF n = 0 THEN NoPoints ELSE AddRule(f[n - 1], rules[n])]
           G == [n \in 1..N |-> [v \in Points |-> AddRule(v, rules[n])]]
<1>1. N \in Nat /\ \A n \in 1..N : rules[n] \in Detail
  OBVIOUS
<1>2. NoPoints \in Points
  BY DEF NoPoints, Points
<1>3. \A n \in 1..N : \A v \in Points : G[n][v] = AddRule(v, rules[n])
  OBVIOUS
<1>4. G \in [1..N -> [Points -> Points]]
  BY <1>1, RuleKeepsPoints
<1> HIDE DEF G
<1>5. PICK f \in [0..N -> Points] :
        f[0] = NoPoints /\ \A n \in 1..N : f[n] = G[n][f[n - 1]]
  <2> HIDE DEF N
  <2>1. N \in Nat
    BY <1>1
  <2>2. \E f \in [0..N -> Points] : Recurses(f, N, NoPoints, G)
    BY <1>2, <1>4, <2>1, Recursion, Zenon
  <2>3. QED BY <2>2 DEF Recurses
<1>6. f = Step(f)
  <2>1. \A n \in 0..N : n # 0 => n \in 1..N /\ n - 1 \in 0..N
    BY <1>1
  <2>2. \A n \in 0..N : f[n] = Step(f)[n]
    BY <1>3, <1>5, <2>1
  <2>3. QED BY <1>5, <2>2
<1>7. t = CHOOSE g : g = Step(g)
  BY DEF Totals
<1> HIDE DEF t
<1>8. t = Step(t)
  <2> HIDE DEF Step
  <2>1. QED BY <1>6, <1>7
<1>9. t[0] = NoPoints /\ \A n \in 1..N : t[n] = AddRule(t[n - 1], rules[n])
  <2>1. 0 \in 0..N /\ \A n \in 1..N : n \in 0..N /\ n # 0
    BY <1>1
  <2>2. \A n \in 0..N : t[n] = IF n = 0 THEN NoPoints ELSE AddRule(t[n - 1], rules[n])
    BY <1>8
  <2>3. QED BY <2>1, <2>2
<1> HIDE DEF N
<1>10. \A n \in 0..N : t[n] \in Points
  <2> DEFINE Good == {n \in 0..N : t[n] \in Points}
  <2>1. 0 \in Good /\ Good \in SUBSET (0..N)
    BY <1>1, <1>2, <1>9
  <2>2. ASSUME NEW n \in 1..N, n - 1 \in Good
        PROVE  n \in Good
    <3>1. t[n - 1] \in Points /\ rules[n] \in Detail /\ n \in 0..N
      BY <1>1, <2>2
    <3>2. AddRule(t[n - 1], rules[n]) \in Points
      BY <3>1, RuleKeepsPoints
    <3>3. QED BY <1>9, <3>1, <3>2
  <2> HIDE DEF Good
  <2>3. \A n \in 0..N : n \in Good
    BY <1>1, <2>1, <2>2, UpTo
  <2>4. QED BY <2>3 DEF Good
<1>11. QED BY <1>9, <1>10 DEF N, t

LEMMA SumsFacts ==
  ASSUME NEW details \in Seq(Detail)
  PROVE  /\ Sums(details)[0] = 0
         /\ \A n \in 1..Len(details) :
              Sums(details)[n] = Sums(details)[n - 1] + details[n].score
<1> DEFINE N == Len(details)
           t == Sums(details)
           Step(f) == [n \in 0..N |-> IF n = 0 THEN 0 ELSE f[n - 1] + details[n].score]
           G == [n \in 1..N |-> [v \in Int |-> v + details[n].score]]
<1>1. N \in Nat /\ \A n \in 1..N : details[n].score \in Int
  <2>1. \A n \in 1..N : details[n] \in Detail
    OBVIOUS
  <2>2. QED BY <2>1 DEF Detail
<1>2. \A n \in 1..N : \A v \in Int : G[n][v] = v + details[n].score
  OBVIOUS
<1>3. G \in [1..N -> [Int -> Int]]
  BY <1>1
<1> HIDE DEF G
<1>4. PICK f \in [0..N -> Int] : f[0] = 0 /\ \A n \in 1..N : f[n] = G[n][f[n - 1]]
  <2> HIDE DEF N
  <2>1. N \in Nat /\ 0 \in Int
    BY <1>1
  <2>2. \E f \in [0..N -> Int] : Recurses(f, N, 0, G)
    BY <1>3, <2>1, Recursion, Zenon
  <2>3. QED BY <2>2 DEF Recurses
<1>5. f = Step(f)
  <2>1. \A n \in 0..N : n # 0 => n \in 1..N /\ n - 1 \in 0..N
    BY <1>1
  <2>2. \A n \in 0..N : f[n] = Step(f)[n]
    BY <1>2, <1>4, <2>1
  <2>3. QED BY <1>4, <2>2
<1>6. t = CHOOSE g : g = Step(g)
  BY DEF Sums
<1> HIDE DEF t
<1>7. t = Step(t)
  <2> HIDE DEF Step
  <2>1. QED BY <1>5, <1>6
<1>8. \A n \in 0..N : t[n] = IF n = 0 THEN 0 ELSE t[n - 1] + details[n].score
  BY <1>7
<1>9. 0 \in 0..N /\ \A n \in 1..N : n \in 0..N /\ n # 0
  BY <1>1
<1>10. QED BY <1>8, <1>9 DEF N, t

\* What all details add up to.
Adds(details) == Sums(details)[Len(details)]

LEMMA SumsAppend ==
  ASSUME NEW details \in Seq(Detail), NEW d \in Detail
  PROVE  Adds(Append(details, d)) = Adds(details) + d.score
<1> DEFINE longer == Append(details, d)
           N == Len(details)
           Good == {n \in 0..N : Sums(longer)[n] = Sums(details)[n]}
<1>1. longer \in Seq(Detail) /\ N \in Nat /\ Len(longer) = N + 1
  OBVIOUS
<1>2. longer[N + 1] = d /\ \A n \in 1..N : longer[n] = details[n]
  OBVIOUS
<1>3. Adds(longer) = Sums(longer)[N + 1] /\ Adds(details) = Sums(details)[N]
  BY <1>1 DEF Adds
<1>4. Sums(details)[0] = 0 /\ \A n \in 1..N : Sums(details)[n] = Sums(details)[n - 1] + details[n].score
  BY SumsFacts
<1>5. Sums(longer)[0] = 0 /\ \A n \in 1..Len(longer) : Sums(longer)[n] = Sums(longer)[n - 1] + longer[n].score
  BY <1>1, SumsFacts
<1>6. 0 \in Good /\ Good \in SUBSET (0..N)
  BY <1>1, <1>4, <1>5
<1>7. ASSUME NEW n \in 1..N, n - 1 \in Good
      PROVE  n \in Good
  <2>1. n \in 1..Len(longer) /\ n \in 0..N
    BY <1>1
  <2>2. Sums(longer)[n] = Sums(longer)[n - 1] + longer[n].score
    BY <1>5, <2>1
  <2>3. Sums(details)[n] = Sums(details)[n - 1] + details[n].score
    BY <1>4
  <2>4. Sums(longer)[n - 1] = Sums(details)[n - 1]
    BY <1>7
  <2>5. QED BY <1>2, <2>1, <2>2, <2>3, <2>4
<1> HIDE DEF Good
<1>8. N \in Good
  <2>1. N \in 0..N
    BY <1>1
  <2>2. QED BY <1>1, <1>6, <1>7, <2>1, UpTo
<1>9. Sums(longer)[N] = Sums(details)[N]
  BY <1>8 DEF Good
<1>10. N + 1 \in 1..Len(longer) /\ (N + 1) - 1 = N
  BY <1>1
<1>11. Sums(longer)[N + 1] = Sums(longer)[N] + d.score
  <2>1. Sums(longer)[N + 1] = Sums(longer)[(N + 1) - 1] + longer[N + 1].score
    BY <1>5, <1>10
  <2>2. QED BY <1>2, <1>10, <2>1
<1>12. QED BY <1>3, <1>9, <1>11

LEMMA TotalsAddUp ==
  ASSUME NEW rules \in Seq(Detail)
  PROVE  \A n \in 0..Len(rules) : Adds(Totals(rules)[n].details) = Totals(rules)[n].score
<1> DEFINE N == Len(rules)
           t == Totals(rules)
           Good == {n \in 0..N : Adds(t[n].details) = t[n].score}
<1>1. N \in Nat /\ \A n \in 1..N : rules[n] \in Detail
  OBVIOUS
<1>2. /\ t[0] = NoPoints
      /\ \A n \in 1..N : t[n] = AddRule(t[n - 1], rules[n])
      /\ \A n \in 0..N : t[n] \in Points
  BY TotalsFacts
<1> HIDE DEF t, N
<1>3. 0 \in Good /\ Good \in SUBSET (0..N)
  <2>1. <<>> \in Seq(Detail) /\ Len(<<>>) = 0
    OBVIOUS
  <2>2. Adds(<<>>) = 0
    BY <2>1, SumsFacts DEF Adds
  <2>3. 0 \in 0..N
    BY <1>1
  <2>4. QED BY <1>2, <2>2, <2>3 DEF NoPoints
<1>4. ASSUME NEW n \in 1..N, n - 1 \in Good
      PROVE  n \in Good
  <2> DEFINE p == t[n - 1]
             rule == rules[n]
  <2>1. p \in Points /\ rule \in Detail /\ n \in 0..N /\ t[n] = AddRule(p, rule)
    BY <1>1, <1>2, <1>4
  <2>2. Adds(p.details) = p.score
    BY <1>4
  <2> HIDE DEF p, rule
  <2>3. CASE rule.score <= 0 \/ p.score = 100
    <3>1. t[n] = p
      BY <2>1, <2>3, RuleSkipped
    <3>2. QED BY <2>1, <2>2, <3>1
  <2>4. CASE ~(rule.score <= 0 \/ p.score = 100)
    <3>1. rule.score > 0
      BY <2>1, <2>4 DEF Detail
    <3>2. PICK cut \in 1..100 :
            /\ [rule |-> rule.rule, score |-> cut] \in Detail
            /\ AddRule(p, rule) =
                 [score |-> p.score + cut,
                  details |-> Append(p.details, [rule |-> rule.rule, score |-> cut])]
      BY <2>1, <2>4, <3>1, RuleAdded
    <3> DEFINE d == [rule |-> rule.rule, score |-> cut]
    <3>3. d \in Detail /\ d.score = cut /\ p.details \in Seq(Detail)
      BY <2>1, <3>2 DEF Points
    <3>4. t[n].score = p.score + cut /\ t[n].details = Append(p.details, d)
      BY <2>1, <3>2
    <3> HIDE DEF d
    <3>5. Adds(Append(p.details, d)) = Adds(p.details) + cut
      BY <3>3, SumsAppend
    <3>6. QED BY <2>1, <2>2, <3>4, <3>5
  <2>5. QED BY <2>3, <2>4
<1> HIDE DEF Good
<1>5. \A n \in 0..N : n \in Good
  BY <1>1, <1>3, <1>4, UpTo
<1>6. QED BY <1>5 DEF Good, t, N

(***************************************************************************)
(* Points of readings.                                                     *)
(***************************************************************************)
\* math.Ceil of a quotient: the least whole number that is not below it.
LEMMA RoundUpFacts ==
  ASSUME NEW n \in Int, NEW d \in Nat \ {0}
  PROVE  RoundUp(n, d) \in Int /\ RoundUp(n, d) * d >= n /\ (RoundUp(n, d) - 1) * d < n
<1> DEFINE m == n + d - 1
<1>1. m \in Int /\ d > 0 /\ m - (d - 1) = n
  OBVIOUS
<1>2. RoundUp(n, d) = m \div d
  BY DEF RoundUp
<1> HIDE DEF m
<1>3. m \div d \in Int /\ (m \div d) * d <= m /\ m < (m \div d) * d + d
  BY <1>1
<1> DEFINE q == m \div d
<1>4. (q - 1) * d = q * d - d
  BY <1>3
<1>5. QED BY <1>1, <1>2, <1>3, <1>4

LEMMA RoundUpGrows ==
  ASSUME NEW n \in Nat, NEW d \in Nat \ {0}, NEW k \in Nat, NEW e \in Nat \ {0},
         n <= k, e <= d
  PROVE  RoundUp(n, d) <= RoundUp(k, e)
<1> DEFINE p == RoundUp(n, d)
           q == RoundUp(k, e)
<1>1. p \in Int /\ (p - 1) * d < n /\ q \in Int /\ q * e >= k
  BY RoundUpFacts
<1> HIDE DEF p, q
<1>2. q >= 0
  BY <1>1
<1>3. q * d >= q * e
  BY <1>1, <1>2
<1>4. (p - 1) * d < q * d
  BY <1>1, <1>3
<1>5. p - 1 < q
  BY <1>1, <1>4
<1>6. QED BY <1>1, <1>5 DEF p, q

\* The metrics.
Names == {"temperature", "humidity", "illuminance"}

LEMMA MetricNames ==
  /\ ToSet(Metrics) = Names /\ Len(Metrics) = 3
  /\ Metrics[1] = "temperature" /\ Metrics[2] = "humidity" /\ Metrics[3] = "illuminance"
<1>1. Len(Metrics) = 3 /\ Metrics[1] = "temperature" /\ Metrics[2] = "humidity" /\ Metrics[3] = "illuminance"
  BY DEF Metrics
<1>2. DOMAIN Metrics = 1..3
  BY DEF Metrics
<1>3. QED BY <1>1, <1>2 DEF ToSet, Names

\* Limits as the tables hold them.
Sound(limits) == /\ limits \in [Names -> [min : Int, max : Int]]
                 /\ \A m \in Names : limits[m].min < limits[m].max
                 /\ limits["illuminance"].min = 0

LEMMA LimitsTyped ==
  ASSUME NEW a \in Int, NEW b \in Int, NEW c \in Int, NEW d \in Int, NEW e \in Int,
         a < b, c < d, 0 < e
  PROVE  Sound(Limits(a, b, c, d, e))
BY DEF Limits, Sound, Names

LEMMA Tables ==
  ASSUME NEW group \in Groups, NEW high \in BOOLEAN
  PROVE  Sound(Thresholds(group, high))
<1>1. Sound(Normal[group]) /\ Sound(Sensitive[group])
  BY DEF Groups, Names, Sensitive, Normal, Limits, Sound
<1>2. QED BY <1>1 DEF Thresholds

LEMMA SensitiveIsStricter ==
  ASSUME NEW group \in Groups, NEW m \in Names
  PROVE  /\ Sensitive[group][m].min >= Normal[group][m].min
         /\ Sensitive[group][m].max <= Normal[group][m].max
BY DEF Groups, Names, Sensitive, Normal, Limits

\* The new range of every metric lies within the old one.
Stricter(new, old) ==
  \A m \in Names : new[m].min >= old[m].min /\ new[m].max <= old[m].max

LEMMA DeviationFacts ==
  ASSUME NEW m \in Names, NEW limits, Sound(limits), NEW x \in Int
  PROVE  /\ Deviation(m, x, limits) \in Nat
         /\ Deviation(m, x, limits) > 0
              <=> x > limits[m].max \/ (x < limits[m].min /\ m # "illuminance")
<1>1. limits[m].max \in Int /\ limits[m].min \in Int
  BY DEF Sound
<1>2. QED BY <1>1 DEF Deviation

\* A reading further out, under limits that are no wider, deviates no less.
LEMMA DeviationGrows ==
  ASSUME NEW m \in Names, NEW new, NEW old, Sound(new), Sound(old), Stricter(new, old),
         NEW x \in Int, NEW y \in Int,
         IF x < y THEN y <= old[m].max ELSE x = y \/ y >= old[m].min
  PROVE  Deviation(m, x, new) >= Deviation(m, y, old)
<1>1. new[m].max \in Int /\ new[m].min \in Int /\ old[m].max \in Int /\ old[m].min \in Int
  BY DEF Sound
<1>2. new[m].min >= old[m].min /\ new[m].max <= old[m].max /\ new[m].min < new[m].max
  BY DEF Sound, Stricter
<1>3. QED BY <1>1, <1>2 DEF Deviation

LEMMA StepsFacts ==
  ASSUME NEW m \in Names, NEW limits, Sound(limits), NEW dev \in Nat
  PROVE  Steps(m, dev, limits) \in Int /\ Steps(m, dev, limits) >= 0
<1>1. limits.illuminance.max \in Nat \ {0}
  BY DEF Sound, Names
<1>2. ASSUME NEW n \in Nat, NEW d \in Nat \ {0}
      PROVE  RoundUp(n, d) \in Int /\ RoundUp(n, d) >= 0
  <2>1. RoundUp(0, d) <= RoundUp(n, d) /\ RoundUp(n, d) \in Int
    BY RoundUpGrows, RoundUpFacts
  <2>2. RoundUp(0, d) = 0
    BY DEF RoundUp
  <2>3. QED BY <2>1, <2>2
<1>3. 3 * dev \in Nat /\ 15 * dev \in Nat
  OBVIOUS
<1>4. m = "temperature" \/ m = "humidity" \/ m = "illuminance"
  BY DEF Names
<1>5. QED BY <1>1, <1>2, <1>3, <1>4 DEF Steps

LEMMA StepsGrow ==
  ASSUME NEW m \in Names, NEW new, NEW old, Sound(new), Sound(old), Stricter(new, old),
         NEW j \in Nat, NEW k \in Nat, j <= k
  PROVE  Steps(m, j, old) <= Steps(m, k, new)
<1>1. /\ new.illuminance.max \in Nat \ {0} /\ old.illuminance.max \in Nat \ {0}
      /\ new.illuminance.max <= old.illuminance.max
  BY DEF Sound, Names, Stricter
<1>2. 3 * j \in Nat /\ 3 * k \in Nat /\ 3 * j <= 3 * k
  OBVIOUS
<1>3. 15 * j \in Nat /\ 15 * k \in Nat /\ 15 * j <= 15 * k
  OBVIOUS
<1>4. m = "temperature" \/ m = "humidity" \/ m = "illuminance"
  BY DEF Names
<1>5. /\ RoundUp(3 * j, 10) <= RoundUp(3 * k, 10) /\ RoundUp(3 * j, 20) <= RoundUp(3 * k, 20)
      /\ RoundUp(15 * j, old.illuminance.max) <= RoundUp(15 * k, new.illuminance.max)
  <2>1. RoundUp(3 * j, 10) <= RoundUp(3 * k, 10)
    BY <1>2, RoundUpGrows
  <2>2. RoundUp(3 * j, 20) <= RoundUp(3 * k, 20)
    BY <1>2, RoundUpGrows
  <2>3. RoundUp(15 * j, old.illuminance.max) <= RoundUp(15 * k, new.illuminance.max)
    <3> HIDE DEF Sound, Stricter
    <3> DEFINE a == 15 * j
               b == 15 * k
               d == old.illuminance.max
               e == new.illuminance.max
    <3>1. a \in Nat /\ b \in Nat /\ a <= b /\ d \in Nat \ {0} /\ e \in Nat \ {0} /\ e <= d
      BY <1>1, <1>3
    <3> HIDE DEF a, b, d, e
    <3>2. RoundUp(a, d) <= RoundUp(b, e)
      BY <3>1, RoundUpGrows
    <3>3. QED BY <3>2 DEF a, b, d, e
  <2>4. QED BY <2>1, <2>2, <2>3
<1>6. QED BY <1>4, <1>5 DEF Steps

\* A deviation costs points, unless they are too many for an int: then the sum wraps around.
LEMMA ReadingPointsFacts ==
  ASSUME NEW m \in Names, NEW limits, Sound(limits), NEW x \in Int
  PROVE  LET dev == Deviation(m, x, limits)
             steps == Steps(m, dev, limits)
         IN  /\ ReadingPoints(m, x, limits) \in Int
             /\ dev = 0 => ReadingPoints(m, x, limits) = 0
             /\ dev > 0 /\ steps + 5 <= IntMax =>
                  /\ ReadingPoints(m, x, limits) = Least(Cap[m], 5 + steps)
                  /\ ReadingPoints(m, x, limits) > 0
             /\ dev > 0 /\ steps + 5 > IntMax => ReadingPoints(m, x, limits) < 0
<1> DEFINE dev == Deviation(m, x, limits)
           steps == Steps(m, dev, limits)
           points == Least(Cap[m], Wrapped(5 + ToInt(steps)))
<1>1. dev \in Nat /\ steps \in Int /\ steps >= 0
  BY DeviationFacts, StepsFacts
<1>2. x # NoReading /\ Cap[m] \in {20, 25, 30}
  BY NoReadingAssumption DEF Cap, Names
<1>3. ReadingPoints(m, x, limits) = IF dev = 0 THEN 0 ELSE points
  BY <1>2 DEF ReadingPoints
<1> HIDE DEF dev, steps
<1>4. steps + 5 <= IntMax => points = Least(Cap[m], 5 + steps) /\ points > 0 /\ points \in Int
  BY <1>1, <1>2, ConversionAssumption DEF Least, ToInt, Wrapped
<1>5. steps + 5 > IntMax => points < 0 /\ points \in Int
  BY <1>1, <1>2, ConversionAssumption DEF Least, ToInt, Wrapped
<1> HIDE DEF points
<1>6. QED BY <1>1, <1>3, <1>4, <1>5, ConversionAssumption DEF dev, steps

LEMMA ReadingPointsGrow ==
  ASSUME NEW m \in Names, NEW new, NEW old, Sound(new), Sound(old), Stricter(new, old),
         NEW x \in Int, NEW y \in Int,
         IF x < y THEN y <= old[m].max ELSE x = y \/ y >= old[m].min,
         Steps(m, Deviation(m, x, new), new) + 5 <= IntMax
  PROVE  ReadingPoints(m, x, new) >= ReadingPoints(m, y, old)
<1> DEFINE k == Deviation(m, x, new)
           j == Deviation(m, y, old)
<1>1. k \in Nat /\ j \in Nat /\ j <= k
  BY DeviationFacts, DeviationGrows
<1>2. Steps(m, j, old) \in Int /\ Steps(m, k, new) \in Int /\ Steps(m, j, old) <= Steps(m, k, new)
  BY <1>1, StepsFacts, StepsGrow
<1>3. Steps(m, k, new) + 5 <= IntMax
  OBVIOUS
<1>4. /\ ReadingPoints(m, x, new) \in Int
      /\ k = 0 => ReadingPoints(m, x, new) = 0
      /\ k > 0 => /\ ReadingPoints(m, x, new) = Least(Cap[m], 5 + Steps(m, k, new))
                  /\ ReadingPoints(m, x, new) > 0
  BY <1>3, ReadingPointsFacts
<1>5. /\ ReadingPoints(m, y, old) \in Int
      /\ j = 0 => ReadingPoints(m, y, old) = 0
      /\ j > 0 /\ Steps(m, j, old) + 5 <= IntMax =>
           ReadingPoints(m, y, old) = Least(Cap[m], 5 + Steps(m, j, old))
      /\ j > 0 /\ Steps(m, j, old) + 5 > IntMax => ReadingPoints(m, y, old) < 0
  BY ReadingPointsFacts
<1>6. Cap[m] \in Int
  BY DEF Cap, Names
<1> HIDE DEF k, j
<1>7. Least(Cap[m], 5 + Steps(m, j, old)) <= Least(Cap[m], 5 + Steps(m, k, new))
  BY <1>2, <1>6 DEF Least
<1>8. QED BY <1>1, <1>2, <1>3, <1>4, <1>5, <1>7, ConversionAssumption

LEMMA IssuePointsGrow ==
  ASSUME NEW n \in Nat, NEW k \in Nat, n <= k
  PROVE  IssuePoints(n) \in Int /\ IssuePoints(n) <= IssuePoints(k)
BY DEF IssuePoints, Least

LEMMA BasePointsGrow ==
  ASSUME NEW group \in Groups, NEW high \in BOOLEAN
  PROVE  BasePoints(group, high) \in Int /\ BasePoints(group, high) <= BasePoints(group, TRUE)
BY DEF BasePoints

(***************************************************************************)
(* The rules of a request.                                                 *)
(***************************************************************************)
\* Requests, as Assess gets them.
Requests == [group : Groups, high : BOOLEAN, issues : [Issues -> Nat],
             readings : [Names -> Int \cup {NoReading}]]

LEMMA FunctionIsSeq ==
  ASSUME NEW S, NEW k \in Nat, NEW c \in [1..k -> S]
  PROVE  c \in Seq(S) /\ Len(c) = k
<1>1. c \in Seq(S)
  BY SeqDef
<1>2. DOMAIN c = 1..k /\ DOMAIN c = 1..Len(c) /\ Len(c) \in Nat
  BY <1>1, LenProperties
<1>3. QED BY <1>1, <1>2

\* s is a followed by c.
Joins(s, a, c) ==
  /\ Len(s) = Len(a) + Len(c)
  /\ \A n \in 1..Len(a) : s[n] = a[n]
  /\ \A n \in 1..Len(c) : s[Len(a) + n] = c[n]

LEMMA Joined ==
  ASSUME NEW S, NEW a \in Seq(S), NEW c \in Seq(S)
  PROVE  a \o c \in Seq(S) /\ Joins(a \o c, a, c)
<1>1. Len(a) \in Nat /\ Len(c) \in Nat
  BY LenProperties
<1>2. /\ a \o c \in Seq(S)
      /\ Len(a \o c) = Len(a) + Len(c)
      /\ \A n \in 1 .. Len(a) + Len(c) :
           (a \o c)[n] = IF n <= Len(a) THEN a[n] ELSE c[n - Len(a)]
  BY ConcatProperties
<1> DEFINE j == Len(a)
           k == Len(c)
           s == a \o c
<1>3. /\ \A n \in 1..j : n \in 1..(j + k) /\ n <= j
      /\ \A n \in 1..k : j + n \in 1..(j + k) /\ ~(j + n <= j) /\ (j + n) - j = n
  BY <1>1
<1>4. QED BY <1>2, <1>3 DEF Joins

\* The rules of a request, by their place.
LEMMA RulesFacts ==
  ASSUME NEW in \in Requests
  PROVE  /\ RulesFor(in) \in Seq(Detail)
         /\ Len(RulesFor(in)) = 4 + Kinds
         /\ RulesFor(in)[1] = [rule |-> "material_sensitivity", score |-> BasePoints(in.group, in.high)]
         /\ \A n \in 1..3 : RulesFor(in)[1 + n] =
              [rule |-> Metrics[n],
               score |-> ReadingPoints(Metrics[n], in.readings[Metrics[n]],
                                       Thresholds(in.group, in.high))]
         /\ \A n \in Issues : RulesFor(in)[4 + n] =
              [rule |-> "historical_issue", score |-> IssuePoints(in.issues[n])]
<1> DEFINE limits == Thresholds(in.group, in.high)
           first == [rule |-> "material_sensitivity", score |-> BasePoints(in.group, in.high)]
           a == <<first>>
           b == [n \in 1..Len(Metrics) |->
                  [rule |-> Metrics[n],
                   score |-> ReadingPoints(Metrics[n], in.readings[Metrics[n]], limits)]]
           c == [n \in Issues |-> [rule |-> "historical_issue", score |-> IssuePoints(in.issues[n])]]
<1>1. /\ in.group \in Groups /\ in.high \in BOOLEAN /\ in.issues \in [Issues -> Nat]
      /\ in.readings \in [Names -> Int \cup {NoReading}]
  BY DEF Requests
<1>2. RulesFor(in) = a \o b \o c
  BY DEF RulesFor
<1>3. first \in Detail
  BY <1>1, BasePointsGrow DEF Detail, RuleNames
<1>4. b \in [1..3 -> Detail]
  <2>1. ASSUME NEW n \in 1..3
        PROVE  [rule |-> Metrics[n],
                score |-> ReadingPoints(Metrics[n], in.readings[Metrics[n]], limits)] \in Detail
    <3>1. Metrics[n] \in Names /\ Metrics[n] \in RuleNames
      BY MetricNames DEF Names, RuleNames
    <3> DEFINE x == in.readings[Metrics[n]]
    <3>2. x \in Int \cup {NoReading}
      BY <1>1, <3>1
    <3>3. ReadingPoints(Metrics[n], x, limits) \in Int
      <4>1. CASE x = NoReading
        BY <4>1 DEF ReadingPoints
      <4>2. CASE x \in Int
        <5>1. Sound(limits)
          BY <1>1, Tables
        <5> HIDE DEF limits, x
        <5>2. QED BY <3>1, <4>2, <5>1, ReadingPointsFacts
      <4>3. QED BY <3>2, <4>1, <4>2
    <3>4. QED BY <3>1, <3>3 DEF Detail
  <2>2. QED BY <2>1, MetricNames
<1>5. c \in [1..Kinds -> Detail]
  <2>1. ASSUME NEW n \in Issues
        PROVE  [rule |-> "historical_issue", score |-> IssuePoints(in.issues[n])] \in Detail
    <3>1. IssuePoints(in.issues[n]) \in Int
      BY <1>1, IssuePointsGrow
    <3>2. QED BY <3>1 DEF Detail, RuleNames
  <2>2. QED BY <2>1 DEF Issues
<1>6. a \in Seq(Detail) /\ Len(a) = 1 /\ a[1] = first
  BY <1>3
<1>7. \A n \in 1..3 : b[n] = [rule |-> Metrics[n],
               score |-> ReadingPoints(Metrics[n], in.readings[Metrics[n]], limits)]
  BY MetricNames
<1>8. \A n \in Issues : c[n] = [rule |-> "historical_issue", score |-> IssuePoints(in.issues[n])]
  OBVIOUS
<1> HIDE DEF a, b, c
<1>9. b \in Seq(Detail) /\ Len(b) = 3
  BY <1>4, FunctionIsSeq
<1>10. c \in Seq(Detail) /\ Len(c) = Kinds
  BY <1>5, FunctionIsSeq, KindsAssumption
<1>11. /\ a \o b \in Seq(Detail) /\ Len(a \o b) = 4 /\ (a \o b)[1] = first
       /\ \A n \in 1..3 : (a \o b)[1 + n] = b[n]
  <2>1. a \o b \in Seq(Detail) /\ Joins(a \o b, a, b)
    BY <1>6, <1>9, Joined
  <2>2. 1 \in 1..Len(a)
    BY <1>6
  <2>3. QED BY <1>6, <1>9, <2>1, <2>2 DEF Joins
<1> DEFINE d == a \o b
<1>12. /\ d \o c \in Seq(Detail) /\ Len(d \o c) = 4 + Kinds
       /\ \A n \in 1..4 : (d \o c)[n] = d[n]
       /\ \A n \in Issues : (d \o c)[4 + n] = c[n]
  <2>1. d \in Seq(Detail) /\ Len(d) = 4
    BY <1>11
  <2> HIDE DEF d
  <2>2. d \o c \in Seq(Detail) /\ Joins(d \o c, d, c)
    BY <1>10, <2>1, Joined
  <2>3. QED BY <1>10, <2>1, <2>2 DEF Issues, Joins
<1>13. 1 \in 1..4 /\ \A n \in 1..3 : 1 + n \in 1..4
  OBVIOUS
<1> DEFINE s == d \o c
<1>14. RulesFor(in) = s /\ s \in Seq(Detail) /\ Len(s) = 4 + Kinds
  BY <1>2, <1>12
<1>15. /\ s[1] = first /\ \A n \in 1..3 : s[1 + n] = b[n]
       /\ \A n \in Issues : s[4 + n] = c[n]
  BY <1>11, <1>12, <1>13
<1> HIDE DEF s
<1>16. QED BY <1>7, <1>8, <1>14, <1>15, Zenon DEF limits

LEMMA PointsTyped ==
  ASSUME NEW p \in Points
  PROVE  p.score \in Int /\ p.score >= 0 /\ p.score <= 100 /\ p.details \in Seq(Detail)
<1>1. p.score \in 0..100 /\ p.details \in Seq(Detail)
  BY DEF Points
<1>2. \A n \in 0..100 : n \in Int /\ n >= 0 /\ n <= 100
  OBVIOUS
<1>3. QED BY <1>1, <1>2

LEMMA DetailTyped ==
  ASSUME NEW d \in Detail
  PROVE  d.score \in Int /\ d.rule \in RuleNames
BY DEF Detail

\* A rule adds its points to the score, up to 100.
LEMMA ScoreAfter ==
  ASSUME NEW p \in Points, NEW rule \in Detail
  PROVE  AddRule(p, rule).score =
           Least(100, p.score + (IF rule.score > 0 THEN rule.score ELSE 0))
<1>1. p.score \in Int /\ p.score >= 0 /\ p.score <= 100 /\ rule.score \in Int
  BY PointsTyped, DetailTyped
<1>2. CASE rule.score <= 0 \/ p.score = 100
  <2>1. AddRule(p, rule).score = p.score
    BY <1>2, RuleSkipped
  <2> DEFINE a == AddRule(p, rule).score
             b == p.score
             c == rule.score
  <2>2. a = b /\ b \in Int /\ c \in Int /\ b >= 0 /\ b <= 100 /\ (c <= 0 \/ b = 100)
    BY <1>1, <1>2, <2>1
  <2> HIDE DEF a, b, c
  <2>3. a = Least(100, b + (IF c > 0 THEN c ELSE 0))
    BY <2>2 DEF Least
  <2>4. QED BY <2>3 DEF a, b, c
<1>3. CASE ~(rule.score <= 0 \/ p.score = 100)
  <2>1. rule.score > 0
    BY <1>1, <1>3
  <2>2. PICK cut \in 1..100 :
           /\ cut = Least(rule.score, 100 - p.score)
           /\ AddRule(p, rule) =
                [score |-> p.score + cut,
                 details |-> Append(p.details, [rule |-> rule.rule, score |-> cut])]
    BY <1>3, <2>1, RuleAdded
  <2>3. AddRule(p, rule).score = p.score + cut
    BY <2>2
  <2> DEFINE a == AddRule(p, rule).score
             b == p.score
             c == rule.score
  <2>4. a = b + Least(c, 100 - b) /\ b \in Int /\ c \in Int /\ b >= 0 /\ b <= 100 /\ c > 0
    BY <1>1, <2>1, <2>2, <2>3
  <2> HIDE DEF a, b, c
  <2>5. a = Least(100, b + (IF c > 0 THEN c ELSE 0))
    BY <2>4 DEF Least
  <2>6. QED BY <2>5 DEF a, b, c
<1>4. QED BY <1>2, <1>3

\* Rules that are worse one by one are worse together: the cut at 100 does not change that.
LEMMA TotalsGrow ==
  ASSUME NEW rules \in Seq(Detail), NEW worse \in Seq(Detail), Len(worse) = Len(rules),
         \A n \in 1..Len(rules) : rules[n].score <= worse[n].score
  PROVE  Totals(rules)[Len(rules)].score <= Totals(worse)[Len(worse)].score
<1> DEFINE N == Len(rules)
           t == Totals(rules)
           u == Totals(worse)
           Good == {n \in 0..N : t[n].score <= u[n].score}
<1>1. N \in Nat /\ \A n \in 1..N : rules[n] \in Detail /\ worse[n] \in Detail
  OBVIOUS
<1>2. /\ t[0] = NoPoints
      /\ \A n \in 1..N : t[n] = AddRule(t[n - 1], rules[n])
      /\ \A n \in 0..N : t[n] \in Points
  BY TotalsFacts
<1>3. /\ u[0] = NoPoints
      /\ \A n \in 1..N : u[n] = AddRule(u[n - 1], worse[n])
      /\ \A n \in 0..N : u[n] \in Points
  BY TotalsFacts
<1>4. \A n \in 1..N : rules[n].score <= worse[n].score
  OBVIOUS
<1>5. t[N] = Totals(rules)[Len(rules)] /\ u[N] = Totals(worse)[Len(worse)]
  OBVIOUS
<1> HIDE DEF t, u, N
<1>6. 0 \in Good /\ Good \in SUBSET (0..N)
  BY <1>1, <1>2, <1>3 DEF NoPoints
<1>7. ASSUME NEW n \in 1..N, n - 1 \in Good
      PROVE  n \in Good
  <2> DEFINE p == t[n - 1]
             q == u[n - 1]
             r == rules[n]
             w == worse[n]
  <2>1. /\ p \in Points /\ q \in Points /\ r \in Detail /\ w \in Detail /\ n \in 0..N
        /\ p.score <= q.score /\ r.score <= w.score
        /\ t[n] = AddRule(p, r) /\ u[n] = AddRule(q, w)
    BY <1>1, <1>2, <1>3, <1>4, <1>7
  <2> HIDE DEF p, q, r, w
  <2>2. /\ t[n].score = Least(100, p.score + (IF r.score > 0 THEN r.score ELSE 0))
        /\ u[n].score = Least(100, q.score + (IF w.score > 0 THEN w.score ELSE 0))
    BY <2>1, ScoreAfter
  <2>3. p.score \in Int /\ q.score \in Int /\ r.score \in Int /\ w.score \in Int
    BY <2>1, PointsTyped, DetailTyped
  <2>4. t[n].score <= u[n].score
    <3> DEFINE a == p.score
               b == q.score
               c == r.score
               d == w.score
    <3>1. a \in Int /\ b \in Int /\ c \in Int /\ d \in Int /\ a <= b /\ c <= d
      BY <2>1, <2>3
    <3> HIDE DEF a, b, c, d
    <3>2. Least(100, a + (IF c > 0 THEN c ELSE 0)) <= Least(100, b + (IF d > 0 THEN d ELSE 0))
      BY <3>1 DEF Least
    <3>3. QED BY <2>2, <3>2 DEF a, b, c, d
  <2>5. QED BY <2>1, <2>4
<1> HIDE DEF Good
<1>8. \A n \in 0..N : n \in Good
  BY <1>1, <1>6, <1>7, UpTo
<1>9. N \in 0..N
  BY <1>1
<1>10. QED BY <1>5, <1>8, <1>9 DEF Good

(***************************************************************************)
(* A worse request.                                                        *)
(***************************************************************************)
LEMMA AssessIsTotal ==
  ASSUME NEW in \in Requests
  PROVE  LET total == Totals(RulesFor(in))[Len(RulesFor(in))]
         IN  Assess(in) = Assessment(total) /\ total \in Points
<1>1. RulesFor(in) \in Seq(Detail) /\ Len(RulesFor(in)) \in Nat
  BY RulesFacts, LenProperties
<1>2. Len(RulesFor(in)) \in 0..Len(RulesFor(in))
  BY <1>1
<1>3. Totals(RulesFor(in))[Len(RulesFor(in))] \in Points
  BY <1>1, <1>2, TotalsFacts
<1>4. QED BY <1>3 DEF Assess

\* The request new is at least as bad as old, and its readings have countable points.
Worse(new, old) ==
  LET limits == Thresholds(old.group, old.high)
  IN  /\ new.group = old.group
      /\ old.high => new.high
      /\ \A i \in Issues : old.issues[i] <= new.issues[i]
      /\ \A m \in Names :
           LET x == new.readings[m]
               y == old.readings[m]
           IN  /\ Countable(new, m)
               /\ \/ x = NoReading /\ y = NoReading
                  \/ x \in Int /\ y = NoReading
                  \/ /\ x \in Int /\ y \in Int
                     /\ IF x < y THEN y <= limits[m].max ELSE x = y \/ y >= limits[m].min

LEMMA WorseLimits ==
  ASSUME NEW new \in Requests, NEW old \in Requests, Worse(new, old)
  PROVE  /\ Sound(Thresholds(new.group, new.high)) /\ Sound(Thresholds(old.group, old.high))
         /\ Stricter(Thresholds(new.group, new.high), Thresholds(old.group, old.high))
<1>1. /\ new.group \in Groups /\ new.high \in BOOLEAN /\ old.high \in BOOLEAN
      /\ old.group = new.group /\ (old.high => new.high)
  BY DEF Requests, Worse
<1> DEFINE g == new.group
<1>2. Sound(Thresholds(g, new.high)) /\ Sound(Thresholds(g, old.high))
  BY <1>1, Tables
<1>3. Sound(Sensitive[g]) /\ Sound(Normal[g])
  <2>1. Thresholds(g, TRUE) = Sensitive[g] /\ Thresholds(g, FALSE) = Normal[g]
    BY DEF Thresholds
  <2>2. QED BY <1>1, <2>1, Tables
<1> HIDE DEF g
<1>4. \A m \in Names : /\ Normal[g][m].min \in Int /\ Normal[g][m].max \in Int
                       /\ Sensitive[g][m].min \in Int /\ Sensitive[g][m].max \in Int
  BY <1>3 DEF Sound
<1>5. \A m \in Names : /\ Sensitive[g][m].min >= Normal[g][m].min
                       /\ Sensitive[g][m].max <= Normal[g][m].max
  BY <1>1, SensitiveIsStricter DEF g
<1>6. Stricter(Thresholds(g, new.high), Thresholds(g, old.high))
  BY <1>1, <1>4, <1>5 DEF Stricter, Thresholds
<1>7. QED BY <1>1, <1>2, <1>6 DEF g

LEMMA WorseReading ==
  ASSUME NEW new \in Requests, NEW old \in Requests, Worse(new, old), NEW m \in Names
  PROVE  ReadingPoints(m, old.readings[m], Thresholds(old.group, old.high))
           <= ReadingPoints(m, new.readings[m], Thresholds(new.group, new.high))
<1> DEFINE x == new.readings[m]
           y == old.readings[m]
           limits == Thresholds(old.group, old.high)
           strict == Thresholds(new.group, new.high)
<1>1. /\ x = NoReading \/ Steps(m, Deviation(m, x, strict), strict) + 5 <= IntMax
      /\ \/ x = NoReading /\ y = NoReading
         \/ x \in Int /\ y = NoReading
         \/ /\ x \in Int /\ y \in Int
            /\ IF x < y THEN y <= limits[m].max ELSE x = y \/ y >= limits[m].min
  BY DEF Worse, Countable
<1>2. Sound(limits) /\ Sound(strict) /\ Stricter(strict, limits)
  BY WorseLimits
<1> HIDE DEF x, y, limits, strict
<1>3. ReadingPoints(m, NoReading, limits) = 0 /\ ReadingPoints(m, NoReading, strict) = 0
  BY DEF ReadingPoints
<1>4. CASE x = NoReading /\ y = NoReading
  BY <1>3, <1>4 DEF x, y, limits, strict
<1>5. CASE x \in Int /\ y = NoReading
  <2>1. Steps(m, Deviation(m, x, strict), strict) + 5 <= IntMax
    BY <1>1, <1>5, NoReadingAssumption
  <2>2. Deviation(m, x, strict) \in Nat
    BY <1>2, <1>5, DeviationFacts
  <2>3. ReadingPoints(m, x, strict) >= 0
    <3>1. /\ ReadingPoints(m, x, strict) \in Int
          /\ Deviation(m, x, strict) = 0 => ReadingPoints(m, x, strict) = 0
          /\ Deviation(m, x, strict) > 0 => ReadingPoints(m, x, strict) > 0
      BY <1>2, <1>5, <2>1, ReadingPointsFacts
    <3>2. QED BY <2>2, <3>1
  <2>4. QED BY <1>3, <1>5, <2>3 DEF x, y, limits, strict
<1>6. CASE x \in Int /\ y \in Int
  <2>1. /\ Steps(m, Deviation(m, x, strict), strict) + 5 <= IntMax
        /\ IF x < y THEN y <= limits[m].max ELSE x = y \/ y >= limits[m].min
    BY <1>1, <1>6, NoReadingAssumption
  <2>2. ReadingPoints(m, x, strict) >= ReadingPoints(m, y, limits)
    BY <1>2, <1>6, <2>1, ReadingPointsGrow
  <2>3. ReadingPoints(m, x, strict) \in Int /\ ReadingPoints(m, y, limits) \in Int
    BY <1>2, <1>6, ReadingPointsFacts
  <2>4. QED BY <2>2, <2>3 DEF x, y, limits, strict
<1>7. QED BY <1>1, <1>4, <1>5, <1>6

LEMMA WorseScore ==
  ASSUME NEW new \in Requests, NEW old \in Requests, Worse(new, old)
  PROVE  /\ Assess(old).score \in Int /\ Assess(new).score \in Int
         /\ Assess(old).score <= Assess(new).score
<1> DEFINE r == RulesFor(old)
           w == RulesFor(new)
<1>1. /\ r \in Seq(Detail) /\ Len(r) = 4 + Kinds
      /\ r[1] = [rule |-> "material_sensitivity", score |-> BasePoints(old.group, old.high)]
      /\ \A n \in 1..3 : r[1 + n] =
           [rule |-> Metrics[n],
            score |-> ReadingPoints(Metrics[n], old.readings[Metrics[n]],
                                    Thresholds(old.group, old.high))]
      /\ \A n \in Issues : r[4 + n] =
           [rule |-> "historical_issue", score |-> IssuePoints(old.issues[n])]
  BY RulesFacts
<1>2. /\ w \in Seq(Detail) /\ Len(w) = 4 + Kinds
      /\ w[1] = [rule |-> "material_sensitivity", score |-> BasePoints(new.group, new.high)]
      /\ \A n \in 1..3 : w[1 + n] =
           [rule |-> Metrics[n],
            score |-> ReadingPoints(Metrics[n], new.readings[Metrics[n]],
                                    Thresholds(new.group, new.high))]
      /\ \A n \in Issues : w[4 + n] =
           [rule |-> "historical_issue", score |-> IssuePoints(new.issues[n])]
  BY RulesFacts
<1> HIDE DEF r, w
<1>3. r[1].score <= w[1].score
  <2>1. /\ old.group \in Groups /\ old.high \in BOOLEAN /\ new.group = old.group
        /\ old.high => new.high
        /\ new.high \in BOOLEAN
    BY DEF Requests, Worse
  <2>2. BasePoints(old.group, old.high) <= BasePoints(new.group, new.high)
    <3>1. CASE old.high = new.high
      <4>1. BasePoints(old.group, old.high) \in Int
        BY <2>1, BasePointsGrow
      <4>2. QED BY <2>1, <3>1, <4>1
    <3>2. CASE new.high = TRUE
      BY <2>1, <3>2, BasePointsGrow
    <3>3. QED BY <2>1, <3>1, <3>2
  <2>3. QED BY <1>1, <1>2, <2>2
<1>4. ASSUME NEW n \in 1..3
      PROVE  r[1 + n].score <= w[1 + n].score
  <2>1. Metrics[n] \in Names
    BY MetricNames DEF Names
  <2>2. ReadingPoints(Metrics[n], old.readings[Metrics[n]], Thresholds(old.group, old.high))
          <= ReadingPoints(Metrics[n], new.readings[Metrics[n]], Thresholds(new.group, new.high))
    BY <2>1, WorseReading
  <2>3. QED BY <1>1, <1>2, <2>2
<1>5. ASSUME NEW n \in Issues
      PROVE  r[4 + n].score <= w[4 + n].score
  <2>1. old.issues[n] \in Nat /\ new.issues[n] \in Nat /\ old.issues[n] <= new.issues[n]
    BY DEF Requests, Worse
  <2>2. IssuePoints(old.issues[n]) <= IssuePoints(new.issues[n])
    BY <2>1, IssuePointsGrow
  <2>3. /\ r[4 + n] = [rule |-> "historical_issue", score |-> IssuePoints(old.issues[n])]
        /\ w[4 + n] = [rule |-> "historical_issue", score |-> IssuePoints(new.issues[n])]
    BY <1>1, <1>2
  <2>4. r[4 + n].score = IssuePoints(old.issues[n]) /\ w[4 + n].score = IssuePoints(new.issues[n])
    BY ONLY <2>3
  <2>5. QED BY ONLY <2>2, <2>4
<1>6. ASSUME NEW n \in 1..Len(r)
      PROVE  r[n].score <= w[n].score
  <2>1. Len(r) = 4 + Kinds /\ Kinds \in Nat
    BY <1>1, KindsAssumption
  <2>2. \/ n = 1
        \/ n - 1 \in 1..3 /\ n = 1 + (n - 1)
        \/ n - 4 \in 1..Kinds /\ n = 4 + (n - 4)
    BY <2>1
  <2>3. QED BY <1>3, <1>4, <1>5, <2>2 DEF Issues
<1>7. Totals(r)[Len(r)].score <= Totals(w)[Len(w)].score
  BY <1>1, <1>2, <1>6, TotalsGrow
<1>8. /\ Assess(old) = Assessment(Totals(r)[Len(r)]) /\ Totals(r)[Len(r)] \in Points
      /\ Assess(new) = Assessment(Totals(w)[Len(w)]) /\ Totals(w)[Len(w)] \in Points
  BY AssessIsTotal DEF r, w
<1>9. Assess(old).score = Totals(r)[Len(r)].score /\ Assess(new).score = Totals(w)[Len(w)].score
  BY <1>8 DEF Assessment
<1>10. Totals(r)[Len(r)].score \in Int /\ Totals(w)[Len(w)].score \in Int
  BY <1>8, PointsTyped
<1>11. QED BY <1>7, <1>9, <1>10

LEMMA WorseLevel ==
  ASSUME NEW s \in Int, NEW t \in Int, s <= t, NEW group
  PROVE  /\ Rank[Level(s)] <= Rank[Level(t)]
         /\ Checklist(Level(s), group) \subseteq Checklist(Level(t), group)
<1>1. /\ Rank["low"] = 0 /\ Rank["medium"] = 1 /\ Rank["high"] = 2
      /\ Level(s) = IF s >= 60 THEN "high" ELSE IF s >= 30 THEN "medium" ELSE "low"
      /\ Level(t) = IF t >= 60 THEN "high" ELSE IF t >= 30 THEN "medium" ELSE "low"
  BY DEF Rank, Level
<1>2. \/ Level(t) = "high"
      \/ Level(t) = "medium" /\ (Level(s) = "low" \/ Level(s) = "medium")
      \/ Level(t) = "low" /\ Level(s) = "low"
  BY <1>1
<1>3. Level(s) = "low" \/ Level(s) = "medium" \/ Level(s) = "high"
  BY <1>1
<1>4. Rank[Level(s)] <= Rank[Level(t)]
  BY <1>1, <1>2, <1>3
<1>5. Checklist(Level(s), group) \subseteq Checklist(Level(t), group)
  BY <1>2, <1>3 DEF Checklist
<1>6. QED BY <1>4, <1>5

(***************************************************************************)
(* Which rules have a detail.                                              *)
(***************************************************************************)
\* Has the rule x a detail in p?
Named(p, x) == \E j \in DOMAIN p.details : p.details[j].rule = x

LEMMA NamedAfter ==
  ASSUME NEW p \in Points, NEW rule \in Detail, NEW x
  PROVE  Named(AddRule(p, rule), x)
           <=> Named(p, x) \/ (x = rule.rule /\ rule.score > 0 /\ p.score # 100)
<1>1. CASE rule.score <= 0 \/ p.score = 100
  <2>1. AddRule(p, rule) = p
    BY <1>1, RuleSkipped
  <2>2. ~(rule.score > 0 /\ p.score # 100)
    BY <1>1, DetailTyped
  <2>3. QED BY <2>1, <2>2
<1>2. CASE ~(rule.score <= 0 \/ p.score = 100)
  <2>1. rule.score > 0 /\ p.score # 100
    BY <1>2, DetailTyped
  <2>2. PICK cut \in 1..100 :
          /\ [rule |-> rule.rule, score |-> cut] \in Detail
          /\ AddRule(p, rule) =
               [score |-> p.score + cut,
                details |-> Append(p.details, [rule |-> rule.rule, score |-> cut])]
    BY <2>1, RuleAdded
  <2> DEFINE d == [rule |-> rule.rule, score |-> cut]
             old == p.details
             new == Append(old, d)
  <2>3. d \in Detail /\ d.rule = rule.rule /\ old \in Seq(Detail) /\ AddRule(p, rule).details = new
    BY <2>2, PointsTyped
  <2> HIDE DEF d, old
  <2>4. /\ Len(old) \in Nat /\ DOMAIN old = 1..Len(old) /\ DOMAIN new = 1..(Len(old) + 1)
        /\ new[Len(old) + 1] = d
        /\ \A j \in 1..Len(old) : new[j] = old[j]
    BY <2>3
  <2> HIDE DEF new
  <2>5. \A j : j \in DOMAIN new <=> j \in DOMAIN old \/ j = Len(old) + 1
    BY <2>4
  <2>6. (\E j \in DOMAIN new : new[j].rule = x)
          <=> (\E j \in DOMAIN old : old[j].rule = x) \/ d.rule = x
    BY <2>4, <2>5, Zenon
  <2>7. QED BY <2>1, <2>3, <2>6 DEF Named, old
<1>3. QED BY <1>1, <1>2

\* The rules with a detail are those with points, until the score is used up.
LEMMA TotalsName ==
  ASSUME NEW rules \in Seq(Detail), NEW x
  PROVE  LET total == Totals(rules)[Len(rules)]
             scored == \E k \in 1..Len(rules) : rules[k].rule = x /\ rules[k].score > 0
         IN  /\ Named(total, x) => scored
             /\ scored => Named(total, x) \/ total.score = 100
<1> DEFINE N == Len(rules)
           t == Totals(rules)
           Scored(n) == \E k \in 1..n : rules[k].rule = x /\ rules[k].score > 0
           Good == {n \in 0..N : /\ Named(t[n], x) => Scored(n)
                                 /\ Scored(n) => Named(t[n], x) \/ t[n].score = 100}
<1>1. N \in Nat /\ \A n \in 1..N : rules[n] \in Detail
  OBVIOUS
<1>2. /\ t[0] = NoPoints
      /\ \A n \in 1..N : t[n] = AddRule(t[n - 1], rules[n])
      /\ \A n \in 0..N : t[n] \in Points
  BY TotalsFacts
<1>3. t[N] = Totals(rules)[Len(rules)]
  OBVIOUS
<1> HIDE DEF t, N
<1>4. 0 \in Good /\ Good \in SUBSET (0..N)
  <2>1. ~Named(t[0], x)
    BY <1>2 DEF NoPoints, Named
  <2>2. 0 \in 0..N /\ 1..0 = {}
    BY <1>1
  <2>3. ~Scored(0)
    BY <2>2
  <2> HIDE DEF Scored
  <2>4. QED BY <2>1, <2>2, <2>3
<1>5. ASSUME NEW n \in 1..N, n - 1 \in Good
      PROVE  n \in Good
  <2> DEFINE p == t[n - 1]
             rule == rules[n]
  <2>1. /\ p \in Points /\ rule \in Detail /\ n \in 0..N /\ t[n] = AddRule(p, rule)
    BY <1>1, <1>2
  <2>2. /\ Named(p, x) => Scored(n - 1)
        /\ Scored(n - 1) => Named(p, x) \/ p.score = 100
    <3> HIDE DEF Scored
    <3>1. QED BY <1>5
  <2>3. \A k : k \in 1..n <=> k \in 1..(n - 1) \/ k = n
    BY <1>1
  <2>4. Scored(n) <=> Scored(n - 1) \/ (rule.rule = x /\ rule.score > 0)
    BY <2>3
  <2> HIDE DEF Scored, p, rule
  <2>5. Named(t[n], x) <=> Named(p, x) \/ (x = rule.rule /\ rule.score > 0 /\ p.score # 100)
    BY <2>1, NamedAfter
  <2>6. p.score = 100 => t[n].score = 100
    BY <2>1, RuleSkipped
  <2>7. /\ Named(t[n], x) => Scored(n)
        /\ Scored(n) => Named(t[n], x) \/ t[n].score = 100
    BY ONLY <2>2, <2>4, <2>5, <2>6
  <2>8. QED BY <2>1, <2>7
<1> HIDE DEF Good
<1>6. N \in Good
  <2>1. N \in 0..N
    BY <1>1
  <2>2. QED BY <1>1, <1>4, <1>5, <2>1, UpTo
<1>7. QED BY <1>3, <1>6 DEF Good, N

LEMMA ReadingNamed ==
  ASSUME NEW in \in Requests, NEW m \in Names
  PROVE  LET points == ReadingPoints(m, in.readings[m], Thresholds(in.group, in.high))
             total == Totals(RulesFor(in))[Len(RulesFor(in))]
         IN  /\ points > 0 => Named(total, m) \/ total.score = 100
             /\ ~(points > 0) => ~Named(total, m)
<1> DEFINE r == RulesFor(in)
           points == ReadingPoints(m, in.readings[m], Thresholds(in.group, in.high))
           total == Totals(r)[Len(r)]
           scored == \E k \in 1..Len(r) : r[k].rule = m /\ r[k].score > 0
<1>1. /\ r \in Seq(Detail) /\ Len(r) = 4 + Kinds
      /\ r[1] = [rule |-> "material_sensitivity", score |-> BasePoints(in.group, in.high)]
      /\ \A n \in 1..3 : r[1 + n] =
           [rule |-> Metrics[n],
            score |-> ReadingPoints(Metrics[n], in.readings[Metrics[n]],
                                    Thresholds(in.group, in.high))]
      /\ \A n \in Issues : r[4 + n] =
           [rule |-> "historical_issue", score |-> IssuePoints(in.issues[n])]
  BY RulesFacts
<1>2. (Named(total, m) => scored) /\ (scored => Named(total, m) \/ total.score = 100)
  BY <1>1, TotalsName
<1> HIDE DEF r, total
<1>3. PICK i \in 1..3 : Metrics[i] = m
  BY MetricNames DEF Names
<1>4. r[1 + i].rule = m /\ r[1 + i].score = points
  <2>1. r[1 + i] = [rule |-> m, score |-> points]
    BY <1>1, <1>3
  <2> HIDE DEF points
  <2>2. QED BY ONLY <2>1
<1>5. ASSUME NEW k \in 1..Len(r), r[k].rule = m
      PROVE  k = 1 + i
  <2>1. Len(r) = 4 + Kinds /\ Kinds \in Nat
    BY <1>1, KindsAssumption
  <2>2. \/ k = 1
        \/ k - 1 \in 1..3 /\ k = 1 + (k - 1)
        \/ k - 4 \in 1..Kinds /\ k = 4 + (k - 4)
    BY <2>1
  <2>3. m # "material_sensitivity" /\ m # "historical_issue"
    BY DEF Names
  <2>4. k # 1
    <3>1. r[1].rule = "material_sensitivity"
      BY <1>1
    <3>2. QED BY <1>5, <2>3, <3>1
  <2>5. ASSUME NEW n \in Issues
        PROVE  r[4 + n].rule = "historical_issue"
    <3>1. r[4 + n] = [rule |-> "historical_issue", score |-> IssuePoints(in.issues[n])]
      BY <1>1
    <3>2. QED BY ONLY <3>1
  <2>6. ~(k - 4 \in 1..Kinds /\ k = 4 + (k - 4))
    BY <1>5, <2>3, <2>5 DEF Issues
  <2>7. PICK n \in 1..3 : k = 1 + n
    BY <2>2, <2>4, <2>6
  <2>8. r[k].rule = Metrics[n]
    BY <1>1, <2>7
  <2>9. n = i
    BY <1>3, <1>5, <2>8, MetricNames
  <2>10. QED BY <2>7, <2>9
<1>6. 1 + i \in 1..Len(r)
  BY <1>1, KindsAssumption
<1>7. scored <=> points > 0
  <2> HIDE DEF points
  <2>1. QED BY <1>4, <1>5, <1>6
<1>8. QED BY <1>2, <1>7 DEF total, r

LEMMA PointsOfDeviation ==
  ASSUME NEW in \in Requests, NEW m \in Names
  PROVE  LET limits == Thresholds(in.group, in.high)
             x == in.readings[m]
             out == x # NoReading /\ (x > limits[m].max \/ (x < limits[m].min /\ m # "illuminance"))
         IN  ReadingPoints(m, x, limits) > 0 <=> out /\ Countable(in, m)
<1> DEFINE limits == Thresholds(in.group, in.high)
           x == in.readings[m]
           dev == Deviation(m, x, limits)
           points == ReadingPoints(m, x, limits)
<1>1. Sound(limits) /\ x \in Int \cup {NoReading}
  BY Tables DEF Requests
<1>2. Countable(in, m) <=> x = NoReading \/ Steps(m, dev, limits) + 5 <= IntMax
  BY DEF Countable
<1> HIDE DEF limits, x
<1>3. CASE x = NoReading
  <2>1. points = 0
    BY <1>3 DEF ReadingPoints
  <2>2. QED BY <1>3, <2>1 DEF limits, x
<1>4. CASE x \in Int
  <2>1. x # NoReading
    BY <1>4, NoReadingAssumption
  <2>2. /\ dev \in Nat
        /\ dev > 0 <=> x > limits[m].max \/ (x < limits[m].min /\ m # "illuminance")
    BY <1>1, <1>4, DeviationFacts
  <2>3. Steps(m, dev, limits) \in Int
    BY <1>1, <2>2, StepsFacts
  <2>4. /\ points \in Int
        /\ dev = 0 => points = 0
        /\ dev > 0 /\ Steps(m, dev, limits) + 5 <= IntMax => points > 0
        /\ dev > 0 /\ Steps(m, dev, limits) + 5 > IntMax => points < 0
    BY <1>1, <1>4, ReadingPointsFacts
  <2> HIDE DEF dev, points
  <2>5. points > 0 <=> dev > 0 /\ Steps(m, dev, limits) + 5 <= IntMax
    BY <2>2, <2>3, <2>4, ConversionAssumption
  <2>6. QED BY <1>2, <2>1, <2>2, <2>5 DEF limits, x, points
<1>5. QED BY <1>1, <1>3, <1>4

(***************************************************************************)
(* The theorems.                                                           *)
(***************************************************************************)
\* What is on record is the assessment of a request, or nothing at all.
RiskInv ==
  \/ ~Assessed /\ risk = Assessment(NoPoints)
  \/ request \in Requests /\ risk = Assess(request)

LEMMA InitRisk == Init => RiskInv
<1>1. SUFFICES ASSUME Init PROVE RiskInv
  OBVIOUS
<1>2. /\ request \in [group : Groups, high : BOOLEAN, issues : [Issues -> {0}],
                      readings : [Names -> {NoReading}]]
      /\ risk = Assess(request)
  BY <1>1, MetricNames DEF Init, AssessInit
<1>3. \A f \in [Issues -> {0}] : f \in [Issues -> Nat]
  OBVIOUS
<1>4. \A f \in [Names -> {NoReading}] : f \in [Names -> Int \cup {NoReading}]
  OBVIOUS
<1>5. request \in Requests
  BY <1>2, <1>3, <1>4 DEF Requests
<1>6. QED BY <1>2, <1>5 DEF RiskInv

\* A request is followed by one that is worse, if its points can be counted.
LEMMA AssessStep ==
  ASSUME request \in Requests, AssessNext
  PROVE  /\ request' \in Requests /\ risk' = Assess(request')
         /\ (\A m \in Names : Countable(request', m)) => Worse(request', request)
<1>1. /\ request.group \in Groups /\ request.high \in BOOLEAN /\ request.issues \in [Issues -> Nat]
      /\ request.readings \in [Names -> Int \cup {NoReading}]
      /\ request = [group |-> request.group, high |-> request.high, issues |-> request.issues,
                    readings |-> request.readings]
  BY DEF Requests
<1> DEFINE Same(m) == \/ request.readings[m] = NoReading
                      \/ request.readings[m] \in Int
<1>2. \A m \in Names : Same(m)
  BY <1>1
<1>3. ASSUME NEW metric \in Names, ReadWorse(metric)
      PROVE  /\ request' \in Requests /\ risk' = Assess(request')
             /\ (\A m \in Names : Countable(request', m)) => Worse(request', request)
  <2>1. PICK x \in Readings[metric] :
          FurtherOut(metric, x, request.readings[metric])
            /\ Assessing([request EXCEPT !.readings[metric] = x])
    BY <1>3 DEF ReadWorse
  <2>2. x \in Int
    BY ReadingsAssumption, MetricNames
  <2> DEFINE readings == [request.readings EXCEPT ![metric] = x]
  <2>3. readings \in [Names -> Int \cup {NoReading}]
    BY <1>1, <2>2
  <2>4. /\ request' = [request EXCEPT !.readings[metric] = x]
        /\ risk' = Assess([request EXCEPT !.readings[metric] = x])
    BY <2>1 DEF Assessing
  <2>5. request' = [group |-> request.group, high |-> request.high, issues |-> request.issues,
                    readings |-> readings]
    BY <1>1, <2>4
  <2>6. request' \in Requests /\ risk' = Assess(request')
    BY <1>1, <2>3, <2>4, <2>5 DEF Requests
  <2>7. readings[metric] = x /\ \A m \in Names : m # metric => readings[m] = request.readings[m]
    BY <1>1
  <2> HIDE DEF readings
  <2>8. ASSUME NEW m \in Names
        PROVE  LET u == request'.readings[m]
                   y == request.readings[m]
                   limits == Thresholds(request.group, request.high)
               IN  \/ u = NoReading /\ y = NoReading
                   \/ u \in Int /\ y = NoReading
                   \/ /\ u \in Int /\ y \in Int
                      /\ IF u < y THEN y <= limits[m].max ELSE u = y \/ y >= limits[m].min
    <3>1. CASE m = metric
      <4>1. request'.readings[m] = x /\ FurtherOut(m, x, request.readings[m])
        BY <2>1, <2>5, <2>7, <3>1
      <4>2. CASE request.readings[m] = NoReading
        BY <2>2, <4>1, <4>2
      <4>3. CASE request.readings[m] \in Int
        BY <2>2, <4>1, <4>3, NoReadingAssumption DEF FurtherOut, Limit
      <4>4. QED BY <1>2, <4>2, <4>3
    <3>2. CASE m # metric
      <4>1. request'.readings[m] = request.readings[m]
        BY <2>5, <2>7, <3>2
      <4>2. QED BY <1>2, <4>1
    <3>3. QED BY <3>1, <3>2
  <2>9. request'.group = request.group /\ request'.high = request.high /\ request'.issues = request.issues
    BY <2>5
  <2>10. \A i \in Issues : request.issues[i] <= request'.issues[i]
    BY <1>1, <2>9
  <2>11. (\A m \in Names : Countable(request', m)) => Worse(request', request)
    BY <2>8, <2>9, <2>10 DEF Worse
  <2>12. QED BY <2>6, <2>11
<1>4. ASSUME NEW i \in Issues, ReportIssue(i)
      PROVE  /\ request' \in Requests /\ risk' = Assess(request')
             /\ (\A m \in Names : Countable(request', m)) => Worse(request', request)
  <2> DEFINE issues == [request.issues EXCEPT ![i] = @ + 1]
  <2>1. issues \in [Issues -> Nat]
    BY <1>1
  <2>2. /\ request' = [request EXCEPT !.issues[i] = @ + 1]
        /\ risk' = Assess([request EXCEPT !.issues[i] = @ + 1])
    BY <1>4 DEF ReportIssue, Assessing
  <2>3. request' = [group |-> request.group, high |-> request.high, issues |-> issues,
                    readings |-> request.readings]
    BY <1>1, <2>2
  <2>4. request' \in Requests /\ risk' = Assess(request')
    BY <1>1, <2>1, <2>2, <2>3 DEF Requests
  <2>5. \A n \in Issues : request.issues[n] <= issues[n]
    BY <1>1
  <2>6. /\ request'.group = request.group /\ request'.high = request.high
        /\ request'.issues = issues /\ request'.readings = request.readings
    BY <2>3
  <2> HIDE DEF issues
  <2>7. (\A m \in Names : Countable(request', m)) => Worse(request', request)
    BY <1>2, <2>5, <2>6 DEF Worse
  <2>8. QED BY <2>4, <2>7
<1>5. ASSUME FindSensitive
      PROVE  /\ request' \in Requests /\ risk' = Assess(request')
             /\ (\A m \in Names : Countable(request', m)) => Worse(request', request)
  <2>1. request' = [request EXCEPT !.high = TRUE] /\ risk' = Assess([request EXCEPT !.high = TRUE])
    BY <1>5 DEF FindSensitive, Assessing
  <2>2. request' = [group |-> request.group, high |-> TRUE, issues |-> request.issues,
                    readings |-> request.readings]
    BY <1>1, <2>1
  <2>3. request' \in Requests /\ risk' = Assess(request')
    BY <1>1, <2>1, <2>2 DEF Requests
  <2>4. /\ request'.group = request.group /\ request'.high = TRUE
        /\ request'.issues = request.issues /\ request'.readings = request.readings
    BY <2>2
  <2>5. \A n \in Issues : request.issues[n] <= request.issues[n]
    BY <1>1
  <2>6. (\A m \in Names : Countable(request', m)) => Worse(request', request)
    BY <1>2, <2>4, <2>5 DEF Worse
  <2>7. QED BY <2>3, <2>6
<1>6. (\E m \in Names : ReadWorse(m)) \/ (\E i \in Issues : ReportIssue(i)) \/ FindSensitive
  BY MetricNames DEF AssessNext
<1>7. QED BY <1>3, <1>4, <1>5, <1>6

LEMMA StepRisk == RiskInv /\ [Next]_vars => RiskInv'
<1>1. SUFFICES ASSUME RiskInv, [Next]_vars PROVE RiskInv'
  OBVIOUS
<1>2. CASE AssessNext
  <2>1. Assessed
    BY <1>2 DEF AssessNext
  <2>2. request \in Requests
    BY <1>1, <2>1 DEF RiskInv
  <2>3. QED BY <1>2, <2>2, AssessStep DEF RiskInv
<1>3. CASE Plan
  BY <1>3 DEF Plan, PlanTask, RiskInv, Assessed
<1>4. CASE UNCHANGED riskVars
  BY <1>1, <1>4 DEF riskVars, RiskInv, Assessed
<1>5. WriteOn => UNCHANGED riskVars
  BY DEF WriteOn
<1>6. UNCHANGED vars => UNCHANGED riskVars
  BY DEF vars, riskVars
<1>7. QED BY <1>1, <1>2, <1>3, <1>4, <1>5, <1>6 DEF Next

\* The risk on record is always the assessment of the request on record.
THEOREM RiskIsAssessed == Spec => []RiskInv
<1>1. Init => RiskInv
  BY InitRisk
<1>2. RiskInv /\ [Next]_vars => RiskInv'
  BY StepRisk
<1>3. QED BY <1>1, <1>2, PTL DEF Spec

LEMMA TotalAddsUp ==
  ASSUME NEW p \in Points, risk = Assessment(p), Adds(p.details) = p.score
  PROVE  DetailsAddUp
<1>1. risk.score = p.score /\ risk.details = p.details
  BY DEF Assessment
<1>2. p.score \in 0..100
  BY DEF Points
<1>3. Sums(p.details)[Len(p.details)] = p.score
  BY DEF Adds
<1>4. QED BY <1>1, <1>2, <1>3 DEF DetailsAddUp

\* The details of a recorded risk account for its score, point by point, and the score stays
\* within 100, however many rules apply (the closure add of Assess).
THEOREM DetailsAlwaysAddUp == Spec => []DetailsAddUp
<1>1. RiskInv => DetailsAddUp
  <2>1. SUFFICES ASSUME RiskInv PROVE DetailsAddUp
    OBVIOUS
  <2>2. CASE risk = Assessment(NoPoints)
    <3>1. <<>> \in Seq(Detail) /\ Len(<<>>) = 0
      OBVIOUS
    <3>2. Adds(<<>>) = 0
      BY <3>1, SumsFacts DEF Adds
    <3>3. NoPoints \in Points /\ Adds(NoPoints.details) = NoPoints.score
      BY <3>1, <3>2 DEF NoPoints, Points
    <3>4. QED BY <2>2, <3>3, TotalAddsUp
  <2>3. CASE request \in Requests /\ risk = Assess(request)
    <3> DEFINE r == RulesFor(request)
               p == Totals(r)[Len(r)]
    <3>1. p \in Points /\ risk = Assessment(p)
      BY <2>3, AssessIsTotal
    <3>2. r \in Seq(Detail) /\ Len(r) \in Nat
      BY <2>3, RulesFacts, LenProperties
    <3> HIDE DEF r
    <3>3. Len(r) \in 0..Len(r)
      BY <3>2
    <3>4. Adds(p.details) = p.score
      BY <3>2, <3>3, TotalsAddUp
    <3> HIDE DEF p
    <3>5. QED BY <3>1, <3>4, TotalAddsUp
  <2>4. QED BY <2>1, <2>2, <2>3 DEF RiskInv
<1>2. QED BY <1>1, RiskIsAssessed, PTL

\* A request that is worse in one fact never scores less, is never put at a lower level and
\* never loses an item of its checklist, as long as the points are ints of the build.
THEOREM WorseNeverScoresLess == Spec => WorseIsNotBetter
<1> DEFINE Better ==
      Assessed' /\ (\A m \in ToSet(Metrics) : Countable(request', m)) =>
        /\ risk'.score >= risk.score
        /\ Rank[risk'.level] >= Rank[risk.level]
        /\ Checklist(risk.level, request.group) \subseteq
             Checklist(risk'.level, request'.group)
<1>1. ASSUME RiskInv, [Next]_vars PROVE [Better]_riskVars
  <2>1. CASE AssessNext
    <3>1. Assessed
      BY <2>1 DEF AssessNext
    <3>2. request \in Requests /\ risk = Assess(request)
      BY <1>1, <3>1 DEF RiskInv
    <3>3. SUFFICES ASSUME \A m \in Names : Countable(request', m) PROVE Better
      BY MetricNames
    <3>4. request' \in Requests /\ risk' = Assess(request') /\ Worse(request', request)
      BY <2>1, <3>2, <3>3, AssessStep
    <3>5. risk.score \in Int /\ risk'.score \in Int /\ risk.score <= risk'.score
      BY <3>2, <3>4, WorseScore
    <3>6. risk.level = Level(risk.score) /\ risk'.level = Level(risk'.score)
      <4>1. \A in \in Requests : Assess(in).level = Level(Assess(in).score)
        BY DEF Assess, Assessment
      <4>2. QED BY <3>2, <3>4, <4>1
    <3>7. request'.group = request.group
      BY <3>4 DEF Worse
    <3>8. /\ Rank[risk.level] <= Rank[risk'.level]
          /\ Checklist(risk.level, request.group) \subseteq Checklist(risk'.level, request.group)
      BY <3>5, <3>6, WorseLevel
    <3>9. Rank[risk.level] \in Int /\ Rank[risk'.level] \in Int
      <4>1. \A s : Rank[Level(s)] \in Int
        BY DEF Rank, Level
      <4>2. QED BY <3>6, <4>1
    <3>10. QED BY <3>5, <3>7, <3>8, <3>9
  <2>2. CASE Plan
    BY <2>2 DEF Plan, PlanTask, Assessed
  <2>3. WriteOn => UNCHANGED riskVars
    BY DEF WriteOn
  <2>4. UNCHANGED vars => UNCHANGED riskVars
    BY DEF vars, riskVars
  <2>5. QED BY <1>1, <2>1, <2>2, <2>3, <2>4 DEF Next
<1>2. Spec => [][Better]_riskVars
  BY <1>1, RiskIsAssessed, PTL DEF Spec
<1>3. QED BY <1>2 DEF WorseIsNotBetter

\* Every reading outside the limits of the artifact has a detail of its own, and none within
\* them has, unless the score is used up or the points exceed an int.
THEOREM DeviationsAreScored == Spec => []DeviationIsScored
<1>1. ASSUME RiskInv PROVE DeviationIsScored
  <2>1. SUFFICES ASSUME Assessed, NEW m \in Names
                 PROVE  LET x == request.readings[m]
                            out == /\ x # NoReading
                                   /\ x > Limit[m].max \/ (x < Limit[m].min /\ m # "illuminance")
                            named == \E n \in DOMAIN risk.details : risk.details[n].rule = m
                        IN  IF out /\ Countable(request, m) THEN named \/ risk.score = 100
                                                            ELSE ~named
    BY MetricNames DEF DeviationIsScored
  <2>2. request \in Requests /\ risk = Assess(request)
    BY <1>1, <2>1 DEF RiskInv
  <2> DEFINE x == request.readings[m]
             out == /\ x # NoReading
                    /\ x > Limit[m].max \/ (x < Limit[m].min /\ m # "illuminance")
             points == ReadingPoints(m, x, Limit)
             total == Totals(RulesFor(request))[Len(RulesFor(request))]
  <2>3. points > 0 <=> out /\ Countable(request, m)
    BY <2>2, PointsOfDeviation DEF Limit
  <2>4. (points > 0 => Named(total, m) \/ total.score = 100) /\ (~(points > 0) => ~Named(total, m))
    BY <2>2, ReadingNamed DEF Limit
  <2>5. risk.score = total.score /\ risk.details = total.details
    BY <2>2, AssessIsTotal DEF Assessment
  <2>6. Named(total, m) <=> \E n \in DOMAIN risk.details : risk.details[n].rule = m
    BY <2>5 DEF Named
  <2> HIDE DEF points, total
  <2>7. QED BY <2>3, <2>4, <2>5, <2>6
<1>2. QED BY <1>1, RiskIsAssessed, PTL
=============================================================================
