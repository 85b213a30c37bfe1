----------------------------- MODULE IntakeProofs -----------------------------
(***************************************************************************)
(* Proofs about reports, for any codes, references and values: inspection  *)
(* and planning judge a reading alike, the order of the items decides at   *)
(* most which of several readings of a metric is recorded, and what is     *)
(* abnormal has evidence of its own.                                       *)
(*                                                                         *)
(* A report is checked item by item, and what the loop has found after one *)
(* depends on the items before.  Shown by induction on their number, as in *)
(* RiskProofs: the loop accepts the items that pass one by one and use no  *)
(* reference twice, and gathers what they say.  The order of the items     *)
(* occurs in this only where several of them measure one metric.           *)
(***************************************************************************)
EXTENDS RiskProofs, FiniteSetTheorems

\* Items, reports and what the loop finds, as normalize gets and makes them.
Codes == {"environment", "appearance", "material", "emergency"}
Measurements == [metric : Names, value : Int, unit : Units]
Items == [code : RawCodes \cup Codes, conclusion : Conclusions, observation : Observations,
          measurements : Seq(Measurements), evidence : Seq(RawRefs)]
Reports == [items : Seq(Items), readings : [Names -> Int \cup {NoReading}],
            observation : Observations, unit : Units, evidence : Seq(RawRefs)]
Trimmed == {Trim[r] : r \in RawRefs}
\* A reading nobody took is returned as 0.
Returned == {0} \cup {LastReading(item, m) : item \in Items, m \in Names}
Found == [error : {"none", "validation_error", "evidence_required"},
          anomalies : SUBSET (Names \cup RawCodes \cup Codes),
          evidence : Seq(Trimmed), readings : [Names -> Returned], results : Seq(Items)]

LEMMA ItemFacts ==
  ASSUME NEW item \in Items
  PROVE  /\ item.code \in RawCodes \cup Codes
         /\ \A m \in ToSet(item.measurements) : m \in Measurements
         /\ item.measurements \in Seq(Measurements) /\ item.evidence \in Seq(RawRefs)
<1>1. /\ item.code \in RawCodes \cup Codes
      /\ item.measurements \in Seq(Measurements) /\ item.evidence \in Seq(RawRefs)
  BY DEF Items
<1>2. \A s \in Seq(Measurements) : \A m \in ToSet(s) : m \in Measurements
  BY DEF ToSet
<1>3. QED BY <1>1, <1>2

\* The elements of two sequences, one after the other.
LEMMA ToSetJoin ==
  ASSUME NEW S, NEW a \in Seq(S), NEW b \in Seq(S)
  PROVE  /\ ToSet(a \o b) = ToSet(a) \cup ToSet(b)
         /\ IsInjective(a \o b) <=>
              IsInjective(a) /\ IsInjective(b) /\ ToSet(a) \cap ToSet(b) = {}
<1> DEFINE c == a \o b
           j == Len(a)
           k == Len(b)
<1>1. c \in Seq(S) /\ Joins(c, a, b)
  BY Joined
<1>2. j \in Nat /\ k \in Nat /\ DOMAIN a = 1..j /\ DOMAIN b = 1..k
  BY LenProperties
<1>3. Len(c) = j + k /\ DOMAIN c = 1..(j + k)
  BY <1>1, LenProperties DEF Joins
<1>4. (\A n \in 1..j : c[n] = a[n]) /\ (\A n \in 1..k : c[j + n] = b[n])
  BY <1>1 DEF Joins
<1> HIDE DEF c, j, k
<1>5. \A n : n \in 1..(j + k) <=> n \in 1..j \/ (n - j \in 1..k /\ n = j + (n - j))
  BY <1>2
<1>6. \A n \in 1..k : j + n \in 1..(j + k) /\ j + n \notin 1..j
  BY <1>2
<1>7. \A n \in 1..j : n \in 1..(j + k)
  BY <1>2
<1>8. ToSet(c) = ToSet(a) \cup ToSet(b)
  <2>1. ASSUME NEW n \in 1..(j + k) PROVE c[n] \in ToSet(a) \cup ToSet(b)
    <3>1. CASE n \in 1..j
      BY <1>2, <1>4, <3>1 DEF ToSet
    <3>2. CASE n - j \in 1..k /\ n = j + (n - j)
      <4>1. c[n] = b[n - j]
        BY <1>4, <3>2
      <4>2. QED BY <1>2, <3>2, <4>1 DEF ToSet
    <3>3. QED BY <1>5, <3>1, <3>2
  <2>2. ASSUME NEW n \in 1..j PROVE a[n] \in ToSet(c)
    BY <1>3, <1>4, <1>7 DEF ToSet
  <2>3. ASSUME NEW n \in 1..k PROVE b[n] \in ToSet(c)
    BY <1>3, <1>4, <1>6 DEF ToSet
  <2>4. QED BY <1>2, <1>3, <2>1, <2>2, <2>3 DEF ToSet
<1>9. ASSUME IsInjective(c)
      PROVE  IsInjective(a) /\ IsInjective(b) /\ ToSet(a) \cap ToSet(b) = {}
  <2>1. \A m, n \in 1..(j + k) : c[m] = c[n] => m = n
    BY <1>3, <1>9 DEF IsInjective
  <2>2. IsInjective(a)
    BY <1>2, <1>4, <1>7, <2>1 DEF IsInjective
  <2>3. ASSUME NEW m \in 1..k, NEW n \in 1..k, b[m] = b[n] PROVE m = n
    <3>1. j + m = j + n
      BY <1>4, <1>6, <2>1, <2>3
    <3>2. QED BY <1>2, <3>1
  <2>4. ASSUME NEW m \in 1..j, NEW n \in 1..k PROVE a[m] # b[n]
    BY <1>4, <1>6, <1>7, <2>1
  <2>5. QED BY <1>2, <2>2, <2>3, <2>4 DEF IsInjective, ToSet
<1>10. ASSUME IsInjective(a), IsInjective(b), ToSet(a) \cap ToSet(b) = {}
       PROVE  IsInjective(c)
  <2>1. ASSUME NEW m \in 1..j, NEW n \in 1..k PROVE a[m] # b[n]
    BY <1>2, <1>10 DEF ToSet
  <2>2. ASSUME NEW m \in 1..(j + k), NEW n \in 1..(j + k), c[m] = c[n] PROVE m = n
    <3>1. CASE m \in 1..j /\ n \in 1..j
      BY <1>2, <1>4, <1>10, <2>2, <3>1 DEF IsInjective
    <3>2. CASE m \in 1..j /\ n \notin 1..j
      BY <1>4, <1>5, <2>1, <2>2, <3>2
    <3>3. CASE m \notin 1..j /\ n \in 1..j
      BY <1>4, <1>5, <2>1, <2>2, <3>3
    <3>4. CASE m \notin 1..j /\ n \notin 1..j
      <4>1. m - j \in 1..k /\ m = j + (m - j) /\ n - j \in 1..k /\ n = j + (n - j)
        BY <1>5, <3>4
      <4>2. b[m - j] = b[n - j]
        BY <1>4, <2>2, <4>1
      <4>3. m - j = n - j
        BY <1>2, <1>10, <4>1, <4>2 DEF IsInjective
      <4>4. QED BY <4>1, <4>3
    <3>5. QED BY <3>1, <3>2, <3>3, <3>4
  <2>3. QED BY <1>3, <2>2 DEF IsInjective
<1>11. QED BY <1>8, <1>9, <1>10 DEF c

\* The references of an item, trimmed.
Refs(item) == {Trim[r] : r \in ToSet(item.evidence)}

LEMMA TrimAllFacts ==
  ASSUME NEW item \in Items
  PROVE  TrimAll(item.evidence) \in Seq(Trimmed) /\ ToSet(TrimAll(item.evidence)) = Refs(item)
<1> DEFINE s == item.evidence
           u == TrimAll(s)
<1>1. s \in Seq(RawRefs)
  BY ItemFacts
<1>2. Len(s) \in Nat /\ DOMAIN s = 1..Len(s) /\ \A n \in 1..Len(s) : s[n] \in RawRefs
  BY <1>1, LenProperties, ElementOfSeq
<1> HIDE DEF s
<1>3. u = [n \in 1..Len(s) |-> Trim[s[n]]]
  BY <1>2 DEF TrimAll
<1>4. u \in [1..Len(s) -> Trimmed]
  BY <1>2, <1>3 DEF Trimmed
<1>5. u \in Seq(Trimmed)
  BY <1>2, <1>4, FunctionIsSeq
<1>6. DOMAIN u = 1..Len(s) /\ \A n \in 1..Len(s) : u[n] = Trim[s[n]]
  BY <1>3
<1> HIDE DEF u
<1>7. ToSet(u) = {Trim[r] : r \in ToSet(s)}
  <2>1. ToSet(u) = {Trim[s[n]] : n \in 1..Len(s)}
    BY <1>6 DEF ToSet
  <2>2. ToSet(s) = {s[n] : n \in 1..Len(s)}
    BY <1>2 DEF ToSet
  <2>3. QED BY <2>1, <2>2
<1>8. QED BY <1>5, <1>7 DEF u, s, Refs

LEMMA ItemAnomaliesFacts ==
  ASSUME NEW t, NEW item \in Items, NEW found
  PROVE  /\ ItemAnomalies(t, item, found) = ItemAnomalies(t, item, {})
         /\ ItemAnomalies(t, item, found) \subseteq Names \cup RawCodes \cup Codes
<1>1. AbnormalMetrics(t, item) \subseteq Names
  <2>1. \A m \in Measurements : m.metric \in Names
    BY DEF Measurements
  <2>2. QED BY <2>1, ItemFacts DEF AbnormalMetrics
<1>2. item.code \in RawCodes \cup Codes /\ "appearance" \in Codes
  BY ItemFacts DEF Codes
<1>3. QED BY <1>1, <1>2 DEF ItemAnomalies

(***************************************************************************)
(* One item of the loop.                                                   *)
(***************************************************************************)
\* Does the item pass the checks of the loop, whatever the items before it?
Right(t, in, item) ==
  /\ item.conclusion # "other" /\ item.observation # ""
  /\ \A m \in ToSet(item.measurements) : MeasurementFits(m, Explicit(in))
  /\ ~LacksEvidence(t, in, item)
  /\ Refs(item) \subseteq ValidRefs
  /\ IsInjective(TrimAll(item.evidence))

LEMMA EvidenceFitsFacts ==
  ASSUME NEW acc \in Found, NEW item \in Items,
         ToSet(acc.evidence) \subseteq ValidRefs, IsInjective(acc.evidence)
  PROVE  EvidenceFits(acc, item) <=>
           /\ Refs(item) \subseteq ValidRefs
           /\ IsInjective(TrimAll(item.evidence))
           /\ ToSet(acc.evidence) \cap Refs(item) = {}
<1> DEFINE a == acc.evidence
           b == TrimAll(item.evidence)
<1>1. a \in Seq(Trimmed)
  BY DEF Found
<1>2. b \in Seq(Trimmed) /\ ToSet(b) = Refs(item)
  BY TrimAllFacts
<1>3. EvidenceFits(acc, item) <=> ToSet(a \o b) \subseteq ValidRefs /\ IsInjective(a \o b)
  BY DEF EvidenceFits
<1>4. ToSet(a) \subseteq ValidRefs /\ IsInjective(a)
  OBVIOUS
<1> HIDE DEF a, b
<1>5. /\ ToSet(a \o b) = ToSet(a) \cup ToSet(b)
      /\ IsInjective(a \o b) <=> IsInjective(a) /\ IsInjective(b) /\ ToSet(a) \cap ToSet(b) = {}
  BY <1>1, <1>2, ToSetJoin
<1>6. QED BY <1>2, <1>3, <1>4, <1>5 DEF a, b

\* Does it pass them after what was found before it?
Passes(t, in, acc, item) == Right(t, in, item) /\ ToSet(acc.evidence) \cap Refs(item) = {}

\* next is what the loop has found after item, when it had found acc before.
Checks(t, in, acc, item, next) ==
  /\ next \in Found
  /\ acc.error # "none" => next = acc
  /\ /\ acc.error = "none"
     /\ ToSet(acc.evidence) \subseteq ValidRefs /\ IsInjective(acc.evidence)
     => /\ ~Passes(t, in, acc, item) => next.error # "none"
        /\ Passes(t, in, acc, item) =>
             /\ next.error = "none"
             /\ next.anomalies = acc.anomalies \cup ItemAnomalies(t, item, {})
             /\ next.evidence = acc.evidence \o TrimAll(item.evidence)
             /\ next.readings = ReadingsAfter(acc.readings, item)
             /\ next.results = Append(acc.results, item)

LEMMA ReadingsAfterFacts ==
  ASSUME NEW readings \in [Names -> Returned], NEW item \in Items
  PROVE  ReadingsAfter(readings, item) \in [Names -> Returned]
BY MetricNames DEF ReadingsAfter, Returned

LEMMA CheckItemFacts ==
  ASSUME NEW t, NEW in, NEW acc \in Found, NEW item \in Items
  PROVE  Checks(t, in, acc, item, CheckItem(t, in, acc, item))
<1> DEFINE b == TrimAll(item.evidence)
           an == ItemAnomalies(t, item, acc.anomalies)
           rd == ReadingsAfter(acc.readings, item)
           next == [error |-> "none", anomalies |-> acc.anomalies \cup an,
                    evidence |-> acc.evidence \o b, readings |-> rd,
                    results |-> Append(acc.results, item)]
           fits == /\ item.conclusion # "other" /\ item.observation # ""
                   /\ \A m \in ToSet(item.measurements) : MeasurementFits(m, Explicit(in))
<1>1. /\ acc.error \in {"none", "validation_error", "evidence_required"}
      /\ acc.anomalies \in SUBSET (Names \cup RawCodes \cup Codes)
      /\ acc.evidence \in Seq(Trimmed) /\ acc.results \in Seq(Items)
      /\ acc.readings \in [Names -> Returned]
      /\ acc = [error |-> acc.error, anomalies |-> acc.anomalies, evidence |-> acc.evidence,
                readings |-> acc.readings, results |-> acc.results]
  BY DEF Found
<1>2. /\ [acc EXCEPT !.error = "validation_error"] =
           [error |-> "validation_error", anomalies |-> acc.anomalies, evidence |-> acc.evidence,
            readings |-> acc.readings, results |-> acc.results]
      /\ [acc EXCEPT !.error = "evidence_required"] =
           [error |-> "evidence_required", anomalies |-> acc.anomalies, evidence |-> acc.evidence,
            readings |-> acc.readings, results |-> acc.results]
  BY ONLY <1>1
<1>3. b \in Seq(Trimmed)
  BY TrimAllFacts
<1>4. an = ItemAnomalies(t, item, {}) /\ an \subseteq Names \cup RawCodes \cup Codes
  BY ItemAnomaliesFacts
<1>5. next \in Found
  <2> HIDE DEF b, an, rd
  <2>1. acc.evidence \o b \in Seq(Trimmed)
    BY <1>1, <1>3, ConcatProperties
  <2>2. Append(acc.results, item) \in Seq(Items)
    BY <1>1
  <2>3. rd \in [Names -> Returned]
    BY <1>1, ReadingsAfterFacts DEF rd
  <2>4. QED BY <1>1, <1>4, <2>1, <2>2, <2>3 DEF Found
<1>6. /\ [acc EXCEPT !.error = "validation_error"] \in Found
      /\ [acc EXCEPT !.error = "evidence_required"] \in Found
  BY <1>1, <1>2 DEF Found
<1>7. [acc EXCEPT !.error = "validation_error"].error = "validation_error" /\
      [acc EXCEPT !.error = "evidence_required"].error = "evidence_required"
  BY <1>2
<1>8. CheckItem(t, in, acc, item) =
        IF acc.error # "none" THEN acc
        ELSE IF ~fits THEN [acc EXCEPT !.error = "validation_error"]
        ELSE IF LacksEvidence(t, in, item) THEN [acc EXCEPT !.error = "evidence_required"]
        ELSE IF ~EvidenceFits(acc, item) THEN [acc EXCEPT !.error = "validation_error"]
        ELSE next
  BY DEF CheckItem, next
<1> HIDE DEF fits, next
<1>9. CheckItem(t, in, acc, item) \in Found
  BY <1>5, <1>6, <1>8
<1>10. ASSUME acc.error = "none", ToSet(acc.evidence) \subseteq ValidRefs, IsInjective(acc.evidence)
       PROVE  /\ ~Passes(t, in, acc, item) => CheckItem(t, in, acc, item).error # "none"
              /\ Passes(t, in, acc, item) => CheckItem(t, in, acc, item) = next
  <2>1. Passes(t, in, acc, item) <=>
          fits /\ ~LacksEvidence(t, in, item) /\ EvidenceFits(acc, item)
    BY <1>10, EvidenceFitsFacts DEF Passes, Right, fits
  <2>2. QED BY <1>7, <1>8, <1>10, <2>1
<1>11. acc.error # "none" => CheckItem(t, in, acc, item) = acc
  BY <1>8
<1> DEFINE checked == CheckItem(t, in, acc, item)
<1>12. /\ checked \in Found
       /\ acc.error # "none" => checked = acc
       /\ /\ acc.error = "none"
          /\ ToSet(acc.evidence) \subseteq ValidRefs /\ IsInjective(acc.evidence)
          => /\ ~Passes(t, in, acc, item) => checked.error # "none"
             /\ Passes(t, in, acc, item) => checked = next
  BY <1>9, <1>10, <1>11
<1>13. /\ next.error = "none"
       /\ next.anomalies = acc.anomalies \cup an
       /\ next.evidence = acc.evidence \o b
       /\ next.readings = rd
       /\ next.results = Append(acc.results, item)
  BY DEF next
<1> HIDE DEF checked
<1>14. Checks(t, in, acc, item, checked)
  BY <1>4, <1>12, <1>13 DEF Checks
<1>15. QED BY <1>14 DEF checked

(***************************************************************************)
(* The loop accepts the items that pass one by one and use no reference twice, *)
(* and gathers what they say.                                              *)
(***************************************************************************)
\* What the loop has found follows its recursion.
LEMMA AfterFacts ==
  ASSUME NEW t, NEW in, NEW items \in Seq(Items)
  PROVE  /\ After(t, in, items)[0] = Refused("none")
         /\ \A n \in 1..Len(items) :
              After(t, in, items)[n] = CheckItem(t, in, After(t, in, items)[n - 1], items[n])
         /\ \A n \in 0..Len(items) : After(t, in, items)[n] \in Found
<1> DEFINE N == Len(items)
           b == Refused("none")
           acc == After(t, in, items)
           Step(f) == [n \in 0..N |-> IF n = 0 THEN b ELSE CheckItem(t, in, f[n - 1], items[n])]
           G == [n \in 1..N |-> [v \in Found |-> CheckItem(t, in, v, items[n])]]
<1>1. N \in Nat /\ \A n \in 1..N : items[n] \in Items
  BY LenProperties, ElementOfSeq
<1>2. b \in Found
  <2>1. <<>> \in Seq(Trimmed) /\ <<>> \in Seq(Items)
    OBVIOUS
  <2>2. QED BY <2>1, MetricNames DEF Refused, Found, Returned
<1>3. \A n \in 1..N : \A v \in Found : G[n][v] = CheckItem(t, in, v, items[n])
  OBVIOUS
<1>4. G \in [1..N -> [Found -> Found]]
  BY <1>1, CheckItemFacts DEF Checks
<1> HIDE DEF G, b
<1>5. PICK f \in [0..N -> Found] : f[0] = b /\ \A n \in 1..N : f[n] = G[n][f[n - 1]]
  <2> HIDE DEF N
  <2>1. N \in Nat
    BY <1>1
  <2>2. \E f \in [0..N -> Found] : Recurses(f, N, b, G)
    BY <1>2, <1>4, <2>1, Recursion, Zenon
  <2>3. QED BY <2>2 DEF Recurses
<1>6. f = Step(f)
  <2>1. \A n \in 0..N : n # 0 => n \in 1..N /\ n - 1 \in 0..N
    BY <1>1
  <2>2. \A n \in 0..N : f[n] = Step(f)[n]
    BY <1>3, <1>5, <2>1
  <2>3. QED BY <1>5, <2>2
<1>7. acc = CHOOSE g : g = Step(g)
  BY DEF After, b
<1> HIDE DEF acc
<1>8. acc = Step(acc)
  <2> HIDE DEF Step
  <2>1. QED BY <1>6, <1>7
<1>9. acc[0] = b /\ \A n \in 1..N : acc[n] = CheckItem(t, in, acc[n - 1], items[n])
  <2>1. 0 \in 0..N /\ \A n \in 1..N : n \in 0..N /\ n # 0
    BY <1>1
  <2>2. \A n \in 0..N : acc[n] = IF n = 0 THEN b ELSE CheckItem(t, in, acc[n - 1], items[n])
    BY <1>8
  <2>3. QED BY <2>1, <2>2
<1> HIDE DEF N
<1>10. \A n \in 0..N : acc[n] \in Found
  <2> DEFINE Good == {n \in 0..N : acc[n] \in Found}
  <2>1. 0 \in Good /\ Good \in SUBSET (0..N)
    BY <1>1, <1>2, <1>9
  <2>2. ASSUME NEW n \in 1..N, n - 1 \in Good
        PROVE  n \in Good
    <3>1. acc[n - 1] \in Found /\ items[n] \in Items /\ n \in 0..N
      BY <1>1, <2>2
    <3>2. CheckItem(t, in, acc[n - 1], items[n]) \in Found
      BY <3>1, CheckItemFacts DEF Checks
    <3>3. QED BY <1>9, <3>1, <3>2
  <2> HIDE DEF Good
  <2>3. \A n \in 0..N : n \in Good
    BY <1>1, <2>1, <2>2, UpTo
  <2>4. QED BY <2>3 DEF Good
<1>11. QED BY <1>9, <1>10 DEF N, acc, b

\* The first n items pass one by one and use no reference twice.
Clean(t, in, items, n) ==
  /\ \A k \in 1..n : Right(t, in, items[k])
  /\ \A j, k \in 1..n : j # k => Refs(items[j]) \cap Refs(items[k]) = {}

\* x is the reading of metric m in one of the first n items, or 0 if none measures it.
ReadIn(items, n, m, x) ==
  \/ \E k \in 1..n : MeasuredAt(items[k], m) # {} /\ x = LastReading(items[k], m)
  \/ x = 0 /\ \A k \in 1..n : MeasuredAt(items[k], m) = {}

\* acc holds what the first n items have contributed.
Gathers(t, acc, items, n) ==
  /\ acc.anomalies = UNION {ItemAnomalies(t, items[k], {}) : k \in 1..n}
  /\ ToSet(acc.evidence) = UNION {Refs(items[k]) : k \in 1..n}
  /\ ToSet(acc.evidence) \subseteq ValidRefs /\ IsInjective(acc.evidence)
  /\ Len(acc.results) = n /\ \A k \in 1..n : acc.results[k] = items[k]
  /\ \A m \in Names : ReadIn(items, n, m, acc.readings[m])

LEMMA ReadInOneMore ==
  ASSUME NEW items, NEW n \in Nat \ {0}, NEW readings, NEW m \in Names,
         ReadIn(items, n - 1, m, readings[m])
  PROVE  ReadIn(items, n, m, ReadingsAfter(readings, items[n])[m])
<1>1. \A k : k \in 1..n <=> k \in 1..(n - 1) \/ k = n
  OBVIOUS
<1>2. ReadingsAfter(readings, items[n])[m] =
        IF MeasuredAt(items[n], m) = {} THEN readings[m] ELSE LastReading(items[n], m)
  BY MetricNames DEF ReadingsAfter
<1>3. QED BY <1>1, <1>2 DEF ReadIn

LEMMA CleanOneMore ==
  ASSUME NEW t, NEW in, NEW items, NEW n \in Nat \ {0}
  PROVE  Clean(t, in, items, n) <=>
           /\ Clean(t, in, items, n - 1) /\ Right(t, in, items[n])
           /\ (UNION {Refs(items[k]) : k \in 1..(n - 1)}) \cap Refs(items[n]) = {}
<1>1. \A k : k \in 1..n <=> k \in 1..(n - 1) \/ k = n
  OBVIOUS
<1>2. n \notin 1..(n - 1)
  OBVIOUS
<1> DEFINE R(k) == Refs(items[k])
           O(k) == Right(t, in, items[k])
           A == 1..n
           B == 1..(n - 1)
<1>3. (\A k \in A : O(k)) <=> (\A k \in B : O(k)) /\ O(n)
  <2> HIDE DEF O
  <2>1. QED BY <1>1
<1>4. (\A j, k \in A : j # k => R(j) \cap R(k) = {}) <=>
        /\ \A j, k \in B : j # k => R(j) \cap R(k) = {}
        /\ (UNION {R(k) : k \in B}) \cap R(n) = {}
  <2> HIDE DEF R
  <2>1. \A k : k \in A <=> k \in B \/ k = n
    BY <1>1
  <2>2. n \notin B
    BY <1>2
  <2> HIDE DEF A, B
  <2>3. QED BY <2>1, <2>2
<1>5. QED BY <1>3, <1>4 DEF Clean

LEMMA LoopFacts ==
  ASSUME NEW t, NEW in, NEW items \in Seq(Items)
  PROVE  LET acc == After(t, in, items)[Len(items)]
         IN  /\ acc.error = "none" <=> Clean(t, in, items, Len(items))
             /\ acc.error = "none" => Gathers(t, acc, items, Len(items))
<1> DEFINE N == Len(items)
           acc == After(t, in, items)
           Good == {n \in 0..N : /\ acc[n].error = "none" <=> Clean(t, in, items, n)
                                 /\ acc[n].error = "none" => Gathers(t, acc[n], items, n)}
<1>1. N \in Nat /\ \A n \in 1..N : items[n] \in Items
  BY LenProperties, ElementOfSeq
<1>2. /\ acc[0] = Refused("none")
      /\ \A n \in 1..N : acc[n] = CheckItem(t, in, acc[n - 1], items[n])
      /\ \A n \in 0..N : acc[n] \in Found
  BY AfterFacts
<1>3. acc[N] = After(t, in, items)[Len(items)]
  OBVIOUS
<1> HIDE DEF acc, N
<1>4. 0 \in Good /\ Good \in SUBSET (0..N)
  <2>1. 0 \in 0..N /\ 1..0 = {}
    BY <1>1
  <2>2. Clean(t, in, items, 0)
    BY <2>1 DEF Clean
  <2>3. /\ acc[0].error = "none" /\ acc[0].anomalies = {} /\ acc[0].evidence = <<>>
        /\ acc[0].results = <<>> /\ \A m \in Names : acc[0].readings[m] = 0
    BY <1>2, MetricNames DEF Refused
  <2>4. ToSet(<<>>) = {} /\ IsInjective(<<>>) /\ Len(<<>>) = 0
    BY DEF ToSet, IsInjective
  <2>5. Gathers(t, acc[0], items, 0)
    BY <2>1, <2>3, <2>4 DEF Gathers, ReadIn
  <2>6. QED BY <2>1, <2>2, <2>3, <2>5
<1>5. ASSUME NEW n \in 1..N, n - 1 \in Good
      PROVE  n \in Good
  <2> DEFINE a == acc[n - 1]
             item == items[n]
  <2>1. a \in Found /\ item \in Items /\ n \in 0..N /\ acc[n] = CheckItem(t, in, a, item)
    BY <1>1, <1>2, <1>5
  <2>2. Checks(t, in, a, item, acc[n])
    <3>1. Checks(t, in, a, item, CheckItem(t, in, a, item))
      BY <2>1, CheckItemFacts, Zenon
    <3>2. QED BY <2>1, <3>1
  <2>3. /\ a.error = "none" <=> Clean(t, in, items, n - 1)
        /\ a.error = "none" => Gathers(t, a, items, n - 1)
    BY <1>5
  <2>4. Clean(t, in, items, n) <=>
          /\ Clean(t, in, items, n - 1) /\ Right(t, in, item)
          /\ (UNION {Refs(items[k]) : k \in 1..(n - 1)}) \cap Refs(item) = {}
    <3>1. n \in Nat \ {0}
      BY <1>1
    <3>2. QED BY <3>1, CleanOneMore, Zenon DEF item
  <2> HIDE DEF a, item
  <2>5. CASE a.error # "none"
    <3>1. acc[n] = a
      BY <2>5, <2>2 DEF Checks
    <3>2. acc[n].error # "none" /\ ~Clean(t, in, items, n)
      BY <2>3, <2>4, <2>5, <3>1
    <3>3. QED BY <2>1, <3>2
  <2>6. CASE a.error = "none"
    <3>1. Gathers(t, a, items, n - 1) /\ Clean(t, in, items, n - 1)
      BY <2>3, <2>6
    <3>2. Passes(t, in, a, item) <=> Clean(t, in, items, n)
      BY <2>4, <3>1 DEF Passes, Gathers
    <3>3. /\ ~Passes(t, in, a, item) => acc[n].error # "none"
          /\ Passes(t, in, a, item) =>
               /\ acc[n].error = "none"
               /\ acc[n].anomalies = a.anomalies \cup ItemAnomalies(t, item, {})
               /\ acc[n].evidence = a.evidence \o TrimAll(item.evidence)
               /\ acc[n].readings = ReadingsAfter(a.readings, item)
               /\ acc[n].results = Append(a.results, item)
      BY <2>6, <2>2, <3>1 DEF Gathers, Checks
    <3>4. CASE ~Passes(t, in, a, item)
      BY <2>1, <3>2, <3>3, <3>4
    <3>5. CASE Passes(t, in, a, item)
      <4>1. /\ acc[n].error = "none"
            /\ acc[n].anomalies = a.anomalies \cup ItemAnomalies(t, item, {})
            /\ acc[n].evidence = a.evidence \o TrimAll(item.evidence)
            /\ acc[n].readings = ReadingsAfter(a.readings, item)
            /\ acc[n].results = Append(a.results, item)
        BY <3>3, <3>5
      <4>2. \A k : k \in 1..n <=> k \in 1..(n - 1) \/ k = n
        OBVIOUS
      <4>3. acc[n].anomalies = UNION {ItemAnomalies(t, items[k], {}) : k \in 1..n}
        <5>1. a.anomalies = UNION {ItemAnomalies(t, items[k], {}) : k \in 1..(n - 1)}
          BY <3>1 DEF Gathers
        <5>2. QED BY <4>1, <4>2, <5>1 DEF item
      <4>4. a.evidence \in Seq(Trimmed) /\ a.results \in Seq(Items)
        BY <2>1 DEF Found
      <4>5. TrimAll(item.evidence) \in Seq(Trimmed) /\ ToSet(TrimAll(item.evidence)) = Refs(item)
        BY <2>1, TrimAllFacts
      <4>6. /\ ToSet(acc[n].evidence) = ToSet(a.evidence) \cup Refs(item)
            /\ IsInjective(acc[n].evidence) <=>
                 /\ IsInjective(a.evidence) /\ IsInjective(TrimAll(item.evidence))
                 /\ ToSet(a.evidence) \cap Refs(item) = {}
        BY <4>1, <4>4, <4>5, ToSetJoin
      <4>7. ToSet(acc[n].evidence) = UNION {Refs(items[k]) : k \in 1..n}
        <5>1. ToSet(a.evidence) = UNION {Refs(items[k]) : k \in 1..(n - 1)}
          BY <3>1 DEF Gathers
        <5>2. QED BY <4>2, <4>6, <5>1 DEF item
      <4>8. ToSet(acc[n].evidence) \subseteq ValidRefs /\ IsInjective(acc[n].evidence)
        BY <3>1, <3>5, <4>6 DEF Gathers, Passes, Right
      <4>9. Len(acc[n].results) = n /\ \A k \in 1..n : acc[n].results[k] = items[k]
        <5>1. Len(a.results) = n - 1 /\ \A k \in 1..(n - 1) : a.results[k] = items[k]
          BY <3>1 DEF Gathers
        <5>2. /\ Len(Append(a.results, item)) = Len(a.results) + 1
              /\ Append(a.results, item)[Len(a.results) + 1] = item
              /\ \A k \in 1..Len(a.results) : Append(a.results, item)[k] = a.results[k]
          BY <2>1, <4>4
        <5>3. (n - 1) + 1 = n
          OBVIOUS
        <5>4. QED BY <4>1, <4>2, <5>1, <5>2, <5>3 DEF item
      <4>10. \A m \in Names : ReadIn(items, n, m, acc[n].readings[m])
        <5>1. \A m \in Names : ReadIn(items, n - 1, m, a.readings[m])
          BY <3>1 DEF Gathers
        <5>2. n \in Nat \ {0} /\ acc[n].readings = ReadingsAfter(a.readings, items[n])
          BY <1>1, <4>1 DEF item
        <5>3. QED BY <5>1, <5>2, ReadInOneMore
      <4>11. Gathers(t, acc[n], items, n)
        BY <4>3, <4>7, <4>8, <4>9, <4>10 DEF Gathers
      <4>12. QED BY <2>1, <3>2, <3>5, <4>1, <4>11
    <3>6. QED BY <3>4, <3>5
  <2>7. QED BY <2>5, <2>6
<1> HIDE DEF Good
<1>6. N \in Good
  <2>1. N \in 0..N
    BY <1>1
  <2>2. QED BY <1>1, <1>4, <1>5, <2>1, UpTo
<1>7. QED BY <1>3, <1>6 DEF Good, N

(***************************************************************************)
(* The items of a report.                                                  *)
(***************************************************************************)
\* Tasks, as they are planned.
Tasks == [group : Groups, high : BOOLEAN, level : {"low", "medium", "high"}]

\* Among chooses from both.
LEMMA AmongFacts ==
  ASSUME NEW T, NEW s \in Seq(T), NEW S
  PROVE  Among(s, S) \in Seq(T \cap S)
<1> DEFINE N == Len(s)
           V == Seq(T \cap S)
           F(f) == [n \in 0..N |->
                     IF n = 0 THEN <<>>
                     ELSE IF s[n] \in S THEN Append(f[n - 1], s[n]) ELSE f[n - 1]]
           G == [n \in 1..N |-> [v \in V |-> IF s[n] \in S THEN Append(v, s[n]) ELSE v]]
           found == CHOOSE f : f = F(f)
<1>1. N \in Nat /\ \A n \in 1..N : s[n] \in T
  BY LenProperties, ElementOfSeq
<1>2. <<>> \in V
  OBVIOUS
<1>3. \A n \in 1..N : \A v \in V : G[n][v] = IF s[n] \in S THEN Append(v, s[n]) ELSE v
  OBVIOUS
<1>4. G \in [1..N -> [V -> V]]
  <2>1. \A n \in 1..N : s[n] \in S => \A v \in V : Append(v, s[n]) \in V
    BY <1>1
  <2>2. QED BY <2>1
<1> HIDE DEF G
<1>5. PICK f \in [0..N -> V] : f[0] = <<>> /\ \A n \in 1..N : f[n] = G[n][f[n - 1]]
  <2> DEFINE b == <<>>
  <2> HIDE DEF N, b, V
  <2>1. N \in Nat /\ b \in V /\ G \in [1..N -> [V -> V]]
    BY <1>1, <1>2, <1>4 DEF b, V
  <2>2. \E f \in [0..N -> V] : Recurses(f, N, b, G)
    BY <2>1, Recursion, Zenon
  <2>3. QED BY <2>2 DEF Recurses, b, V
<1>6. f = F(f)
  <2>1. \A n \in 0..N : n # 0 => n \in 1..N /\ n - 1 \in 0..N
    BY <1>1
  <2>2. \A n \in 0..N : f[n] = F(f)[n]
    BY <1>3, <1>5, <2>1
  <2>3. QED BY <1>5, <2>2
<1>7. Among(s, S) = found[N]
  BY DEF Among
<1>8. found = F(found)
  <2> HIDE DEF F
  <2>1. QED BY <1>6
<1> HIDE DEF found
<1>9. found[0] = <<>> /\ \A n \in 1..N : found[n] = IF s[n] \in S THEN Append(found[n - 1], s[n])
                                                               ELSE found[n - 1]
  <2>1. 0 \in 0..N /\ \A n \in 1..N : n \in 0..N /\ n # 0
    BY <1>1
  <2>2. \A n \in 0..N : found[n] = IF n = 0 THEN <<>> ELSE
                                   IF s[n] \in S THEN Append(found[n - 1], s[n]) ELSE found[n - 1]
    BY <1>8
  <2>3. QED BY <2>1, <2>2
<1> HIDE DEF N
<1> DEFINE Good == {n \in 0..N : found[n] \in V}
<1>10. 0 \in Good /\ Good \in SUBSET (0..N)
  <2>1. found[0] \in V
    <3> HIDE DEF found
    <3>1. QED BY <1>2, <1>9
  <2>2. 0 \in 0..N
    BY <1>1
  <2>3. QED BY <2>1, <2>2
<1>11. ASSUME NEW n \in 1..N, n - 1 \in Good
       PROVE  n \in Good
  <2>1. found[n - 1] \in V /\ s[n] \in T /\ n \in 0..N
    BY <1>1, <1>11
  <2> DEFINE v == found[n - 1]
             x == s[n]
  <2>2. found[n] = IF x \in S THEN Append(v, x) ELSE v
    BY <1>9
  <2> HIDE DEF v, x
  <2>3. v \in V /\ x \in T
    BY <2>1 DEF v, x
  <2>4. found[n] \in V
    BY <2>2, <2>3
  <2>5. QED BY <2>1, <2>4
<1> HIDE DEF Good
<1>12. N \in Good
  <2>1. N \in 0..N
    BY <1>1
  <2>2. QED BY <1>1, <1>10, <1>11, <2>1, UpTo
<1>13. QED BY <1>7, <1>12 DEF Good, N

LEMMA ChecklistIsKnown ==
  ASSUME NEW t
  PROVE  ChecklistOf(t) \subseteq Codes
BY DEF ChecklistOf, Checklist, Codes

LEMMA LegacyItemsTyped ==
  ASSUME NEW t, NEW in \in Reports
  PROVE  LegacyItems(t, in) \in Seq(Items)
<1> DEFINE codes == Among(ChecklistOrder, ChecklistOf(t))
           taken == Among(Metrics, {m \in ToSet(Metrics) : in.readings[m] # NoReading})
           meter == [n \in DOMAIN taken |-> [metric |-> taken[n], value |-> in.readings[taken[n]],
                                             unit |-> in.unit]]
<1>1. codes \in Seq(Codes)
  <2>1. ChecklistOrder \in Seq(Codes)
    BY DEF ChecklistOrder, Codes
  <2>2. codes \in Seq(Codes \cap ChecklistOf(t))
    BY <2>1, AmongFacts
  <2> HIDE DEF codes
  <2>3. QED BY <2>2
<1>2. taken \in Seq(Names \cap {m \in ToSet(Metrics) : in.readings[m] # NoReading})
  <2>1. Metrics \in Seq(Names)
    BY DEF Metrics, Names
  <2>2. QED BY <2>1, AmongFacts
<1>3. /\ in.readings \in [Names -> Int \cup {NoReading}] /\ in.unit \in Units
      /\ in.observation \in Observations /\ in.evidence \in Seq(RawRefs)
  BY DEF Reports
<1> HIDE DEF taken
<1>4. meter \in Seq(Measurements)
  <2>1. /\ DOMAIN taken = 1..Len(taken) /\ Len(taken) \in Nat
        /\ \A n \in 1..Len(taken) :
          taken[n] \in Names /\ in.readings[taken[n]] # NoReading
    BY <1>2, LenProperties, ElementOfSeq
  <2>2. \A n \in 1..Len(taken) : [metric |-> taken[n], value |-> in.readings[taken[n]],
                                  unit |-> in.unit] \in Measurements
    BY <1>3, <2>1 DEF Measurements
  <2>3. meter \in [1..Len(taken) -> Measurements]
    BY <2>1, <2>2
  <2>4. QED BY <2>1, <2>3, FunctionIsSeq
<1> HIDE DEF meter
<1>5. \A code \in Codes : LegacyItem(in, code) \in Items
  <2>1. TAKE code \in Codes
  <2> DEFINE damaged == code = "appearance" /\ in.observation = "damaged"
             observed == IF in.observation = "" THEN "intact" ELSE in.observation
             measured == IF code = "environment" THEN meter ELSE <<>>
             cited == IF damaged THEN in.evidence ELSE <<>>
             concluded == IF damaged THEN "abnormal" ELSE "normal"
  <2>2. LegacyItem(in, code) = [code |-> code, conclusion |-> concluded, observation |-> observed,
                                measurements |-> measured, evidence |-> cited]
    BY DEF LegacyItem, meter, taken
  <2>3. concluded \in Conclusions /\ observed \in Observations
    BY <1>3 DEF Conclusions, Observations
  <2>4. measured \in Seq(Measurements) /\ cited \in Seq(RawRefs)
    <3>1. <<>> \in Seq(Measurements) /\ <<>> \in Seq(RawRefs)
      OBVIOUS
    <3>2. QED BY <1>3, <1>4, <3>1
  <2> HIDE DEF concluded, observed, measured, cited
  <2>5. QED BY <2>2, <2>3, <2>4 DEF Items
<1> HIDE DEF codes
<1>6. LegacyItems(t, in) = [n \in DOMAIN codes |-> LegacyItem(in, codes[n])]
  BY DEF LegacyItems, codes
<1>7. /\ DOMAIN codes = 1..Len(codes) /\ Len(codes) \in Nat
      /\ \A n \in 1..Len(codes) : codes[n] \in Codes
  BY <1>1, LenProperties, ElementOfSeq
<1>8. LegacyItems(t, in) \in [1..Len(codes) -> Items]
  BY <1>5, <1>6, <1>7
<1>9. QED BY <1>7, <1>8, FunctionIsSeq

\* The items a report is taken to have.
Taken(t, in) == IF Explicit(in) THEN in.items ELSE LegacyItems(t, in)

\* The codes of the items are those of the checklist, each once.
CodesFit(t, items) ==
  /\ \A j, k \in DOMAIN items : Trim[items[j].code] = Trim[items[k].code] => j = k
  /\ ChecklistOf(t) = {Trim[items[k].code] : k \in DOMAIN items}

LEMMA TakenTyped ==
  ASSUME NEW t, NEW in \in Reports
  PROVE  Taken(t, in) \in Seq(Items)
BY LegacyItemsTyped DEF Taken, Reports

LEMMA NormalizeFacts ==
  ASSUME NEW t, NEW in \in Reports
  PROVE  LET items == Taken(t, in)
             acc == After(t, in, items)[Len(items)]
         IN  /\ Normalize(t, in).error = "none" <=>
                  CodesFit(t, items) /\ Clean(t, in, items, Len(items))
             /\ Normalize(t, in).error = "none" =>
                  /\ Gathers(t, Normalize(t, in), items, Len(items))
                  /\ Normalize(t, in).results = items
<1> DEFINE items == Taken(t, in)
           codes == [n \in DOMAIN items |-> Trim[items[n].code]]
           expected == ChecklistOf(t)
           acc == After(t, in, items)[Len(items)]
<1>1. items \in Seq(Items)
  BY TakenTyped
<1>2. Normalize(t, in) =
        IF ~(ToSet(codes) \subseteq expected /\ IsInjective(codes)) THEN Refused("validation_error")
        ELSE IF expected # ToSet(codes) THEN Refused("checklist_incomplete")
        ELSE IF acc.error # "none" THEN Refused(acc.error) ELSE acc
  BY DEF Normalize, Taken
<1> HIDE DEF items
<1>3. /\ acc.error = "none" <=> Clean(t, in, items, Len(items))
      /\ acc.error = "none" => Gathers(t, acc, items, Len(items))
  BY <1>1, LoopFacts
<1>4. CodesFit(t, items) <=> IsInjective(codes) /\ expected = ToSet(codes)
  BY DEF CodesFit, IsInjective, ToSet
<1>5. \A e : Refused(e).error = e
  BY DEF Refused
<1> HIDE DEF codes, expected, acc
<1>6. Normalize(t, in).error = "none" <=> CodesFit(t, items) /\ acc.error = "none"
  BY <1>2, <1>4, <1>5
<1>7. Normalize(t, in).error = "none" => Normalize(t, in) = acc
  BY <1>2, <1>5
<1>8. acc.results \in Seq(Items)
  <2>1. Len(items) \in 0..Len(items)
    BY <1>1, LenProperties
  <2>2. acc \in Found
    BY <1>1, <2>1, AfterFacts DEF acc
  <2>3. QED BY <2>2 DEF Found
<1>9. acc.error = "none" => acc.results = items
  BY <1>1, <1>3, <1>8, SeqEqual DEF Gathers
<1>10. QED BY <1>3, <1>6, <1>7, <1>9 DEF items, acc

(***************************************************************************)
(* The answer on record is the one the report gets.                        *)
(***************************************************************************)
\* The report holds facts as requests carry them, and the answer is what it gets.
IntakeInv ==
  /\ RiskInv
  /\ report \in Reports
  /\ task = NoTask \/ task \in Tasks
  /\ answer = Refused("not_found") \/ (task \in Tasks /\ answer = Normalize(task, report))

LEMMA BlankTyped == Blank \in Reports
<1>1. [m \in ToSet(Metrics) |-> NoReading] \in [Names -> Int \cup {NoReading}]
  BY MetricNames
<1>2. <<>> \in Seq(Items) /\ <<>> \in Seq(RawRefs)
  OBVIOUS
<1>3. QED BY <1>1, <1>2 DEF Blank, Reports, Observations, Units

LEMMA InitIntake == Init => IntakeInv
<1>1. SUFFICES ASSUME Init PROVE IntakeInv
  OBVIOUS
<1>2. RiskInv
  BY <1>1, InitRisk
<1>3. report \in Reports /\ task = NoTask /\ answer = Refused("not_found")
  BY <1>1, BlankTyped DEF Init, AssessInit
<1>4. QED BY <1>2, <1>3 DEF IntakeInv

LEMMA PlannedTask ==
  ASSUME RiskInv, PlanTask
  PROVE  task' \in Tasks
<1>1. Assessed /\ task' = [group |-> request.group, high |-> request.high, level |-> risk.level]
  BY DEF PlanTask
<1>2. request \in Requests /\ risk = Assess(request)
  BY <1>1 DEF RiskInv
<1>3. risk.level \in {"low", "medium", "high"}
  BY <1>2 DEF Assess, Assessment, Level
<1>4. QED BY <1>1, <1>2, <1>3 DEF Tasks, Requests

LEMMA LastItemTyped ==
  ASSUME NEW in \in Reports, in.items # <<>>,
         NEW new \in Items
  PROVE  [in EXCEPT !.items[Len(in.items)] = new] \in Reports
<1> DEFINE s == in.items
           n == Len(s)
           u == [s EXCEPT ![n] = new]
<1>1. s \in Seq(Items)
  BY DEF Reports
<1>2. n \in Nat /\ DOMAIN s = 1..n /\ \A k \in 1..n : s[k] \in Items
  BY <1>1, LenProperties, ElementOfSeq
<1>3. u \in [1..n -> Items]
  BY <1>1, <1>2
<1>4. u \in Seq(Items)
  BY <1>2, <1>3, FunctionIsSeq
<1>5. [in EXCEPT !.items[Len(in.items)] = new] = [in EXCEPT !.items = u]
  BY DEF Reports
<1> HIDE DEF u
<1>6. QED BY <1>4, <1>5 DEF Reports

LEMMA AddItemTyped ==
  ASSUME report \in Reports, NEW code \in RawCodes, NEW conclusion \in Conclusions,
         NEW observation \in Observations, AddItem(code, conclusion, observation)
  PROVE  report' \in Reports
<1> DEFINE item == Item(code, conclusion, observation)
           items == Append(report.items, item)
<1>1. item \in Items
  <2>1. <<>> \in Seq(Measurements) /\ <<>> \in Seq(RawRefs)
    OBVIOUS
  <2>2. QED BY <2>1 DEF Item, Items
<1> HIDE DEF item
<1>2. items \in Seq(Items)
  BY <1>1 DEF Reports
<1>3. report' = [report EXCEPT !.items = items]
  BY DEF AddItem, item
<1> HIDE DEF items
<1>4. QED BY <1>2, <1>3 DEF Reports

LEMMA WrittenItem ==
  ASSUME report \in Reports, report.items # <<>>
  PROVE  /\ report.items[Len(report.items)] \in Items
         /\ \A m \in Measurements :
              LET item == report.items[Len(report.items)] IN
              [item EXCEPT !.measurements = Append(@, m)] \in Items
         /\ \A r \in RawRefs :
              LET item == report.items[Len(report.items)] IN
              [item EXCEPT !.evidence = Append(@, r)] \in Items
<1> DEFINE s == report.items
           item == s[Len(s)]
<1>1. s \in Seq(Items) /\ s # <<>>
  BY DEF Reports
<1> HIDE DEF s
<1>2. item \in Items
  <2>1. Len(s) \in 1..Len(s)
    BY <1>1, EmptySeq, LenProperties
  <2>2. QED BY <1>1, <2>1, ElementOfSeq
<1> HIDE DEF item
<1>3. ASSUME NEW m \in Measurements PROVE [item EXCEPT !.measurements = Append(@, m)] \in Items
  <2>1. Append(item.measurements, m) \in Seq(Measurements)
    BY <1>2 DEF Items
  <2>2. QED BY <1>2, <2>1 DEF Items
<1>4. ASSUME NEW r \in RawRefs PROVE [item EXCEPT !.evidence = Append(@, r)] \in Items
  <2>1. Append(item.evidence, r) \in Seq(RawRefs)
    BY <1>2 DEF Items
  <2>2. QED BY <1>2, <2>1 DEF Items
<1>5. QED BY <1>2, <1>3, <1>4 DEF item, s

LEMMA MeasureTyped ==
  ASSUME report \in Reports, NEW metric \in Names, NEW value \in Int, NEW unit \in Units,
         Measure(metric, value, unit)
  PROVE  report' \in Reports
<1> DEFINE m == [metric |-> metric, value |-> value, unit |-> unit]
           item == report.items[Len(report.items)]
           new == [item EXCEPT !.measurements = Append(@, m)]
<1>1. m \in Measurements
  BY DEF Measurements
<1> HIDE DEF m
<1>2. report.items # <<>>
  BY DEF Measure
<1>3. new \in Items
  BY <1>1, <1>2, WrittenItem
<1>4. report' = [report EXCEPT !.items[Len(report.items)] = new]
  BY DEF Measure, Reports, m
<1> HIDE DEF new
<1>5. QED BY <1>2, <1>3, <1>4, LastItemTyped

LEMMA CiteTyped ==
  ASSUME report \in Reports, NEW ref \in RawRefs, Cite(ref)
  PROVE  report' \in Reports
<1> DEFINE item == report.items[Len(report.items)]
           new == [item EXCEPT !.evidence = Append(@, ref)]
<1>1. report.items # <<>>
  BY DEF Cite
<1>2. new \in Items
  BY <1>1, WrittenItem
<1>3. report' = [report EXCEPT !.items[Len(report.items)] = new]
  BY DEF Cite, Reports
<1> HIDE DEF new
<1>4. QED BY <1>1, <1>2, <1>3, LastItemTyped

LEMMA OldFormTyped ==
  ASSUME report \in Reports,
         \/ \E m \in Names, x \in Int, unit \in Units : ReadOldForm(m, x, unit)
         \/ \E observation \in Observations : ObserveOldForm(observation)
         \/ \E ref \in RawRefs : CiteOldForm(ref)
  PROVE  report' \in Reports
<1>1. ASSUME NEW m \in Names, NEW x \in Int, NEW unit \in Units, ReadOldForm(m, x, unit)
      PROVE  report' \in Reports
  <2> DEFINE readings == [report.readings EXCEPT ![m] = x]
  <2>1. readings \in [Names -> Int \cup {NoReading}]
    BY DEF Reports
  <2>2. report' = [report EXCEPT !.readings = readings, !.unit = unit]
    BY <1>1 DEF ReadOldForm, Reports
  <2> HIDE DEF readings
  <2>3. QED BY <2>1, <2>2 DEF Reports
<1>2. ASSUME NEW observation \in Observations, ObserveOldForm(observation)
      PROVE  report' \in Reports
  BY <1>2 DEF ObserveOldForm, Reports
<1>3. ASSUME NEW ref \in RawRefs, CiteOldForm(ref)
      PROVE  report' \in Reports
  <2> DEFINE evidence == Append(report.evidence, ref)
  <2>1. evidence \in Seq(RawRefs)
    BY DEF Reports
  <2>2. report' = [report EXCEPT !.evidence = evidence]
    BY <1>3 DEF CiteOldForm
  <2> HIDE DEF evidence
  <2>3. QED BY <2>1, <2>2 DEF Reports
<1>4. QED BY <1>1, <1>2, <1>3

LEMMA StepIntake == IntakeInv /\ [Next]_vars => IntakeInv'
<1>1. SUFFICES ASSUME IntakeInv, [Next]_vars PROVE IntakeInv'
  OBVIOUS
<1>2. RiskInv'
  BY <1>1, StepRisk DEF IntakeInv
<1>3. CASE AssessNext /\ UNCHANGED <<report, answer>>
  <2>1. UNCHANGED task
    BY <1>3 DEF AssessNext, ReadWorse, ReportIssue, FindSensitive, Assessing
  <2>2. Normalize(task, report)' = Normalize(task, report)
    BY <1>3, <2>1
  <2>3. QED BY <1>1, <1>2, <1>3, <2>1, <2>2 DEF IntakeInv
<1>4. CASE Plan
  <2>1. task' \in Tasks
    BY <1>1, <1>4, PlannedTask DEF IntakeInv, Plan
  <2>2. report' = Blank /\ answer' = Normalize(task', Blank)
    BY <1>4 DEF Plan
  <2>3. report' \in Reports /\ answer' = Normalize(task', report')
    BY <2>2, BlankTyped
  <2>4. QED BY <1>2, <2>1, <2>3 DEF IntakeInv
<1>5. CASE WriteOn
  <2>1. task \in Tasks /\ report \in Reports
    BY <1>1, <1>5 DEF IntakeInv, WriteOn, Continued
  <2>2. task' = task /\ answer' = Normalize(task, report')
    BY <1>5 DEF WriteOn, riskVars
  <2>3. report' \in Reports
    <3>1. \A m \in Names : Values[m] \subseteq Int
      BY ValuesAssumption, MetricNames
    <3>2. \/ \E code \in RawCodes, conclusion \in Conclusions, observation \in Observations :
               AddItem(code, conclusion, observation)
          \/ \E m \in Names, x \in Int, unit \in Units :
               ReadOldForm(m, x, unit) \/ Measure(m, x, unit)
          \/ \E observation \in Observations : ObserveOldForm(observation)
          \/ \E ref \in RawRefs : Cite(ref) \/ CiteOldForm(ref)
      BY <1>5, <3>1, MetricNames DEF WriteOn
    <3>3. QED BY <2>1, <3>2, AddItemTyped, MeasureTyped, CiteTyped, OldFormTyped
  <2>4. QED BY <1>2, <2>1, <2>2, <2>3 DEF IntakeInv
<1>6. CASE UNCHANGED vars
  <2>1. UNCHANGED <<task, report, answer>>
    BY <1>6 DEF vars
  <2>2. QED BY <1>1, <1>2, <2>1 DEF IntakeInv
<1>7. QED BY <1>1, <1>3, <1>4, <1>5, <1>6 DEF Next

\* The answer always is what the report gets from normalize.
THEOREM ReportsAreAnswered == Spec => []IntakeInv
<1>1. Init => IntakeInv
  BY InitIntake
<1>2. IntakeInv /\ [Next]_vars => IntakeInv'
  BY StepIntake
<1>3. QED BY <1>1, <1>2, PTL DEF Spec

(***************************************************************************)
(* What an accepted report says.                                           *)
(***************************************************************************)
\* An accepted report: its items fit the checklist and pass, and the answer gathers them.
LEMMA AcceptedFacts ==
  ASSUME IntakeInv, Accepted
  PROVE  LET items == Taken(task, report)
         IN  /\ task \in Tasks /\ report \in Reports /\ answer = Normalize(task, report)
             /\ items \in Seq(Items)
             /\ DOMAIN items = 1..Len(items) /\ \A n \in 1..Len(items) : items[n] \in Items
             /\ CodesFit(task, items) /\ Clean(task, report, items, Len(items))
             /\ Gathers(task, answer, items, Len(items))
             /\ answer.results = items
<1> DEFINE items == Taken(task, report)
           N == Len(items)
<1>1. task \in Tasks /\ report \in Reports /\ answer = Normalize(task, report)
  BY DEF IntakeInv, Accepted, Refused
<1>2. items \in Seq(Items)
  BY <1>1, TakenTyped
<1>3. /\ CodesFit(task, items) /\ Clean(task, report, items, N)
      /\ Gathers(task, answer, items, N) /\ answer.results = items
  BY <1>1, NormalizeFacts DEF Accepted
<1>4. DOMAIN items = 1..N /\ N \in Nat /\ \A n \in 1..N : items[n] \in Items
  BY <1>2, LenProperties, ElementOfSeq
<1> HIDE DEF items, N
<1>5. QED BY <1>1, <1>2, <1>3, <1>4 DEF items, N

LEMMA IlluminanceLimits ==
  ASSUME NEW group \in Groups, NEW high \in BOOLEAN, NEW m \in Names
  PROVE  LET limits == Thresholds(group, high)
         IN  /\ limits["illuminance"].max >= 15
             /\ limits[m].min >= 0 /\ limits[m].min <= 600 /\ limits[m].max >= 0
BY DEF Groups, Names, Thresholds, Sensitive, Normal, Limits

\* The values a report may carry are too small for their points to exceed an int: a reading
\* costs points exactly if inspection takes it for abnormal.
LEMMA AbnormalCosts ==
  ASSUME NEW t \in Tasks, NEW m \in Measurements,
         MeasurementFits(m, TRUE) \/ MeasurementFits(m, FALSE)
  PROVE  LET limits == Thresholds(t.group, t.high)
         IN  /\ Abnormal(m, limits) <=> Deviation(m.metric, m.value, limits) > 0
             /\ Abnormal(m, limits) <=> ReadingPoints(m.metric, m.value, limits) > 0
<1> DEFINE limits == Thresholds(t.group, t.high)
           x == m.value
           name == m.metric
           dev == Deviation(name, x, limits)
           steps == Steps(name, dev, limits)
<1>1. name \in Names /\ t.group \in Groups /\ t.high \in BOOLEAN
  BY DEF Measurements, Tasks
<1>2. x \in Int
  BY DEF Measurements
<1>3. -300 <= x /\ x <= 100000 /\ (name # "illuminance" => x <= 1000)
  <2>1. x >= Measurable[name].min /\ x <= Measurable[name].max
    BY DEF MeasurementFits
  <2>2. /\ Measurable[name].min \in {-300, 0} /\ Measurable[name].max \in {600, 1000, 100000}
        /\ name # "illuminance" => Measurable[name].max \in {600, 1000}
    BY <1>1 DEF Measurable, Names
  <2>3. x \in Int
    BY <1>2
  <2> HIDE DEF x, name
  <2>4. QED BY <2>1, <2>2, <2>3
<1>4. Sound(limits) /\ limits.illuminance.max >= 15 /\ limits[name].min >= 0
        /\ limits[name].min <= 600 /\ limits[name].max >= 0
        /\ limits[name].max \in Int /\ limits[name].min \in Int /\ limits.illuminance.max \in Int
  <2>1. Sound(limits)
    BY <1>1, Tables
  <2>2. QED BY <1>1, <2>1, IlluminanceLimits DEF Sound, Names
<1>5. /\ dev \in Nat
      /\ dev > 0 <=> x > limits[name].max \/ (x < limits[name].min /\ name # "illuminance")
  BY <1>1, <1>2, <1>4, DeviationFacts
<1>6. Abnormal(m, limits) <=> dev > 0
  BY <1>5 DEF Abnormal
<1>7. steps + 5 <= IntMax /\ steps \in Int
  <2>1. dev <= 100000 /\ (name # "illuminance" => dev <= 1000)
    <3> DEFINE max == limits[name].max
               min == limits[name].min
    <3>1. dev = IF x > max THEN x - max
                ELSE IF x < min /\ name # "illuminance" THEN min - x ELSE 0
      BY DEF Deviation
    <3>2. max \in Int /\ min \in Int /\ min >= 0 /\ min <= 600 /\ max >= 0
      BY <1>4
    <3>3. name = "temperature" \/ name = "humidity" \/ name = "illuminance"
      BY <1>1 DEF Names
    <3> HIDE DEF dev, max, min, x, name
    <3>4. QED BY <1>3, <1>2, <3>1, <3>2, <3>3
  <2> HIDE DEF dev, x, limits
  <2>2. steps \in Int
    BY <1>1, <1>4, <1>5, StepsFacts
  <2>3. CASE name = "illuminance"
    <3> DEFINE L == limits.illuminance.max
               k == 15 * dev
    <3>1. L \in Nat \ {0} /\ 15 <= L /\ k \in Nat /\ k <= k
      BY <1>4, <1>5
    <3>2. steps = RoundUp(k, L)
      BY <2>3 DEF Steps
    <3> HIDE DEF L, k
    <3>3. RoundUp(k, L) <= RoundUp(k, 15) /\ RoundUp(k, L) \in Int
      BY <3>1, RoundUpGrows, RoundUpFacts
    <3>4. RoundUp(k, 15) = dev
      BY <1>5 DEF RoundUp, k
    <3>5. QED BY <2>1, <1>5, <3>2, <3>3, <3>4, ConversionAssumption
  <2>4. CASE name # "illuminance"
    <3> DEFINE k == 3 * dev
    <3>1. k \in Nat /\ k <= 3000
      BY <1>5, <2>1, <2>4
    <3>2. steps = RoundUp(k, 10) \/ steps = RoundUp(k, 20)
      BY <1>1, <2>4 DEF Steps, Names
    <3> HIDE DEF k
    <3>3. RoundUp(k, 10) <= 3000 /\ RoundUp(k, 20) <= 3000
      BY <3>1 DEF RoundUp
    <3>4. QED BY <2>2, <3>2, <3>3, ConversionAssumption
  <2>5. QED BY <2>2, <2>3, <2>4
<1>8. /\ ReadingPoints(name, x, limits) \in Int
      /\ dev = 0 => ReadingPoints(name, x, limits) = 0
      /\ dev > 0 => ReadingPoints(name, x, limits) > 0
  BY <1>1, <1>2, <1>4, <1>7, ReadingPointsFacts
<1> HIDE DEF dev
<1>9. ReadingPoints(name, x, limits) > 0 <=> dev > 0
  BY <1>5, <1>8
<1>10. QED BY <1>6, <1>9 DEF dev

\* The code of an item that fits the checklist is no metric.
LEMMA CodeIsNoMetric ==
  ASSUME NEW t, NEW items, CodesFit(t, items), NEW n \in DOMAIN items, items[n] \in Items
  PROVE  items[n].code \notin Names
<1> DEFINE code == items[n].code
<1>1. Trim[code] \in Codes
  BY ChecklistIsKnown DEF CodesFit
<1>2. code \in RawCodes \cup Codes
  BY ItemFacts
<1>3. Names \cap Codes = {}
  BY DEF Names, Codes
<1>4. code \in RawCodes => code \in DOMAIN Trim
  BY TrimAssumption
<1>5. QED BY <1>1, <1>2, <1>3, <1>4, MetricsAreTrimmed, MetricNames

\* What an item that passes has measured is abnormal if it deviates, and if it costs points.
LEMMA MeasuredFacts ==
  ASSUME NEW t \in Tasks, NEW in, NEW item \in Items, Right(t, in, item), NEW m \in Names
  PROVE  LET limits == Thresholds(t.group, t.high)
         IN  /\ m \in AbnormalMetrics(t, item) <=>
                  \E x \in MeasuredIn(item, m) : ReadingPoints(m, x, limits) > 0
             /\ m \in AbnormalMetrics(t, item) <=>
                  \E x \in MeasuredIn(item, m) : Deviation(m, x, limits) > 0
<1> DEFINE limits == Thresholds(t.group, t.high)
           taken == ToSet(item.measurements)
<1>1. \A k \in taken : k \in Measurements
  BY ItemFacts
<1>2. \A k \in taken : MeasurementFits(k, TRUE) \/ MeasurementFits(k, FALSE)
  BY DEF Right, MeasurementFits
<1>3. \A k \in taken : /\ Abnormal(k, limits) <=> Deviation(k.metric, k.value, limits) > 0
                       /\ Abnormal(k, limits) <=> ReadingPoints(k.metric, k.value, limits) > 0
  BY <1>1, <1>2, AbnormalCosts
<1>4. m \in AbnormalMetrics(t, item) <=> \E k \in taken : Abnormal(k, limits) /\ k.metric = m
  BY DEF AbnormalMetrics
<1>5. \A x : x \in MeasuredIn(item, m) <=> \E k \in taken : k.metric = m /\ k.value = x
  BY DEF MeasuredIn
<1> HIDE DEF limits, taken
<1>6. m \in AbnormalMetrics(t, item) <=>
        \E x \in MeasuredIn(item, m) : ReadingPoints(m, x, limits) > 0
  BY <1>3, <1>4, <1>5
<1>7. m \in AbnormalMetrics(t, item) <=> \E x \in MeasuredIn(item, m) : Deviation(m, x, limits) > 0
  BY <1>3, <1>4, <1>5
<1>8. QED BY <1>6, <1>7 DEF limits

\* Inspection and planning judge the readings of an accepted report alike.
THEOREM PackagesAgree == Spec => []InspectionAgreesWithRisk
<1>1. ASSUME IntakeInv PROVE InspectionAgreesWithRisk
  <2>1. SUFFICES ASSUME Accepted, NEW m \in Names
                 PROVE  m \in answer.anomalies <=>
                          \E n \in DOMAIN answer.results :
                            \E x \in MeasuredIn(answer.results[n], m) :
                              ReadingPoints(m, x, Thresholds(task.group, task.high)) > 0
    BY MetricNames DEF InspectionAgreesWithRisk
  <2> DEFINE items == Taken(task, report)
             N == Len(items)
             limits == Thresholds(task.group, task.high)
  <2>2. /\ task \in Tasks /\ DOMAIN items = 1..N /\ \A n \in 1..N : items[n] \in Items
        /\ CodesFit(task, items) /\ Clean(task, report, items, N)
        /\ Gathers(task, answer, items, N) /\ answer.results = items
    BY <1>1, <2>1, AcceptedFacts
  <2> HIDE DEF items, N
  <2>3. m \in answer.anomalies <=> \E n \in 1..N : m \in ItemAnomalies(task, items[n], {})
    BY <2>2 DEF Gathers
  <2>4. ASSUME NEW n \in 1..N
        PROVE  m \in ItemAnomalies(task, items[n], {}) <=>
                 \E x \in MeasuredIn(items[n], m) : ReadingPoints(m, x, limits) > 0
    <3>1. items[n] \in Items /\ Right(task, report, items[n]) /\ items[n].code # m
      <4>1. n \in DOMAIN items /\ items[n] \in Items
        BY <2>2
      <4>2. items[n].code \notin Names
        BY <2>2, <4>1, CodeIsNoMetric, Zenon
      <4>3. QED BY <2>2, <4>1, <4>2 DEF Clean
    <3>2. m # "appearance"
      BY DEF Names
    <3>3. m \in ItemAnomalies(task, items[n], {}) <=> m \in AbnormalMetrics(task, items[n])
      BY <3>1, <3>2 DEF ItemAnomalies
    <3>4. QED BY <2>2, <3>1, <3>3, MeasuredFacts
  <2>5. QED BY <2>2, <2>3, <2>4
<1>2. QED BY <1>1, ReportsAreAnswered, PTL

\* In the new form, every item that shows something abnormal has evidence of its own.
THEOREM AbnormalIsEvidenced == Spec => []AbnormalHasEvidenceInNewForm
<1>1. ASSUME IntakeInv PROVE AbnormalHasEvidenceInNewForm
  <2> DEFINE R == answer.results
             refs(k) == {Trim[r] : r \in ToSet(R[k].evidence)}
  <2>1. SUFFICES ASSUME Explicit(report), Accepted, NEW n \in DOMAIN R, ShowsAbnormal(R[n])
                 PROVE  /\ refs(n) # {} /\ refs(n) \subseteq ToSet(answer.evidence)
                        /\ \A k \in DOMAIN R \ {n} : refs(k) \cap refs(n) = {}
    BY DEF AbnormalHasEvidenceInNewForm, AbnormalHasEvidence
  <2> DEFINE items == Taken(task, report)
             N == Len(items)
  <2>2. /\ task \in Tasks /\ DOMAIN items = 1..N /\ \A k \in 1..N : items[k] \in Items
        /\ Clean(task, report, items, N)
        /\ Gathers(task, answer, items, N) /\ R = items
    BY <1>1, <2>1, AcceptedFacts
  <2>3. \A k : refs(k) = Refs(R[k])
    BY DEF Refs
  <2> HIDE DEF items, N, R, refs
  <2>4. n \in 1..N /\ items[n] \in Items /\ Right(task, report, items[n])
    BY <2>1, <2>2 DEF Clean
  <2>5. refs(n) # {}
    <3> DEFINE item == items[n]
    <3>1. item \in Items /\ Right(task, report, item) /\ ShowsAbnormal(item)
      BY <2>1, <2>2, <2>4
    <3> HIDE DEF item
    <3>2. ItemAnomalies(task, item, {}) # {}
      <4>1. CASE item.conclusion = "abnormal"
        BY <4>1 DEF ItemAnomalies
      <4>2. CASE \E m \in Names : \E x \in MeasuredIn(item, m) :
                    Deviation(m, x, Thresholds(task.group, task.high)) > 0
        <5>1. \E m \in Names : m \in AbnormalMetrics(task, item)
          BY <2>2, <3>1, <4>2, MeasuredFacts
        <5>2. QED BY <5>1 DEF ItemAnomalies
      <4>3. QED BY <3>1, <4>1, <4>2, MetricNames DEF ShowsAbnormal
    <3>3. item.evidence # <<>>
      BY <2>1, <3>1, <3>2 DEF Right, LacksEvidence
    <3>4. item.evidence \in Seq(RawRefs)
      BY <3>1, ItemFacts
    <3>5. ToSet(item.evidence) # {}
      <4> DEFINE s == item.evidence
      <4>1. DOMAIN s # {}
        <5> HIDE DEF s
        <5>1. s \in Seq(RawRefs) /\ s # <<>>
          BY <3>3, <3>4 DEF s
        <5>2. Len(s) \in Nat /\ Len(s) # 0 /\ DOMAIN s = 1..Len(s)
          BY <5>1, EmptySeq, LenProperties
        <5>3. 1 \in DOMAIN s
          BY <5>2
        <5>4. QED BY <5>3
      <4>2. QED BY <4>1 DEF ToSet
    <3>6. QED BY <2>2, <2>3, <3>5 DEF Refs, item
  <2>6. refs(n) \subseteq ToSet(answer.evidence)
    <3>1. ToSet(answer.evidence) = UNION {Refs(items[k]) : k \in 1..N}
      BY <2>2 DEF Gathers
    <3>2. QED BY <2>2, <2>3, <2>4, <3>1
  <2>7. \A k \in DOMAIN R \ {n} : refs(k) \cap refs(n) = {}
    <3>1. \A j, k \in 1..N : j # k => Refs(items[j]) \cap Refs(items[k]) = {}
      BY <2>2 DEF Clean
    <3>2. QED BY <2>2, <2>3, <2>4, <3>1
  <2>8. QED BY <2>5, <2>6, <2>7
<1>2. QED BY <1>1, ReportsAreAnswered, PTL

(***************************************************************************)
(* The order of the items.                                                 *)
(***************************************************************************)
\* The items in the order that p gives them.
Reordered(items, p) == [n \in DOMAIN items |-> items[p[n]]]

\* A function from 1..N to itself that takes no value twice takes every value.
LEMMA InjectionIsOnto ==
  ASSUME NEW N \in Nat, NEW p \in [1..N -> 1..N], IsInjective(p)
  PROVE  \A k \in 1..N : \E n \in 1..N : p[n] = k
<1>1. IsFiniteSet(1..N)
  BY FS_Interval
<1>2. p \in Injection(1..N, 1..N)
  BY DEF Injection
<1>3. p \in Surjection(1..N, 1..N)
  BY <1>1, <1>2, FS_Injection
<1>4. QED BY <1>3 DEF Surjection

LEMMA ReorderedFacts ==
  ASSUME NEW items \in Seq(Items), NEW p \in [DOMAIN items -> DOMAIN items], IsInjective(p)
  PROVE  LET N == Len(items)
             other == Reordered(items, p)
         IN  /\ other \in Seq(Items) /\ Len(other) = N
             /\ N \in Nat /\ DOMAIN items = 1..N /\ DOMAIN other = 1..N
             /\ \A n \in 1..N : p[n] \in 1..N /\ other[n] = items[p[n]]
             /\ \A j, k \in 1..N : p[j] = p[k] => j = k
             /\ \A k \in 1..N : \E n \in 1..N : p[n] = k
<1> DEFINE N == Len(items)
           other == Reordered(items, p)
<1>1. N \in Nat /\ DOMAIN items = 1..N /\ \A n \in 1..N : items[n] \in Items
  BY LenProperties, ElementOfSeq
<1>2. p \in [1..N -> 1..N]
  BY <1>1
<1>3. other = [n \in 1..N |-> items[p[n]]]
  BY <1>1 DEF Reordered
<1> HIDE DEF N, other
<1>4. other \in [1..N -> Items]
  BY <1>1, <1>2, <1>3
<1>5. other \in Seq(Items) /\ Len(other) = N
  BY <1>1, <1>4, FunctionIsSeq
<1>6. DOMAIN other = 1..N /\ \A n \in 1..N : p[n] \in 1..N /\ other[n] = items[p[n]]
  BY <1>2, <1>3
<1>7. \A j, k \in 1..N : p[j] = p[k] => j = k
  BY <1>2 DEF IsInjective
<1>8. \A k \in 1..N : \E n \in 1..N : p[n] = k
  BY <1>1, <1>2, InjectionIsOnto
<1>9. QED BY <1>1, <1>5, <1>6, <1>7, <1>8 DEF N, other

\* Neither the checks nor the checklist tell apart two orders of the same items.
LEMMA OrderIsFree ==
  ASSUME NEW t, NEW in, NEW new, NEW items \in Seq(Items),
         NEW p \in [DOMAIN items -> DOMAIN items], IsInjective(p),
         Explicit(new) = Explicit(in), new.evidence = in.evidence,
         CodesFit(t, items), Clean(t, in, items, Len(items))
  PROVE  LET other == Reordered(items, p)
         IN  CodesFit(t, other) /\ Clean(t, new, other, Len(items))
<1> DEFINE N == Len(items)
           other == Reordered(items, p)
<1>1. /\ N \in Nat /\ DOMAIN items = 1..N /\ DOMAIN other = 1..N
      /\ \A n \in 1..N : p[n] \in 1..N /\ other[n] = items[p[n]]
      /\ \A j, k \in 1..N : p[j] = p[k] => j = k
      /\ \A k \in 1..N : \E n \in 1..N : p[n] = k
  BY ReorderedFacts
<1>2. \A item : Right(t, new, item) <=> Right(t, in, item)
  BY DEF Right, LacksEvidence
<1>3. /\ \A j, k \in 1..N : Trim[items[j].code] = Trim[items[k].code] => j = k
      /\ ChecklistOf(t) = {Trim[items[k].code] : k \in 1..N}
  BY <1>1 DEF CodesFit
<1>4. /\ \A k \in 1..N : Right(t, in, items[k])
      /\ \A j, k \in 1..N : j # k => Refs(items[j]) \cap Refs(items[k]) = {}
  BY DEF Clean
<1> HIDE DEF N, other
<1>5. /\ \A j, k \in 1..N : Trim[other[j].code] = Trim[other[k].code] => j = k
      /\ {Trim[other[k].code] : k \in 1..N} = {Trim[items[k].code] : k \in 1..N}
  <2> DEFINE was(k) == Trim[items[k].code]
             is(k) == Trim[other[k].code]
             D == 1..N
  <2>1. \A k \in D : p[k] \in D /\ is(k) = was(p[k])
    BY <1>1
  <2>2. \A j, k \in D : was(j) = was(k) => j = k
    BY <1>3
  <2>3. (\A j, k \in D : p[j] = p[k] => j = k) /\ \A k \in D : \E n \in D : p[n] = k
    BY <1>1
  <2> HIDE DEF was, is, D
  <2>4. \A j, k \in D : is(j) = is(k) => j = k
    BY <2>1, <2>2, <2>3
  <2>5. {is(k) : k \in D} = {was(k) : k \in D}
    BY <2>1, <2>3
  <2>6. QED BY <2>4, <2>5 DEF was, is, D
<1>6. CodesFit(t, other)
  BY <1>1, <1>3, <1>5 DEF CodesFit
<1>7. \A k \in 1..N : Right(t, new, other[k])
  BY <1>1, <1>2, <1>4
<1>8. \A j, k \in 1..N : j # k => Refs(other[j]) \cap Refs(other[k]) = {}
  <2> DEFINE was(k) == Refs(items[k])
             is(k) == Refs(other[k])
             D == 1..N
  <2>1. \A k \in D : p[k] \in D /\ is(k) = was(p[k])
    BY <1>1
  <2>2. \A j, k \in D : j # k => was(j) \cap was(k) = {}
    BY <1>4
  <2>3. \A j, k \in D : j # k => p[j] # p[k]
    BY <1>1
  <2> HIDE DEF was, is, D
  <2>4. \A j, k \in D : j # k => is(j) \cap is(k) = {}
    BY <2>1, <2>2, <2>3
  <2>5. QED BY <2>4 DEF is, D
<1>9. Clean(t, new, other, N)
  BY <1>7, <1>8 DEF Clean
<1>10. QED BY <1>6, <1>9 DEF N, other

\* What is read in one order is read in the other.
LEMMA ReadInReordered ==
  ASSUME NEW items, NEW other, NEW N, NEW p, NEW m, NEW x,
         \A n \in 1..N : p[n] \in 1..N /\ other[n] = items[p[n]],
         \A k \in 1..N : \E n \in 1..N : p[n] = k,
         ReadIn(other, N, m, x)
  PROVE  ReadIn(items, N, m, x)
<1> DEFINE D == 1..N
<1>1. /\ \A n \in D : p[n] \in D /\ other[n] = items[p[n]]
      /\ \A k \in D : \E n \in D : p[n] = k
  OBVIOUS
<1>2. \/ \E k \in D : MeasuredAt(other[k], m) # {} /\ x = LastReading(other[k], m)
      \/ x = 0 /\ \A k \in D : MeasuredAt(other[k], m) = {}
  BY DEF ReadIn
<1> HIDE DEF D
<1>3. \/ \E k \in D : MeasuredAt(items[k], m) # {} /\ x = LastReading(items[k], m)
      \/ x = 0 /\ \A k \in D : MeasuredAt(items[k], m) = {}
  <2>1. CASE \E k \in D : MeasuredAt(other[k], m) # {} /\ x = LastReading(other[k], m)
    <3>1. PICK k \in D : MeasuredAt(other[k], m) # {} /\ x = LastReading(other[k], m)
      BY <2>1
    <3>2. p[k] \in D /\ other[k] = items[p[k]]
      BY <1>1
    <3>3. MeasuredAt(items[p[k]], m) # {} /\ x = LastReading(items[p[k]], m)
      BY <3>1, <3>2
    <3>4. QED BY <3>2, <3>3
  <2>2. CASE x = 0 /\ \A k \in D : MeasuredAt(other[k], m) = {}
    <3>1. ASSUME NEW k \in D PROVE MeasuredAt(items[k], m) = {}
      <4>1. PICK n \in D : p[n] = k
        BY <1>1
      <4>2. other[n] = items[k]
        BY <1>1, <4>1
      <4>3. QED BY <2>2, <4>2
    <3>2. QED BY <2>2, <3>1
  <2>3. QED BY <1>2, <2>1, <2>2
<1>4. QED BY <1>3 DEF ReadIn, D

\* Where the items agree about a metric, one value is read.
LEMMA OneReadingIsOne ==
  ASSUME NEW m, NEW N, DOMAIN answer.results = 1..N, OneReading(m),
         NEW x, ReadIn(answer.results, N, m, x), NEW y, ReadIn(answer.results, N, m, y)
  PROVE  x = y
<1> DEFINE D == 1..N
           R == answer.results
           measured(k) == MeasuredAt(R[k], m) # {}
           last(k) == LastReading(R[k], m)
<1>1. \A j, k \in D : measured(j) /\ measured(k) => last(j) = last(k)
  BY DEF OneReading
<1>2. /\ (\E k \in D : measured(k) /\ x = last(k)) \/ (x = 0 /\ \A k \in D : ~measured(k))
      /\ (\E k \in D : measured(k) /\ y = last(k)) \/ (y = 0 /\ \A k \in D : ~measured(k))
  BY DEF ReadIn
<1> HIDE DEF measured, last, D, R
<1>3. QED BY <1>1, <1>2

\* The order in which the items are listed decides neither whether the report is accepted nor
\* which anomalies and references it has; it decides the reading recorded for a metric only
\* where two items end with different ones (the loop of normalize, the last item wins).
THEOREM OrderIsIrrelevant == Spec => []OrderDoesNotMatter
<1>1. ASSUME IntakeInv PROVE OrderDoesNotMatter
  <2> DEFINE new(p) == [report EXCEPT !.items = [n \in DOMAIN @ |-> @[p[n]]]]
  <2>1. SUFFICES ASSUME Accepted,
                        NEW p \in [DOMAIN report.items -> DOMAIN report.items], IsInjective(p)
                 PROVE  LET other == Normalize(task, new(p))
                        IN  /\ other.error = "none"
                            /\ other.anomalies = answer.anomalies
                            /\ ToSet(other.evidence) = ToSet(answer.evidence)
                            /\ \A m \in ToSet(Metrics) :
                                 other.readings[m] # answer.readings[m] => ~OneReading(m)
    BY DEF OrderDoesNotMatter
  <2> DEFINE in == new(p)
             items == Taken(task, report)
             N == Len(items)
  <2>2. /\ report \in Reports /\ answer = Normalize(task, report) /\ items \in Seq(Items)
        /\ CodesFit(task, items) /\ Clean(task, report, items, N)
        /\ Gathers(task, answer, items, N) /\ answer.results = items
    BY <1>1, <2>1, AcceptedFacts
  <2>3. in = [report EXCEPT !.items = Reordered(report.items, p)]
    BY <2>2 DEF Reports, Reordered
  <2>4. report.items \in Seq(Items)
    BY <2>2 DEF Reports
  <2> HIDE DEF new
  <2>5. CASE ~Explicit(report)
    <3>1. report.items = <<>>
      BY <2>5 DEF Explicit
    <3>2. Reordered(report.items, p) = report.items
      <4>1. DOMAIN report.items = {}
        BY <3>1
      <4>2. QED BY <3>1, <4>1 DEF Reordered
    <3>3. in = report
      BY <2>2, <2>3, <3>2 DEF Reports
    <3>4. QED BY <2>1, <2>2, <3>3 DEF Accepted
  <2>6. CASE Explicit(report)
    <3>1. items = report.items
      BY <2>6 DEF Taken
    <3> DEFINE other == Reordered(items, p)
    <3>2. /\ other \in Seq(Items) /\ Len(other) = N
          /\ N \in Nat /\ DOMAIN items = 1..N /\ DOMAIN other = 1..N
          /\ \A n \in 1..N : p[n] \in 1..N /\ other[n] = items[p[n]]
          /\ \A k \in 1..N : \E n \in 1..N : p[n] = k
      <4>1. items \in Seq(Items) /\ p \in [DOMAIN items -> DOMAIN items]
        BY <2>1, <2>2, <3>1
      <4> HIDE DEF items
      <4>2. QED BY <2>1, <4>1, ReorderedFacts
    <3>3. /\ in \in Reports /\ in.items = other /\ in.evidence = report.evidence
      <4>1. in = [report EXCEPT !.items = other] /\ other \in Seq(Items)
        BY <2>3, <3>1, <3>2
      <4> HIDE DEF in, other
      <4>2. QED BY <2>2, <4>1 DEF Reports
    <3>4. Explicit(in)
      <4>1. DOMAIN items # {}
        <5>1. items # <<>>
          BY <2>6, <3>1 DEF Explicit
        <5>2. N # 0
          BY <2>2, <5>1, EmptySeq
        <5>3. 1 \in 1..N
          BY <3>2, <5>2
        <5>4. QED BY <3>2, <5>3
      <4>2. DOMAIN <<>> = {}
        OBVIOUS
      <4>3. QED BY <3>2, <3>3, <4>1, <4>2 DEF Explicit
    <3>5. CodesFit(task, other) /\ Clean(task, in, other, N)
      BY <2>1, <2>2, <2>6, <3>1, <3>3, <3>4, OrderIsFree
    <3>6. Taken(task, in) = other
      BY <3>3, <3>4 DEF Taken
    <3> DEFINE then == Normalize(task, in)
    <3>7. then.error = "none" /\ Gathers(task, then, other, N)
      BY <3>2, <3>3, <3>5, <3>6, NormalizeFacts
    <3> HIDE DEF then, other, items, N, in
    <3>8. then.anomalies = answer.anomalies
      <4>1. /\ then.anomalies = UNION {ItemAnomalies(task, other[k], {}) : k \in 1..N}
            /\ answer.anomalies = UNION {ItemAnomalies(task, items[k], {}) : k \in 1..N}
        BY <2>2, <3>7 DEF Gathers
      <4>2. {ItemAnomalies(task, other[k], {}) : k \in 1..N} =
              {ItemAnomalies(task, items[k], {}) : k \in 1..N}
        <5> DEFINE was(k) == ItemAnomalies(task, items[k], {})
                   is(k) == ItemAnomalies(task, other[k], {})
                   D == 1..N
        <5>1. \A k \in D : p[k] \in D /\ is(k) = was(p[k])
          BY <3>2
        <5>2. \A k \in D : \E n \in D : p[n] = k
          BY <3>2
        <5> HIDE DEF was, is, D
        <5>3. {is(k) : k \in D} = {was(k) : k \in D}
          BY <5>1, <5>2
        <5>4. QED BY <5>3 DEF was, is, D
      <4>3. QED BY <4>1, <4>2
    <3>9. ToSet(then.evidence) = ToSet(answer.evidence)
      <4>1. /\ ToSet(then.evidence) = UNION {Refs(other[k]) : k \in 1..N}
            /\ ToSet(answer.evidence) = UNION {Refs(items[k]) : k \in 1..N}
        BY <2>2, <3>7 DEF Gathers
      <4>2. {Refs(other[k]) : k \in 1..N} = {Refs(items[k]) : k \in 1..N}
        <5> DEFINE was(k) == Refs(items[k])
                   is(k) == Refs(other[k])
                   D == 1..N
        <5>1. \A k \in D : p[k] \in D /\ is(k) = was(p[k])
          BY <3>2
        <5>2. \A k \in D : \E n \in D : p[n] = k
          BY <3>2
        <5> HIDE DEF was, is, D
        <5>3. {is(k) : k \in D} = {was(k) : k \in D}
          BY <5>1, <5>2
        <5>4. QED BY <5>3 DEF was, is, D
      <4>3. QED BY <4>1, <4>2
    <3>10. \A m \in Names : then.readings[m] # answer.readings[m] => ~OneReading(m)
      <4>1. SUFFICES ASSUME NEW m \in Names, OneReading(m)
                     PROVE  then.readings[m] = answer.readings[m]
        OBVIOUS
      <4>2. ReadIn(other, N, m, then.readings[m]) /\ ReadIn(items, N, m, answer.readings[m])
        BY <2>2, <3>7 DEF Gathers
      <4>3. ReadIn(items, N, m, then.readings[m])
        <5>1. /\ \A n \in 1..N : p[n] \in 1..N /\ other[n] = items[p[n]]
              /\ \A k \in 1..N : \E n \in 1..N : p[n] = k
          BY <3>2
        <5>2. QED BY <4>2, <5>1, ReadInReordered
      <4>4. QED BY <2>2, <3>2, <4>1, <4>2, <4>3, OneReadingIsOne
    <3>11. QED BY <3>7, <3>8, <3>9, <3>10, MetricNames DEF then, in
  <2>7. QED BY <2>5, <2>6
<1>2. QED BY <1>1, ReportsAreAnswered, PTL
=============================================================================
