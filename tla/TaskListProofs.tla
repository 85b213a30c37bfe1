---------------------------- MODULE TaskListProofs ----------------------------
(***************************************************************************)
(* Proofs about the walk of TaskList, for any number of tasks, actions and *)
(* pages: the pages follow each other in order, and the tasks that stay    *)
(* where they are or move back are all shown.                              *)
(*                                                                         *)
(* The list is a sorted sequence of a finite set.  That there is one, and  *)
(* that it holds the whole set, is shown by induction on the size, in the  *)
(* form of a least counterexample.                                         *)
(***************************************************************************)
EXTENDS TaskList, FiniteSetTheorems, WellFoundedInduction, TLAPS

(***************************************************************************)
(* Sorted sequences of places.                                             *)
(***************************************************************************)
Places == [id : Int, at : Nat]

LEMMA LeastElement ==
  ASSUME NEW T \in SUBSET Nat, T # {}
  PROVE  \E x \in T : \A y \in T : x <= y
<1> DEFINE R == {ss \in Nat \X Nat : ss[1] < ss[2]}
<1>1. IsWellFoundedOn(R, Nat)
  BY NatLessThanWellFounded DEF OpToRel
<1>2. \A y, x \in Nat : y < x => <<y, x>> \in R
  OBVIOUS
<1> HIDE DEF R
<1>3. PICK x \in T : \A y \in T : ~ (<<y, x>> \in R)
  BY <1>1, WFMin
<1>4. \A y \in T : ~(y < x)
  BY <1>2, <1>3
<1>5. \A y \in T : x <= y
  BY <1>4
<1>6. QED BY <1>5

\* Before is a strict total order.
LEMMA BeforeIsOrder ==
  /\ \A k \in Places : ~Before(k, k)
  /\ \A k, l, m \in Places : Before(k, l) /\ Before(l, m) => Before(k, m)
  /\ \A k, l \in Places : k = l \/ Before(k, l) \/ Before(l, k)
<1>1. \A k, l \in Places : k.id = l.id /\ k.at = l.at => k = l
  BY DEF Places
<1>2. \A k \in Places : k.id \in Int /\ k.at \in Nat
  BY DEF Places
<1>3. QED BY <1>1, <1>2 DEF Before

\* k comes before all other places of S.
IsFirst(k, S) == k \in S /\ \A l \in S : l = k \/ Before(k, l)

LEMMA FirstExists ==
  ASSUME NEW S \in SUBSET Places, IsFiniteSet(S), S # {}
  PROVE  \E k \in S : IsFirst(k, S)
<1> DEFINE Bad == {T \in SUBSET S : T # {} /\ \A k \in T : ~IsFirst(k, T)}
           sizes == {Cardinality(T) : T \in Bad}
<1>1. \A T \in SUBSET S : IsFiniteSet(T) /\ Cardinality(T) \in Nat
  BY FS_Subset, FS_CardinalityType
<1>2. SUFFICES ASSUME Bad # {} PROVE FALSE
  OBVIOUS
<1>3. sizes \in SUBSET Nat /\ sizes # {}
  BY <1>1, <1>2
<1>4. PICK n \in sizes : \A m \in sizes : n <= m
  <2> HIDE DEF sizes
  <2>1. QED BY <1>3, LeastElement
<1>5. PICK T \in Bad : n = Cardinality(T)
  BY <1>4
<1>6. PICK x \in T : TRUE
  BY <1>5
<1> DEFINE rest == T \ {x}
<1>7. rest \in SUBSET S /\ Cardinality(rest) = Cardinality(T) - 1 /\ Cardinality(T) \in Nat
  BY <1>1, <1>5, <1>6, FS_RemoveElement
<1>8. rest \notin Bad
  <2>1. SUFFICES ASSUME rest \in Bad PROVE FALSE
    OBVIOUS
  <2>2. Cardinality(rest) \in sizes
    BY <2>1
  <2>3. n <= Cardinality(rest)
    BY <1>4, <2>2
  <2>4. QED BY <1>5, <1>7, <2>3
<1>9. CASE rest = {}
  BY <1>5, <1>6, <1>9 DEF IsFirst
<1>10. CASE rest # {}
  <2>1. PICK k \in rest : IsFirst(k, rest)
    BY <1>7, <1>8, <1>10
  <2>2. \A l \in T : l = x \/ l \in rest
    OBVIOUS
  <2>3. x \in Places /\ k \in Places /\ k \in T /\ T \subseteq Places
    BY <1>5, <1>6
  <2>4. CASE Before(k, x)
    BY <1>5, <2>1, <2>2, <2>3, <2>4 DEF IsFirst
  <2>5. CASE Before(x, k)
    <3>1. IsFirst(x, T)
      BY <1>6, <2>1, <2>2, <2>3, <2>5, BeforeIsOrder DEF IsFirst
    <3>2. QED BY <1>5, <1>6, <3>1
  <2>6. QED BY <2>1, <2>3, <2>4, <2>5, BeforeIsOrder
<1>11. QED BY <1>9, <1>10

Sorted(s) == \A m, n \in DOMAIN s : m < n => Before(s[m], s[n])

LEMMA SortedExists ==
  ASSUME NEW S \in SUBSET Places, IsFiniteSet(S)
  PROVE  \E s \in [1..Cardinality(S) -> S] : Sorted(s)
<1> DEFINE Bad == {T \in SUBSET S : \A s \in [1..Cardinality(T) -> T] : ~Sorted(s)}
           sizes == {Cardinality(T) : T \in Bad}
<1>1. \A T \in SUBSET S : IsFiniteSet(T) /\ Cardinality(T) \in Nat
  BY FS_Subset, FS_CardinalityType
<1>2. SUFFICES ASSUME Bad # {} PROVE FALSE
  OBVIOUS
<1>3. sizes \in SUBSET Nat /\ sizes # {}
  BY <1>1, <1>2
<1>4. PICK n \in sizes : \A m \in sizes : n <= m
  <2> HIDE DEF sizes
  <2>1. QED BY <1>3, LeastElement
<1>5. PICK T \in Bad : n = Cardinality(T)
  BY <1>4
<1>6. T # {}
  <2>1. SUFFICES ASSUME T = {} PROVE FALSE
    OBVIOUS
  <2>2. Cardinality(T) = 0
    BY <2>1, FS_EmptySet
  <2>3. <<>> \in [1..0 -> T] /\ Sorted(<<>>)
    BY <2>1 DEF Sorted
  <2>4. QED BY <1>5, <2>2, <2>3
<1>7. PICK x \in T : IsFirst(x, T)
  BY <1>1, <1>5, <1>6, FirstExists
<1> DEFINE rest == T \ {x}
           c == Cardinality(T)
<1>8. rest \in SUBSET S /\ Cardinality(rest) = c - 1 /\ c \in Nat /\ c - 1 \in Nat
  BY <1>1, <1>5, <1>7, FS_RemoveElement
<1>9. rest \notin Bad
  <2>1. SUFFICES ASSUME rest \in Bad PROVE FALSE
    OBVIOUS
  <2>2. Cardinality(rest) \in sizes
    BY <2>1
  <2>3. n <= Cardinality(rest)
    BY <1>4, <2>2
  <2>4. QED BY <1>5, <1>8, <2>3
<1>10. PICK s \in [1..(c - 1) -> rest] : Sorted(s)
  BY <1>8, <1>9
<1> DEFINE r == [i \in 1..c |-> IF i = 1 THEN x ELSE s[i - 1]]
<1> HIDE DEF c
<1>11. \A i \in 1..c : i # 1 => i - 1 \in 1..(c - 1) /\ s[i - 1] \in rest
  BY <1>8, <1>10
<1>12. r \in [1..c -> T]
  BY <1>7, <1>11
<1>13. Sorted(r)
  <2> SUFFICES ASSUME NEW i \in 1..c, NEW j \in 1..c, i < j
               PROVE  Before(r[i], r[j])
    BY DEF Sorted
  <2>1. j # 1 /\ r[j] = s[j - 1] /\ j - 1 \in 1..(c - 1)
    BY <1>8, <1>11
  <2>2. CASE i = 1
    BY <1>7, <1>11, <2>1, <2>2 DEF IsFirst
  <2>3. CASE i # 1
    <3>1. i - 1 \in 1..(c - 1) /\ i - 1 < j - 1 /\ r[i] = s[i - 1]
      BY <1>8, <1>11, <2>3
    <3>2. QED BY <1>10, <2>1, <3>1 DEF Sorted
  <2>4. QED BY <2>2, <2>3
<1>14. QED BY <1>5, <1>12, <1>13 DEF c

\* A sorted sequence of as many places as there are holds each of them.
LEMMA SortedIsWhole ==
  ASSUME NEW S \in SUBSET Places, IsFiniteSet(S),
         NEW s \in [1..Cardinality(S) -> S], Sorted(s)
  PROVE  ToSet(s) = S
<1> DEFINE N == Cardinality(S)
           D == 1..N
<1>1. N \in Nat
  BY FS_CardinalityType
<1>2. s \in Injection(D, S)
  <2>1. \A m, n \in D : s[m] = s[n] => m = n
    <3> SUFFICES ASSUME NEW m \in D, NEW n \in D, s[m] = s[n], m # n PROVE FALSE
      OBVIOUS
    <3>1. s[m] \in Places
      OBVIOUS
    <3>2. m < n \/ n < m
      BY <1>1
    <3>3. QED BY <3>1, <3>2, BeforeIsOrder DEF Sorted
  <2>2. QED BY <2>1 DEF Injection, IsInjective
<1>3. IsFiniteSet(D) /\ Cardinality(D) = N
  BY <1>1, FS_Interval
<1> HIDE DEF N
<1>4. s \in Surjection(D, S)
  <2> HIDE DEF D
  <2>1. QED BY <1>2, <1>3, FS_Injection DEF N
<1>5. QED BY <1>4 DEF Surjection, ToSet, N

(***************************************************************************)
(* What the list of a state holds.                                         *)
(***************************************************************************)
Walk == [filter : Filters, stage : {"idle", "asked", "done", "refused"}, now : Times,
         cursor : Places \cup {NoCursor}, shown : Seq(Places), pages : Nat,
         steady : UNION {[S -> Places] : S \in SUBSET TaskIds}]

TypeInv ==
  /\ clock \in Times
  /\ DOMAIN creating \subseteq TaskIds /\ \A id \in DOMAIN creating : creating[id] \in Times
  /\ DOMAIN tasks \subseteq TaskIds /\ IsFiniteSet(DOMAIN tasks)
  /\ \A id \in DOMAIN tasks : tasks[id] \in Task
  /\ walk \in Walk

LEMMA KeyFacts ==
  ASSUME TypeInv, NEW id \in DOMAIN tasks, NEW now
  PROVE  Key(id, now) \in Places /\ Key(id, now).id = id
<1> DEFINE t == tasks[id]
           deadlines == Dues(t) \cup {t.end}
<1>1. id \in Int /\ t \in Task
  BY BoundAssumption DEF TypeInv
<1>2. t.created \in Nat /\ t.end \in Nat
  BY <1>1, BoundAssumption DEF Task, Times
<1>3. \A a \in DOMAIN t.open : t.open[a] \in Nat
  BY <1>1 DEF Task
<1>4. deadlines \in SUBSET Nat /\ deadlines # {}
  BY <1>2, <1>3 DEF Dues
<1>5. \E x \in deadlines : \A y \in deadlines : x <= y
  <2> HIDE DEF deadlines
  <2>1. QED BY <1>4, LeastElement
<1>6. Min(deadlines) \in Nat
  <2> HIDE DEF deadlines
  <2>1. QED BY <1>4, <1>5 DEF Min
<1>7. QED BY <1>1, <1>2, <1>6 DEF Key, Places

LEMMA ItemsFacts ==
  ASSUME TypeInv, NEW filter, NEW now
  PROVE  /\ Items(filter, now) \in Seq(Places) /\ Sorted(Items(filter, now))
         /\ ToSet(Items(filter, now)) = {Key(id, now) : id \in Listed(filter, now)}
<1> DEFINE S == Listed(filter, now)
           keys == {Key(id, now) : id \in S}
           f == [id \in S |-> Key(id, now)]
<1>1. S \in SUBSET DOMAIN tasks
  BY DEF Listed
<1>2. IsFiniteSet(S)
  <2> HIDE DEF S
  <2>1. QED BY <1>1, FS_Subset DEF TypeInv
<1>3. keys \in SUBSET Places
  BY <1>1, KeyFacts
<1>4. f \in Surjection(S, keys)
  BY DEF Surjection
<1>5. IsFiniteSet(keys)
  <2> HIDE DEF f, keys, S
  <2>1. QED BY <1>2, <1>4, FS_Surjection
<1>6. Items(filter, now) = CHOOSE s \in [1..Cardinality(keys) -> keys] : Sorted(s)
  BY DEF Items, Sorted
<1> HIDE DEF keys
<1>7. Items(filter, now) \in [1..Cardinality(keys) -> keys] /\ Sorted(Items(filter, now))
  BY <1>3, <1>5, <1>6, SortedExists
<1>8. Cardinality(keys) \in Nat
  BY <1>5, FS_CardinalityType
<1>9. Items(filter, now) \in Seq(Places)
  BY <1>3, <1>7, <1>8
<1>10. QED BY <1>3, <1>5, <1>7, <1>9, SortedIsWhole DEF keys

(***************************************************************************)
(* A page is the part of the list behind the cursor, up to the next.       *)
(***************************************************************************)
Shows(items, cursor, page) ==
  /\ page.items \in Seq(Places) /\ Sorted(page.items)
  /\ page.next \in ToSet(items) \cup {NoCursor}
  /\ page.next # NoCursor /\ cursor # NoCursor => Before(cursor, page.next)
  /\ \A k \in Places :
       k \in ToSet(page.items) <=>
         /\ k \in ToSet(items)
         /\ cursor = NoCursor \/ Before(cursor, k)
         /\ page.next = NoCursor \/ ~Before(page.next, k)

LEMMA PageFacts ==
  ASSUME NEW items \in Seq(Places), Sorted(items), NEW cursor \in ToSet(items) \cup {NoCursor}
  PROVE  Shows(items, cursor, Page(items, cursor))
<1> DEFINE start == IF cursor = NoCursor THEN 0
                    ELSE CHOOSE n \in DOMAIN items : items[n] = cursor
           end == Min({start + Limit, Len(items)})
           page == Page(items, cursor)
           L == Len(items)
<1>1. NoCursor \notin Places /\ ToSet(items) \subseteq Places /\ DOMAIN items = 1..L /\ L \in Nat
  <2>1. \A k \in Places : k.at \in Nat
    BY DEF Places
  <2>2. NoCursor.at \notin Nat
    BY DEF NoCursor
  <2>3. QED BY <2>1, <2>2 DEF ToSet
<1>2. \A m, n \in 1..L : Before(items[m], items[n]) <=> m < n
  BY <1>1, BeforeIsOrder DEF Sorted
<1>3. /\ start \in 0..L
      /\ cursor = NoCursor => start = 0
      /\ cursor # NoCursor => start \in 1..L /\ items[start] = cursor
  BY <1>1 DEF ToSet
<1> HIDE DEF start
<1>4. /\ end \in start..L
      /\ end < L => end = start + Limit /\ start < end
  BY <1>1, <1>3, BoundAssumption DEF Min
<1> HIDE DEF end
<1>5. /\ page.items = SubSeq(items, start + 1, end)
      /\ page.next = IF end < L THEN items[end] ELSE NoCursor
  BY DEF Page, start, end
<1> HIDE DEF page, L
<1>6. /\ page.items \in Seq(Places) /\ Len(page.items) = end - start
      /\ \A n \in 1..(end - start) : page.items[n] = items[start + n]
  BY <1>1, <1>3, <1>4, <1>5 DEF L
<1>7. Sorted(page.items)
  <2> SUFFICES ASSUME NEW m \in 1..(end - start), NEW n \in 1..(end - start), m < n
               PROVE  Before(page.items[m], page.items[n])
    BY <1>6 DEF Sorted
  <2>1. start + m \in 1..L /\ start + n \in 1..L /\ start + m < start + n
    BY <1>1, <1>3, <1>4
  <2>2. QED BY <1>2, <1>6, <2>1
<1>8. ToSet(page.items) = {items[n] : n \in (start + 1)..end}
  <2>1. \A n \in (start + 1)..end : n - start \in 1..(end - start) /\ start + (n - start) = n
    BY <1>3, <1>4
  <2>2. \A n \in 1..(end - start) : start + n \in (start + 1)..end
    BY <1>3, <1>4
  <2>3. DOMAIN page.items = 1..(end - start)
    BY <1>6
  <2>4. ToSet(page.items) = {page.items[m] : m \in 1..(end - start)}
    BY <2>3 DEF ToSet
  <2>5. \A m \in 1..(end - start) : page.items[m] \in {items[n] : n \in (start + 1)..end}
    BY <1>6, <2>2
  <2>6. \A n \in (start + 1)..end : items[n] = page.items[n - start]
    BY <1>6, <2>1
  <2>7. QED BY <2>1, <2>4, <2>5, <2>6
<1>9. page.next # NoCursor <=> end < L
  BY <1>1, <1>3, <1>4, <1>5
<1>10. \A n \in 1..L :
         /\ start < n <=> cursor = NoCursor \/ Before(cursor, items[n])
         /\ n <= end <=> page.next = NoCursor \/ ~Before(page.next, items[n])
  BY <1>1, <1>2, <1>3, <1>4, <1>5, <1>9
<1>11. page.next # NoCursor /\ cursor # NoCursor => Before(cursor, page.next)
  BY <1>1, <1>2, <1>3, <1>4, <1>5, <1>9
<1>12. page.next \in ToSet(items) \cup {NoCursor}
  BY <1>1, <1>3, <1>4, <1>5 DEF ToSet
<1>13. \A n \in 1..L : n \in (start + 1)..end <=> start < n /\ n <= end
  BY <1>3, <1>4
<1>14. \A k \in Places : k \in ToSet(page.items) <=>
        /\ k \in ToSet(items)
        /\ cursor = NoCursor \/ Before(cursor, k)
        /\ page.next = NoCursor \/ ~Before(page.next, k)
  <2>1. (start + 1)..end \subseteq 1..L
    BY <1>1, <1>3, <1>4
  <2>2. ToSet(items) = {items[n] : n \in 1..L}
    BY <1>1 DEF ToSet
  <2>3. \A k : k \in ToSet(page.items) <=> \E n \in 1..L : start < n /\ n <= end /\ k = items[n]
    BY <1>8, <1>13, <2>1
  <2>4. \A k : k \in ToSet(items) <=> \E n \in 1..L : k = items[n]
    BY <2>2
  <2> SUFFICES ASSUME NEW k \in Places
               PROVE  k \in ToSet(page.items) <=>
                        /\ k \in ToSet(items)
                        /\ cursor = NoCursor \/ Before(cursor, k)
                        /\ page.next = NoCursor \/ ~Before(page.next, k)
    OBVIOUS
  <2>5. CASE k \in ToSet(items)
    <3>1. PICK n \in 1..L : k = items[n]
      BY <2>4, <2>5
    <3>2. \A m \in 1..L : k = items[m] => m = n
      <4> SUFFICES ASSUME NEW m \in 1..L, k = items[m], m # n PROVE FALSE
        OBVIOUS
      <4>1. m < n \/ n < m
        BY <1>1
      <4>2. Before(k, k)
        BY <1>2, <3>1, <4>1
      <4>3. QED BY <4>2, BeforeIsOrder
    <3>3. k \in ToSet(page.items) <=> start < n /\ n <= end
      BY <2>3, <3>1, <3>2
    <3>4. QED BY <1>10, <2>5, <3>1, <3>3
  <2>6. CASE k \notin ToSet(items)
    BY <2>3, <2>4, <2>6
  <2>7. QED BY <2>5, <2>6
<1>15. QED BY <1>6, <1>7, <1>11, <1>12, <1>14 DEF Shows, page

(***************************************************************************)
(* The types.                                                              *)
(***************************************************************************)
LEMMA InitTypeInv == Init => TypeInv
<1> SUFFICES ASSUME Init PROVE TypeInv
  OBVIOUS
<1>1. 0 \in Times
  BY BoundAssumption DEF Times
<1>2. walk \in Walk
  <2>1. <<>> \in Seq(Places) /\ <<>> \in [{} -> Places]
    OBVIOUS
  <2>2. <<>> \in UNION {[S -> Places] : S \in SUBSET TaskIds}
    BY <2>1
  <2>3. {<<>>} \subseteq Seq(Places) /\ {0} \subseteq Times /\ {0} \subseteq Nat
        /\ {NoCursor} \subseteq Places \cup {NoCursor}
        /\ {"idle"} \subseteq {"idle", "asked", "done", "refused"}
        /\ {<<>>} \subseteq UNION {[S -> Places] : S \in SUBSET TaskIds}
    BY <1>1, <2>1, <2>2
  <2>4. QED BY <2>3 DEF Init, Walk
<1>3. IsFiniteSet({})
  BY FS_EmptySet
<1>4. QED BY <1>1, <1>2, <1>3 DEF Init, TypeInv

LEMMA BeginType ==
  ASSUME TypeInv, NEW id \in TaskIds, BeginCreation(id)
  PROVE  TypeInv'
<1>1. creating' = Put(creating, id, clock) /\ UNCHANGED <<clock, tasks, walk>>
  BY DEF BeginCreation
<1>2. \A x \in DOMAIN creating' : x \in TaskIds /\ creating'[x] \in Times
  <2>1. DOMAIN creating' = DOMAIN creating \cup {id} /\ creating'[id] = clock
    BY <1>1 DEF Put
  <2>2. \A x \in DOMAIN creating : x # id => creating'[x] = creating[x]
    BY <1>1 DEF Put
  <2>3. QED BY <2>1, <2>2 DEF TypeInv
<1>3. QED BY <1>1, <1>2 DEF TypeInv

LEMMA StoreType ==
  ASSUME TypeInv, NEW id \in TaskIds, NEW w \in Windows, StoreTask(id, w)
  PROVE  TypeInv'
<1> DEFINE t == [created |-> creating[id], end |-> creating[id] + w,
                 open |-> <<>>, acted |-> FALSE, closed |-> FALSE]
<1>1. /\ id \in DOMAIN creating /\ tasks' = Put(tasks, id, t)
      /\ creating' = Without(creating, id) /\ UNCHANGED <<clock, walk>>
  BY DEF StoreTask
<1>2. t \in Task
  <2>1. creating[id] \in Times /\ creating[id] + w \in Nat
    BY <1>1, BoundAssumption DEF TypeInv, Times
  <2>2. <<>> \in [{} -> Nat]
    OBVIOUS
  <2>3. <<>> \in UNION {[A -> Nat] : A \in SUBSET Actions}
    BY <2>2
  <2>4. QED BY <2>1, <2>3 DEF Task
<1>3. \A x \in DOMAIN creating' : x \in TaskIds /\ creating'[x] \in Times
  BY <1>1 DEF TypeInv, Without
<1> HIDE DEF t
<1>4. DOMAIN tasks' = DOMAIN tasks \cup {id}
  BY <1>1 DEF Put
<1>5. \A x \in DOMAIN tasks' : x \in TaskIds /\ tasks'[x] \in Task
  <2>1. tasks'[id] = t
    BY <1>1 DEF Put
  <2>2. \A x \in DOMAIN tasks : x # id => tasks'[x] = tasks[x]
    BY <1>1 DEF Put
  <2>3. QED BY <1>2, <1>4, <2>1, <2>2 DEF TypeInv
<1>6. IsFiniteSet(DOMAIN tasks')
  BY <1>4, FS_AddElement DEF TypeInv
<1>7. QED BY <1>1, <1>3, <1>5, <1>6 DEF TypeInv

\* Work on one stored task.
LEMMA WorkType ==
  ASSUME TypeInv, NEW id \in DOMAIN tasks, NEW t \in Task,
         tasks' = [tasks EXCEPT ![id] = t], UNCHANGED <<clock, creating, walk>>
  PROVE  TypeInv'
<1>1. DOMAIN tasks' = DOMAIN tasks
  OBVIOUS
<1>2. \A x \in DOMAIN tasks : tasks'[x] = IF x = id THEN t ELSE tasks[x]
  OBVIOUS
<1>3. QED BY <1>1, <1>2 DEF TypeInv

LEMMA OpenType ==
  ASSUME NEW t \in Task, NEW A \in SUBSET Actions, NEW open \in [A -> Nat],
         NEW acted \in BOOLEAN
  PROVE  [t EXCEPT !.open = open, !.acted = acted] \in Task
<1>1. open \in UNION {[B -> Nat] : B \in SUBSET Actions}
  OBVIOUS
<1>2. QED BY <1>1 DEF Task

LEMMA AssignType ==
  ASSUME TypeInv, NEW id \in DOMAIN tasks, NEW a \in Actions, NEW due \in Times,
         AssignAction(id, a, due)
  PROVE  TypeInv'
<1> DEFINE t == tasks[id]
           open == Put(t.open, a, due)
<1>1. t \in Task
  BY DEF TypeInv
<1>2. PICK A \in SUBSET Actions : t.open \in [A -> Nat]
  BY <1>1 DEF Task
<1>3. due \in Nat
  BY DEF Times
<1>4. open \in [A \cup {a} -> Nat]
  BY <1>2, <1>3 DEF Put
<1>5. [t EXCEPT !.open = open, !.acted = TRUE] \in Task
  <2> HIDE DEF open, t
  <2>1. QED BY <1>1, <1>4, OpenType
<1>6. tasks' = [tasks EXCEPT ![id] = [t EXCEPT !.open = open, !.acted = TRUE]]
  BY DEF AssignAction
<1>7. UNCHANGED <<clock, creating, walk>>
  BY DEF AssignAction
<1> HIDE DEF open, t
<1>8. QED BY <1>5, <1>6, <1>7, WorkType

LEMMA ApproveType ==
  ASSUME TypeInv, NEW id \in DOMAIN tasks, NEW a \in Actions, ApproveAction(id, a)
  PROVE  TypeInv'
<1> DEFINE t == tasks[id]
           open == Without(t.open, a)
<1>1. t \in Task /\ t.acted \in BOOLEAN
  BY DEF TypeInv, Task
<1>2. PICK A \in SUBSET Actions : t.open \in [A -> Nat]
  BY <1>1 DEF Task
<1>3. open \in [A \ {a} -> Nat]
  BY <1>2 DEF Without
<1>4. [t EXCEPT !.open = open, !.acted = t.acted] \in Task
  <2> HIDE DEF open, t
  <2>1. QED BY <1>1, <1>3, OpenType
<1>5. [t EXCEPT !.open = open] = [t EXCEPT !.open = open, !.acted = t.acted]
  BY <1>1 DEF Task
<1>6. /\ tasks' = [tasks EXCEPT ![id] = [t EXCEPT !.open = open]]
      /\ UNCHANGED <<clock, creating, walk>>
  BY DEF ApproveAction
<1> HIDE DEF open, t
<1>7. QED BY <1>4, <1>5, <1>6, WorkType

LEMMA CloseType ==
  ASSUME TypeInv, NEW id \in DOMAIN tasks, CloseTask(id)
  PROVE  TypeInv'
<1> DEFINE t == [tasks[id] EXCEPT !.closed = TRUE]
<1>1. t \in Task
  BY DEF TypeInv, Task
<1>2. tasks' = [tasks EXCEPT ![id] = t] /\ UNCHANGED <<clock, creating, walk>>
  BY DEF CloseTask
<1> HIDE DEF t
<1>3. QED BY <1>1, <1>2, WorkType

LEMMA WorkTypes ==
  ASSUME TypeInv, Work
  PROVE  TypeInv' /\ UNCHANGED walk
<1>1. CASE Tick
  BY <1>1, BoundAssumption DEF Tick, TypeInv, Times
<1>2. ASSUME NEW id \in TaskIds, BeginCreation(id)
      PROVE  TypeInv' /\ UNCHANGED walk
  BY <1>2, BeginType DEF BeginCreation
<1>3. ASSUME NEW id \in TaskIds, NEW w \in Windows, StoreTask(id, w)
      PROVE  TypeInv' /\ UNCHANGED walk
  BY <1>3, StoreType DEF StoreTask
<1>4. ASSUME NEW id \in DOMAIN tasks, NEW a \in Actions, NEW due \in Times,
             AssignAction(id, a, due)
      PROVE  TypeInv' /\ UNCHANGED walk
  BY <1>4, AssignType DEF AssignAction
<1>5. ASSUME NEW id \in DOMAIN tasks, NEW a \in Actions, ApproveAction(id, a)
      PROVE  TypeInv' /\ UNCHANGED walk
  BY <1>5, ApproveType DEF ApproveAction
<1>6. ASSUME NEW id \in DOMAIN tasks, CloseTask(id)
      PROVE  TypeInv' /\ UNCHANGED walk
  BY <1>6, CloseType DEF CloseTask
<1>7. QED BY <1>1, <1>2, <1>3, <1>4, <1>5, <1>6 DEF Work

(***************************************************************************)
(* The walk.                                                               *)
(***************************************************************************)
ShownIds == {k.id : k \in ToSet(walk.shown)}

\* Until the walk is over, what was shown lies up to the cursor, and so does of the steady
\* tasks only what was shown.
WalkInv ==
  /\ WalkIsInOrder /\ SteadyTasksAreShown
  /\ walk.stage \in {"idle", "asked"} =>
       /\ walk.cursor = NoCursor <=> walk.pages = 0
       /\ walk.pages = 0 => walk.shown = <<>>
       /\ walk.cursor # NoCursor =>
            /\ \A k \in ToSet(walk.shown) : ~Before(walk.cursor, k)
            /\ \A id \in DOMAIN walk.steady :
                 Before(walk.cursor, walk.steady[id]) \/ id \in ShownIds

ListInv == TypeInv /\ WalkInv

LEMMA StillSteadyFacts ==
  ASSUME TypeInv, NEW items \in Seq(Places), \A k \in ToSet(items) : k.id \in TaskIds
  PROVE  LET still == StillSteady(items)
         IN  /\ still \in UNION {[S -> Places] : S \in SUBSET TaskIds}
             /\ \A id \in DOMAIN still :
                  /\ still[id] \in ToSet(items) /\ still[id].id = id
                  /\ walk.pages # 0 => /\ id \in DOMAIN walk.steady
                                       /\ ~Before(still[id], walk.steady[id])
<1> DEFINE ids == {k.id : k \in ToSet(items)}
           places == [k \in ids |-> CHOOSE l \in ToSet(items) : l.id = k]
           still == StillSteady(items)
<1>1. \A k \in ids : places[k] \in ToSet(items) /\ places[k].id = k
  OBVIOUS
<1>2. ToSet(items) \subseteq Places /\ ids \subseteq TaskIds
  BY DEF ToSet
<1>3. still = IF walk.pages = 0 THEN places
              ELSE [id \in {id \in DOMAIN walk.steady \cap ids :
                              ~Before(places[id], walk.steady[id])} |-> places[id]]
  BY DEF StillSteady
<1> HIDE DEF places, ids, still
<1>4. DOMAIN places = ids
  BY DEF places
<1>5. \A id \in DOMAIN still :
        /\ id \in ids /\ still[id] = places[id]
        /\ walk.pages # 0 => id \in DOMAIN walk.steady /\ ~Before(still[id], walk.steady[id])
  BY <1>3, <1>4
<1>6. still \in [DOMAIN still -> Places]
  <2>1. still = [id \in DOMAIN still |-> still[id]]
    <3>1. CASE walk.pages = 0
      BY <1>3, <3>1 DEF places
    <3>2. CASE walk.pages # 0
      BY <1>3, <3>2
    <3>3. QED BY <3>1, <3>2
  <2>2. QED BY <1>1, <1>2, <1>5, <2>1
<1>7. DOMAIN still \in SUBSET TaskIds
  BY <1>2, <1>5
<1>8. QED BY <1>1, <1>5, <1>6, <1>7 DEF still

LEMMA ListedIds ==
  ASSUME TypeInv, NEW filter, NEW now
  PROVE  \A k \in ToSet(Items(filter, now)) : k.id \in TaskIds
<1>1. \A id \in Listed(filter, now) : id \in DOMAIN tasks /\ id \in TaskIds
  BY DEF Listed, TypeInv
<1>2. QED BY <1>1, ItemsFacts, KeyFacts

LEMMA AskInv ==
  ASSUME ListInv, AskPage
  PROVE  ListInv'
<1>1. /\ walk' = [walk EXCEPT !.stage = "asked", !.now = clock]
      /\ walk.stage = "idle" /\ UNCHANGED <<clock, creating, tasks>>
  BY DEF AskPage
<1>2. walk \in Walk
  BY DEF ListInv, TypeInv
<1>3. walk' \in Walk
  BY <1>1, <1>2 DEF Walk, ListInv, TypeInv
<1>4. /\ walk'.stage = "asked" /\ walk'.cursor = walk.cursor /\ walk'.shown = walk.shown
      /\ walk'.pages = walk.pages /\ walk'.steady = walk.steady
  BY <1>1, <1>2 DEF Walk
<1>5. TypeInv'
  BY <1>1, <1>3 DEF ListInv, TypeInv
<1>6. WalkInv'
  BY <1>1, <1>4 DEF ListInv, WalkInv, WalkIsInOrder, SteadyTasksAreShown, ShownIds
<1>7. QED BY <1>5, <1>6 DEF ListInv

LEMMA ToSetConcat ==
  ASSUME NEW s \in Seq(Places), NEW t \in Seq(Places)
  PROVE  s \o t \in Seq(Places) /\ ToSet(s \o t) = ToSet(s) \cup ToSet(t)
<1>1. /\ Len(s) \in Nat /\ Len(t) \in Nat /\ DOMAIN s = 1..Len(s) /\ DOMAIN t = 1..Len(t)
      /\ s \o t \in Seq(Places) /\ DOMAIN (s \o t) = 1..(Len(s) + Len(t))
      /\ \A n \in 1..(Len(s) + Len(t)) :
           (s \o t)[n] = IF n <= Len(s) THEN s[n] ELSE t[n - Len(s)]
  OBVIOUS
<1>2. \A k \in ToSet(s \o t) : k \in ToSet(s) \cup ToSet(t)
  <2>1. \A n \in 1..(Len(s) + Len(t)) : n <= Len(s) \/ n - Len(s) \in 1..Len(t)
    BY <1>1
  <2>2. \A n \in 1..(Len(s) + Len(t)) : n <= Len(s) => n \in 1..Len(s)
    BY <1>1
  <2>3. QED BY <1>1, <2>1, <2>2 DEF ToSet
<1>3. \A k \in ToSet(s) : k \in ToSet(s \o t)
  <2>1. \A n \in 1..Len(s) : n \in 1..(Len(s) + Len(t)) /\ (s \o t)[n] = s[n]
    BY <1>1
  <2>2. QED BY <1>1, <2>1 DEF ToSet
<1>4. \A k \in ToSet(t) : k \in ToSet(s \o t)
  <2>1. \A n \in 1..Len(t) :
          n + Len(s) \in 1..(Len(s) + Len(t)) /\ (s \o t)[n + Len(s)] = t[n]
    BY <1>1
  <2>2. QED BY <1>1, <2>1 DEF ToSet
<1>5. QED BY <1>1, <1>2, <1>3, <1>4

\* What lies behind the cursor may follow what lies up to it.
LEMMA SortedConcat ==
  ASSUME NEW s \in Seq(Places), NEW t \in Seq(Places), Sorted(s), Sorted(t),
         NEW c \in Places, \A k \in ToSet(s) : ~Before(c, k), \A k \in ToSet(t) : Before(c, k)
  PROVE  Sorted(s \o t)
<1>1. /\ Len(s) \in Nat /\ Len(t) \in Nat /\ DOMAIN s = 1..Len(s) /\ DOMAIN t = 1..Len(t)
      /\ DOMAIN (s \o t) = 1..(Len(s) + Len(t))
      /\ \A n \in 1..(Len(s) + Len(t)) :
           (s \o t)[n] = IF n <= Len(s) THEN s[n] ELSE t[n - Len(s)]
  OBVIOUS
<1> SUFFICES ASSUME NEW m \in 1..(Len(s) + Len(t)), NEW n \in 1..(Len(s) + Len(t)), m < n
             PROVE  Before((s \o t)[m], (s \o t)[n])
  BY <1>1 DEF Sorted
<1>2. CASE n <= Len(s)
  <2>1. m \in 1..Len(s) /\ n \in 1..Len(s) /\ m <= Len(s)
    BY <1>1, <1>2
  <2>2. QED BY <1>1, <1>2, <2>1 DEF Sorted
<1>3. CASE m > Len(s)
  <2>1. /\ m - Len(s) \in 1..Len(t) /\ n - Len(s) \in 1..Len(t) /\ m - Len(s) < n - Len(s)
        /\ ~(m <= Len(s)) /\ ~(n <= Len(s))
    BY <1>1, <1>3
  <2>2. QED BY <1>1, <2>1 DEF Sorted
<1>4. CASE m <= Len(s) /\ n > Len(s)
  <2>1. m \in 1..Len(s) /\ n - Len(s) \in 1..Len(t) /\ ~(n <= Len(s))
    BY <1>1, <1>4
  <2>2. (s \o t)[m] = s[m] /\ (s \o t)[n] = t[n - Len(s)]
    BY <1>1, <1>4, <2>1
  <2>3. ~Before(c, s[m]) /\ Before(c, t[n - Len(s)])
    BY <1>1, <2>1 DEF ToSet
  <2>4. s[m] \in Places /\ t[n - Len(s)] \in Places
    BY <1>1, <2>1
  <2>5. QED BY <2>2, <2>3, <2>4, BeforeIsOrder
<1>5. QED BY <1>1, <1>2, <1>3, <1>4

LEMMA AnswerInv ==
  ASSUME ListInv, AnswerPage
  PROVE  ListInv'
<1> DEFINE items == Items(walk.filter, walk.now)
           page == Page(items, walk.cursor)
           still == StillSteady(items)
           next == page.next
<1>1. walk \in Walk /\ walk.stage = "asked" /\ UNCHANGED <<clock, creating, tasks>>
  BY DEF AnswerPage, ListInv, TypeInv
<1>2. CASE walk.cursor # NoCursor /\ walk.cursor \notin ToSet(items)
  <2>1. walk' = [walk EXCEPT !.stage = "refused"]
    BY <1>2 DEF AnswerPage
  <2>2. walk' \in Walk /\ walk'.stage = "refused" /\ walk'.shown = walk.shown
    BY <1>1, <2>1 DEF Walk
  <2>3. QED BY <1>1, <2>2
               DEF ListInv, TypeInv, WalkInv, WalkIsInOrder, SteadyTasksAreShown
<1>3. CASE ~(walk.cursor # NoCursor /\ walk.cursor \notin ToSet(items))
  <2>1. walk' = [walk EXCEPT !.stage = IF next = NoCursor THEN "done" ELSE "idle",
                             !.cursor = next, !.shown = @ \o page.items,
                             !.pages = @ + 1, !.steady = still]
    BY <1>3 DEF AnswerPage
  <2>2. /\ items \in Seq(Places) /\ Sorted(items) /\ \A k \in ToSet(items) : k.id \in TaskIds
        /\ ToSet(items) \subseteq Places
    BY ItemsFacts, ListedIds DEF ListInv, ToSet
  <2>3. Shows(items, walk.cursor, page)
    <3> HIDE DEF items
    <3>1. QED BY <1>3, <2>2, PageFacts
  <2>4. /\ still \in UNION {[S -> Places] : S \in SUBSET TaskIds}
        /\ \A id \in DOMAIN still :
             /\ still[id] \in ToSet(items) /\ still[id].id = id
             /\ walk.pages # 0 => id \in DOMAIN walk.steady
             /\ walk.pages # 0 => ~Before(still[id], walk.steady[id])
    <3> HIDE DEF items
    <3>1. QED BY <2>2, StillSteadyFacts DEF ListInv
  <2> HIDE DEF items, page, still
  <2>5. /\ walk.shown \in Seq(Places) /\ page.items \in Seq(Places)
        /\ walk.cursor \in Places \cup {NoCursor} /\ walk.pages \in Nat
        /\ next \in Places \cup {NoCursor}
        /\ \A id \in DOMAIN walk.steady : walk.steady[id] \in Places
    BY <1>1, <2>2, <2>3 DEF Walk, Shows
  <2>6. /\ walk'.stage = IF next = NoCursor THEN "done" ELSE "idle"
        /\ walk'.cursor = next /\ walk'.shown = walk.shown \o page.items
        /\ walk'.pages = walk.pages + 1 /\ walk'.steady = still
    BY <1>1, <2>1 DEF Walk
  <2>7. /\ walk.shown \o page.items \in Seq(Places)
        /\ ToSet(walk'.shown) = ToSet(walk.shown) \cup ToSet(page.items)
    BY <2>5, <2>6, ToSetConcat
  <2>8. TypeInv'
    <3>1. walk' \in Walk
      <4> DEFINE Steadies == UNION {[S -> Places] : S \in SUBSET TaskIds}
      <4>1. walk.pages + 1 \in Nat /\ still \in Steadies
            /\ (IF next = NoCursor THEN "done" ELSE "idle") \in {"idle", "done"}
        BY <2>4, <2>5
      <4>2. Walk = [filter : Filters, stage : {"idle", "asked", "done", "refused"}, now : Times,
                    cursor : Places \cup {NoCursor}, shown : Seq(Places), pages : Nat,
                    steady : Steadies]
        BY DEF Walk
      <4> HIDE DEF Steadies, next
      <4>3. QED BY <1>1, <2>1, <2>5, <2>7, <4>1, <4>2
    <3>2. QED BY <1>1, <3>1 DEF ListInv, TypeInv
  <2>9. /\ walk.cursor = NoCursor <=> walk.pages = 0
        /\ walk.pages = 0 => walk.shown = <<>>
        /\ walk.cursor # NoCursor => \A k \in ToSet(walk.shown) : ~Before(walk.cursor, k)
        /\ walk.cursor # NoCursor =>
             \A id \in DOMAIN walk.steady :
               Before(walk.cursor, walk.steady[id]) \/ id \in ShownIds
    BY <1>1 DEF ListInv, WalkInv
  <2>10. Sorted(walk'.shown)
    <3>1. Sorted(walk.shown) /\ Sorted(page.items)
      BY <2>3 DEF ListInv, WalkInv, WalkIsInOrder, Sorted, Shows
    <3>2. CASE walk.cursor = NoCursor
      <4>1. walk'.shown = page.items
        <5>1. \A s \in Seq(Places) : <<>> \o s = s
          OBVIOUS
        <5>2. QED BY <2>5, <2>6, <2>9, <3>2, <5>1
      <4>2. QED BY <3>1, <4>1
    <3>3. CASE walk.cursor # NoCursor
      <4>1. \A k \in ToSet(page.items) : k \in Places
        BY <2>5 DEF ToSet
      <4>2. \A k \in ToSet(page.items) : Before(walk.cursor, k)
        BY <2>3, <3>3, <4>1 DEF Shows
      <4>3. QED BY <2>5, <2>6, <2>9, <3>1, <3>3, <4>2, SortedConcat
    <3>4. QED BY <3>2, <3>3
  <2>11. next # NoCursor => \A k \in ToSet(walk'.shown) : ~Before(next, k)
    <3> SUFFICES ASSUME next # NoCursor, NEW k \in ToSet(walk'.shown), Before(next, k)
                 PROVE  FALSE
      OBVIOUS
    <3>1. CASE k \in ToSet(page.items)
      <4>1. k \in Places
        BY <2>5, <3>1 DEF ToSet
      <4>2. QED BY <2>3, <3>1, <4>1 DEF Shows
    <3>2. CASE k \in ToSet(walk.shown)
      <4>1. k \in Places
        BY <2>5, <3>2 DEF ToSet
      <4>2. walk.cursor # NoCursor
        BY <2>9, <3>2 DEF ToSet
      <4>3. Before(walk.cursor, next) /\ ~Before(walk.cursor, k)
        BY <2>3, <2>9, <3>2, <4>2 DEF Shows
      <4>4. QED BY <2>5, <4>1, <4>2, <4>3, BeforeIsOrder
    <3>3. QED BY <2>7, <3>1, <3>2
  <2>12. \A id \in DOMAIN still : (next # NoCursor /\ Before(next, still[id])) \/ id \in ShownIds'
    <3> SUFFICES ASSUME NEW id \in DOMAIN still, next = NoCursor \/ ~Before(next, still[id])
                 PROVE  id \in ShownIds'
      OBVIOUS
    <3>1. still[id] \in ToSet(items) /\ still[id] \in Places /\ still[id].id = id
      BY <2>2, <2>4
    <3>2. CASE walk.cursor = NoCursor \/ Before(walk.cursor, still[id])
      <4>1. still[id] \in ToSet(page.items)
        BY <2>3, <3>1, <3>2 DEF Shows
      <4>2. QED BY <2>7, <3>1, <4>1 DEF ShownIds
    <3>3. CASE walk.cursor # NoCursor /\ ~Before(walk.cursor, still[id])
      <4>1. id \in DOMAIN walk.steady /\ ~Before(still[id], walk.steady[id])
        BY <2>4, <2>9, <3>3
      <4>2. ~Before(walk.cursor, walk.steady[id])
        BY <2>5, <3>1, <3>3, <4>1, BeforeIsOrder
      <4>3. id \in ShownIds
        BY <2>9, <3>3, <4>1, <4>2
      <4>4. QED BY <2>7, <4>3 DEF ShownIds
    <3>4. QED BY <3>2, <3>3
  <2>13. WalkInv'
    <3>1. WalkIsInOrder'
      BY <2>10 DEF WalkIsInOrder, Sorted
    <3>2. SteadyTasksAreShown'
      BY <2>6, <2>12 DEF SteadyTasksAreShown, ShownIds
    <3>3. walk'.pages # 0
      BY <2>5, <2>6
    <3>4. QED BY <2>6, <2>11, <2>12, <3>1, <3>2, <3>3 DEF WalkInv
  <2>14. QED BY <2>8, <2>13 DEF ListInv
<1>4. QED BY <1>2, <1>3

LEMMA InitListInv == Init => ListInv
<1> SUFFICES ASSUME Init PROVE ListInv
  OBVIOUS
<1>1. /\ walk.stage = "idle" /\ walk.cursor = NoCursor /\ walk.pages = 0
      /\ walk.shown = <<>> /\ walk.steady = <<>>
  BY DEF Init
<1>2. QED BY <1>1, InitTypeInv DEF ListInv, WalkInv, WalkIsInOrder, SteadyTasksAreShown

LEMMA ListInvStep == ListInv /\ [Next]_vars => ListInv'
<1> SUFFICES ASSUME ListInv, [Next]_vars PROVE ListInv'
  OBVIOUS
<1>1. CASE Work
  BY <1>1, WorkTypes
     DEF ListInv, WalkInv, WalkIsInOrder, SteadyTasksAreShown, ShownIds
<1>2. CASE UNCHANGED vars
  BY <1>2 DEF vars, ListInv, TypeInv, WalkInv, WalkIsInOrder, SteadyTasksAreShown, ShownIds
<1>3. QED BY <1>1, <1>2, AskInv, AnswerInv DEF Next

\* The pages of a walk go on behind each other, whatever is created, assigned, approved or
\* closed between them, and whatever falls due (List of internal/task).
THEOREM PagesGoOn == Spec => []WalkIsInOrder
<1>1. ListInv => WalkIsInOrder
  BY DEF ListInv, WalkInv
<1>2. QED BY InitListInv, ListInvStep, <1>1, PTL DEF Spec

\* A walk that is not refused shows every task that stays in the list from its first page on
\* and never moves forward in the order (List of internal/task).
THEOREM NobodySteadyIsMissed == Spec => []SteadyTasksAreShown
<1>1. ListInv => SteadyTasksAreShown
  BY DEF ListInv, WalkInv
<1>2. QED BY InitListInv, ListInvStep, <1>1, PTL DEF Spec
=============================================================================
