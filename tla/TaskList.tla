------------------------------- MODULE TaskList -------------------------------
(***************************************************************************)
(* Paging through the tasks: List of internal/task while the work goes on. *)
(*                                                                         *)
(* A client walks the list with a filter, a limit and the cursor of the    *)
(* page before.  Between two pages tasks are created, fall due, have       *)
(* actions approved and are closed, each of which may move them in the     *)
(* order.  Here a task is what its place depends on: when it was created,  *)
(* when its window ends, and when its unapproved actions are due.          *)
(***************************************************************************)
EXTENDS Integers, Sequences, FiniteSets, FiniteSetsExt, SequencesExt

CONSTANTS
  TaskIds,     \* integers in the order of the ids
  Actions,     \* the actions of one task
  Limit,       \* tasks on a page
  Windows,     \* the lengths of windows, from the creation to the end
  Horizon,     \* bound on the clock
  MaxPages     \* bound on the pages of a walk

ASSUME BoundAssumption ==
  /\ TaskIds \subseteq Int /\ Windows \subseteq Nat \ {0}
  /\ Limit \in Nat \ {0} /\ Horizon \in Nat /\ MaxPages \in Nat

VARIABLES
  clock,
  creating,  \* creations that have read the clock and wait for the lock: id -> created_at
  tasks,     \* id -> task
  walk       \* the client's walk

vars == <<clock, creating, tasks, walk>>

Times == 0..Horizon
Task == [created : Times, end : Nat, open : UNION {[A -> Nat] : A \in SUBSET Actions},
         acted : BOOLEAN, closed : BOOLEAN]
\* A closed task is never overdue: with that status the other filter has nothing to do.
Filters == [status : {"any"}, overdue : {"any", "true", "false"}]
           \cup [status : {"closed"}, overdue : {"any"}]

Put(f, k, v) == [x \in DOMAIN f \cup {k} |-> IF x = k THEN v ELSE f[x]]
Without(f, k) == [x \in DOMAIN f \ {k} |-> f[x]]
Dues(t) == {t.open[a] : a \in DOMAIN t.open}

(***************************************************************************)
(* List.                                                                   *)
(***************************************************************************)
\* A closed task has no unapproved action.
Overdue(t, now) == ~t.closed /\ \E due \in Dues(t) \cup {t.end} : due < now

\* The place of a task in the order, with its id: creation, or the earliest deadline of a
\* task that is overdue.
Key(id, now) == [id |-> id, at |-> IF Overdue(tasks[id], now)
                                   THEN Min(Dues(tasks[id]) \cup {tasks[id].end})
                                   ELSE tasks[id].created]
Before(k, l) == k.at < l.at \/ (k.at = l.at /\ k.id < l.id)

Matches(t, filter, now) ==
  /\ filter.status = "closed" => t.closed
  /\ filter.overdue = "true" => Overdue(t, now)
  /\ filter.overdue = "false" => ~Overdue(t, now)

Listed(filter, now) == {id \in DOMAIN tasks : Matches(tasks[id], filter, now)}
Items(filter, now) ==
  LET keys == {Key(id, now) : id \in Listed(filter, now)}
  IN  CHOOSE s \in [1..Cardinality(keys) -> keys] :
        \A m, n \in DOMAIN s : m < n => Before(s[m], s[n])

NoCursor == [id |-> 0, at |-> -1]

PageFromCursor(items, cursor) ==  \* mutant: a page starts with the task of the cursor
  LET start == IF cursor = NoCursor THEN 0 ELSE (CHOOSE n \in DOMAIN items : items[n] = cursor) - 1
      end == Min({start + Limit, Len(items)})
  IN  [items |-> SubSeq(items, start + 1, end),
       next |-> IF end < Len(items) THEN items[end] ELSE NoCursor]

PageOfNext(items, cursor) ==  \* mutant: the cursor names the first task of the next page
  LET start == IF cursor = NoCursor THEN 0 ELSE CHOOSE n \in DOMAIN items : items[n] = cursor
      end == Min({start + Limit, Len(items)})
  IN  [items |-> SubSeq(items, start + 1, end),
       next |-> IF end < Len(items) THEN items[end + 1] ELSE NoCursor]

\* The page after the cursor, which is in the list.
Page(items, cursor) ==
  LET start == IF cursor = NoCursor THEN 0 ELSE CHOOSE n \in DOMAIN items : items[n] = cursor
      end == Min({start + Limit, Len(items)})
  IN  [items |-> SubSeq(items, start + 1, end),
       next |-> IF end < Len(items) THEN items[end] ELSE NoCursor]

(***************************************************************************)
(* The work that goes on.                                                  *)
(***************************************************************************)
Tick == clock < Horizon /\ clock' = clock + 1 /\ UNCHANGED <<creating, tasks, walk>>

\* Create of internal/task reads the clock long before the store takes the task in.
BeginCreation(id) ==
  /\ id \notin DOMAIN creating \cup DOMAIN tasks
  /\ creating' = Put(creating, id, clock)
  /\ UNCHANGED <<clock, tasks, walk>>

StoreTask(id, window) ==
  /\ id \in DOMAIN creating
  /\ tasks' = Put(tasks, id, [created |-> creating[id], end |-> creating[id] + window,
                              open |-> <<>>, acted |-> FALSE, closed |-> FALSE])
  /\ creating' = Without(creating, id)
  /\ UNCHANGED <<clock, walk>>

\* A due_at lies after the time the request came in, which is after the creation.
AssignAction(id, a, due) ==
  /\ ~tasks[id].closed /\ a \notin DOMAIN tasks[id].open
  /\ due > tasks[id].created
  /\ tasks' = [tasks EXCEPT ![id].open = Put(@, a, due), ![id].acted = TRUE]
  /\ UNCHANGED <<clock, creating, walk>>

ApproveAction(id, a) ==
  /\ a \in DOMAIN tasks[id].open
  /\ tasks' = [tasks EXCEPT ![id].open = Without(@, a)]
  /\ UNCHANGED <<clock, creating, walk>>

CloseTask(id) ==
  /\ tasks[id].acted /\ tasks[id].open = <<>> /\ ~tasks[id].closed
  /\ tasks' = [tasks EXCEPT ![id].closed = TRUE]
  /\ UNCHANGED <<clock, creating, walk>>

(***************************************************************************)
(* The walk.  steady holds, of the tasks on the first page or behind it,   *)
(* those that every later page still found in the list, never further      *)
(* forward, with the place they had last.                                  *)
(***************************************************************************)
AskPage ==
  /\ walk.stage = "idle" /\ walk.pages < MaxPages
  /\ walk' = [walk EXCEPT !.stage = "asked", !.now = clock]
  /\ UNCHANGED <<clock, creating, tasks>>

StillSteady(items) ==
  LET places == [k \in {k.id : k \in ToSet(items)} |-> CHOOSE l \in ToSet(items) : l.id = k]
  IN  IF walk.pages = 0 THEN places
      ELSE [id \in {id \in DOMAIN walk.steady \cap DOMAIN places :
                      ~Before(places[id], walk.steady[id])} |-> places[id]]

\* The view is taken now, but overdue is told by the time at which the request came in.
AnswerPage ==
  LET items == Items(walk.filter, walk.now)
      page == Page(items, walk.cursor)
  IN  /\ walk.stage = "asked"
      /\ walk' =
           IF walk.cursor # NoCursor /\ walk.cursor \notin ToSet(items)
           THEN [walk EXCEPT !.stage = "refused"]
           ELSE [walk EXCEPT !.stage = IF page.next = NoCursor THEN "done" ELSE "idle",
                             !.cursor = page.next, !.shown = @ \o page.items,
                             !.pages = @ + 1, !.steady = StillSteady(items)]
      /\ UNCHANGED <<clock, creating, tasks>>

Init ==
  /\ clock = 0 /\ creating = <<>> /\ tasks = <<>>
  /\ walk \in [filter : Filters, stage : {"idle"}, now : {0}, cursor : {NoCursor},
               shown : {<<>>}, pages : {0}, steady : {<<>>}]

\* What happens after the walk does not concern it.
Walking == walk.stage \in {"idle", "asked"}

Work ==
  \/ Tick
  \/ \E id \in TaskIds : BeginCreation(id) \/ \E w \in Windows : StoreTask(id, w)
  \/ \E id \in DOMAIN tasks :
       \/ \E a \in Actions : \/ \E due \in Times : AssignAction(id, a, due)
                             \/ ApproveAction(id, a)
       \/ CloseTask(id)

Next == (Walking /\ Work) \/ AskPage \/ AnswerPage

Spec == Init /\ [][Next]_vars

(***************************************************************************)
(* Properties.                                                             *)
(***************************************************************************)
\* Whatever happens between the pages, each of them goes on behind the last: the walk is
\* in order, and shows a task twice only if it has moved back in between.
WalkIsInOrder ==
  \A m, n \in DOMAIN walk.shown : m < n => Before(walk.shown[m], walk.shown[n])

\* A walk that comes to its end has shown every task that was there from the first page to
\* the last and never moved forward in the order.  A task that does move forward, because
\* its late action is approved or it is closed, may be missed.
SteadyTasksAreShown ==
  walk.stage = "done" => DOMAIN walk.steady \subseteq {k.id : k \in ToSet(walk.shown)}
=============================================================================
