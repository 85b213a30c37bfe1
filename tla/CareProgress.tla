----------------------------- MODULE CareProgress -----------------------------
(***************************************************************************)
(* What clients are told about the stage of a task: ReadWorkflowSnapshot   *)
(* of internal/storage and progress of internal/task, over the states of   *)
(* the store.  The view is read in one critical section, so it is a state  *)
(* function; it finds the current inspection in a way of its own.          *)
(***************************************************************************)
EXTENDS CareStore

(***************************************************************************)
(* The view.                                                               *)
(***************************************************************************)
\* The loop over the copied map: it starts from the entry the task names and moves to any
\* live entry with a higher version.
ViewedInspection(t) ==
  LET named == {tasks[t].current} \cap DOMAIN inspections
      live == {i \in InspectionsOf(t) :
                 inspections[i].active \/ inspections[i].supersededBy = NoInspection}
      newer == {i \in live : \A n \in named : inspections[i].version > inspections[n].version}
      found == IF newer = {} THEN named ELSE newer
  IN  IF found = {} THEN NoInspection
      ELSE CHOOSE i \in found : \A j \in found : inspections[j].version <= inspections[i].version

ViewedAnomalies(t) ==
  IF ViewedInspection(t) = NoInspection THEN {} ELSE inspections[ViewedInspection(t)].anomalies

Uncovered(t) == {c \in ViewedAnomalies(t) : ~AnomalyCovered(c, t)}

\* An action that is approved asks for nothing.
Asks == [pending_review |-> "review_pending", rejected |-> "result_resubmission",
         pending_submission |-> "result_pending"]

Todo(type, object) == [type |-> type, object |-> object]

TodosWhileUnreviewed(t) ==  \* mutant: a rejected result is not asked for again
  (IF ViewedInspection(t) = NoInspection THEN {Todo("pending_inspection", t)} ELSE {})
  \cup {Todo("anomaly_unassigned", c) : c \in Uncovered(t)}
  \cup {Todo(Asks[actions[a].review], a) :
          a \in {a \in ActionsOf(t) : actions[a].review \notin {"approved", "rejected"}}}
  \cup (IF tasks[t].status = "reviewed" THEN {Todo("closable", t)} ELSE {})

TodosOnceApproved(t) ==  \* mutant: closable is told from the actions, not from the stage
  (IF ViewedInspection(t) = NoInspection THEN {Todo("pending_inspection", t)} ELSE {})
  \cup {Todo("anomaly_unassigned", c) : c \in Uncovered(t)}
  \cup {Todo(Asks[actions[a].review], a) :
          a \in {a \in ActionsOf(t) : actions[a].review # "approved"}}
  \cup (IF /\ ActionsOf(t) # {} /\ tasks[t].status # "closed"
           /\ \A a \in ActionsOf(t) : actions[a].review = "approved"
        THEN {Todo("closable", t)} ELSE {})

\* The to-do list of a task.
Todos(t) ==
  (IF ViewedInspection(t) = NoInspection THEN {Todo("pending_inspection", t)} ELSE {})
  \cup {Todo("anomaly_unassigned", c) : c \in Uncovered(t)}
  \cup {Todo(Asks[actions[a].review], a) :
          a \in {a \in ActionsOf(t) : actions[a].review # "approved"}}
  \cup (IF tasks[t].status = "reviewed" THEN {Todo("closable", t)} ELSE {})

(***************************************************************************)
(* Properties.                                                             *)
(***************************************************************************)
\* The view and the locked sections always mean the same inspection, although one follows
\* the task's pointer and the other the versions.
ViewAgrees == \A t \in DOMAIN tasks : ViewedInspection(t) = ActiveInspection(t)

\* Can the section a to-do calls for be carried out now?
Doable(t, todo) ==
  CASE todo.type = "pending_inspection" ->
         tasks[t].status = "pending_inspection" /\ Inspectable(t, tasks[t].revision)
    [] todo.type = "anomaly_unassigned" -> Assignable(t, todo.object, ActiveInspection(t), 0)
    [] todo.type = "review_pending" ->
         Reviewable(todo.object, Revisions(todo.object)[1], Revisions(todo.object)[2])
    [] todo.type = "closable" -> Closable(t, tasks[t].revision)
    [] OTHER -> Submittable(todo.object, Revisions(todo.object)[1], Revisions(todo.object)[2])

\* Nobody is sent to do what the store will refuse.  The exception are anomalies without
\* an action once the task has left the stage in which actions are created.
TodosAreDoable ==
  \A t \in DOMAIN tasks : \A todo \in Todos(t) :
    Doable(t, todo) \/ (todo.type = "anomaly_unassigned" /\ tasks[t].status # "pending_action")

\* Nobody is forgotten: an open task asks somebody for something, unless its inspection
\* found nothing; a closed one asks for nothing but the anomalies that a combined action
\* left without an action of their own.
WorkIsListed ==
  \A t \in DOMAIN tasks :
    IF tasks[t].status = "closed"
    THEN \A todo \in Todos(t) : /\ todo.type = "anomaly_unassigned"
                                /\ \E a \in ActionsOf(t) : actions[a].legacy
    ELSE \/ Todos(t) # {}
         \/ ActionsOf(t) = {} /\ ViewedAnomalies(t) = {}
=============================================================================
