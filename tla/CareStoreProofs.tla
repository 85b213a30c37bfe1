--------------------------- MODULE CareStoreProofs ---------------------------
(***************************************************************************)
(* Proofs about CareStore, for every value of its constants: its safety    *)
(* invariants; that no task goes back in the schedule that TaskSchedule    *)
(* promises; and that what has happened is final.                          *)
(*                                                                         *)
(* The inductive invariant joins the types, the inspection chains, the     *)
(* references of the actions, the review stage and the schedule: a window  *)
(* stays exclusive only because a closed task never reopens, which holds   *)
(* because a task past review has only approved actions, which holds       *)
(* because no correction strands an action.                                *)
(***************************************************************************)
EXTENDS CareStore, TLAPS

(***************************************************************************)
(* Facts about the helpers.                                                *)
(***************************************************************************)
\* Storing a record under a key keeps the other records and the record type.
LEMMA PutFacts ==
  ASSUME NEW S, NEW f, f \in [DOMAIN f -> S], NEW k, NEW v
  PROVE  /\ DOMAIN Put(f, k, v) = DOMAIN f \cup {k}
         /\ Put(f, k, v)[k] = v
         /\ \A x \in DOMAIN f : x # k => Put(f, k, v)[x] = f[x]
         /\ v \in S => Put(f, k, v) \in [DOMAIN f \cup {k} -> S]
BY DEF Put

\* Draw only returns ids and keys that are not yet in use.
LEMMA DrawnFacts ==
  ASSUME NEW used
  PROVE  /\ Drawn(TaskIds, used) \subseteq TaskIds \ used
         /\ Drawn(InspectionIds, used) \subseteq InspectionIds \ used
         /\ Drawn(ActionIds, used) \subseteq ActionIds \ used
         /\ Drawn(Keys, used) \subseteq Keys \ used
<1>1. \A S : S \in SUBSET TaskIds \/ S \in SUBSET InspectionIds
             \/ S \in SUBSET ActionIds \/ S \in SUBSET Keys => Draw(S) \subseteq S
  BY DrawAssumption
<1>2. QED BY <1>1 DEF Drawn

\* The active inspection of a task is its current one, if that is set and stored.
LEMMA ActiveFacts ==
  ASSUME NEW t
  PROVE  /\ ActiveInspection(t) \in DOMAIN inspections \cup {NoInspection}
         /\ t \in DOMAIN tasks /\ tasks[t].current \in DOMAIN inspections
              /\ tasks[t].current # NoInspection
            => ActiveInspection(t) = tasks[t].current
         /\ InspectionsOf(t) = {} /\ (t \in DOMAIN tasks => tasks[t].current = NoInspection)
            => ActiveInspection(t) = NoInspection
<1> DEFINE live == {i \in InspectionsOf(t) :
                     inspections[i].active \/ inspections[i].supersededBy = NoInspection}
           newest == {i \in live : \A j \in live :
                                     inspections[j].version <= inspections[i].version}
<1>1. ActiveInspection(t) =
        IF t \in DOMAIN tasks /\ tasks[t].current # NoInspection
        THEN IF tasks[t].current \in DOMAIN inspections THEN tasks[t].current ELSE NoInspection
        ELSE IF newest = {} THEN NoInspection ELSE CHOOSE i \in newest : TRUE
  BY DEF ActiveInspection
<1>2. newest \subseteq InspectionsOf(t) /\ InspectionsOf(t) \subseteq DOMAIN inspections
  BY DEF InspectionsOf
<1>3. newest # {} => (CHOOSE i \in newest : TRUE) \in newest
  OBVIOUS
<1> HIDE DEF newest
<1>4. QED BY <1>1, <1>2, <1>3

(***************************************************************************)
(* Every step of Next is one locked section, called with typed arguments.  *)
(***************************************************************************)
Creating == \E t \in TaskIds \ DOMAIN tasks, p \in Plans, k \in Keys, f \in Fingerprints :
              CreateTaskAtomic(t, p, k, f)
Recording == \E i \in InspectionIds \ DOMAIN inspections, t \in DOMAIN tasks,
                anomalies \in Outcomes, k \in Keys, f \in Fingerprints :
               RecordFirstInspection(i, t, anomalies, tasks[t].revision, k, f)
Correcting == \E i \in InspectionIds \ DOMAIN inspections, t \in DOMAIN tasks,
                 anomalies \in Outcomes, k \in Keys, f \in Fingerprints :
                CorrectInspection(i, t, anomalies, ActiveInspection(t), tasks[t].revision, k, f)
Assigning == \E a \in ActionIds \ DOMAIN actions, t \in DOMAIN tasks, c \in Codes,
                legacy \in BOOLEAN, k \in Keys, f \in Fingerprints :
               CreateActionAtomic(a, t, c, ActiveInspection(t), legacy, tasks[t].revision, k, f)
Submitting == \E a \in DOMAIN actions, k \in Keys \cup {NoKey}, f \in Fingerprints :
                SubmitActionAtomic(a, Len(actions[a].submissions) + 1,
                                   Revisions(a)[1], Revisions(a)[2], k, f)
Deciding == \E a \in DOMAIN actions, decision \in {"approved", "rejected"} :
              /\ actions[a].submissions # <<>>
              /\ ReviewActionAtomic(a, [submission |-> Last(actions[a].submissions),
                                        decision |-> decision],
                                    Revisions(a)[1], Revisions(a)[2])
Completing == \E a \in DOMAIN actions : \E seen \in 0..Len(actions[a].submissions) :
                CompleteAndApproveActionAtomic(a, seen + 1)
Closing == \E t \in DOMAIN tasks : CloseTaskAtomic(t, tasks[t].revision)
Registering == \E a \in Artifacts : AddArtifact(a)

LEMMA NextIsOneSection ==
  ASSUME TypeOK, Next
  PROVE  \/ Registering \/ Creating \/ Recording \/ Correcting \/ Assigning
         \/ Submitting \/ Deciding \/ Completing \/ Closing
<1> USE DEF TypeOK
<1>0. KeysTried \subseteq Keys
  BY DrawnFacts, KeyAssumption DEF KeysTried
<1>1. CASE \E a \in Artifacts : AddArtifact(a)
  BY <1>1 DEF Registering
<1>2. ASSUME NEW k \in KeysTried, NEW f \in Fingerprints,
             NEW t \in Drawn(TaskIds, DOMAIN tasks), NEW p \in Plans, CreateTask(t, p, k, f)
      PROVE  Creating
  BY <1>0, <1>2, DrawnFacts DEF Creating, CreateTask
<1>3. ASSUME NEW k \in KeysTried, NEW f \in Fingerprints,
             NEW i \in Drawn(InspectionIds, DOMAIN inspections), NEW t \in DOMAIN tasks,
             NEW anomalies \in Outcomes, Inspect(i, t, anomalies, k, f)
      PROVE  Recording
  BY <1>0, <1>3, DrawnFacts DEF Recording, Inspect
<1>4. ASSUME NEW k \in KeysTried, NEW f \in Fingerprints,
             NEW i \in Drawn(InspectionIds, DOMAIN inspections), NEW t \in DOMAIN tasks,
             NEW anomalies \in Outcomes, Correct(i, t, anomalies, k, f)
      PROVE  Correcting
  BY <1>0, <1>4, DrawnFacts DEF Correcting, Correct
<1>5. ASSUME NEW k \in KeysTried, NEW f \in Fingerprints,
             NEW a \in Drawn(ActionIds, DOMAIN actions), NEW t \in DOMAIN tasks,
             Recommend(a, t, k, f)
      PROVE  Assigning
  <2>1. PICK c : \E legacy \in BOOLEAN :
          CreateActionAtomic(a, t, c, ActiveInspection(t), legacy, tasks[t].revision, k, f)
    BY <1>5 DEF Recommend
  <2>2. c \in Codes
    <3>1. /\ ActiveInspection(t) # NoInspection
          /\ c \in inspections[ActiveInspection(t)].anomalies
      BY <2>1 DEF CreateActionAtomic, Assignable
    <3>2. ActiveInspection(t) \in DOMAIN inspections
      BY <3>1, ActiveFacts
    <3>3. QED BY <3>1, <3>2 DEF InspectionEntry
  <2>3. QED BY <1>0, <2>1, <2>2, DrawnFacts DEF Assigning
<1>6. ASSUME NEW a \in DOMAIN actions, NEW k \in KeysTried \cup {NoKey},
             NEW f \in Fingerprints, Submit(a, k, f)
      PROVE  Submitting
  BY <1>0, <1>6 DEF Submitting, Submit
<1>7. ASSUME NEW a \in DOMAIN actions, Approve(a) \/ Reject(a)
      PROVE  Deciding
  BY <1>7 DEF Deciding, Approve, Reject, Decide
<1>8. ASSUME NEW a \in DOMAIN actions, ApproveInOneCall(a)
      PROVE  Completing
  BY <1>8 DEF Completing, ApproveInOneCall
<1>9. ASSUME NEW t \in DOMAIN tasks, Close(t)
      PROVE  Closing
  BY <1>9 DEF Closing, Close
<1>10. QED BY <1>1, <1>2, <1>3, <1>4, <1>5, <1>6, <1>7, <1>8, <1>9 DEF Next

(***************************************************************************)
(* Type correctness.                                                       *)
(***************************************************************************)
LEMMA AppendTypes ==
  ASSUME events \in [TaskIds -> Seq(AuditEvent)], NEW t \in TaskIds,
         NEW type \in EventType, NEW rev \in Nat,
         NEW object \in TaskIds \cup InspectionIds \cup ActionIds,
         AppendEvents(t, <<Event(type, object, rev)>>)
  PROVE  events' \in [TaskIds -> Seq(AuditEvent)]
<1> DEFINE e == Event(type, object, rev)
<1>1. e \in AuditEvent
  BY DEF Event, AuditEvent
<1>2. events' = [events EXCEPT ![t] = @ \o <<e>>]
  BY DEF AppendEvents
<1> HIDE DEF e
<1>3. <<e>> \in Seq(AuditEvent)
  BY <1>1
<1>4. events[t] \o <<e>> \in Seq(AuditEvent)
  BY <1>3
<1>5. QED BY <1>2, <1>4

LEMMA IdemTypes ==
  ASSUME idem \in [DOMAIN idem -> IdempotencyRecord], DOMAIN idem \subseteq Keys,
         NEW k \in Keys, NEW f \in Fingerprints,
         NEW type \in {"task", "inspection", "action", "action_submission"},
         NEW e \in TaskIds \cup InspectionIds \cup ActionIds,
         SaveIdempotency(k, f, type, e)
  PROVE  /\ DOMAIN idem' \subseteq Keys
         /\ idem' \in [DOMAIN idem' -> IdempotencyRecord]
<1>1. [type |-> type, entity |-> e, fingerprint |-> f] \in IdempotencyRecord
  BY DEF IdempotencyRecord
<1> DEFINE new == [type |-> type, entity |-> e, fingerprint |-> f]
<1>2. idem' = Put(idem, k, new) /\ new \in IdempotencyRecord
  BY <1>1 DEF SaveIdempotency
<1> HIDE DEF new
<1>3. QED BY <1>2 DEF Put

\* The task of every action is stored: no section follows a dangling reference.
ActionsHaveTasks == \A a \in DOMAIN actions : actions[a].task \in DOMAIN tasks

LEMMA TypeInit == Init => TypeOK
BY DEF Init, TypeOK

LEMMA CreatingTypes == TypeOK /\ Creating => TypeOK'
<1> SUFFICES ASSUME TypeOK, NEW t \in TaskIds \ DOMAIN tasks, NEW p \in Plans,
                    NEW k \in Keys, NEW f \in Fingerprints, CreateTaskAtomic(t, p, k, f)
             PROVE  TypeOK'
  BY DEF Creating
<1> USE DEF TypeOK
<1> DEFINE new == [plan |-> p, status |-> "pending_inspection",
                   revision |-> 1, current |-> NoInspection]
<1>1. new \in Task
  BY DEF Task, TaskStatus
<1>2. tasks' = Put(tasks, t, new) /\ SaveIdempotency(k, f, "task", t)
      /\ AppendEvents(t, <<Event("task_created", t, 1)>>)
      /\ UNCHANGED <<artifacts, inspections, actions, audits>>
  BY DEF CreateTaskAtomic
<1>3. /\ DOMAIN tasks' = DOMAIN tasks \cup {t}
      /\ tasks' \in [DOMAIN tasks' -> Task]
  <2> HIDE DEF new
  <2> QED BY <1>1, <1>2 DEF Put
<1>4. /\ DOMAIN idem' \subseteq Keys
      /\ idem' \in [DOMAIN idem' -> IdempotencyRecord]
  BY <1>2, IdemTypes
<1>5. events' \in [TaskIds -> Seq(AuditEvent)]
  BY <1>2, AppendTypes DEF EventType
<1>6. QED BY <1>2, <1>3, <1>4, <1>5

LEMMA AdoptTypes ==
  ASSUME TypeOK, NEW i \in InspectionIds, NEW t \in DOMAIN tasks, NEW k \in Keys,
         NEW f \in Fingerprints, NEW type \in {"inspection_recorded", "inspection_corrected"},
         AdoptInspection(i, t, type, k, f),
         DOMAIN inspections' \subseteq InspectionIds,
         inspections' \in [DOMAIN inspections' -> InspectionEntry]
  PROVE  TypeOK'
<1> USE DEF TypeOK
<1>1. /\ tasks' = [tasks EXCEPT ![t].current = i, ![t].status = "pending_action",
                                ![t].revision = @ + 1]
      /\ SaveIdempotency(k, f, "inspection", i)
      /\ AppendEvents(t, <<Event(type, i, tasks[t].revision + 1)>>)
      /\ UNCHANGED <<artifacts, actions, audits>>
  BY DEF AdoptInspection
<1>2. tasks[t] \in Task /\ tasks[t].revision + 1 \in Nat
  BY DEF Task
<1>3. /\ DOMAIN tasks' = DOMAIN tasks
      /\ tasks' \in [DOMAIN tasks' -> Task]
  BY <1>1, <1>2 DEF Task, TaskStatus
<1>4. /\ DOMAIN idem' \subseteq Keys
      /\ idem' \in [DOMAIN idem' -> IdempotencyRecord]
  BY <1>1, IdemTypes
<1>5. events' \in [TaskIds -> Seq(AuditEvent)]
  BY <1>1, <1>2, AppendTypes DEF EventType
<1>6. QED BY <1>1, <1>3, <1>4, <1>5

LEMMA RecordingTypes == TypeOK /\ Recording => TypeOK'
<1> SUFFICES ASSUME TypeOK, NEW i \in InspectionIds \ DOMAIN inspections,
                    NEW t \in DOMAIN tasks, NEW anomalies \in Outcomes,
                    NEW k \in Keys, NEW f \in Fingerprints,
                    RecordFirstInspection(i, t, anomalies, tasks[t].revision, k, f)
             PROVE  TypeOK'
  BY DEF Recording
<1> DEFINE new == [task |-> t, anomalies |-> anomalies, version |-> 1, active |-> TRUE,
                   supersedes |-> NoInspection, supersededBy |-> NoInspection]
<1>1. new \in InspectionEntry
  BY CodeAssumption DEF InspectionEntry, TypeOK
<1>2. inspections' = Put(inspections, i, new) /\ AdoptInspection(i, t, "inspection_recorded", k, f)
  BY DEF RecordFirstInspection
<1> HIDE DEF new
<1>3. /\ DOMAIN inspections' \subseteq InspectionIds
      /\ inspections' \in [DOMAIN inspections' -> InspectionEntry]
  BY <1>1, <1>2 DEF Put, TypeOK
<1>4. QED BY <1>2, <1>3, AdoptTypes

LEMMA CorrectingTypes == TypeOK /\ Correcting => TypeOK'
<1> SUFFICES ASSUME TypeOK, NEW i \in InspectionIds \ DOMAIN inspections,
                    NEW t \in DOMAIN tasks, NEW anomalies \in Outcomes,
                    NEW k \in Keys, NEW f \in Fingerprints,
                    CorrectInspection(i, t, anomalies, ActiveInspection(t),
                                      tasks[t].revision, k, f)
             PROVE  TypeOK'
  BY DEF Correcting
<1> DEFINE old == ActiveInspection(t)
           new == [task |-> t, anomalies |-> anomalies,
                   version |-> inspections[old].version + 1, active |-> TRUE,
                   supersedes |-> old, supersededBy |-> NoInspection]
<1>1. /\ old # NoInspection
      /\ inspections' = Put(Supersede(old, i), i, new)
      /\ AdoptInspection(i, t, "inspection_corrected", k, f)
  BY DEF CorrectInspection
<1>2. old \in DOMAIN inspections
  BY <1>1, ActiveFacts
<1> HIDE DEF old
<1>3. inspections[old] \in InspectionEntry
  BY <1>2 DEF TypeOK
<1>4. new \in InspectionEntry
  BY <1>2, <1>3, CodeAssumption DEF InspectionEntry, TypeOK
<1>5. /\ DOMAIN Supersede(old, i) = DOMAIN inspections
      /\ Supersede(old, i) \in [DOMAIN inspections -> InspectionEntry]
  BY <1>2, <1>3 DEF Supersede, InspectionEntry, TypeOK
<1> HIDE DEF new
<1>6. /\ DOMAIN inspections' \subseteq InspectionIds
      /\ inspections' \in [DOMAIN inspections' -> InspectionEntry]
  BY <1>1, <1>4, <1>5 DEF Put, TypeOK
<1>7. QED BY <1>1, <1>6, AdoptTypes

LEMMA AssigningTypes == TypeOK /\ Assigning => TypeOK'
<1> SUFFICES ASSUME TypeOK, NEW a \in ActionIds \ DOMAIN actions, NEW t \in DOMAIN tasks,
                    NEW c \in Codes, NEW legacy \in BOOLEAN, NEW k \in Keys,
                    NEW f \in Fingerprints,
                    CreateActionAtomic(a, t, c, ActiveInspection(t), legacy,
                                       tasks[t].revision, k, f)
             PROVE  TypeOK'
  BY DEF Assigning
<1> USE DEF TypeOK
<1> DEFINE source == ActiveInspection(t)
           new == [task |-> t, source |-> source, code |-> c, legacy |-> legacy,
                   review |-> "pending_submission", evidenceComplete |-> FALSE,
                   revision |-> 1, submissions |-> <<>>, reviews |-> <<>>]
           covered == \A d \in inspections[source].anomalies : d = c \/ AnomalyCovered(d, t)
<1>1. /\ source # NoInspection
      /\ actions' = Put(actions, a, new)
      /\ tasks' = [tasks EXCEPT ![t].status = IF covered THEN "pending_review" ELSE @,
                                ![t].revision = @ + 1]
      /\ SaveIdempotency(k, f, "action", a)
      /\ AppendEvents(t, <<Event("action_assigned", a, tasks[t].revision + 1)>>)
      /\ UNCHANGED <<artifacts, inspections, audits>>
  BY DEF CreateActionAtomic, Assignable
<1>2. source \in InspectionIds
  BY <1>1, ActiveFacts
<1> HIDE DEF source, covered
<1>3. new \in Action
  BY <1>2 DEF Action, ReviewStatus
<1>4. tasks[t] \in Task /\ tasks[t].revision + 1 \in Nat
  BY DEF Task
<1>5. /\ DOMAIN tasks' = DOMAIN tasks
      /\ tasks' \in [DOMAIN tasks' -> Task]
  BY <1>1, <1>4 DEF Task, TaskStatus
<1> HIDE DEF new
<1>6. /\ DOMAIN actions' \subseteq ActionIds
      /\ actions' \in [DOMAIN actions' -> Action]
  BY <1>1, <1>3 DEF Put
<1>7. /\ DOMAIN idem' \subseteq Keys
      /\ idem' \in [DOMAIN idem' -> IdempotencyRecord]
  BY <1>1, IdemTypes
<1>8. events' \in [TaskIds -> Seq(AuditEvent)]
  BY <1>1, <1>4, AppendTypes DEF EventType
<1>9. QED BY <1>1, <1>5, <1>6, <1>7, <1>8

\* A task whose status stays or becomes another one, and whose revision rises, is a Task.
LEMMA AdvancedTask ==
  ASSUME TypeOK, NEW t \in DOMAIN tasks, NEW status \in TaskStatus,
         tasks' = [tasks EXCEPT ![t].status = status, ![t].revision = @ + 1]
  PROVE  /\ DOMAIN tasks' = DOMAIN tasks
         /\ tasks' \in [DOMAIN tasks' -> Task]
<1>1. tasks[t] \in Task /\ tasks \in [DOMAIN tasks -> Task]
  BY DEF TypeOK
<1>2. QED BY <1>1 DEF Task

\* The record set of Action, with opaque field sets: histories need not be expanded.
ActionRecord(T, I, C, V, S, Q) ==
  [task : T, source : I, code : C, legacy : BOOLEAN, review : V,
   evidenceComplete : BOOLEAN, revision : Nat, submissions : S, reviews : Q]

LEMMA ChangedRecord ==
  ASSUME NEW T, NEW I, NEW C, NEW V, NEW S, NEW Q, NEW r \in ActionRecord(T, I, C, V, S, Q),
         NEW subs \in S, NEW revs \in Q, NEW status \in V, NEW complete \in BOOLEAN,
         NEW n \in Nat
  PROVE  [r EXCEPT !.submissions = subs, !.reviews = revs, !.review = status,
                   !.evidenceComplete = complete, !.revision = n]
           \in ActionRecord(T, I, C, V, S, Q)
BY DEF ActionRecord

\* However its history and review state change, an action stays an Action.
LEMMA ChangedAction ==
  ASSUME TypeOK, NEW a \in DOMAIN actions, NEW subs \in Seq(Nat), NEW revs \in Seq(Review),
         NEW status \in ReviewStatus, NEW complete \in BOOLEAN,
         actions' = [actions EXCEPT ![a] =
           [actions[a] EXCEPT !.submissions = subs, !.reviews = revs, !.review = status,
                     !.evidenceComplete = complete, !.revision = actions[a].revision + 1]]
  PROVE  /\ DOMAIN actions' = DOMAIN actions
         /\ actions' \in [DOMAIN actions' -> Action]
<1> DEFINE new == [actions[a] EXCEPT !.submissions = subs, !.reviews = revs,
                     !.review = status, !.evidenceComplete = complete,
                     !.revision = actions[a].revision + 1]
<1>1. actions[a] \in Action /\ actions \in [DOMAIN actions -> Action]
  BY DEF TypeOK
<1>2. new \in Action
  <2>1. actions[a].revision + 1 \in Nat
    BY <1>1 DEF Action
  <2>2. Action = ActionRecord(TaskIds, InspectionIds, Codes, ReviewStatus, Seq(Nat), Seq(Review))
    BY DEF Action, ActionRecord
  <2>3. QED BY <1>1, <2>1, <2>2, ChangedRecord
<1>3. actions' = [actions EXCEPT ![a] = new]
  OBVIOUS
<1> HIDE DEF new
<1>4. QED BY <1>1, <1>2, <1>3

LEMMA SubmittingTypes == TypeOK /\ ActionsHaveTasks /\ Submitting => TypeOK'
<1> SUFFICES ASSUME TypeOK, ActionsHaveTasks, NEW a \in DOMAIN actions,
                    NEW k \in Keys \cup {NoKey}, NEW f \in Fingerprints,
                    SubmitActionAtomic(a, Len(actions[a].submissions) + 1,
                                       Revisions(a)[1], Revisions(a)[2], k, f)
             PROVE  TypeOK'
  BY DEF Submitting
<1> DEFINE t == actions[a].task
           version == Len(actions[a].submissions) + 1
<1>1. /\ actions' = [actions EXCEPT ![a].submissions = Append(@, version),
                                    ![a].review = "pending_review",
                                    ![a].evidenceComplete = FALSE,
                                    ![a].revision = @ + 1]
      /\ tasks' = [tasks EXCEPT ![t].revision = @ + 1]
      /\ IF k = NoKey THEN UNCHANGED idem
                      ELSE SaveIdempotency(k, f, "action_submission", a)
      /\ AppendEvents(t, <<Event("action_result_submitted", a, tasks[t].revision + 1)>>)
      /\ UNCHANGED <<artifacts, inspections, audits>>
  BY DEF SubmitActionAtomic
<1>2. actions[a] \in Action /\ t \in DOMAIN tasks /\ tasks[t] \in Task
  BY DEF TypeOK, ActionsHaveTasks
<1>3. /\ DOMAIN tasks' = DOMAIN tasks
      /\ tasks' \in [DOMAIN tasks' -> Task]
  <2>1. tasks' = [tasks EXCEPT ![t].status = tasks[t].status, ![t].revision = @ + 1]
    BY <1>1, <1>2 DEF Task, TypeOK
  <2>2. tasks[t].status \in TaskStatus
    BY <1>2 DEF Task
  <2>3. QED BY <1>2, <2>1, <2>2, AdvancedTask
<1>4. version \in Nat /\ Append(actions[a].submissions, version) \in Seq(Nat)
  BY <1>2 DEF Action
<1> HIDE DEF version
<1>5. /\ DOMAIN actions' = DOMAIN actions
      /\ actions' \in [DOMAIN actions' -> Action]
  <2> DEFINE subs == Append(actions[a].submissions, version)
  <2>1. actions' = [actions EXCEPT ![a] =
          [actions[a] EXCEPT !.submissions = subs, !.reviews = actions[a].reviews,
                    !.review = "pending_review", !.evidenceComplete = FALSE,
                    !.revision = actions[a].revision + 1]]
    BY <1>1, <1>2 DEF Action, TypeOK
  <2>2. "pending_review" \in ReviewStatus /\ actions[a].reviews \in Seq(Review)
    BY <1>2 DEF Action, ReviewStatus
  <2> HIDE DEF subs
  <2>3. QED BY <1>4, <2>1, <2>2, ChangedAction DEF subs
<1>6. /\ DOMAIN idem' \subseteq Keys
      /\ idem' \in [DOMAIN idem' -> IdempotencyRecord]
  <2>1. CASE k = NoKey
    BY <1>1, <2>1 DEF TypeOK
  <2>2. CASE k # NoKey
    BY <1>1, <2>2, IdemTypes DEF TypeOK
  <2>3. QED BY <2>1, <2>2
<1>7. tasks[t].revision + 1 \in Nat
  BY <1>2 DEF Task
<1>8. events' \in [TaskIds -> Seq(AuditEvent)]
  BY <1>1, <1>2, <1>7, AppendTypes DEF EventType, TypeOK
<1>9. QED BY <1>1, <1>3, <1>5, <1>6, <1>8 DEF TypeOK

LEMMA DecidingTypes == TypeOK /\ ActionsHaveTasks /\ Deciding => TypeOK'
<1> SUFFICES ASSUME TypeOK, ActionsHaveTasks, NEW a \in DOMAIN actions,
                    NEW decision \in {"approved", "rejected"},
                    actions[a].submissions # <<>>,
                    ReviewActionAtomic(a, [submission |-> Last(actions[a].submissions),
                                           decision |-> decision],
                                       Revisions(a)[1], Revisions(a)[2])
             PROVE  TypeOK'
  BY DEF Deciding
<1> DEFINE t == actions[a].task
           r == [submission |-> Last(actions[a].submissions), decision |-> decision]
           done == decision = "approved" /\ OthersApproved(a) /\ FullyCovered(t)
           type == IF decision = "rejected" THEN "action_review_rejected"
                                            ELSE "action_review_approved"
           status == IF done THEN "reviewed" ELSE "pending_review"
<1>1. /\ actions' = [actions EXCEPT ![a].reviews = Append(@, r),
                                    ![a].evidenceComplete = (decision = "approved"),
                                    ![a].review = decision,
                                    ![a].revision = @ + 1]
      /\ tasks' = [tasks EXCEPT ![t].status = status, ![t].revision = @ + 1]
      /\ AppendEvents(t, <<Event(type, a, tasks[t].revision + 1)>>)
      /\ UNCHANGED <<artifacts, inspections, idem, audits>>
  BY DEF ReviewActionAtomic
<1>2. actions[a] \in Action /\ t \in DOMAIN tasks /\ tasks[t] \in Task
  BY DEF TypeOK, ActionsHaveTasks
<1>3. status \in TaskStatus /\ type \in EventType
  BY DEF TaskStatus, EventType
<1> HIDE DEF status, type
<1>4. /\ DOMAIN tasks' = DOMAIN tasks
      /\ tasks' \in [DOMAIN tasks' -> Task]
  BY <1>1, <1>2, <1>3, AdvancedTask
<1>5. r \in Review
  <2>1. /\ actions[a].submissions \in Seq(Nat)
        /\ Len(actions[a].submissions) \in 1..Len(actions[a].submissions)
    BY <1>2 DEF Action
  <2>2. Last(actions[a].submissions) \in Nat
    BY <2>1 DEF Last
  <2>3. QED BY <2>2 DEF Review
<1> HIDE DEF r
<1>6. Append(actions[a].reviews, r) \in Seq(Review)
  BY <1>2, <1>5 DEF Action
<1>7. /\ DOMAIN actions' = DOMAIN actions
      /\ actions' \in [DOMAIN actions' -> Action]
  <2> DEFINE revs == Append(actions[a].reviews, r)
             complete == decision = "approved"
  <2>1. actions' = [actions EXCEPT ![a] =
          [actions[a] EXCEPT !.submissions = actions[a].submissions, !.reviews = revs,
                    !.review = decision, !.evidenceComplete = complete,
                    !.revision = actions[a].revision + 1]]
    BY <1>1, <1>2 DEF Action, TypeOK
  <2>2. /\ decision \in ReviewStatus /\ actions[a].submissions \in Seq(Nat)
        /\ complete \in BOOLEAN
    BY <1>2 DEF Action, ReviewStatus
  <2> HIDE DEF revs, complete
  <2>3. QED BY <1>6, <2>1, <2>2, ChangedAction DEF revs
<1>8. tasks[t].revision + 1 \in Nat
  BY <1>2 DEF Task
<1>9. events' \in [TaskIds -> Seq(AuditEvent)]
  BY <1>1, <1>2, <1>3, <1>8, AppendTypes DEF TypeOK
<1>10. QED BY <1>1, <1>4, <1>7, <1>9 DEF TypeOK

LEMMA CompletingTypes == TypeOK /\ ActionsHaveTasks /\ Completing => TypeOK'
<1> SUFFICES ASSUME TypeOK, ActionsHaveTasks, NEW a \in DOMAIN actions,
                    NEW seen \in 0..Len(actions[a].submissions),
                    CompleteAndApproveActionAtomic(a, seen + 1)
             PROVE  TypeOK'
  BY DEF Completing
<1> DEFINE t == actions[a].task
           version == seen + 1
           r == [submission |-> version, decision |-> "approved"]
           done == OthersApproved(a) /\ (actions[a].legacy \/ FullyCovered(t))
           status == IF done THEN "reviewed" ELSE tasks[t].status
           rev == tasks[t].revision + 1
           submitted == Event("action_result_submitted", a, rev)
           approved == Event("action_review_approved", a, rev)
<1>1. /\ actions' = [actions EXCEPT ![a].submissions = Append(@, version),
                                    ![a].reviews = Append(@, r),
                                    ![a].evidenceComplete = TRUE,
                                    ![a].review = "approved",
                                    ![a].revision = @ + 1]
      /\ tasks' = [tasks EXCEPT ![t].status = IF done THEN "reviewed" ELSE @,
                                ![t].revision = @ + 1]
      /\ events' = [events EXCEPT ![t] = @ \o <<submitted, approved>>]
      /\ UNCHANGED <<artifacts, inspections, idem, audits>>
  BY DEF CompleteAndApproveActionAtomic, AppendEvents
<1>2. actions[a] \in Action /\ t \in DOMAIN tasks /\ tasks[t] \in Task
  BY DEF TypeOK, ActionsHaveTasks
<1>3. status \in TaskStatus /\ rev \in Nat
  BY <1>2 DEF Task, TaskStatus
<1>4. /\ DOMAIN tasks' = DOMAIN tasks
      /\ tasks' \in [DOMAIN tasks' -> Task]
  <2>1. tasks' = [tasks EXCEPT ![t].status = status, ![t].revision = @ + 1]
    BY <1>1
  <2> HIDE DEF status
  <2>2. QED BY <1>2, <1>3, <2>1, AdvancedTask
<1>5. version \in Nat
  BY <1>2 DEF Action
<1> HIDE DEF version
<1>6. /\ Append(actions[a].submissions, version) \in Seq(Nat)
      /\ Append(actions[a].reviews, r) \in Seq(Review)
  BY <1>2, <1>5 DEF Action, Review
<1>7. /\ DOMAIN actions' = DOMAIN actions
      /\ actions' \in [DOMAIN actions' -> Action]
  <2> DEFINE subs == Append(actions[a].submissions, version)
             revs == Append(actions[a].reviews, r)
  <2>1. actions' = [actions EXCEPT ![a] =
          [actions[a] EXCEPT !.submissions = subs, !.reviews = revs,
                             !.review = "approved", !.evidenceComplete = TRUE,
                             !.revision = actions[a].revision + 1]]
    BY <1>1, <1>2 DEF Action, TypeOK
  <2>2. "approved" \in ReviewStatus
    BY DEF ReviewStatus
  <2> HIDE DEF subs, revs
  <2>3. QED BY <1>6, <2>1, <2>2, ChangedAction DEF subs, revs
<1>8. submitted \in AuditEvent /\ approved \in AuditEvent
  <2> HIDE DEF rev
  <2> QED BY <1>3 DEF Event, AuditEvent, EventType, TypeOK
<1> HIDE DEF submitted, approved
<1>9. <<submitted, approved>> \in Seq(AuditEvent)
  BY <1>8
<1>10. events' \in [TaskIds -> Seq(AuditEvent)]
  <2>1. events[t] \o <<submitted, approved>> \in Seq(AuditEvent)
    BY <1>2, <1>9 DEF TypeOK
  <2>2. QED BY <1>1, <2>1 DEF TypeOK
<1>11. QED BY <1>1, <1>4, <1>7, <1>10 DEF TypeOK

LEMMA ClosingTypes == TypeOK /\ Closing => TypeOK'
<1> SUFFICES ASSUME TypeOK, NEW t \in DOMAIN tasks, CloseTaskAtomic(t, tasks[t].revision)
             PROVE  TypeOK'
  BY DEF Closing
<1>1. /\ tasks' = [tasks EXCEPT ![t].status = "closed", ![t].revision = @ + 1]
      /\ AppendEvents(t, <<Event("task_closed", t, tasks[t].revision + 1)>>)
      /\ audits' = Put(audits, t, ClosingSnapshot(t, tasks'[t], events'[t]))
      /\ UNCHANGED <<artifacts, inspections, actions, idem>>
  BY DEF CloseTaskAtomic
<1>2. tasks[t] \in Task /\ tasks[t].revision + 1 \in Nat
  BY DEF Task, TypeOK
<1>3. /\ DOMAIN tasks' = DOMAIN tasks
      /\ tasks' \in [DOMAIN tasks' -> Task]
  BY <1>1, AdvancedTask DEF TaskStatus
<1>4. events' \in [TaskIds -> Seq(AuditEvent)]
  BY <1>1, <1>2, AppendTypes DEF EventType, TypeOK
<1>5. DOMAIN audits' = DOMAIN audits \cup {t}
  BY <1>1 DEF Put
<1>6. QED BY <1>1, <1>3, <1>4, <1>5 DEF TypeOK

\* No section of the store breaks the types of the data, given that actions have tasks.
LEMMA TypeStep == TypeOK /\ ActionsHaveTasks /\ [Next]_vars => TypeOK'
<1> SUFFICES ASSUME TypeOK, ActionsHaveTasks, [Next]_vars
             PROVE  TypeOK'
  OBVIOUS
<1>1. CASE Registering
  BY <1>1 DEF Registering, AddArtifact, TypeOK
<1>2. CASE UNCHANGED vars
  BY <1>2 DEF vars, TypeOK
<1>3. CASE Next
  BY <1>1, <1>3, NextIsOneSection, CreatingTypes, RecordingTypes, CorrectingTypes,
     AssigningTypes, SubmittingTypes, DecidingTypes, CompletingTypes, ClosingTypes
<1>4. QED BY <1>2, <1>3

(***************************************************************************)
(* The inductive invariant.                                                *)
(***************************************************************************)
\* The current inspection of a task is stored, and is one of its own.
CurrentIsStored ==
  \A t \in DOMAIN tasks :
    tasks[t].current # NoInspection => tasks[t].current \in InspectionsOf(t)

Chain == TypeOK /\ InspectionChain /\ CurrentIsStored
Linked == Chain /\ ActionsMatchInspection
IInv == Linked /\ ReviewedIsEarned /\ ScheduleExclusive

(***************************************************************************)
(* What the sections read, when the data are linked.                       *)
(***************************************************************************)
\* The active inspection of a task is its current one, set or not.
LEMMA ActiveIsCurrent ==
  ASSUME Chain, NEW t \in DOMAIN tasks
  PROVE  ActiveInspection(t) = tasks[t].current
<1>1. CASE tasks[t].current # NoInspection
  BY <1>1, ActiveFacts DEF Chain, CurrentIsStored, InspectionsOf
<1>2. CASE tasks[t].current = NoInspection
  <2>1. InspectionsOf(t) = {}
    BY <1>2, NoInspectionAssumption DEF Chain, InspectionChain, InspectionsOf, TypeOK
  <2>2. QED BY <1>2, <2>1, ActiveFacts
<1>3. QED BY <1>1, <1>2

\* A section that keeps the inspections and every current inspection keeps the chains.
LEMMA ChainFrame ==
  ASSUME InspectionChain, CurrentIsStored, inspections' = inspections,
         DOMAIN tasks \subseteq DOMAIN tasks',
         \A u \in DOMAIN tasks : tasks'[u].current = tasks[u].current,
         \A u \in DOMAIN tasks' \ DOMAIN tasks : tasks'[u].current = NoInspection
  PROVE  InspectionChain' /\ CurrentIsStored'
<1>1. \A u : InspectionsOf(u)' = InspectionsOf(u)
  BY DEF InspectionsOf
<1>2. CurrentIsStored'
  BY <1>1 DEF CurrentIsStored
<1>3. InspectionChain'
  BY <1>1 DEF InspectionChain
<1>4. QED BY <1>2, <1>3

LEMMA CreatingChain == Chain /\ Creating => InspectionChain' /\ CurrentIsStored'
<1> SUFFICES ASSUME Chain, NEW t \in TaskIds \ DOMAIN tasks, NEW p \in Plans,
                    NEW k, NEW f, CreateTaskAtomic(t, p, k, f)
             PROVE  InspectionChain' /\ CurrentIsStored'
  BY DEF Creating
<1>1. QED BY ChainFrame DEF CreateTaskAtomic, Put, Chain

LEMMA RecordingChain == Chain /\ Recording => InspectionChain' /\ CurrentIsStored'
<1> SUFFICES ASSUME Chain, NEW i \in InspectionIds \ DOMAIN inspections,
                    NEW t \in DOMAIN tasks, NEW anomalies, NEW k, NEW f,
                    RecordFirstInspection(i, t, anomalies, tasks[t].revision, k, f)
             PROVE  InspectionChain' /\ CurrentIsStored'
  BY DEF Recording
<1> DEFINE new == [task |-> t, anomalies |-> anomalies, version |-> 1, active |-> TRUE,
                   supersedes |-> NoInspection, supersededBy |-> NoInspection]
<1>1. /\ inspections' = Put(inspections, i, new)
      /\ tasks' = [tasks EXCEPT ![t].current = i, ![t].status = "pending_action",
                                ![t].revision = @ + 1]
      /\ tasks[t].current = NoInspection
  BY DEF RecordFirstInspection, AdoptInspection
<1>2. tasks \in [DOMAIN tasks -> Task] /\ NoInspection \notin DOMAIN inspections
  BY NoInspectionAssumption DEF Chain, TypeOK
<1>3. /\ DOMAIN tasks' = DOMAIN tasks /\ tasks'[t].current = i
      /\ \A u \in DOMAIN tasks \ {t} : tasks'[u] = tasks[u]
  BY <1>1, <1>2 DEF Task
<1>4. /\ DOMAIN inspections' = DOMAIN inspections \cup {i} /\ inspections'[i] = new
      /\ \A j \in DOMAIN inspections : inspections'[j] = inspections[j]
  BY <1>1 DEF Put
<1>5. InspectionsOf(t) = {}
  BY <1>1, <1>2 DEF Chain, InspectionChain, InspectionsOf
<1>6. /\ InspectionsOf(t)' = {i}
      /\ \A u \in DOMAIN tasks \ {t} : InspectionsOf(u)' = InspectionsOf(u)
  BY <1>4, <1>5 DEF InspectionsOf
<1>7. CurrentIsStored'
  BY <1>3, <1>6 DEF CurrentIsStored, Chain
<1>8. InspectionChain'
  <2> SUFFICES ASSUME NEW j \in DOMAIN inspections' PROVE InspectionChain!(j)'
    BY DEF InspectionChain
  <2>1. CASE j = i
    BY <1>3, <1>4, <1>6, <2>1
  <2>2. CASE j # i
    <3>1. j \in DOMAIN inspections /\ inspections[j].task # t
      BY <1>4, <1>5, <2>2 DEF InspectionsOf
    <3>2. QED BY <1>3, <1>4, <1>6, <2>2, <3>1 DEF Chain, InspectionChain, InspectionsOf
  <2>3. QED BY <2>1, <2>2
<1>9. QED BY <1>7, <1>8

LEMMA CorrectingChain == Chain /\ Correcting => InspectionChain' /\ CurrentIsStored'
<1> SUFFICES ASSUME Chain, NEW i \in InspectionIds \ DOMAIN inspections,
                    NEW t \in DOMAIN tasks, NEW anomalies, NEW k, NEW f,
                    CorrectInspection(i, t, anomalies, ActiveInspection(t),
                                      tasks[t].revision, k, f)
             PROVE  InspectionChain' /\ CurrentIsStored'
  BY DEF Correcting
<1> DEFINE old == tasks[t].current
           new == [task |-> t, anomalies |-> anomalies,
                   version |-> inspections[old].version + 1, active |-> TRUE,
                   supersedes |-> old, supersededBy |-> NoInspection]
<1>1. /\ inspections' = Put(Supersede(old, i), i, new)
      /\ tasks' = [tasks EXCEPT ![t].current = i, ![t].status = "pending_action",
                                ![t].revision = @ + 1]
      /\ old # NoInspection
  BY ActiveIsCurrent DEF CorrectInspection, AdoptInspection
<1>2. /\ tasks \in [DOMAIN tasks -> Task] /\ NoInspection \notin DOMAIN inspections
      /\ inspections \in [DOMAIN inspections -> InspectionEntry]
  BY NoInspectionAssumption DEF Chain, TypeOK
<1>3. /\ DOMAIN tasks' = DOMAIN tasks /\ tasks'[t].current = i
      /\ \A u \in DOMAIN tasks \ {t} : tasks'[u] = tasks[u]
  BY <1>1, <1>2 DEF Task
<1>4. old \in DOMAIN inspections /\ inspections[old].task = t /\ i # NoInspection
  BY <1>1, NoInspectionAssumption DEF Chain, CurrentIsStored, InspectionsOf
<1>5. /\ DOMAIN inspections' = DOMAIN inspections \cup {i}
      /\ \A j \in DOMAIN inspections \ {old} : inspections'[j] = inspections[j]
  BY <1>1, <1>4 DEF Put, Supersede
<1>6. /\ inspections'[old].task = t /\ inspections'[old].active = FALSE
      /\ inspections'[old].supersededBy = i
      /\ inspections'[old].version = inspections[old].version
      /\ inspections'[old].supersedes = inspections[old].supersedes
  <2>1. inspections'[old] = [inspections[old] EXCEPT !.active = FALSE, !.supersededBy = i]
    BY <1>1, <1>4 DEF Put, Supersede
  <2>2. QED BY <1>2, <1>4, <2>1 DEF InspectionEntry
<1>7. /\ inspections'[i].task = t /\ inspections'[i].active = TRUE
      /\ inspections'[i].supersedes = old /\ inspections'[i].supersededBy = NoInspection
      /\ inspections'[i].version = inspections[old].version + 1
  BY <1>1 DEF Put
<1>8. /\ InspectionsOf(t)' = InspectionsOf(t) \cup {i}
      /\ \A u \in DOMAIN tasks \ {t} : InspectionsOf(u)' = InspectionsOf(u)
  <2>1. /\ \A j \in DOMAIN inspections : inspections'[j].task = inspections[j].task
        /\ inspections'[i].task = t
    BY <1>4, <1>5, <1>6, <1>7
  <2>2. DOMAIN inspections' = DOMAIN inspections \cup {i}
    BY <1>5
  <2>3. QED BY <2>1, <2>2 DEF InspectionsOf
<1>9. CurrentIsStored'
  BY <1>3, <1>8 DEF CurrentIsStored, Chain
<1>10. InspectionChain'
  <2> SUFFICES ASSUME NEW j \in DOMAIN inspections' PROVE InspectionChain!(j)'
    BY DEF InspectionChain
  <2>1. CASE j = i
    BY <1>7, <1>3, <1>5, <1>8, <2>1
  <2>2. CASE j = old
    <3>1. /\ inspections'[j].task = t /\ inspections'[j].active = FALSE
          /\ inspections'[j].supersededBy = i /\ j # i /\ tasks'[t].current = i
      BY <1>3, <1>4, <1>6, <2>2
    <3>2. /\ i \in InspectionsOf(t)' /\ inspections'[i].supersedes = j
          /\ inspections'[i].version = inspections'[j].version + 1
      BY <1>7, <1>6, <1>8, <2>2
    <3>3. QED BY <1>3, <3>1, <3>2
  <2>3. CASE j \notin {i, old}
    <3>1. j \in DOMAIN inspections /\ inspections'[j] = inspections[j]
      BY <1>5, <2>3
    <3>2. CASE inspections[j].task # t
      <4>1. inspections[j].supersededBy # old
             \/ inspections[j].task = t \/ j = tasks[inspections[j].task].current
        BY <1>4, <3>1 DEF Chain, InspectionChain, InspectionsOf
      <4>2. QED BY <1>3, <1>5, <1>8, <3>1, <3>2, <4>1 DEF Chain, InspectionChain, InspectionsOf
    <3>3. CASE inspections[j].task = t
      <4>1. /\ inspections[j].active = FALSE
            /\ inspections[j].supersededBy \in InspectionsOf(t)
            /\ inspections[inspections[j].supersededBy].supersedes = j
            /\ inspections[inspections[j].supersededBy].version = inspections[j].version + 1
        BY <2>3, <3>1, <3>3, <1>2 DEF Chain, InspectionChain, InspectionEntry
      <4> DEFINE next == inspections[j].supersededBy
      <4>2. /\ next \in InspectionsOf(t)' /\ next # i
            /\ inspections'[next].supersedes = inspections[next].supersedes
            /\ inspections'[next].version = inspections[next].version
        BY <1>5, <1>6, <1>8, <4>1 DEF InspectionsOf
      <4>3. QED BY <1>3, <1>8, <2>3, <3>1, <3>3, <4>1, <4>2
    <3>4. QED BY <3>2, <3>3
  <2>4. QED BY <2>1, <2>2, <2>3
<1>11. QED BY <1>9, <1>10

(***************************************************************************)
(* What the other sections change.                                         *)
(***************************************************************************)
\* The task t takes a new status and its revision rises; nothing else of a task changes.
Moves(t, status) ==
  /\ DOMAIN tasks' = DOMAIN tasks
  /\ \A u \in DOMAIN tasks \ {t} : tasks'[u] = tasks[u]
  /\ tasks'[t].plan = tasks[t].plan /\ tasks'[t].current = tasks[t].current
  /\ tasks'[t].status = status /\ tasks'[t].revision = tasks[t].revision + 1

\* The action a takes a new review state; its identity and the other actions stay.
ActionMoves(a, review) ==
  /\ DOMAIN actions' = DOMAIN actions
  /\ \A b \in DOMAIN actions \ {a} : actions'[b] = actions[b]
  /\ actions'[a].task = actions[a].task /\ actions'[a].source = actions[a].source
  /\ actions'[a].code = actions[a].code /\ actions'[a].legacy = actions[a].legacy
  /\ actions'[a].review = review

LEMMA MovesIntro ==
  ASSUME TypeOK, NEW t \in DOMAIN tasks, NEW status,
         tasks' = [tasks EXCEPT ![t].status = status, ![t].revision = @ + 1]
  PROVE  Moves(t, status)
<1>1. tasks \in [DOMAIN tasks -> Task]
  BY DEF TypeOK
<1>2. QED BY <1>1 DEF Moves, Task

LEMMA AssigningEffect ==
  ASSUME TypeOK, Assigning
  PROVE  \E a \in ActionIds \ DOMAIN actions, t \in DOMAIN tasks, c \in Codes,
            status \in {"pending_action", "pending_review"} :
           /\ Assignable(t, c, ActiveInspection(t), tasks[t].revision)
           /\ DOMAIN actions' = DOMAIN actions \cup {a}
           /\ \A b \in DOMAIN actions : actions'[b] = actions[b]
           /\ actions'[a].task = t /\ actions'[a].code = c
           /\ actions'[a].source = ActiveInspection(t)
           /\ actions'[a].review = "pending_submission"
           /\ Moves(t, status) /\ inspections' = inspections
<1>1. PICK a \in ActionIds \ DOMAIN actions, t \in DOMAIN tasks, c \in Codes,
           legacy \in BOOLEAN, k \in Keys, f \in Fingerprints :
        CreateActionAtomic(a, t, c, ActiveInspection(t), legacy, tasks[t].revision, k, f)
  BY DEF Assigning
<1> DEFINE source == ActiveInspection(t)
           new == [task |-> t, source |-> source, code |-> c, legacy |-> legacy,
                   review |-> "pending_submission", evidenceComplete |-> FALSE,
                   revision |-> 1, submissions |-> <<>>, reviews |-> <<>>]
           covered == \A d \in inspections[source].anomalies : d = c \/ AnomalyCovered(d, t)
           status == IF covered THEN "pending_review" ELSE tasks[t].status
<1>2. /\ Assignable(t, c, source, tasks[t].revision)
      /\ actions' = Put(actions, a, new)
      /\ tasks' = [tasks EXCEPT ![t].status = IF covered THEN "pending_review" ELSE @,
                                ![t].revision = @ + 1]
      /\ inspections' = inspections
  BY <1>1 DEF CreateActionAtomic
<1> HIDE DEF covered, source
<1>3. tasks' = [tasks EXCEPT ![t].status = status, ![t].revision = @ + 1]
  BY <1>2
<1>4. status \in {"pending_action", "pending_review"}
  BY <1>2 DEF Assignable
<1> HIDE DEF status
<1>5. Moves(t, status)
  BY <1>3, MovesIntro
<1>6. /\ DOMAIN actions' = DOMAIN actions \cup {a}
      /\ \A b \in DOMAIN actions : actions'[b] = actions[b]
      /\ actions'[a].task = t /\ actions'[a].code = c
      /\ actions'[a].source = source
      /\ actions'[a].review = "pending_submission"
  BY <1>2 DEF Put
<1>7. QED BY <1>2, <1>4, <1>5, <1>6 DEF source

LEMMA SubmittingEffect ==
  ASSUME TypeOK, ActionsHaveTasks, Submitting
  PROVE  \E a \in DOMAIN actions :
           /\ actions[a].review # "approved"
           /\ ActionMoves(a, "pending_review")
           /\ Moves(actions[a].task, tasks[actions[a].task].status)
           /\ inspections' = inspections
<1>1. PICK a \in DOMAIN actions, k \in Keys \cup {NoKey}, f \in Fingerprints :
        SubmitActionAtomic(a, Len(actions[a].submissions) + 1,
                           Revisions(a)[1], Revisions(a)[2], k, f)
  BY DEF Submitting
<1> DEFINE t == actions[a].task
           subs == Append(actions[a].submissions, Len(actions[a].submissions) + 1)
<1>2. /\ actions[a].review # "approved"
      /\ actions' = [actions EXCEPT ![a].submissions = subs,
                                    ![a].review = "pending_review",
                                    ![a].evidenceComplete = FALSE,
                                    ![a].revision = @ + 1]
      /\ tasks' = [tasks EXCEPT ![t].revision = @ + 1]
      /\ inspections' = inspections
  BY <1>1 DEF SubmitActionAtomic, Submittable
<1> HIDE DEF subs
<1>3. /\ t \in DOMAIN tasks /\ actions \in [DOMAIN actions -> Action]
      /\ tasks \in [DOMAIN tasks -> Task]
  BY DEF ActionsHaveTasks, TypeOK
<1>4. ActionMoves(a, "pending_review")
  BY <1>2, <1>3 DEF ActionMoves, Action
<1>5. Moves(t, tasks[t].status)
  BY <1>2, <1>3 DEF Moves, Task
<1>6. QED BY <1>2, <1>4, <1>5

LEMMA DecidingEffect ==
  ASSUME TypeOK, ActionsHaveTasks, Deciding
  PROVE  \E a \in DOMAIN actions, decision \in {"approved", "rejected"} :
           /\ actions[a].review = "pending_review"
           /\ ActionMoves(a, decision)
           /\ Moves(actions[a].task,
                    IF /\ decision = "approved" /\ OthersApproved(a)
                       /\ FullyCovered(actions[a].task)
                    THEN "reviewed" ELSE "pending_review")
           /\ inspections' = inspections
<1>1. PICK a \in DOMAIN actions, decision \in {"approved", "rejected"} :
        ReviewActionAtomic(a, [submission |-> Last(actions[a].submissions),
                               decision |-> decision], Revisions(a)[1], Revisions(a)[2])
  BY DEF Deciding
<1> DEFINE t == actions[a].task
           revs == Append(actions[a].reviews, [submission |-> Last(actions[a].submissions),
                                               decision |-> decision])
           done == decision = "approved" /\ OthersApproved(a) /\ FullyCovered(t)
           status == IF done THEN "reviewed" ELSE "pending_review"
<1>2. /\ actions[a].review = "pending_review"
      /\ actions' = [actions EXCEPT ![a].reviews = revs,
                                    ![a].evidenceComplete = (decision = "approved"),
                                    ![a].review = decision,
                                    ![a].revision = @ + 1]
      /\ tasks' = [tasks EXCEPT ![t].status = status, ![t].revision = @ + 1]
      /\ inspections' = inspections
  BY <1>1 DEF ReviewActionAtomic, Reviewable
<1> HIDE DEF revs, status
<1>3. t \in DOMAIN tasks /\ actions \in [DOMAIN actions -> Action]
  BY DEF ActionsHaveTasks, TypeOK
<1>4. ActionMoves(a, decision)
  BY <1>2, <1>3 DEF ActionMoves, Action
<1>5. Moves(t, status)
  BY <1>2, <1>3, MovesIntro
<1>6. QED BY <1>2, <1>4, <1>5 DEF status

LEMMA CompletingEffect ==
  ASSUME TypeOK, ActionsHaveTasks, Completing
  PROVE  \E a \in DOMAIN actions :
           /\ actions[a].review # "approved"
           /\ ActionMoves(a, "approved")
           /\ Moves(actions[a].task,
                    IF OthersApproved(a) /\ (actions[a].legacy \/ FullyCovered(actions[a].task))
                    THEN "reviewed" ELSE tasks[actions[a].task].status)
           /\ inspections' = inspections
<1>1. PICK a \in DOMAIN actions, version \in Int : CompleteAndApproveActionAtomic(a, version)
  BY DEF Completing
<1> DEFINE t == actions[a].task
           subs == Append(actions[a].submissions, version)
           revs == Append(actions[a].reviews, [submission |-> version,
                                               decision |-> "approved"])
           done == OthersApproved(a) /\ (actions[a].legacy \/ FullyCovered(t))
           status == IF done THEN "reviewed" ELSE tasks[t].status
<1>2. /\ actions[a].review # "approved"
      /\ actions' = [actions EXCEPT ![a].submissions = subs,
                                    ![a].reviews = revs,
                                    ![a].evidenceComplete = TRUE,
                                    ![a].review = "approved",
                                    ![a].revision = @ + 1]
      /\ tasks' = [tasks EXCEPT ![t].status = IF done THEN "reviewed" ELSE @,
                                ![t].revision = @ + 1]
      /\ inspections' = inspections
  BY <1>1 DEF CompleteAndApproveActionAtomic
<1> HIDE DEF subs, revs, done
<1>3. t \in DOMAIN tasks /\ actions \in [DOMAIN actions -> Action]
  BY DEF ActionsHaveTasks, TypeOK
<1>4. ActionMoves(a, "approved")
  BY <1>2, <1>3 DEF ActionMoves, Action
<1>5. tasks' = [tasks EXCEPT ![t].status = status, ![t].revision = @ + 1]
  BY <1>2
<1> HIDE DEF status
<1>6. Moves(t, status)
  BY <1>3, <1>5, MovesIntro
<1>7. QED BY <1>2, <1>4, <1>6 DEF status, done

LEMMA ClosingEffect ==
  ASSUME TypeOK, Closing
  PROVE  \E t \in DOMAIN tasks :
           /\ tasks[t].status = "reviewed" /\ Moves(t, "closed")
           /\ inspections' = inspections /\ actions' = actions
BY MovesIntro DEF Closing, CloseTaskAtomic, Closable

\* The other sections move a task without touching its inspections.
LEMMA ChainStep == Linked /\ [Next]_vars => Chain'
<1> SUFFICES ASSUME Linked, [Next]_vars PROVE Chain'
  OBVIOUS
<1>1. Chain /\ ActionsHaveTasks
  BY DEF Linked, ActionsMatchInspection, ActionsHaveTasks
<1>2. TypeOK' /\ tasks \in [DOMAIN tasks -> Task]
  BY <1>1, TypeStep DEF Chain, TypeOK
<1>3. SUFFICES InspectionChain' /\ CurrentIsStored'
  BY <1>2 DEF Chain
<1> DEFINE Kept == /\ inspections' = inspections /\ DOMAIN tasks' = DOMAIN tasks
                   /\ \A u \in DOMAIN tasks : tasks'[u].current = tasks[u].current
<1>4. Kept => InspectionChain' /\ CurrentIsStored'
  BY <1>1, ChainFrame DEF Chain
<1>5. CASE UNCHANGED vars
  BY <1>4, <1>5 DEF vars
<1>6. CASE Registering
  BY <1>4, <1>6 DEF Registering, AddArtifact
<1>7. ASSUME NEW t, NEW status, Moves(t, status), inspections' = inspections
      PROVE  InspectionChain' /\ CurrentIsStored'
  BY <1>4, <1>7 DEF Moves
<1>8. CASE Assigning
  BY <1>1, <1>7, <1>8, AssigningEffect DEF Chain
<1>9. CASE Submitting
  BY <1>1, <1>7, <1>9, SubmittingEffect DEF Chain
<1>10. CASE Deciding \/ Completing
  BY <1>1, <1>7, <1>10, DecidingEffect, CompletingEffect DEF Chain
<1>11. CASE Closing
  BY <1>1, <1>7, <1>11, ClosingEffect DEF Chain
<1>12. CASE Next
  BY <1>1, <1>6, <1>7, <1>8, <1>9, <1>10, <1>11, <1>12, NextIsOneSection,
     CreatingChain, RecordingChain, CorrectingChain DEF Chain
<1>13. QED BY <1>5, <1>12

(***************************************************************************)
(* Every action keeps addressing an anomaly of the current inspection.     *)
(***************************************************************************)
\* The inspection an action addresses is stored, and is the active one of its task.
LEMMA SourceIsStored ==
  ASSUME Linked, NEW a \in DOMAIN actions
  PROVE  /\ actions[a].source \in DOMAIN inspections
         /\ actions[a].task \in DOMAIN tasks
         /\ tasks[actions[a].task].current = actions[a].source
         /\ actions[a].source # NoInspection
<1>1. actions[a] \in Action
  BY DEF Linked, Chain, TypeOK
<1>2. actions[a].source # NoInspection
  BY <1>1, NoInspectionAssumption DEF Action
<1>3. /\ actions[a].task \in DOMAIN tasks
      /\ tasks[actions[a].task].current = actions[a].source
  BY DEF Linked, ActionsMatchInspection
<1>4. tasks[actions[a].task].current \in InspectionsOf(actions[a].task)
  BY <1>2, <1>3 DEF Linked, Chain, CurrentIsStored
<1>5. QED BY <1>2, <1>3, <1>4 DEF InspectionsOf

\* Actions, and the inspections they refer to, are only ever extended.
LEMMA LinkFrame ==
  ASSUME Linked, Chain', DOMAIN actions' = DOMAIN actions,
         \A a \in DOMAIN actions : /\ actions'[a].task = actions[a].task
                                   /\ actions'[a].source = actions[a].source
                                   /\ actions'[a].code = actions[a].code,
         DOMAIN tasks \subseteq DOMAIN tasks',
         \A a \in DOMAIN actions :
           /\ tasks'[actions[a].task].current = tasks[actions[a].task].current
           /\ inspections'[actions[a].source].anomalies
                = inspections[actions[a].source].anomalies
  PROVE  ActionsMatchInspection'
BY DEF Linked, ActionsMatchInspection

\* A section that stores or supersedes an inspection acts on a task without actions.
LEMMA InspectingLinks ==
  ASSUME Linked, Recording \/ Correcting
  PROVE  \E t \in DOMAIN tasks :
           /\ ActionsOf(t) = {} /\ actions' = actions
           /\ DOMAIN tasks' = DOMAIN tasks
           /\ \A u \in DOMAIN tasks \ {t} : tasks'[u] = tasks[u]
           /\ \A i \in DOMAIN inspections :
                /\ i \in DOMAIN inspections'
                /\ inspections'[i].anomalies = inspections[i].anomalies
           /\ tasks[t].status \notin {"reviewed", "closed"}
           /\ tasks'[t].plan = tasks[t].plan /\ tasks'[t].status = "pending_action"
<1>1. /\ tasks \in [DOMAIN tasks -> Task] /\ Chain
      /\ inspections \in [DOMAIN inspections -> InspectionEntry]
  BY DEF Linked, Chain, TypeOK
<1>2. CASE Recording
  <2>1. PICK i \in InspectionIds \ DOMAIN inspections, t \in DOMAIN tasks,
             anomalies \in Outcomes, k \in Keys, f \in Fingerprints :
          RecordFirstInspection(i, t, anomalies, tasks[t].revision, k, f)
    BY <1>2 DEF Recording
  <2>2. /\ tasks[t].current = NoInspection /\ tasks[t].status = "pending_inspection"
        /\ tasks' = [tasks EXCEPT ![t].current = i, ![t].status = "pending_action",
                                  ![t].revision = @ + 1]
        /\ actions' = actions
    BY <2>1 DEF RecordFirstInspection, AdoptInspection
  <2>3. ActionsOf(t) = {}
    BY <2>2, NoInspectionAssumption
    DEF Linked, Chain, TypeOK, ActionsMatchInspection, ActionsOf, Action
  <2>4. \A j \in DOMAIN inspections : /\ j \in DOMAIN inspections'
                                      /\ inspections'[j] = inspections[j]
    BY <2>1 DEF RecordFirstInspection, Put
  <2>5. /\ DOMAIN tasks' = DOMAIN tasks
        /\ \A u \in DOMAIN tasks \ {t} : tasks'[u] = tasks[u]
        /\ tasks'[t].plan = tasks[t].plan /\ tasks'[t].status = "pending_action"
    BY <1>1, <2>2 DEF Task
  <2>6. QED BY <2>2, <2>3, <2>4, <2>5
<1>3. CASE Correcting
  <2>1. PICK i \in InspectionIds \ DOMAIN inspections, t \in DOMAIN tasks,
             anomalies \in Outcomes, k \in Keys, f \in Fingerprints :
          CorrectInspection(i, t, anomalies, ActiveInspection(t), tasks[t].revision, k, f)
    BY <1>3 DEF Correcting
  <2> DEFINE old == ActiveInspection(t)
  <2>2. /\ ActionsOf(t) = {} /\ tasks[t].status \notin {"reviewed", "closed"}
        /\ tasks' = [tasks EXCEPT ![t].current = i, ![t].status = "pending_action",
                                  ![t].revision = @ + 1]
        /\ actions' = actions
    BY <2>1 DEF CorrectInspection, AdoptInspection, Inspectable
  <2>3. old \in DOMAIN inspections
    BY <2>1, ActiveFacts DEF CorrectInspection
  <2>4. \A j \in DOMAIN inspections :
          /\ j \in DOMAIN inspections'
          /\ inspections'[j] = IF j = old
                               THEN [inspections[old] EXCEPT !.active = FALSE,
                                                             !.supersededBy = i]
                               ELSE inspections[j]
    BY <2>1, <2>3 DEF CorrectInspection, Put, Supersede
  <2> HIDE DEF old
  <2>5. \A j \in DOMAIN inspections : inspections'[j].anomalies = inspections[j].anomalies
    BY <1>1, <2>3, <2>4 DEF InspectionEntry
  <2>6. /\ DOMAIN tasks' = DOMAIN tasks
        /\ \A u \in DOMAIN tasks \ {t} : tasks'[u] = tasks[u]
        /\ tasks'[t].plan = tasks[t].plan /\ tasks'[t].status = "pending_action"
    BY <1>1, <2>2 DEF Task
  <2>7. QED BY <2>2, <2>4, <2>5, <2>6
<1>4. QED BY <1>2, <1>3

LEMMA AssigningLinks == Linked /\ Chain' /\ Assigning => ActionsMatchInspection'
<1> SUFFICES ASSUME Linked, Chain', Assigning PROVE ActionsMatchInspection'
  OBVIOUS
<1>1. TypeOK /\ Chain
  BY DEF Linked, Chain
<1>2. PICK a \in ActionIds \ DOMAIN actions, t \in DOMAIN tasks, c \in Codes,
           status \in {"pending_action", "pending_review"} :
           /\ Assignable(t, c, ActiveInspection(t), tasks[t].revision)
           /\ DOMAIN actions' = DOMAIN actions \cup {a}
           /\ \A b \in DOMAIN actions : actions'[b] = actions[b]
           /\ actions'[a].task = t /\ actions'[a].code = c
           /\ actions'[a].source = ActiveInspection(t)
           /\ Moves(t, status) /\ inspections' = inspections
  BY <1>1, AssigningEffect
<1>3. ActiveInspection(t) = tasks[t].current
  BY <1>1, ActiveIsCurrent
<1>4. /\ \A b \in DOMAIN actions : actions[b].task = t => actions[b].code # c
      /\ c \in inspections[tasks[t].current].anomalies
  BY <1>2, <1>3 DEF Assignable, AnomalyCovered, ActionsOf
<1>5. DOMAIN tasks' = DOMAIN tasks /\ \A u \in DOMAIN tasks : tasks'[u].current = tasks[u].current
  BY <1>2 DEF Moves
<1>6. QED BY <1>2, <1>3, <1>4, <1>5 DEF Linked, ActionsMatchInspection

\* No section leaves an action without its anomaly, or with a rival for it.
LEMMA LinkStep == Linked /\ [Next]_vars => Linked'
<1> SUFFICES ASSUME Linked, [Next]_vars PROVE Linked'
  OBVIOUS
<1>1. Chain' /\ Chain /\ TypeOK /\ ActionsHaveTasks
  BY ChainStep DEF Linked, Chain, ActionsMatchInspection, ActionsHaveTasks
<1>2. SUFFICES ActionsMatchInspection'
  BY <1>1 DEF Linked
<1>3. CASE UNCHANGED vars \/ Registering
  BY <1>1, <1>3, LinkFrame DEF vars, Registering, AddArtifact
<1>4. CASE Creating
  <2>1. /\ actions' = actions /\ inspections' = inspections
        /\ DOMAIN tasks \subseteq DOMAIN tasks'
        /\ \A u \in DOMAIN tasks : tasks'[u] = tasks[u]
    BY <1>4 DEF Creating, CreateTaskAtomic, Put
  <2>2. QED BY <1>1, <2>1, LinkFrame DEF ActionsHaveTasks
<1>5. CASE Recording \/ Correcting
  <2>1. \A a \in DOMAIN actions : actions[a].source \in DOMAIN inspections
    BY SourceIsStored
  <2>2. QED BY <1>1, <1>5, <2>1, InspectingLinks, LinkFrame DEF ActionsOf, ActionsHaveTasks
<1>6. CASE Assigning
  BY <1>1, <1>6, AssigningLinks
<1>7. ASSUME NEW t, NEW status, NEW a, NEW review, ActionMoves(a, review), Moves(t, status),
             inspections' = inspections
      PROVE  ActionsMatchInspection'
  BY <1>1, <1>7, LinkFrame DEF ActionMoves, Moves, ActionsHaveTasks
<1>8. CASE Submitting \/ Deciding \/ Completing
  BY <1>1, <1>7, <1>8, SubmittingEffect, DecidingEffect, CompletingEffect
<1>9. CASE Closing
  <2>1. PICK t \in DOMAIN tasks : /\ Moves(t, "closed") /\ inspections' = inspections
                                  /\ actions' = actions
    BY <1>1, <1>9, ClosingEffect
  <2>2. QED BY <1>1, <2>1, LinkFrame DEF Moves, ActionsHaveTasks
<1>10. QED BY <1>1, <1>3, <1>4, <1>5, <1>6, <1>8, <1>9, NextIsOneSection

(***************************************************************************)
(* The review stage is earned, and stays earned.                           *)
(***************************************************************************)
Earned(t) ==
  /\ ActionsOf(t) # {}
  /\ \A a \in ActionsOf(t) : actions[a].review = "approved"
  /\ FullyCovered(t) \/ \E a \in ActionsOf(t) : actions[a].legacy

\* The actions of t, what they stand for, and its current inspection are kept.
KeepsCover(t) ==
  /\ DOMAIN tasks \subseteq DOMAIN tasks' /\ tasks'[t].current = tasks[t].current
  /\ ActionsOf(t)' = ActionsOf(t)
  /\ \A a \in ActionsOf(t) : /\ actions'[a].code = actions[a].code
                             /\ actions'[a].legacy = actions[a].legacy
  /\ \A i \in DOMAIN inspections : /\ i \in DOMAIN inspections'
                                   /\ inspections'[i].anomalies = inspections[i].anomalies

\* Full coverage read off the current inspection.
CoverIsCurrent ==
  \A t \in DOMAIN tasks :
    FullyCovered(t) <=>
      /\ tasks[t].current # NoInspection
      /\ \A c \in inspections[tasks[t].current].anomalies :
           \E a \in ActionsOf(t) : actions[a].code = c

LEMMA CoveredByCurrent == Chain => CoverIsCurrent
<1> SUFFICES ASSUME Chain, NEW t \in DOMAIN tasks PROVE CoverIsCurrent!(t)
  BY DEF CoverIsCurrent
<1>1. ActiveInspection(t) = tasks[t].current
  BY ActiveIsCurrent
<1>2. QED BY <1>1 DEF FullyCovered, AllAnomaliesCovered, AnomalyCovered

LEMMA CoverKept ==
  ASSUME Chain, Chain', NEW t \in DOMAIN tasks, KeepsCover(t), FullyCovered(t)
  PROVE  FullyCovered(t)'
<1>1. Chain' => CoverIsCurrent'
  BY CoveredByCurrent, PTL
<1>2. /\ tasks[t].current # NoInspection
      /\ \A c \in inspections[tasks[t].current].anomalies :
           \E a \in ActionsOf(t) : actions[a].code = c
  BY CoveredByCurrent DEF CoverIsCurrent
<1>3. tasks[t].current \in DOMAIN inspections
  BY <1>2 DEF Chain, CurrentIsStored, InspectionsOf
<1>4. QED BY <1>1, <1>2, <1>3 DEF KeepsCover, CoverIsCurrent

LEMMA EarnedKept ==
  ASSUME Chain, Chain', NEW t \in DOMAIN tasks, KeepsCover(t), Earned(t),
         \A a \in ActionsOf(t) : actions'[a].review = actions[a].review
  PROVE  Earned(t)'
BY CoverKept DEF Earned, KeepsCover

\* An action awaiting work belongs to a task that is not past review.
LEMMA UnapprovedIsOpen ==
  ASSUME Linked, ReviewedIsEarned, NEW a \in DOMAIN actions,
         actions[a].review # "approved"
  PROVE  /\ actions[a].task \in DOMAIN tasks
         /\ tasks[actions[a].task].status \notin {"reviewed", "closed"}
BY SourceIsStored DEF ReviewedIsEarned, ActionsOf

\* A section that moves an action and its task keeps the cover of every task.
LEMMA MovesKeepCover ==
  ASSUME Linked, NEW a \in DOMAIN actions, NEW review, NEW status,
         ActionMoves(a, review), Moves(actions[a].task, status),
         inspections' = inspections, NEW t \in DOMAIN tasks
  PROVE  KeepsCover(t)
<1>1. actions[a].task \in DOMAIN tasks
  BY SourceIsStored
<1>2. /\ DOMAIN actions' = DOMAIN actions
      /\ \A b \in DOMAIN actions : /\ actions'[b].task = actions[b].task
                                   /\ actions'[b].code = actions[b].code
                                   /\ actions'[b].legacy = actions[b].legacy
  BY DEF ActionMoves
<1>3. ActionsOf(t)' = ActionsOf(t)
  BY <1>2 DEF ActionsOf
<1>4. /\ DOMAIN tasks' = DOMAIN tasks /\ tasks'[t].current = tasks[t].current
  BY <1>1 DEF Moves
<1>5. QED BY <1>2, <1>3, <1>4 DEF KeepsCover, ActionsOf

\* An action under work may take its task to the reviewed stage only by earning it.
LEMMA EarnedByDecision ==
  ASSUME Linked, Linked', ReviewedIsEarned, NEW a \in DOMAIN actions, NEW review,
         NEW status, actions[a].review # "approved", ActionMoves(a, review),
         Moves(actions[a].task, status), inspections' = inspections,
         \/ status = tasks[actions[a].task].status
         \/ status = "pending_review"
         \/ /\ status = "reviewed" /\ review = "approved" /\ OthersApproved(a)
            /\ actions[a].legacy \/ FullyCovered(actions[a].task)
  PROVE  ReviewedIsEarned'
<1>1. PICK t \in DOMAIN tasks : /\ t = actions[a].task
                                /\ tasks[t].status \notin {"reviewed", "closed"}
  BY UnapprovedIsOpen
<1>2. Chain /\ Chain'
  BY DEF Linked
<1>3. DOMAIN tasks' = DOMAIN tasks /\ tasks'[t].status = status
      /\ \A u \in DOMAIN tasks \ {t} : tasks'[u] = tasks[u]
  BY <1>1 DEF Moves
<1>4. \A u \in DOMAIN tasks : KeepsCover(u)
  BY MovesKeepCover
<1>5. SUFFICES ASSUME NEW u \in DOMAIN tasks, tasks'[u].status \in {"reviewed", "closed"}
               PROVE  Earned(u)'
  BY <1>3 DEF ReviewedIsEarned, Earned
<1>6. CASE u # t
  <2>1. Earned(u)
    BY <1>3, <1>5, <1>6 DEF ReviewedIsEarned, Earned
  <2>2. \A b \in ActionsOf(u) : actions'[b] = actions[b]
    BY <1>1, <1>6 DEF ActionsOf, ActionMoves
  <2>3. QED BY <1>2, <1>4, <2>1, <2>2, EarnedKept
<1>7. CASE u = t
  <2>1. /\ review = "approved" /\ OthersApproved(a)
        /\ actions[a].legacy \/ FullyCovered(t)
    BY <1>1, <1>3, <1>5, <1>7
  <2>2. a \in ActionsOf(t) /\ ActionsOf(t)' = ActionsOf(t)
    BY <1>1, <1>4 DEF ActionsOf, KeepsCover
  <2>3. \A b \in ActionsOf(t) : actions'[b].review = "approved"
    BY <1>1, <2>1 DEF OthersApproved, ActionMoves, ActionsOf
  <2>4. actions'[a].legacy = actions[a].legacy
    BY DEF ActionMoves
  <2>5. FullyCovered(t) => FullyCovered(t)'
    BY <1>1, <1>2, <1>4, CoverKept
  <2>6. QED BY <1>7, <2>1, <2>2, <2>3, <2>4, <2>5 DEF Earned
<1>8. QED BY <1>6, <1>7

\* No section moves a task past review without what it takes, or takes it away later.
LEMMA EarnedStep ==
  Linked /\ ReviewedIsEarned /\ [Next]_vars => ReviewedIsEarned'
<1> SUFFICES ASSUME Linked, ReviewedIsEarned, [Next]_vars PROVE ReviewedIsEarned'
  OBVIOUS
<1>1. Linked' /\ Chain /\ Chain' /\ TypeOK /\ ActionsHaveTasks
  BY LinkStep DEF Linked, Chain, ActionsMatchInspection, ActionsHaveTasks
<1>2. ASSUME NEW u \in DOMAIN tasks, Earned(u), KeepsCover(u),
             \A a \in ActionsOf(u) : actions'[a].review = actions[a].review
      PROVE  Earned(u)'
  BY <1>1, <1>2, EarnedKept
<1>3. CASE UNCHANGED vars \/ Registering
  <2>1. UNCHANGED <<tasks, inspections, actions>>
    BY <1>3 DEF vars, Registering, AddArtifact
  <2>2. \A u \in DOMAIN tasks : KeepsCover(u)
    BY <2>1 DEF KeepsCover, ActionsOf
  <2>3. QED BY <1>2, <2>1, <2>2 DEF ReviewedIsEarned, Earned
<1>4. CASE Creating
  <2>1. PICK t \in TaskIds \ DOMAIN tasks : 
          /\ DOMAIN tasks' = DOMAIN tasks \cup {t}
          /\ tasks'[t].status = "pending_inspection"
          /\ \A u \in DOMAIN tasks : tasks'[u] = tasks[u]
          /\ UNCHANGED <<inspections, actions>>
    BY <1>4 DEF Creating, CreateTaskAtomic, Put
  <2>2. \A u \in DOMAIN tasks : KeepsCover(u)
    BY <2>1 DEF KeepsCover, ActionsOf
  <2>3. QED BY <1>2, <2>1, <2>2 DEF ReviewedIsEarned, Earned
<1>5. CASE Recording \/ Correcting
  <2>1. PICK t \in DOMAIN tasks :
           /\ actions' = actions /\ DOMAIN tasks' = DOMAIN tasks
           /\ \A u \in DOMAIN tasks \ {t} : tasks'[u] = tasks[u]
           /\ \A i \in DOMAIN inspections :
                /\ i \in DOMAIN inspections'
                /\ inspections'[i].anomalies = inspections[i].anomalies
           /\ tasks'[t].status = "pending_action"
    BY <1>5, InspectingLinks
  <2>2. \A u \in DOMAIN tasks \ {t} : KeepsCover(u)
    BY <2>1 DEF KeepsCover, ActionsOf
  <2>3. QED BY <1>2, <2>1, <2>2 DEF ReviewedIsEarned, Earned
<1>6. CASE Assigning
  <2>1. PICK a \in ActionIds \ DOMAIN actions, t \in DOMAIN tasks, c \in Codes,
             status \in {"pending_action", "pending_review"} :
           /\ DOMAIN actions' = DOMAIN actions \cup {a} /\ actions'[a].task = t
           /\ \A b \in DOMAIN actions : actions'[b] = actions[b]
           /\ Moves(t, status) /\ inspections' = inspections
    BY <1>1, <1>6, AssigningEffect
  <2>2. /\ DOMAIN tasks' = DOMAIN tasks /\ tasks'[t].status = status
        /\ \A u \in DOMAIN tasks \ {t} : tasks'[u] = tasks[u]
    BY <2>1 DEF Moves
  <2>3. \A u \in DOMAIN tasks \ {t} : KeepsCover(u)
    BY <2>1, <2>2 DEF KeepsCover, ActionsOf
  <2>4. \A u \in DOMAIN tasks \ {t} : \A b \in ActionsOf(u) : actions'[b] = actions[b]
    BY <2>1 DEF ActionsOf
  <2>5. QED BY <1>2, <2>1, <2>2, <2>3, <2>4 DEF ReviewedIsEarned, Earned
<1>7. CASE Submitting
  BY <1>1, <1>7, SubmittingEffect, EarnedByDecision
<1>8. CASE Deciding
  BY <1>1, <1>8, DecidingEffect, EarnedByDecision
<1>9. CASE Completing
  BY <1>1, <1>9, CompletingEffect, EarnedByDecision
<1>10. CASE Closing
  <2>1. PICK t \in DOMAIN tasks : /\ tasks[t].status = "reviewed" /\ Moves(t, "closed")
                                  /\ inspections' = inspections /\ actions' = actions
    BY <1>1, <1>10, ClosingEffect
  <2>2. \A u \in DOMAIN tasks : KeepsCover(u)
    BY <2>1 DEF Moves, KeepsCover, ActionsOf
  <2>3. \A u \in DOMAIN tasks : tasks'[u].status \in {"reviewed", "closed"} => Earned(u)
    BY <2>1 DEF Moves, ReviewedIsEarned, Earned
  <2>4. QED BY <1>2, <2>1, <2>2, <2>3 DEF Moves, ReviewedIsEarned, Earned
<1>11. QED BY <1>1, <1>3, <1>4, <1>5, <1>6, <1>7, <1>8, <1>9, <1>10, NextIsOneSection

(***************************************************************************)
(* The schedule stays exclusive.                                           *)
(***************************************************************************)
LEMMA ScheduleFrame ==
  ASSUME ScheduleExclusive, DOMAIN tasks' = DOMAIN tasks,
         \A u \in DOMAIN tasks : /\ tasks'[u].plan = tasks[u].plan
                                 /\ tasks[u].status = "closed" => tasks'[u].status = "closed"
  PROVE  ScheduleExclusive'
BY DEF ScheduleExclusive

LEMMA CreatingSchedule ==
  ASSUME ScheduleExclusive, Creating
  PROVE  ScheduleExclusive'
<1>1. PICK t \in TaskIds \ DOMAIN tasks, p \in Plans :
        /\ ScheduleFree(p)
        /\ DOMAIN tasks' = DOMAIN tasks \cup {t} /\ tasks'[t].plan = p
        /\ \A u \in DOMAIN tasks : tasks'[u] = tasks[u]
  BY DEF Creating, CreateTaskAtomic, Put
<1>2. \A u \in DOMAIN tasks :
        tasks[u].status # "closed" => ~Clash(p, tasks[u].plan) /\ ~Clash(tasks[u].plan, p)
  BY <1>1 DEF ScheduleFree, Clash, Overlap
<1>3. QED BY <1>1, <1>2 DEF ScheduleExclusive

\* A task changes neither its plan nor, once it is closed, its status.
LEMMA ClosedStaysClosed ==
  ASSUME Linked, ReviewedIsEarned, [Next]_vars, ~Creating
  PROVE  /\ DOMAIN tasks' = DOMAIN tasks
         /\ \A u \in DOMAIN tasks : /\ tasks'[u].plan = tasks[u].plan
                                    /\ tasks[u].status = "closed" => tasks'[u].status = "closed"
<1> DEFINE Goal == /\ DOMAIN tasks' = DOMAIN tasks
                   /\ \A u \in DOMAIN tasks :
                        /\ tasks'[u].plan = tasks[u].plan
                        /\ tasks[u].status = "closed" => tasks'[u].status = "closed"
<1>1. TypeOK /\ ActionsHaveTasks
  BY DEF Linked, Chain, ActionsMatchInspection, ActionsHaveTasks
<1>2. CASE UNCHANGED vars \/ Registering
  BY <1>2 DEF vars, Registering, AddArtifact
<1>3. CASE Recording \/ Correcting
  BY <1>3, InspectingLinks
<1>4. ASSUME NEW t, NEW status, Moves(t, status), tasks[t].status # "closed" \/ status = "closed"
      PROVE  Goal
  BY <1>4 DEF Moves
<1>5. CASE Assigning
  BY <1>1, <1>4, <1>5, AssigningEffect DEF Assignable
<1>6. CASE Submitting \/ Deciding \/ Completing
  <2>1. PICK a \in DOMAIN actions : /\ actions[a].review # "approved"
                                    /\ \E status : Moves(actions[a].task, status)
    BY <1>1, <1>6, SubmittingEffect, DecidingEffect, CompletingEffect
  <2>2. QED BY <1>4, <2>1, UnapprovedIsOpen
<1>7. CASE Closing
  BY <1>1, <1>4, <1>7, ClosingEffect
<1>8. QED BY <1>1, <1>2, <1>3, <1>5, <1>6, <1>7, NextIsOneSection

LEMMA ScheduleStep ==
  Linked /\ ReviewedIsEarned /\ ScheduleExclusive /\ [Next]_vars => ScheduleExclusive'
BY CreatingSchedule, ClosedStaysClosed, ScheduleFrame

(***************************************************************************)
(* The inductive invariant and what follows from it.                       *)
(***************************************************************************)
LEMMA InitIInv == Init => IInv
<1> SUFFICES ASSUME Init PROVE IInv
  OBVIOUS
<1>1. TypeOK
  BY TypeInit
<1>2. DOMAIN tasks = {} /\ DOMAIN inspections = {} /\ DOMAIN actions = {}
  BY DEF Init
<1>3. InspectionChain /\ CurrentIsStored /\ ActionsMatchInspection
  BY <1>2 DEF InspectionChain, CurrentIsStored, ActionsMatchInspection
<1>4. ReviewedIsEarned /\ ScheduleExclusive
  BY <1>2 DEF ReviewedIsEarned, ScheduleExclusive
<1>5. QED BY <1>1, <1>3, <1>4 DEF IInv, Linked, Chain

LEMMA IInvStep == IInv /\ [Next]_vars => IInv'
BY LinkStep, EarnedStep, ScheduleStep DEF IInv

\* The whole invariant holds in every reachable state, whatever the constants.
THEOREM Invariance == Spec => []IInv
BY InitIInv, IInvStep, PTL DEF Spec

\* The maps of the store only ever hold well-formed records: every locked section of
\* storage/workflow.go writes records of the types of domain/types.go.
THEOREM TypeCorrect == Spec => []TypeOK
<1>1. IInv => TypeOK
  BY DEF IInv, Linked, Chain
<1>2. QED BY <1>1, Invariance, PTL

\* However creations and closings interleave, no two open tasks hold overlapping windows
\* for one artifact or one owner (the conflict check of CreateTaskAtomic).
THEOREM ScheduleIsExclusive == Spec => []ScheduleExclusive
<1>1. IInv => ScheduleExclusive
  BY DEF IInv
<1>2. QED BY <1>1, Invariance, PTL

\* The inspections of a task always form one chain whose end is the current, only active
\* entry (the two branches of RecordInspectionAtomic).
THEOREM InspectionsFormChain == Spec => []InspectionChain
<1>1. IInv => InspectionChain
  BY DEF IInv, Linked, Chain
<1>2. QED BY <1>1, Invariance, PTL

\* An action always addresses an anomaly of the current inspection of its task, and is the
\* only one to (the checks of CreateActionAtomic, and the refusal of RecordInspectionAtomic
\* to correct an inspection that has actions).
THEOREM ActionsFollowInspection == Spec => []ActionsMatchInspection
<1>1. IInv => ActionsMatchInspection
  BY DEF IInv, Linked
<1>2. QED BY <1>1, Invariance, PTL

\* A task is reviewed or closed only with all its actions approved and every anomaly
\* covered, or in the old combined form (ReviewActionAtomic,
\* CompleteAndApproveActionAtomic, CloseTaskAtomic).
THEOREM ReviewIsEarned == Spec => []ReviewedIsEarned
<1>1. IInv => ReviewedIsEarned
  BY DEF IInv
<1>2. QED BY <1>1, Invariance, PTL

(***************************************************************************)
(* CareStore implements TaskSchedule.  That no task goes back rests on two *)
(* facts about its stage: it is inspected exactly if it is past the first  *)
(* stage, and it waits for a review only with an action, after which no    *)
(* correction is accepted.                                                 *)
(***************************************************************************)
StageMatchesWork ==
  \A t \in DOMAIN tasks :
    /\ tasks[t].status = "pending_inspection" <=> tasks[t].current = NoInspection
    /\ tasks[t].status = "pending_review" => ActionsOf(t) # {}

RInv == IInv /\ StageMatchesWork

(***************************************************************************)
(* What a step does to the schedule: nothing, or one booking, or one task  *)
(* goes on.                                                                *)
(***************************************************************************)
Stays == UNCHANGED <<tasks, actions>>

Books ==
  \E t \in TaskIds \ DOMAIN tasks, p \in Plans :
    /\ ScheduleFree(p)
    /\ DOMAIN tasks' = DOMAIN tasks \cup {t}
    /\ \A u \in DOMAIN tasks : tasks'[u] = tasks[u]
    /\ tasks'[t].plan = p /\ tasks'[t].status = "pending_inspection"
    /\ tasks'[t].current = NoInspection
    /\ actions' = actions

GoesOn(t, status) ==
  /\ DOMAIN tasks' = DOMAIN tasks
  /\ \A u \in DOMAIN tasks \ {t} : tasks'[u] = tasks[u]
  /\ tasks'[t].plan = tasks[t].plan
  /\ tasks'[t].status = status
  /\ tasks'[t].current # NoInspection
  /\ status # "pending_inspection"
  /\ status = tasks[t].status \/ status \in Schedule!After[tasks[t].status]
  /\ status = "pending_review" => ActionsOf(t)' # {}
  /\ \A u \in DOMAIN tasks : ActionsOf(u) \subseteq ActionsOf(u)'

Proceeds == \E t \in DOMAIN tasks, status \in TaskStatus : GoesOn(t, status)

LEMMA TypeFacts ==
  ASSUME IInv
  PROVE  /\ TypeOK /\ ActionsHaveTasks /\ Linked /\ Chain
         /\ tasks \in [DOMAIN tasks -> Task]
BY DEF IInv, Linked, Chain, ActionsMatchInspection, ActionsHaveTasks, TypeOK

\* A task with an action has been inspected and is past the first stage.
LEMMA WorkedOn ==
  ASSUME RInv, NEW a \in DOMAIN actions
  PROVE  /\ actions[a].task \in DOMAIN tasks /\ a \in ActionsOf(actions[a].task)
         /\ tasks[actions[a].task].current # NoInspection
         /\ tasks[actions[a].task].status # "pending_inspection"
BY TypeFacts, SourceIsStored DEF RInv, StageMatchesWork, ActionsOf

\* A section that works on an action leaves its task in its stage or takes it further.
LEMMA ReviewingProceeds ==
  ASSUME RInv, Submitting \/ Deciding \/ Completing
  PROVE  Proceeds
<1>1. PICK a, review, status :
        /\ a \in DOMAIN actions
        /\ actions[a].review # "approved" /\ ActionMoves(a, review)
        /\ Moves(actions[a].task, status)
        /\ status \in {tasks[actions[a].task].status, "pending_review", "reviewed"}
  <2>1. TypeOK /\ ActionsHaveTasks
    BY TypeFacts DEF RInv
  <2>2. CASE Submitting
    BY <2>1, <2>2, SubmittingEffect
  <2>3. CASE Deciding
    BY <2>1, <2>3, DecidingEffect
  <2>4. CASE Completing
    BY <2>1, <2>4, CompletingEffect
  <2>5. QED BY <2>2, <2>3, <2>4
<1>2. PICK t \in DOMAIN tasks :
        /\ t = actions[a].task /\ a \in ActionsOf(t)
        /\ tasks[t].status \notin {"pending_inspection", "reviewed", "closed"}
        /\ tasks[t].current # NoInspection
  BY <1>1, TypeFacts, UnapprovedIsOpen, WorkedOn DEF RInv, IInv
<1>3. tasks[t].status \in {"pending_action", "pending_review"}
  BY <1>2, TypeFacts DEF RInv, Task, TaskStatus
<1>4. \A u : ActionsOf(u)' = ActionsOf(u)
  BY <1>1 DEF ActionMoves, ActionsOf
<1>5. status = tasks[t].status \/ status \in Schedule!After[tasks[t].status]
  BY <1>1, <1>2, <1>3 DEF Schedule!After
<1>6. /\ DOMAIN tasks' = DOMAIN tasks
      /\ \A u \in DOMAIN tasks \ {t} : tasks'[u] = tasks[u]
      /\ tasks'[t].plan = tasks[t].plan /\ tasks'[t].current = tasks[t].current
      /\ tasks'[t].status = status
  BY <1>1, <1>2 DEF Moves
<1>7. ActionsOf(t)' # {} /\ status # "pending_inspection"
  BY <1>1, <1>2, <1>3, <1>4
<1>8. GoesOn(t, status)
  BY <1>2, <1>4, <1>5, <1>6, <1>7 DEF GoesOn
<1>9. QED BY <1>1, <1>2, <1>3, <1>8 DEF Proceeds, TaskStatus

LEMMA AssigningProceeds ==
  ASSUME RInv, Assigning
  PROVE  Proceeds
<1>1. TypeOK
  BY TypeFacts DEF RInv
<1>2. PICK a \in ActionIds \ DOMAIN actions, t \in DOMAIN tasks, c \in Codes,
           status \in {"pending_action", "pending_review"} :
        /\ Assignable(t, c, ActiveInspection(t), tasks[t].revision)
        /\ DOMAIN actions' = DOMAIN actions \cup {a}
        /\ \A b \in DOMAIN actions : actions'[b] = actions[b]
        /\ actions'[a].task = t /\ Moves(t, status)
  BY <1>1, AssigningEffect
<1>3. tasks[t].status = "pending_action"
  BY <1>2 DEF Assignable
<1>4. tasks[t].current # NoInspection
  BY <1>3 DEF RInv, StageMatchesWork
<1>5. \A u : ActionsOf(u) \subseteq ActionsOf(u)'
  BY <1>2 DEF ActionsOf
<1>6. a \in ActionsOf(t)'
  BY <1>2 DEF ActionsOf
<1>7. GoesOn(t, status)
  BY <1>2, <1>3, <1>4, <1>5, <1>6 DEF GoesOn, Moves, Schedule!After
<1>8. QED BY <1>2, <1>7 DEF Proceeds, TaskStatus

\* An inspection is recorded or corrected only for a task without actions, which is
\* therefore not yet up for review.
LEMMA InspectingProceeds ==
  ASSUME RInv, Recording \/ Correcting
  PROVE  Proceeds
<1>1. PICK i \in InspectionIds, t \in DOMAIN tasks :
        /\ tasks' = [tasks EXCEPT ![t].current = i, ![t].status = "pending_action",
                                  ![t].revision = @ + 1]
        /\ actions' = actions
        /\ tasks[t].status = "pending_inspection" \/ ActionsOf(t) = {}
        /\ tasks[t].status \notin {"reviewed", "closed"}
  <2>1. CASE Recording
    BY <2>1 DEF Recording, RecordFirstInspection, Inspectable, AdoptInspection
  <2>2. CASE Correcting
    <3>1. PICK i \in InspectionIds, t \in DOMAIN tasks, anomalies \in Outcomes,
               k \in Keys, f \in Fingerprints :
            CorrectInspection(i, t, anomalies, ActiveInspection(t), tasks[t].revision, k, f)
      BY <2>2 DEF Correcting
    <3>2. QED BY <3>1 DEF CorrectInspection, Inspectable, AdoptInspection
  <2>3. QED BY <2>1, <2>2
<1>2. tasks \in [DOMAIN tasks -> Task]
  BY TypeFacts DEF RInv
<1>3. tasks[t].status \in {"pending_inspection", "pending_action"}
  BY <1>1, <1>2 DEF RInv, StageMatchesWork, Task, TaskStatus
<1>4. /\ DOMAIN tasks' = DOMAIN tasks /\ tasks'[t].current = i
      /\ tasks'[t].status = "pending_action" /\ tasks'[t].plan = tasks[t].plan
      /\ \A u \in DOMAIN tasks \ {t} : tasks'[u] = tasks[u]
  BY <1>1, <1>2 DEF Task
<1>5. i # NoInspection
  BY NoInspectionAssumption
<1>6. \A u : ActionsOf(u)' = ActionsOf(u)
  BY <1>1 DEF ActionsOf
<1>7. GoesOn(t, "pending_action")
  BY <1>3, <1>4, <1>5, <1>6 DEF GoesOn, Schedule!After
<1>8. QED BY <1>7 DEF Proceeds, TaskStatus

LEMMA ClosingProceeds ==
  ASSUME RInv, Closing
  PROVE  Proceeds
<1>1. PICK t \in DOMAIN tasks : /\ tasks[t].status = "reviewed" /\ Moves(t, "closed")
                                /\ actions' = actions
  BY TypeFacts, ClosingEffect DEF RInv
<1>2. tasks[t].current # NoInspection
  BY <1>1 DEF RInv, StageMatchesWork
<1>3. \A u : ActionsOf(u)' = ActionsOf(u)
  BY <1>1 DEF ActionsOf
<1>4. GoesOn(t, "closed")
  BY <1>1, <1>2, <1>3 DEF GoesOn, Moves, Schedule!After
<1>5. QED BY <1>4 DEF Proceeds, TaskStatus

LEMMA StepOfSchedule ==
  ASSUME RInv, [Next]_vars
  PROVE  Stays \/ Books \/ Proceeds
<1>1. CASE UNCHANGED vars \/ Registering
  BY <1>1 DEF Stays, vars, Registering, AddArtifact
<1>2. CASE Creating
  BY <1>2 DEF Books, Creating, CreateTaskAtomic, Put
<1>3. QED BY <1>1, <1>2, ReviewingProceeds, AssigningProceeds, InspectingProceeds,
             ClosingProceeds, NextIsOneSection, TypeFacts DEF RInv

(***************************************************************************)
(* The invariant and the refinement.                                       *)
(***************************************************************************)
LEMMA InitRInv == Init => RInv
BY InitIInv DEF Init, RInv, StageMatchesWork

LEMMA RInvStep == RInv /\ [Next]_vars => RInv'
<1> SUFFICES ASSUME RInv, [Next]_vars PROVE StageMatchesWork'
  BY IInvStep DEF RInv
<1>1. StageMatchesWork
  BY DEF RInv
<1>2. CASE Stays
  BY <1>1, <1>2 DEF Stays, StageMatchesWork, ActionsOf
<1>3. CASE Books
  <2>1. \A u : ActionsOf(u)' = ActionsOf(u)
    BY <1>3 DEF Books, ActionsOf
  <2>2. QED BY <1>1, <1>3, <2>1 DEF Books, StageMatchesWork
<1>4. CASE Proceeds
  <2>1. PICK t \in DOMAIN tasks, status \in TaskStatus : GoesOn(t, status)
    BY <1>4 DEF Proceeds
  <2>2. QED BY <1>1, <2>1 DEF GoesOn, StageMatchesWork
<1>5. QED BY <1>2, <1>3, <1>4, StepOfSchedule

LEMMA BooksIsBook ==
  ASSUME Books
  PROVE  \E t \in TaskIds, p \in Plans : Schedule!Book(t, p)
<1>1. PICK t \in TaskIds \ DOMAIN tasks, p \in Plans :
        /\ ScheduleFree(p)
        /\ DOMAIN tasks' = DOMAIN tasks \cup {t}
        /\ \A u \in DOMAIN tasks : tasks'[u] = tasks[u]
        /\ tasks'[t].plan = p /\ tasks'[t].status = "pending_inspection"
  BY DEF Books
<1>2. QED BY <1>1 DEF Schedule!Book, Schedule!Open, Schedule!Extended, ScheduleFree

LEMMA ProceedsIsProceed ==
  ASSUME NEW t \in DOMAIN tasks, NEW status, GoesOn(t, status)
  PROVE  Schedule!Proceed(t) \/ UNCHANGED Schedule!schedule
BY DEF GoesOn, Schedule!Proceed, Schedule!schedule

LEMMA InitSchedule == Init => Schedule!Init
BY DEF Init, Schedule!Init

LEMMA StepSchedule == RInv /\ [Next]_vars => [Schedule!Next]_(Schedule!schedule)
<1> SUFFICES ASSUME RInv, [Next]_vars PROVE Schedule!Next \/ UNCHANGED Schedule!schedule
  OBVIOUS
<1>1. CASE Stays
  BY <1>1 DEF Stays, Schedule!schedule
<1>2. CASE Books
  BY <1>2, BooksIsBook DEF Schedule!Next
<1>3. CASE Proceeds
  BY <1>3, ProceedsIsProceed DEF Proceeds, Schedule!Next
<1>4. QED BY <1>1, <1>2, <1>3, StepOfSchedule

\* The store implements the schedule (workflow.go as a whole): a window is booked only when
\* no open task conflicts with it and held until the closing, and a task never goes back.
THEOREM StoreKeepsSchedule == Spec => KeepsSchedule
BY InitRInv, RInvStep, InitSchedule, StepSchedule, PTL DEF Spec, KeepsSchedule, Schedule!Spec

(***************************************************************************)
(* The past is final.  A section works on one task that is open, raises    *)
(* its revision, appends to its trail and leaves alone what belongs to     *)
(* other tasks, what is approved and every key.                            *)
(***************************************************************************)
Appends(t) == \E T : \E new \in Seq(T) : AppendEvents(t, new)

KeysKept == \A k \in DOMAIN idem : k \in DOMAIN idem' /\ idem'[k] = idem[k]

\* Only work of the task t changes, and no approved action does.
OthersStay(t) ==
  /\ \A u \in DOMAIN tasks \ {t} : u \in DOMAIN tasks' /\ tasks'[u] = tasks[u]
  /\ DOMAIN tasks' \subseteq DOMAIN tasks \cup {t}
  /\ \A a \in DOMAIN actions :
       /\ a \in DOMAIN actions' /\ actions'[a].task = actions[a].task
       /\ actions[a].task # t \/ actions[a].review = "approved" => actions'[a] = actions[a]
  /\ \A a \in DOMAIN actions' \ DOMAIN actions : actions'[a].task = t
  /\ \A i \in DOMAIN inspections :
       /\ i \in DOMAIN inspections' /\ inspections'[i].task = inspections[i].task
       /\ inspections[i].task # t => inspections'[i] = inspections[i]
  /\ \A i \in DOMAIN inspections' \ DOMAIN inspections : inspections'[i].task = t
  /\ t \in TaskIds /\ Appends(t) /\ KeysKept

StoreStays == UNCHANGED <<tasks, inspections, actions, idem, events, audits>>

TaskAppears(t) ==
  /\ OthersStay(t) /\ t \notin DOMAIN tasks
  /\ tasks'[t].status = "pending_inspection" /\ audits' = audits

TaskIsWorkedOn(t) ==
  /\ OthersStay(t) /\ t \in DOMAIN tasks /\ t \in DOMAIN tasks'
  /\ tasks[t].status # "closed" /\ tasks'[t].status # "closed"
  /\ tasks'[t].revision = tasks[t].revision + 1
  /\ audits' = audits

TaskIsClosed(t) ==
  /\ OthersStay(t) /\ t \in DOMAIN tasks /\ t \in DOMAIN tasks'
  /\ tasks[t].status # "closed" /\ tasks'[t].status = "closed"
  /\ tasks'[t].revision = tasks[t].revision + 1
  /\ tasks'[t].current = tasks[t].current /\ tasks[t].current # NoInspection
  /\ inspections' = inspections /\ actions' = actions
  /\ audits' = Put(audits, t, ClosingSnapshot(t, tasks'[t], events'[t]))

(***************************************************************************)
(* The sections.                                                           *)
(***************************************************************************)
LEMMA SavedKeys ==
  ASSUME NEW k, NEW f, NEW type, NEW e, KeyIsFree(k), SaveIdempotency(k, f, type, e)
  PROVE  KeysKept
BY DEF KeyIsFree, SaveIdempotency, KeysKept, Put

LEMMA OneEvent ==
  ASSUME NEW t, NEW e, AppendEvents(t, <<e>>)
  PROVE  Appends(t)
<1>1. <<e>> \in Seq({e})
  OBVIOUS
<1>2. QED BY <1>1 DEF Appends

LEMMA CreatingWorks ==
  ASSUME IInv, Creating
  PROVE  \E t \in TaskIds : TaskAppears(t)
<1>1. PICK t \in TaskIds \ DOMAIN tasks, p \in Plans, k \in Keys, f \in Fingerprints :
        CreateTaskAtomic(t, p, k, f)
  BY DEF Creating
<1>2. /\ DOMAIN tasks' = DOMAIN tasks \cup {t} /\ tasks'[t].status = "pending_inspection"
      /\ \A u \in DOMAIN tasks : tasks'[u] = tasks[u]
      /\ UNCHANGED <<inspections, actions, audits>>
  BY <1>1 DEF CreateTaskAtomic, Put
<1>3. KeysKept /\ Appends(t)
  BY <1>1, SavedKeys, OneEvent DEF CreateTaskAtomic
<1>4. QED BY <1>2, <1>3 DEF TaskAppears, OthersStay

LEMMA InspectingWorks ==
  ASSUME IInv, Recording \/ Correcting
  PROVE  \E t \in TaskIds : TaskIsWorkedOn(t)
<1>1. PICK i, t, type, k, f :
        /\ i \in InspectionIds \ DOMAIN inspections /\ t \in DOMAIN tasks
        /\ KeyIsFree(k) /\ AdoptInspection(i, t, type, k, f)
        /\ tasks[t].status # "closed"
        /\ \E new, old : /\ new.task = t
                         /\ old \in DOMAIN inspections => old \in InspectionsOf(t)
                         /\ \/ inspections' = Put(inspections, i, new)
                            \/ inspections' = Put(Supersede(old, i), i, new)
  <2>1. CASE Recording
    <3>1. PICK i \in InspectionIds \ DOMAIN inspections, t \in DOMAIN tasks,
               anomalies \in Outcomes, k \in Keys, f \in Fingerprints :
            RecordFirstInspection(i, t, anomalies, tasks[t].revision, k, f)
      BY <2>1 DEF Recording
    <3> DEFINE new == [task |-> t, anomalies |-> anomalies, version |-> 1, active |-> TRUE,
                       supersedes |-> NoInspection, supersededBy |-> NoInspection]
    <3>2. /\ KeyIsFree(k) /\ AdoptInspection(i, t, "inspection_recorded", k, f)
          /\ tasks[t].status # "closed" /\ inspections' = Put(inspections, i, new)
      BY <3>1 DEF RecordFirstInspection, Inspectable
    <3>3. new.task = t /\ NoInspection \notin DOMAIN inspections
      BY NoInspectionAssumption, TypeFacts DEF TypeOK
    <3> HIDE DEF new
    <3>4. QED BY <3>2, <3>3
  <2>2. CASE Correcting
    <3>1. PICK i \in InspectionIds \ DOMAIN inspections, t \in DOMAIN tasks,
               anomalies \in Outcomes, k \in Keys, f \in Fingerprints :
            CorrectInspection(i, t, anomalies, ActiveInspection(t), tasks[t].revision, k, f)
      BY <2>2 DEF Correcting
    <3> DEFINE old == ActiveInspection(t)
               new == [task |-> t, anomalies |-> anomalies,
                       version |-> inspections[old].version + 1, active |-> TRUE,
                       supersedes |-> old, supersededBy |-> NoInspection]
    <3>2. /\ KeyIsFree(k) /\ AdoptInspection(i, t, "inspection_corrected", k, f)
          /\ tasks[t].status # "closed" /\ old # NoInspection
          /\ inspections' = Put(Supersede(old, i), i, new)
      BY <3>1 DEF CorrectInspection, Inspectable
    <3>3. old \in InspectionsOf(t)
      BY <3>2, TypeFacts, ActiveIsCurrent DEF Chain, CurrentIsStored
    <3>4. new.task = t
      OBVIOUS
    <3> HIDE DEF new, old
    <3>5. QED BY <3>2, <3>3, <3>4
  <2>3. QED BY <2>1, <2>2
<1>2. /\ tasks' = [tasks EXCEPT ![t].current = i, ![t].status = "pending_action",
                                ![t].revision = @ + 1]
      /\ actions' = actions /\ audits' = audits
  BY <1>1 DEF AdoptInspection
<1>3. tasks \in [DOMAIN tasks -> Task] /\ t \in TaskIds
      /\ inspections \in [DOMAIN inspections -> InspectionEntry]
  BY <1>1, TypeFacts DEF TypeOK
<1>4. /\ DOMAIN tasks' = DOMAIN tasks /\ tasks'[t].status = "pending_action"
      /\ tasks'[t].revision = tasks[t].revision + 1
      /\ \A u \in DOMAIN tasks \ {t} : tasks'[u] = tasks[u]
  BY <1>1, <1>2, <1>3 DEF Task
<1>5. /\ DOMAIN inspections' = DOMAIN inspections \cup {i} /\ inspections'[i].task = t
      /\ \A j \in DOMAIN inspections :
           /\ inspections'[j].task = inspections[j].task
           /\ inspections[j].task # t => inspections'[j] = inspections[j]
  <2>1. PICK new, old :
          /\ new.task = t
          /\ old \in DOMAIN inspections => old \in InspectionsOf(t)
          /\ \/ inspections' = Put(inspections, i, new)
             \/ inspections' = Put(Supersede(old, i), i, new)
    BY <1>1
  <2>2. CASE inspections' = Put(inspections, i, new)
    BY <1>1, <2>1, <2>2 DEF Put
  <2>3. CASE inspections' = Put(Supersede(old, i), i, new)
    BY <1>1, <1>3, <2>1, <2>3 DEF Put, Supersede, InspectionsOf, InspectionEntry
  <2>4. QED BY <2>1, <2>2, <2>3
<1>6. KeysKept /\ Appends(t)
  BY <1>1, SavedKeys, OneEvent DEF AdoptInspection
<1>7. QED BY <1>1, <1>2, <1>3, <1>4, <1>5, <1>6 DEF TaskIsWorkedOn, OthersStay

\* What the sections that work on an action do to it and to the rest.
LEMMA ActionWorks ==
  ASSUME IInv, NEW a \in DOMAIN actions, NEW t, NEW review, NEW status,
         t = actions[a].task, actions[a].review # "approved", status # "closed",
         ActionMoves(a, review), Moves(t, status), Appends(t), KeysKept,
         inspections' = inspections, audits' = audits
  PROVE  t \in TaskIds /\ TaskIsWorkedOn(t)
<1>1. t \in DOMAIN tasks /\ tasks[t].status # "closed"
  BY UnapprovedIsOpen DEF IInv
<1>2. t \in TaskIds
  BY <1>1, TypeFacts DEF TypeOK
<1>3. QED BY <1>1, <1>2 DEF TaskIsWorkedOn, OthersStay, ActionMoves, Moves

LEMMA SubmittingWorks ==
  ASSUME IInv, Submitting
  PROVE  \E t \in TaskIds : TaskIsWorkedOn(t)
<1>1. PICK a \in DOMAIN actions, k \in Keys \cup {NoKey}, f \in Fingerprints :
        SubmitActionAtomic(a, Len(actions[a].submissions) + 1,
                           Revisions(a)[1], Revisions(a)[2], k, f)
  BY DEF Submitting
<1>2. PICK t : t = actions[a].task
  OBVIOUS
<1> DEFINE subs == Append(actions[a].submissions, Len(actions[a].submissions) + 1)
<1>3. /\ actions[a].review # "approved"
      /\ actions' = [actions EXCEPT ![a].submissions = subs,
                                    ![a].review = "pending_review",
                                    ![a].evidenceComplete = FALSE,
                                    ![a].revision = @ + 1]
      /\ tasks' = [tasks EXCEPT ![t].revision = @ + 1]
      /\ inspections' = inspections /\ audits' = audits
  BY <1>1, <1>2 DEF SubmitActionAtomic, Submittable
<1> HIDE DEF subs
<1>4. /\ t \in DOMAIN tasks /\ actions \in [DOMAIN actions -> Action]
      /\ tasks \in [DOMAIN tasks -> Task] /\ tasks[t].status # "closed"
  BY <1>2, <1>3, TypeFacts, UnapprovedIsOpen DEF ActionsHaveTasks, TypeOK, IInv
<1>5. ActionMoves(a, "pending_review") /\ Moves(t, tasks[t].status)
  BY <1>3, <1>4 DEF ActionMoves, Action, Moves, Task
<1>6. Appends(t)
  BY <1>1, <1>2, OneEvent DEF SubmitActionAtomic
<1>7. KeysKept
  <2>1. CASE k = NoKey
    BY <1>1, <2>1 DEF SubmitActionAtomic, KeysKept
  <2>2. CASE k # NoKey
    BY <1>1, <2>2, SavedKeys DEF SubmitActionAtomic
  <2>3. QED BY <2>1, <2>2
<1>8. QED BY <1>2, <1>3, <1>4, <1>5, <1>6, <1>7, ActionWorks

LEMMA DecidingWorks ==
  ASSUME IInv, Deciding
  PROVE  \E t \in TaskIds : TaskIsWorkedOn(t)
<1>1. PICK a \in DOMAIN actions, decision \in {"approved", "rejected"} :
        ReviewActionAtomic(a, [submission |-> Last(actions[a].submissions),
                               decision |-> decision], Revisions(a)[1], Revisions(a)[2])
  BY DEF Deciding
<1>2. PICK t : t = actions[a].task
  OBVIOUS
<1> DEFINE revs == Append(actions[a].reviews, [submission |-> Last(actions[a].submissions),
                                               decision |-> decision])
           status == IF decision = "approved" /\ OthersApproved(a) /\ FullyCovered(t)
                     THEN "reviewed" ELSE "pending_review"
<1>3. /\ actions[a].review # "approved"
      /\ actions' = [actions EXCEPT ![a].reviews = revs,
                                    ![a].evidenceComplete = (decision = "approved"),
                                    ![a].review = decision,
                                    ![a].revision = @ + 1]
      /\ tasks' = [tasks EXCEPT ![t].status = status, ![t].revision = @ + 1]
      /\ inspections' = inspections /\ audits' = audits /\ KeysKept
  BY <1>1, <1>2 DEF ReviewActionAtomic, Reviewable, KeysKept
<1>4. Appends(t)
  BY <1>1, <1>2, OneEvent DEF ReviewActionAtomic
<1>5. status # "closed"
  OBVIOUS
<1> HIDE DEF revs, status
<1>6. t \in DOMAIN tasks /\ actions \in [DOMAIN actions -> Action] /\ TypeOK
  BY <1>2, TypeFacts DEF ActionsHaveTasks, TypeOK
<1>7. ActionMoves(a, decision)
  BY <1>3, <1>6 DEF ActionMoves, Action
<1>8. Moves(t, status)
  BY <1>3, <1>6, MovesIntro
<1>9. QED BY <1>2, <1>3, <1>4, <1>5, <1>7, <1>8, ActionWorks

LEMMA CompletingWorks ==
  ASSUME IInv, Completing
  PROVE  \E t \in TaskIds : TaskIsWorkedOn(t)
<1>1. PICK a \in DOMAIN actions, version \in Int : CompleteAndApproveActionAtomic(a, version)
  BY DEF Completing
<1>2. PICK t : t = actions[a].task
  OBVIOUS
<1> DEFINE subs == Append(actions[a].submissions, version)
           revs == Append(actions[a].reviews, [submission |-> version,
                                               decision |-> "approved"])
           status == IF OthersApproved(a) /\ (actions[a].legacy \/ FullyCovered(t))
                     THEN "reviewed" ELSE tasks[t].status
           first == Event("action_result_submitted", a, tasks[t].revision + 1)
           second == Event("action_review_approved", a, tasks[t].revision + 1)
<1>3. /\ actions[a].review # "approved"
      /\ actions' = [actions EXCEPT ![a].submissions = subs,
                                    ![a].reviews = revs,
                                    ![a].evidenceComplete = TRUE,
                                    ![a].review = "approved",
                                    ![a].revision = @ + 1]
      /\ tasks' = [tasks EXCEPT ![t].status = status, ![t].revision = @ + 1]
      /\ AppendEvents(t, <<first, second>>)
      /\ inspections' = inspections /\ audits' = audits /\ KeysKept
  BY <1>1, <1>2 DEF CompleteAndApproveActionAtomic, KeysKept
<1> HIDE DEF first, second
<1>4. Appends(t)
  <2>1. <<first, second>> \in Seq({first, second})
    OBVIOUS
  <2>2. QED BY <1>3, <2>1 DEF Appends
<1>5. /\ t \in DOMAIN tasks /\ tasks[t].status # "closed"
      /\ actions \in [DOMAIN actions -> Action] /\ TypeOK
  BY <1>2, <1>3, TypeFacts, UnapprovedIsOpen DEF ActionsHaveTasks, TypeOK, IInv
<1>6. status # "closed"
  BY <1>5
<1> HIDE DEF subs, revs, status
<1>7. ActionMoves(a, "approved")
  BY <1>3, <1>5 DEF ActionMoves, Action
<1>8. Moves(t, status)
  BY <1>3, <1>5, MovesIntro
<1>9. QED BY <1>2, <1>3, <1>4, <1>6, <1>7, <1>8, ActionWorks

LEMMA AssigningWorks ==
  ASSUME IInv, Assigning
  PROVE  \E t \in TaskIds : TaskIsWorkedOn(t)
<1>1. PICK a \in ActionIds \ DOMAIN actions, t \in DOMAIN tasks, c \in Codes,
           legacy \in BOOLEAN, k \in Keys, f \in Fingerprints :
        CreateActionAtomic(a, t, c, ActiveInspection(t), legacy, tasks[t].revision, k, f)
  BY DEF Assigning
<1>2. PICK new, status :
        /\ actions' = Put(actions, a, new) /\ new.task = t /\ status # "closed"
        /\ tasks' = [tasks EXCEPT ![t].status = status, ![t].revision = @ + 1]
        /\ tasks[t].status = "pending_action"
        /\ inspections' = inspections /\ audits' = audits
  <2> DEFINE source == ActiveInspection(t)
             new == [task |-> t, source |-> source, code |-> c, legacy |-> legacy,
                     review |-> "pending_submission", evidenceComplete |-> FALSE,
                     revision |-> 1, submissions |-> <<>>, reviews |-> <<>>]
             covered == \A d \in inspections[source].anomalies :
                          d = c \/ AnomalyCovered(d, t)
             status == IF covered THEN "pending_review" ELSE tasks[t].status
  <2>1. /\ actions' = Put(actions, a, new)
        /\ tasks' = [tasks EXCEPT ![t].status = status, ![t].revision = @ + 1]
        /\ tasks[t].status = "pending_action"
        /\ inspections' = inspections /\ audits' = audits
    BY <1>1 DEF CreateActionAtomic, Assignable
  <2>2. new.task = t /\ status # "closed"
    BY <2>1
  <2> HIDE DEF new, status
  <2>3. QED BY <2>1, <2>2
<1>3. /\ TypeOK /\ t \in TaskIds
  BY TypeFacts DEF TypeOK
<1>4. Moves(t, status)
  BY <1>2, <1>3, MovesIntro
<1>5. /\ DOMAIN actions' = DOMAIN actions \cup {a} /\ actions'[a].task = t
      /\ \A b \in DOMAIN actions : actions'[b] = actions[b]
  BY <1>2 DEF Put
<1>6. KeysKept /\ Appends(t)
  BY <1>1, SavedKeys, OneEvent DEF CreateActionAtomic
<1>7. QED BY <1>2, <1>3, <1>4, <1>5, <1>6 DEF TaskIsWorkedOn, OthersStay, Moves

LEMMA ClosingWorks ==
  ASSUME IInv, Closing
  PROVE  \E t \in TaskIds : TaskIsClosed(t)
<1>1. PICK t \in DOMAIN tasks : CloseTaskAtomic(t, tasks[t].revision)
  BY DEF Closing
<1>2. /\ tasks[t].status = "reviewed" /\ ActiveInspection(t) # NoInspection
      /\ tasks' = [tasks EXCEPT ![t].status = "closed", ![t].revision = @ + 1]
      /\ audits' = Put(audits, t, ClosingSnapshot(t, tasks'[t], events'[t]))
      /\ UNCHANGED <<inspections, actions>> /\ KeysKept
  BY <1>1 DEF CloseTaskAtomic, Closable, KeysKept
<1>3. TypeOK /\ Chain /\ t \in TaskIds
  BY TypeFacts DEF TypeOK
<1>4. Moves(t, "closed") /\ tasks[t].current # NoInspection
  BY <1>2, <1>3, MovesIntro, ActiveIsCurrent
<1>5. Appends(t)
  BY <1>1, OneEvent DEF CloseTaskAtomic
<1>6. QED BY <1>2, <1>3, <1>4, <1>5 DEF TaskIsClosed, OthersStay, Moves

LEMMA OneTaskPerSection ==
  ASSUME IInv, [Next]_vars
  PROVE  \/ StoreStays
         \/ \E t \in TaskIds : TaskAppears(t) \/ TaskIsWorkedOn(t) \/ TaskIsClosed(t)
<1>1. CASE UNCHANGED vars \/ Registering
  BY <1>1 DEF StoreStays, vars, Registering, AddArtifact
<1>2. QED BY <1>1, CreatingWorks, InspectingWorks, SubmittingWorks, DecidingWorks,
     CompletingWorks, AssigningWorks, ClosingWorks, NextIsOneSection, TypeFacts

(***************************************************************************)
(* What a section leaves of the other tasks.                               *)
(***************************************************************************)
LEMMA PrefixKept ==
  ASSUME NEW S, NEW T, NEW s \in Seq(S), NEW n \in Seq(T)
  PROVE  Len(s) <= Len(s \o n) /\ SubSeq(s \o n, 1, Len(s)) = s
<1>1. Len(s) \in Nat /\ Len(n) \in Nat /\ Len(s \o n) = Len(s) + Len(n)
  OBVIOUS
<1>2. \A j \in 1..Len(s) : (s \o n)[j] = s[j]
  OBVIOUS
<1>3. SubSeq(s \o n, 1, Len(s)) = [j \in 1..Len(s) |-> (s \o n)[j]]
  BY <1>1
<1>4. s = [j \in 1..Len(s) |-> s[j]]
  OBVIOUS
<1>5. QED BY <1>1, <1>2, <1>3, <1>4

LEMMA TrailKept ==
  ASSUME TypeOK, NEW t \in TaskIds, Appends(t), NEW u \in TaskIds
  PROVE  /\ u # t => events'[u] = events[u]
         /\ Len(events[u]) <= Len(events'[u])
         /\ SubSeq(events'[u], 1, Len(events[u])) = events[u]
<1>1. PICK T : \E new \in Seq(T) : AppendEvents(t, new)
  BY DEF Appends
<1>2. PICK new \in Seq(T) : AppendEvents(t, new)
  BY <1>1
<1>3. events \in [TaskIds -> Seq(AuditEvent)]
  BY DEF TypeOK
<1>4. events'[t] = events[t] \o new /\ (u # t => events'[u] = events[u])
  BY <1>2, <1>3 DEF AppendEvents
<1>5. <<>> \in Seq(AuditEvent) /\ events[u] \o <<>> = events[u]
  BY <1>3
<1>6. CASE u = t
  BY <1>3, <1>4, <1>6, PrefixKept
<1>7. CASE u # t
  BY <1>3, <1>4, <1>5, <1>7, PrefixKept
<1>8. QED BY <1>4, <1>6, <1>7

LEMMA WorkKept ==
  ASSUME TypeOK, NEW t, OthersStay(t), NEW u \in DOMAIN tasks, u # t
  PROVE  /\ tasks'[u] = tasks[u] /\ events'[u] = events[u]
         /\ ActionsOf(u)' = ActionsOf(u) /\ InspectionsOf(u)' = InspectionsOf(u)
         /\ \A a \in ActionsOf(u) : actions'[a] = actions[a]
         /\ \A i \in InspectionsOf(u) : inspections'[i] = inspections[i]
<1>1. u \in TaskIds /\ t \in TaskIds
  BY DEF TypeOK, OthersStay
<1>2. events'[u] = events[u]
  BY <1>1, TrailKept DEF OthersStay
<1>3. ActionsOf(u)' = ActionsOf(u) /\ InspectionsOf(u)' = InspectionsOf(u)
  BY DEF OthersStay, ActionsOf, InspectionsOf
<1>4. QED BY <1>2, <1>3 DEF OthersStay, ActionsOf, InspectionsOf

(***************************************************************************)
(* The past is final.                                                      *)
(***************************************************************************)
LEMMA HistoryStep ==
  ASSUME IInv, [Next]_vars
  PROVE  /\ \A k \in DOMAIN idem : k \in DOMAIN idem' /\ idem'[k] = idem[k]
         /\ \A a \in DOMAIN actions :
              actions[a].review = "approved" => actions'[a] = actions[a]
         /\ \A t \in DOMAIN tasks : tasks[t].status = "closed" => tasks'[t] = tasks[t]
         /\ \A t \in TaskIds : /\ Len(events[t]) <= Len(events'[t])
                               /\ SubSeq(events'[t], 1, Len(events[t])) = events[t]
<1>1. CASE StoreStays
  <2>1. \A t \in TaskIds : SubSeq(events[t], 1, Len(events[t])) = events[t]
                           /\ Len(events[t]) \in Nat
    BY TypeFacts DEF TypeOK
  <2>2. QED BY <1>1, <2>1 DEF StoreStays
<1>2. ASSUME NEW t \in TaskIds, TaskAppears(t) \/ TaskIsWorkedOn(t) \/ TaskIsClosed(t)
      PROVE  /\ KeysKept
             /\ \A a \in DOMAIN actions :
                  actions[a].review = "approved" => actions'[a] = actions[a]
             /\ \A u \in DOMAIN tasks : tasks[u].status = "closed" => tasks'[u] = tasks[u]
             /\ Appends(t)
  BY <1>2 DEF TaskAppears, TaskIsWorkedOn, TaskIsClosed, OthersStay
<1>3. QED BY <1>1, <1>2, OneTaskPerSection, TrailKept, TypeFacts DEF KeysKept

\* Idempotency records, approved actions, closed tasks and past events are never rewritten,
\* whatever sections follow (the guards of SubmitActionAtomic, ReviewActionAtomic and
\* CloseTaskAtomic, and saveIdempotencyLocked and appendEventsLocked, which only add).
THEOREM PastIsFinal == Spec => HistoryIsFinal
<1>1. IInv /\ [Next]_vars =>
        [ /\ \A k \in DOMAIN idem : k \in DOMAIN idem' /\ idem'[k] = idem[k]
          /\ \A a \in DOMAIN actions :
               actions[a].review = "approved" => actions'[a] = actions[a]
          /\ \A t \in DOMAIN tasks : tasks[t].status = "closed" => tasks'[t] = tasks[t]
          /\ \A t \in TaskIds : /\ Len(events[t]) <= Len(events'[t])
                                /\ SubSeq(events'[t], 1, Len(events[t])) = events[t]
        ]_vars
  BY HistoryStep
<1>2. QED BY <1>1, Invariance, PTL DEF Spec, HistoryIsFinal

LEMMA RevisionStep ==
  ASSUME IInv, [Next]_vars, NEW t \in DOMAIN tasks
  PROVE  /\ tasks'[t].revision \in {tasks[t].revision, tasks[t].revision + 1}
         /\ tasks'[t].revision = tasks[t].revision => WorkOf(t)' = WorkOf(t)
<1>1. CASE StoreStays
  BY <1>1 DEF StoreStays, WorkOf, ActionsOf, InspectionsOf
<1>2. ASSUME NEW u \in TaskIds, OthersStay(u), u # t
      PROVE  tasks'[t] = tasks[t] /\ WorkOf(t)' = WorkOf(t)
  <2>1. /\ tasks'[t] = tasks[t] /\ events'[t] = events[t]
        /\ ActionsOf(t)' = ActionsOf(t) /\ InspectionsOf(t)' = InspectionsOf(t)
        /\ \A a \in ActionsOf(t) : actions'[a] = actions[a]
        /\ \A i \in InspectionsOf(t) : inspections'[i] = inspections[i]
    BY <1>2, WorkKept, TypeFacts
  <2>2. QED BY <2>1 DEF WorkOf
<1>3. tasks[t].revision + 1 # tasks[t].revision
  BY TypeFacts DEF Task
<1>4. QED BY <1>1, <1>2, <1>3, OneTaskPerSection
          DEF TaskAppears, TaskIsWorkedOn, TaskIsClosed

\* No part of a task's work changes without its revision rising by one, so a revision a
\* caller has read stands for all it has read (every section raises it once).
THEOREM RevisionGuardsWork == Spec => RevisionMovesWithWork
<1>1. IInv /\ [Next]_vars =>
        [ \A t \in DOMAIN tasks :
            /\ tasks'[t].revision \in {tasks[t].revision, tasks[t].revision + 1}
            /\ tasks'[t].revision = tasks[t].revision => WorkOf(t)' = WorkOf(t) ]_vars
  BY RevisionStep
<1>2. QED BY <1>1, Invariance, PTL DEF Spec, RevisionMovesWithWork

(***************************************************************************)
(* Audits verify.                                                          *)
(***************************************************************************)
\* The closing snapshot read off the current inspection.
SnapshotOf(t) ==
  [task |-> tasks[t], inspection |-> inspections[tasks[t].current],
   actions |-> [a \in ActionsOf(t) |-> actions[a]], events |-> events[t]]

AuditsMatch ==
  /\ DOMAIN audits \subseteq DOMAIN tasks
  /\ \A t \in DOMAIN tasks : tasks[t].status = "closed" <=> t \in DOMAIN audits
  /\ \A t \in DOMAIN audits : /\ tasks[t].current # NoInspection
                              /\ audits[t] = SnapshotOf(t)

LEMMA SnapshotIsCurrent ==
  ASSUME Chain, NEW t \in DOMAIN tasks, NEW record, NEW trail
  PROVE  ClosingSnapshot(t, record, trail) =
           [task |-> record, inspection |-> inspections[tasks[t].current],
            actions |-> [a \in ActionsOf(t) |-> actions[a]], events |-> trail]
BY ActiveIsCurrent DEF ClosingSnapshot

LEMMA MatchingAuditsVerify == Chain /\ AuditsMatch => AuditsVerify
<1> SUFFICES ASSUME Chain, AuditsMatch, NEW t \in DOMAIN audits
             PROVE  VerifyAudit(t) = "passed"
  BY DEF AuditsMatch, AuditsVerify
<1>1. t \in DOMAIN tasks /\ tasks[t].current # NoInspection /\ audits[t] = SnapshotOf(t)
  BY DEF AuditsMatch
<1>2. ClosingSnapshot(t, tasks[t], events[t]) = SnapshotOf(t)
  BY <1>1, SnapshotIsCurrent DEF SnapshotOf
<1>3. QED BY <1>1, <1>2, ActiveIsCurrent DEF VerifyAudit

\* Nothing the snapshot of another task covers moves.
LEMMA SnapshotKept ==
  ASSUME Chain, NEW t, OthersStay(t), NEW u \in DOMAIN tasks, u # t,
         tasks[u].current # NoInspection
  PROVE  SnapshotOf(u)' = SnapshotOf(u)
<1>1. /\ tasks'[u] = tasks[u] /\ events'[u] = events[u]
      /\ ActionsOf(u)' = ActionsOf(u)
      /\ \A a \in ActionsOf(u) : actions'[a] = actions[a]
      /\ \A i \in InspectionsOf(u) : inspections'[i] = inspections[i]
  BY WorkKept DEF Chain
<1>2. tasks[u].current \in InspectionsOf(u)
  BY DEF Chain, CurrentIsStored
<1>3. QED BY <1>1, <1>2 DEF SnapshotOf

LEMMA MatchStep == IInv /\ AuditsMatch /\ [Next]_vars => AuditsMatch'
<1> SUFFICES ASSUME IInv, AuditsMatch, [Next]_vars PROVE AuditsMatch'
  OBVIOUS
<1>1. CASE StoreStays
  BY <1>1 DEF StoreStays, AuditsMatch, SnapshotOf, ActionsOf
<1>2. ASSUME NEW t \in TaskIds, OthersStay(t), NEW u \in DOMAIN audits, u # t
      PROVE  /\ u \in DOMAIN tasks' /\ tasks'[u].current # NoInspection
             /\ audits[u] = SnapshotOf(u)'
  BY <1>2, SnapshotKept, TypeFacts DEF AuditsMatch, OthersStay
<1>3. ASSUME NEW t \in TaskIds, TaskAppears(t) \/ TaskIsWorkedOn(t)
      PROVE  AuditsMatch'
  <2>1. /\ OthersStay(t) /\ audits' = audits /\ t \notin DOMAIN audits
        /\ tasks'[t].status # "closed"
    BY <1>3 DEF TaskAppears, TaskIsWorkedOn, AuditsMatch
  <2>2. \A u \in DOMAIN audits : /\ u \in DOMAIN tasks' /\ tasks'[u].current # NoInspection
                                 /\ audits[u] = SnapshotOf(u)'
    BY <1>2, <2>1
  <2>3. \A u \in DOMAIN tasks' : tasks'[u].status = "closed" <=> u \in DOMAIN audits
    BY <2>1 DEF OthersStay, AuditsMatch
  <2>4. QED BY <2>1, <2>2, <2>3 DEF AuditsMatch
<1>4. ASSUME NEW t \in TaskIds, TaskIsClosed(t)
      PROVE  AuditsMatch'
  <2>1. /\ OthersStay(t) /\ t \in DOMAIN tasks /\ t \in DOMAIN tasks'
        /\ t \notin DOMAIN audits /\ tasks'[t].status = "closed"
        /\ tasks'[t].current = tasks[t].current /\ tasks[t].current # NoInspection
        /\ inspections' = inspections /\ actions' = actions
        /\ audits' = Put(audits, t, ClosingSnapshot(t, tasks'[t], events'[t]))
    BY <1>4 DEF TaskIsClosed, AuditsMatch
  <2>2. ClosingSnapshot(t, tasks'[t], events'[t]) = SnapshotOf(t)'
    <3>1. ActionsOf(t)' = ActionsOf(t)
      BY <2>1 DEF ActionsOf
    <3>2. QED BY <2>1, <3>1, SnapshotIsCurrent, TypeFacts DEF SnapshotOf
  <2>3. /\ DOMAIN audits' = DOMAIN audits \cup {t} /\ audits'[t] = SnapshotOf(t)'
        /\ \A u \in DOMAIN audits : u # t => audits'[u] = audits[u]
    BY <2>1, <2>2 DEF Put
  <2>4. \A u \in DOMAIN audits : /\ u \in DOMAIN tasks' /\ tasks'[u].current # NoInspection
                                 /\ audits[u] = SnapshotOf(u)'
    BY <1>2, <2>1
  <2>5. \A u \in DOMAIN tasks' : tasks'[u].status = "closed" <=> u \in DOMAIN audits'
    BY <2>1, <2>3 DEF OthersStay, AuditsMatch
  <2>6. QED BY <2>1, <2>3, <2>4, <2>5 DEF AuditsMatch
<1>5. QED BY <1>1, <1>3, <1>4, OneTaskPerSection

\* A closed task has an audit, an open one none, and recomputing its digest from the live
\* data gives the stored one at any later time (CloseTaskAtomic, VerifyAudit).
THEOREM AuditsAlwaysVerify == Spec => []AuditsVerify
<1>1. Init => AuditsMatch
  BY DEF Init, AuditsMatch
<1>2. IInv /\ AuditsMatch => AuditsVerify
  BY MatchingAuditsVerify, TypeFacts
<1>3. QED BY <1>1, <1>2, MatchStep, Invariance, PTL DEF Spec
=============================================================================
