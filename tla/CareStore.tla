------------------------------ MODULE CareStore ------------------------------
(***************************************************************************)
(* The workflow store of the preventive-conservation service: the locked   *)
(* sections of internal/storage that move a conservation task from its     *)
(* creation to its audited closing.  Store.mu is held over each of them,   *)
(* so each is one action here.  A section that refuses its arguments, or   *)
(* whose snapshot cannot be written and is rolled back, leaves the data as *)
(* it was: a stuttering step.                                              *)
(*                                                                         *)
(* Next calls the sections with exactly the arguments the services of      *)
(* internal/task, internal/inspection and internal/action can hand them    *)
(* when they succeed; the module CareService adds the requests themselves, *)
(* what they read before taking the lock and what they answer.             *)
(***************************************************************************)
EXTENDS Integers, Sequences, FiniteSets

CONSTANTS
  Artifacts,       \* artifact ids a curator may register
  Plans,           \* what a creation asks for: [artifact, owner, start, end]
  TaskIds, InspectionIds, ActionIds,  \* the ids newID, id and randomID draw
  Codes,           \* anomaly codes, as integers in the order of the strings
  Outcomes,        \* the sets of anomaly codes an inspection can conclude with
  Keys,            \* Idempotency-Key values
  LegacyKeys,      \* keys only the plain idempotency map of an old snapshot holds; the
                   \* tasks they created are taken as closed and left out
  Fingerprints,    \* digests of normalised requests
  NoInspection, NoKey,
  Draw(_),         \* which members of a set of unused ids or keys may be drawn next
  MaxSubmissions   \* bound on the submissions of one action

ASSUME PlanAssumption ==
  \A p \in Plans : /\ p.artifact \in Artifacts
                   /\ p.start \in Int /\ p.end \in Int /\ p.start < p.end
ASSUME CodeAssumption == Codes \subseteq Int /\ Outcomes \subseteq SUBSET Codes
ASSUME NoInspectionAssumption == NoInspection \notin InspectionIds
ASSUME KeyAssumption == LegacyKeys \subseteq Keys /\ NoKey \notin Keys
\* Ids and keys are interchangeable, so an instance may let Draw return one of them.
ASSUME DrawAssumption ==
  \A S \in UNION {SUBSET TaskIds, SUBSET InspectionIds, SUBSET ActionIds, SUBSET Keys} :
    Draw(S) \subseteq S
ASSUME BoundAssumption == MaxSubmissions \in Nat \ {0}

VARIABLES
  artifacts,    \* the registered artifacts
  tasks,        \* task id -> ConservationTask
  inspections,  \* inspection id -> InspectionEntry
  actions,      \* recommendation id -> ActionRecommendation
  idem,         \* Idempotency-Key -> IdempotencyRecord
  events,       \* task id -> its audit events, oldest first
  audits        \* task id -> what its closing snapshot digest covers

vars == <<artifacts, tasks, inspections, actions, idem, events, audits>>

TaskStatus == {"pending_inspection", "pending_action", "pending_review",
               "reviewed", "closed"}
ReviewStatus == {"pending_submission", "pending_review", "approved", "rejected"}

Task == [plan : Plans, status : TaskStatus, revision : Nat,
         current : InspectionIds \cup {NoInspection}]
InspectionEntry ==
  [task : TaskIds, anomalies : SUBSET Codes, version : Nat, active : BOOLEAN,
   supersedes : InspectionIds \cup {NoInspection},
   supersededBy : InspectionIds \cup {NoInspection}]
Review == [submission : Nat, decision : {"approved", "rejected"}]
Action == [task : TaskIds, source : InspectionIds, code : Codes, legacy : BOOLEAN,
           review : ReviewStatus, evidenceComplete : BOOLEAN, revision : Nat,
           submissions : Seq(Nat), reviews : Seq(Review)]
IdempotencyRecord ==
  [type : {"task", "inspection", "action", "action_submission"},
   entity : TaskIds \cup InspectionIds \cup ActionIds, fingerprint : Fingerprints]
EventType == {"task_created", "inspection_recorded", "inspection_corrected",
              "action_assigned", "action_result_submitted",
              "action_review_approved", "action_review_rejected", "task_closed"}
AuditEvent == [type : EventType, object : TaskIds \cup InspectionIds \cup ActionIds,
               revision : Nat]

(***************************************************************************)
(* Reading the data.                                                       *)
(***************************************************************************)
Put(f, k, v) == [x \in DOMAIN f \cup {k} |-> IF x = k THEN v ELSE f[x]]
Last(s) == s[Len(s)]

\* Two plans clash when their windows overlap and they share artifact or owner.
Overlap(p, q) == p.start < q.end /\ q.start < p.end
Clash(p, q) == Overlap(p, q) /\ (p.artifact = q.artifact \/ p.owner = q.owner)

ActionsOf(t) == {a \in DOMAIN actions : actions[a].task = t}
InspectionsOf(t) == {i \in DOMAIN inspections : inspections[i].task = t}

\* A task without a current inspection falls back on its newest live entry.
ActiveInspection(t) ==
  LET live == {i \in InspectionsOf(t) :
                 inspections[i].active \/ inspections[i].supersededBy = NoInspection}
      newest == {i \in live : \A j \in live :
                                inspections[j].version <= inspections[i].version}
  IN  IF t \in DOMAIN tasks /\ tasks[t].current # NoInspection
      THEN IF tasks[t].current \in DOMAIN inspections THEN tasks[t].current
                                                      ELSE NoInspection
      ELSE IF newest = {} THEN NoInspection ELSE CHOOSE i \in newest : TRUE

AnomalyCoveredOnceSubmitted(c, t) ==  \* mutant: an action without a result does not count
  \E a \in ActionsOf(t) : actions[a].code = c /\ actions[a].submissions # <<>>

AnomalyCovered(c, t) == \E a \in ActionsOf(t) : actions[a].code = c
AllAnomaliesCovered(t) ==
  \A c \in inspections[ActiveInspection(t)].anomalies : AnomalyCovered(c, t)

FirstAnomaly(S) == CHOOSE c \in S : \A d \in S : c <= d

ReplayByKey(k, f, type) ==  \* mutant: the content is not compared
  k \in DOMAIN idem /\ idem[k].type = type

\* What lookupIdempotencyLocked can answer: an earlier entity, a conflict, or neither.
IdempotentReplay(k, f, type) ==
  k \in DOMAIN idem /\ idem[k].type = type /\ idem[k].fingerprint = f
KeyAccepted(k) == k \in Keys \ LegacyKeys  \* mutant: the records are not consulted

KeyIsFree(k) == k \in Keys /\ k \notin DOMAIN idem /\ k \notin LegacyKeys
SaveIdempotency(k, f, type, entity) ==
  idem' = Put(idem, k, [type |-> type, entity |-> entity, fingerprint |-> f])

Event(type, object, revision) ==
  [type |-> type, object |-> object, revision |-> revision]
AppendOneEvent(t, new) == events' = [events EXCEPT ![t] = Append(@, new[1])]  \* mutant

AppendEvents(t, new) == events' = [events EXCEPT ![t] = @ \o new]

(***************************************************************************)
(* The locked sections.                                                    *)
(***************************************************************************)
AddArtifact(a) ==
  /\ artifacts' = artifacts \cup {a}
  /\ UNCHANGED <<tasks, inspections, actions, idem, events, audits>>

ScheduleFreeOfUninspected(p) ==  \* mutant: an inspected task frees its window
  \A u \in DOMAIN tasks :
    tasks[u].status # "pending_inspection" \/ ~Clash(p, tasks[u].plan)

ScheduleFree(p) ==
  \A u \in DOMAIN tasks : tasks[u].status = "closed" \/ ~Clash(p, tasks[u].plan)

CreateTaskAtomic(t, p, k, f) ==
  /\ KeyIsFree(k)
  /\ ScheduleFree(p)
  /\ tasks' = Put(tasks, t, [plan |-> p, status |-> "pending_inspection",
                             revision |-> 1, current |-> NoInspection])
  /\ SaveIdempotency(k, f, "task", t)
  /\ AppendEvents(t, <<Event("task_created", t, 1)>>)
  /\ UNCHANGED <<artifacts, inspections, actions, audits>>

Inspectable(t, expected) ==
  /\ t \in DOMAIN tasks
  /\ tasks[t].revision = expected
  /\ tasks[t].status \notin {"closed", "reviewed"}

AdoptWithoutRevision(i, t, type, k, f) ==  \* mutant: the revision is not raised
  /\ tasks' = [tasks EXCEPT ![t].current = i, ![t].status = "pending_action"]
  /\ SaveIdempotency(k, f, "inspection", i)
  /\ AppendEvents(t, <<Event(type, i, tasks[t].revision)>>)
  /\ UNCHANGED <<artifacts, actions, audits>>

AdoptKeepingCurrent(i, t, type, k, f) ==  \* mutant: a correction leaves the task's pointer
  /\ tasks' = [tasks EXCEPT ![t].current = IF @ = NoInspection THEN i ELSE @,
                            ![t].status = "pending_action", ![t].revision = @ + 1]
  /\ SaveIdempotency(k, f, "inspection", i)
  /\ AppendEvents(t, <<Event(type, i, tasks[t].revision + 1)>>)
  /\ UNCHANGED <<artifacts, actions, audits>>

\* What both branches of RecordInspectionAtomic do once the entry is stored.
AdoptInspection(i, t, type, k, f) ==
  /\ tasks' = [tasks EXCEPT ![t].current = i, ![t].status = "pending_action",
                            ![t].revision = @ + 1]
  /\ SaveIdempotency(k, f, "inspection", i)
  /\ AppendEvents(t, <<Event(type, i, tasks[t].revision + 1)>>)
  /\ UNCHANGED <<artifacts, actions, audits>>

RecordFirstInspection(i, t, anomalies, expected, k, f) ==
  /\ KeyIsFree(k)
  /\ Inspectable(t, expected)
  /\ tasks[t].status = "pending_inspection"
  /\ tasks[t].current = NoInspection
  /\ inspections' = Put(inspections, i,
       [task |-> t, anomalies |-> anomalies, version |-> 1, active |-> TRUE,
        supersedes |-> NoInspection, supersededBy |-> NoInspection])
  /\ AdoptInspection(i, t, "inspection_recorded", k, f)

SupersedeStillActive(old, i) ==  \* mutant: the old entry stays active
  [inspections EXCEPT ![old].supersededBy = i]

Supersede(old, i) ==
  [inspections EXCEPT ![old].active = FALSE, ![old].supersededBy = i]

CorrectDespiteActions(i, t, anomalies, old, expected, k, f) ==  \* mutant
  /\ KeyIsFree(k)
  /\ Inspectable(t, expected)
  /\ old # NoInspection /\ ActiveInspection(t) = old
  /\ inspections' =
       Put(Supersede(old, i), i,
           [task |-> t, anomalies |-> anomalies, version |-> inspections[old].version + 1,
            active |-> TRUE, supersedes |-> old, supersededBy |-> NoInspection])
  /\ AdoptInspection(i, t, "inspection_corrected", k, f)

CorrectInspection(i, t, anomalies, old, expected, k, f) ==
  /\ KeyIsFree(k)
  /\ Inspectable(t, expected)
  /\ ActionsOf(t) = {}
  /\ old # NoInspection
  /\ ActiveInspection(t) = old
  /\ inspections' =
       Put(Supersede(old, i), i,
           [task |-> t, anomalies |-> anomalies, version |-> inspections[old].version + 1,
            active |-> TRUE, supersedes |-> old, supersededBy |-> NoInspection])
  /\ AdoptInspection(i, t, "inspection_corrected", k, f)

\* expected = 0 is a request that carries no revision: the check is skipped.
Assignable(t, c, source, expected) ==
  /\ t \in DOMAIN tasks
  /\ expected # 0 => tasks[t].revision = expected
  /\ ~AnomalyCovered(c, t)
  /\ tasks[t].status = "pending_action"
  /\ ActiveInspection(t) # NoInspection
  /\ ActiveInspection(t) = source
  /\ c \in inspections[source].anomalies

CreateActionAtomic(a, t, c, source, legacy, expected, k, f) ==
  /\ KeyIsFree(k)
  /\ Assignable(t, c, source, expected)
  /\ actions' = Put(actions, a,
       [task |-> t, source |-> source, code |-> c, legacy |-> legacy,
        review |-> "pending_submission", evidenceComplete |-> FALSE,
        revision |-> 1, submissions |-> <<>>, reviews |-> <<>>])
  /\ LET allCovered == \A d \in inspections[source].anomalies :
                         d = c \/ AnomalyCovered(d, t)
     IN  tasks' = [tasks EXCEPT ![t].status = IF allCovered THEN "pending_review" ELSE @,
                                ![t].revision = @ + 1]
  /\ SaveIdempotency(k, f, "action", a)
  /\ AppendEvents(t, <<Event("action_assigned", a, tasks[t].revision + 1)>>)
  /\ UNCHANGED <<artifacts, inspections, audits>>

SubmittableAfterApproval(a, actionRevision, taskRevision) ==  \* mutant
  /\ a \in DOMAIN actions
  /\ actions[a].revision = actionRevision
  /\ tasks[actions[a].task].revision = taskRevision

Submittable(a, actionRevision, taskRevision) ==
  /\ a \in DOMAIN actions
  /\ actions[a].revision = actionRevision
  /\ tasks[actions[a].task].revision = taskRevision
  /\ actions[a].review # "approved"

\* A submission may come without a key (NoKey): it is then not recorded as replayable.
SubmitActionAtomic(a, version, actionRevision, taskRevision, k, f) ==
  /\ k = NoKey \/ KeyIsFree(k)
  /\ Submittable(a, actionRevision, taskRevision)
  /\ actions' = [actions EXCEPT ![a].submissions = Append(@, version),
                                ![a].review = "pending_review",
                                ![a].evidenceComplete = FALSE,
                                ![a].revision = @ + 1]
  /\ tasks' = [tasks EXCEPT ![actions[a].task].revision = @ + 1]
  /\ IF k = NoKey THEN UNCHANGED idem ELSE SaveIdempotency(k, f, "action_submission", a)
  /\ AppendEvents(actions[a].task,
       <<Event("action_result_submitted", a, tasks[actions[a].task].revision + 1)>>)
  /\ UNCHANGED <<artifacts, inspections, audits>>

ReviewableAtAnyRevision(a, actionRevision, taskRevision) ==  \* mutant
  a \in DOMAIN actions /\ actions[a].review = "pending_review" /\ actions[a].submissions # <<>>

Reviewable(a, actionRevision, taskRevision) ==
  /\ a \in DOMAIN actions
  /\ actions[a].revision = actionRevision
  /\ tasks[actions[a].task].revision = taskRevision
  /\ actions[a].review = "pending_review"
  /\ actions[a].submissions # <<>>

OthersNotRejected(a) ==  \* mutant: results still awaiting review do not hold the task back
  \A b \in ActionsOf(actions[a].task) \ {a} : actions[b].review # "rejected"

AllApprovedBefore(a) ==  \* mutant: the decision being stored is not counted
  \A b \in ActionsOf(actions[a].task) : actions[b].review = "approved"

OthersApproved(a) ==
  \A b \in ActionsOf(actions[a].task) \ {a} : actions[b].review = "approved"

\* Has the task an active inspection, every anomaly of which some action addresses?
FullyCovered(t) == ActiveInspection(t) # NoInspection /\ AllAnomaliesCovered(t)

ReviewActionAtomic(a, review, actionRevision, taskRevision) ==
  /\ Reviewable(a, actionRevision, taskRevision)
  /\ actions' = [actions EXCEPT ![a].reviews = Append(@, review),
                                ![a].evidenceComplete = (review.decision = "approved"),
                                ![a].review = review.decision,
                                ![a].revision = @ + 1]
  /\ LET t == actions[a].task
         done == review.decision = "approved" /\ OthersApproved(a) /\ FullyCovered(t)
     IN  /\ tasks' = [tasks EXCEPT ![t].status = IF done THEN "reviewed" ELSE "pending_review",
                                   ![t].revision = @ + 1]
         /\ AppendEvents(t, <<Event(IF review.decision = "rejected"
                                    THEN "action_review_rejected"
                                    ELSE "action_review_approved",
                                    a, tasks[t].revision + 1)>>)
  /\ UNCHANGED <<artifacts, inspections, idem, audits>>

\* The old one-call review: submits and approves at once, and checks no revision.
CompleteAndApproveActionAtomic(a, version) ==
  /\ a \in DOMAIN actions
  /\ actions[a].review # "approved"
  /\ actions' = [actions EXCEPT
       ![a].submissions = Append(@, version),
       ![a].reviews = Append(@, [submission |-> version,
                                 decision |-> "approved"]),
       ![a].evidenceComplete = TRUE,
       ![a].review = "approved",
       ![a].revision = @ + 1]
  /\ LET t == actions[a].task
         rev == tasks[t].revision + 1
         done == OthersApproved(a) /\ (actions[a].legacy \/ FullyCovered(t))
     IN  /\ tasks' = [tasks EXCEPT ![t].status = IF done THEN "reviewed" ELSE @,
                                   ![t].revision = @ + 1]
         /\ AppendEvents(t, <<Event("action_result_submitted", a, rev),
                              Event("action_review_approved", a, rev)>>)
  /\ UNCHANGED <<artifacts, inspections, idem, audits>>

Closable(t, expected) ==
  /\ t \in DOMAIN tasks
  /\ tasks[t].revision = expected
  /\ tasks[t].status = "reviewed"
  /\ ActiveInspection(t) # NoInspection
  /\ AllAnomaliesCovered(t) \/ \E a \in ActionsOf(t) : actions[a].legacy
  /\ \A a \in ActionsOf(t) : actions[a].review = "approved" /\ actions[a].evidenceComplete

\* What the closing digest covers, given the task record and its events.
ClosingSnapshot(t, record, trail) ==
  [task |-> record, inspection |-> inspections[ActiveInspection(t)],
   actions |-> [a \in ActionsOf(t) |-> actions[a]], events |-> trail]

CloseAfterSnapshot(t, expected) ==  \* mutant: the digest is taken before the closing
  /\ Closable(t, expected)
  /\ tasks' = [tasks EXCEPT ![t].status = "closed", ![t].revision = @ + 1]
  /\ AppendEvents(t, <<Event("task_closed", t, tasks[t].revision + 1)>>)
  /\ audits' = Put(audits, t, ClosingSnapshot(t, tasks[t], events[t]))
  /\ UNCHANGED <<artifacts, inspections, actions, idem>>

CloseTaskAtomic(t, expected) ==
  /\ Closable(t, expected)
  /\ tasks' = [tasks EXCEPT ![t].status = "closed", ![t].revision = @ + 1]
  /\ AppendEvents(t, <<Event("task_closed", t, tasks[t].revision + 1)>>)
  /\ audits' = Put(audits, t, ClosingSnapshot(t, tasks'[t], events'[t]))
  /\ UNCHANGED <<artifacts, inspections, actions, idem>>

\* VerifyAudit recomputes the snapshot from the live data; digests are injective.
VerifyAudit(t) ==
  IF ActiveInspection(t) # NoInspection /\ audits[t] = ClosingSnapshot(t, tasks[t], events[t])
  THEN "passed" ELSE "failed"

(***************************************************************************)
(* The sections as the services call them.  An id is drawn at random, so   *)
(* any unused one; a revision that differs from the stored one is refused, *)
(* so only the stored one is tried.                                        *)
(***************************************************************************)
CreateTask(t, p, k, f) == p.artifact \in artifacts /\ CreateTaskAtomic(t, p, k, f)

Inspect(i, t, anomalies, k, f) ==
  RecordFirstInspection(i, t, anomalies, tasks[t].revision, k, f)

Correct(i, t, anomalies, k, f) ==
  CorrectInspection(i, t, anomalies, ActiveInspection(t), tasks[t].revision, k, f)

\* A request without anomaly_code takes the first anomaly and is marked legacy.
Recommend(a, t, k, f) ==
  LET source == ActiveInspection(t)
  IN  /\ source # NoInspection
      /\ \/ \E c \in inspections[source].anomalies :
              CreateActionAtomic(a, t, c, source, FALSE, tasks[t].revision, k, f)
         \/ /\ inspections[source].anomalies # {}
            /\ CreateActionAtomic(a, t, FirstAnomaly(inspections[source].anomalies),
                                  source, TRUE, tasks[t].revision, k, f)

Revisions(a) == <<actions[a].revision, tasks[actions[a].task].revision>>

Submit(a, k, f) ==
  /\ Len(actions[a].submissions) < MaxSubmissions
  /\ SubmitActionAtomic(a, Len(actions[a].submissions) + 1,
                        Revisions(a)[1], Revisions(a)[2], k, f)

DecideOnFirst(a, decision) ==  \* mutant: the review names the first submission
  /\ actions[a].submissions # <<>>
  /\ ReviewActionAtomic(a, [submission |-> actions[a].submissions[1], decision |-> decision],
                        Revisions(a)[1], Revisions(a)[2])

Decide(a, decision) ==
  /\ actions[a].submissions # <<>>
  /\ ReviewActionAtomic(a, [submission |-> Last(actions[a].submissions),
                            decision |-> decision],
                        Revisions(a)[1], Revisions(a)[2])

ApproveUnnormalized(a) == Decide(a, "approve")  \* mutant: the decision as written

Approve(a) == Decide(a, "approved")

\* Rejections are bounded with the submissions: the last one allowed is approved or left.
Reject(a) == Len(actions[a].submissions) < MaxSubmissions /\ Decide(a, "rejected")

\* The version comes from the action as read before the lock, so from any earlier
\* length of its submissions.
ApproveInOneCall(a) ==
  \E seen \in 0..Len(actions[a].submissions) : CompleteAndApproveActionAtomic(a, seen + 1)

Close(t) == CloseTaskAtomic(t, tasks[t].revision)

Init ==
  /\ artifacts = {}
  /\ tasks = <<>> /\ inspections = <<>> /\ actions = <<>>
  /\ idem = <<>>
  /\ events = [t \in TaskIds |-> <<>>]
  /\ audits = <<>>

Drawn(S, used) == Draw(S \ used)
KeysTried == DOMAIN idem \cup LegacyKeys \cup Drawn(Keys, DOMAIN idem \cup LegacyKeys)

Next ==
  \/ \E a \in Artifacts : AddArtifact(a)
  \/ \E k \in KeysTried, f \in Fingerprints :
       \/ \E t \in Drawn(TaskIds, DOMAIN tasks), p \in Plans : CreateTask(t, p, k, f)
       \/ \E i \in Drawn(InspectionIds, DOMAIN inspections), t \in DOMAIN tasks,
             anomalies \in Outcomes :
            Inspect(i, t, anomalies, k, f) \/ Correct(i, t, anomalies, k, f)
       \/ \E a \in Drawn(ActionIds, DOMAIN actions), t \in DOMAIN tasks :
            Recommend(a, t, k, f)
  \/ \E a \in DOMAIN actions, k \in KeysTried \cup {NoKey}, f \in Fingerprints :
       Submit(a, k, f)
  \/ \E a \in DOMAIN actions : Approve(a) \/ Reject(a) \/ ApproveInOneCall(a)
  \/ \E t \in DOMAIN tasks : Close(t)

Spec == Init /\ [][Next]_vars

(***************************************************************************)
(* Properties.                                                             *)
(***************************************************************************)
\* Every map holds records of its kind.
TypeOK ==
  /\ artifacts \subseteq Artifacts
  /\ DOMAIN tasks \subseteq TaskIds /\ tasks \in [DOMAIN tasks -> Task]
  /\ DOMAIN inspections \subseteq InspectionIds
  /\ inspections \in [DOMAIN inspections -> InspectionEntry]
  /\ DOMAIN actions \subseteq ActionIds /\ actions \in [DOMAIN actions -> Action]
  /\ DOMAIN idem \subseteq Keys /\ idem \in [DOMAIN idem -> IdempotencyRecord]
  /\ events \in [TaskIds -> Seq(AuditEvent)]
  /\ DOMAIN audits \subseteq DOMAIN tasks

\* No two open tasks hold overlapping windows for one artifact or one owner,
\* whatever interleaving of creations and closings produced them.
ScheduleExclusive ==
  \A t, u \in DOMAIN tasks :
    /\ t # u
    /\ tasks[t].status # "closed" /\ tasks[u].status # "closed"
    => ~Clash(tasks[t].plan, tasks[u].plan)

\* The inspections of a task form one chain of versions: the current one is its only
\* active entry, and each older one names a successor that supersedes it.
InspectionChain ==
  \A i \in DOMAIN inspections :
    LET t == inspections[i].task
        cur == tasks[t].current
    IN  /\ t \in DOMAIN tasks /\ cur \in InspectionsOf(t)
        /\ inspections[i].active <=> i = cur
        /\ IF i = cur THEN inspections[i].supersededBy = NoInspection
           ELSE LET next == inspections[i].supersededBy
                IN  /\ next \in InspectionsOf(t)
                    /\ inspections[next].supersedes = i
                    /\ inspections[next].version = inspections[i].version + 1

\* Every action addresses an anomaly of the inspection that is still the current one
\* of its task, and no anomaly is addressed twice: a correction never strands an action.
ActionsMatchInspection ==
  /\ \A a \in DOMAIN actions :
       /\ actions[a].task \in DOMAIN tasks
       /\ tasks[actions[a].task].current = actions[a].source
       /\ actions[a].code \in inspections[actions[a].source].anomalies
  /\ \A a, b \in DOMAIN actions :
       actions[a].task = actions[b].task /\ actions[a].code = actions[b].code => a = b

\* A task is past review only when all its actions are approved and they cover every
\* anomaly, or one of them stands for all of them in the old combined form.
ReviewedIsEarned ==
  \A t \in DOMAIN tasks :
    tasks[t].status \in {"reviewed", "closed"} =>
      /\ ActionsOf(t) # {}
      /\ \A a \in ActionsOf(t) : actions[a].review = "approved"
      /\ FullyCovered(t) \/ \E a \in ActionsOf(t) : actions[a].legacy

\* Conversely the last approval is never missed: a task whose anomalies are all covered
\* by approved actions has reached the reviewed stage.
ReviewedIsReached ==
  \A t \in DOMAIN tasks :
    /\ ActionsOf(t) # {} /\ FullyCovered(t)
    /\ \A a \in ActionsOf(t) : actions[a].review = "approved"
    => tasks[t].status \in {"reviewed", "closed"}

\* The review state of an action agrees with its history: approval and complete evidence
\* go together, and the last decision is about the last result submitted.
ReviewMatchesHistory ==
  \A a \in DOMAIN actions :
    LET r == actions[a] IN
      /\ r.review = "approved" <=> r.evidenceComplete
      /\ r.review = "pending_submission" <=> r.submissions = <<>>
      /\ r.review \in {"approved", "rejected"} =>
           /\ r.reviews # <<>> /\ r.submissions # <<>>
           /\ Last(r.reviews) = [submission |-> Last(r.submissions),
                                 decision |-> r.review]

Count(t, types, object) ==
  Cardinality({n \in DOMAIN events[t] : /\ events[t][n].type \in types
                                        /\ events[t][n].object = object})

\* The trail of a task accounts for its state: it starts with the creation, steps through
\* every revision in order up to the stored one, and holds one event for each inspection,
\* assignment, submission and decision on record.
TrailAccountsForState ==
  \A t \in DOMAIN tasks :
    LET trail == events[t] IN
      /\ trail # <<>> /\ trail[1] = Event("task_created", t, 1)
      /\ Last(trail).revision = tasks[t].revision
      /\ \A n \in 2..Len(trail) :
           trail[n].revision - trail[n-1].revision \in
             IF trail[n].type = "action_review_approved" THEN {0, 1} ELSE {1}
      /\ (Last(trail).type = "task_closed") = (tasks[t].status = "closed")
      /\ \A i \in InspectionsOf(t) :
           Count(t, {"inspection_recorded", "inspection_corrected"}, i) = 1
      /\ \A a \in ActionsOf(t) :
           /\ Count(t, {"action_assigned"}, a) = 1
           /\ Count(t, {"action_result_submitted"}, a) = Len(actions[a].submissions)
           /\ Count(t, {"action_review_approved", "action_review_rejected"}, a)
                = Len(actions[a].reviews)

\* A closed task has an audit, an open one has none, and verification of an audit passes
\* at any later time: nothing the digest covers moves after the closing.
AuditsVerify ==
  /\ \A t \in DOMAIN tasks : tasks[t].status = "closed" <=> t \in DOMAIN audits
  /\ \A t \in DOMAIN audits : VerifyAudit(t) = "passed"

\* An idempotency record points at an entity that exists, of the type it names, and each
\* task, inspection and action was created under exactly one key: integrity_error is dead.
IdempotencyIntegrity ==
  LET Store == [task |-> DOMAIN tasks, inspection |-> DOMAIN inspections,
                action |-> DOMAIN actions, action_submission |-> DOMAIN actions]
  IN  /\ \A k \in DOMAIN idem : idem[k].entity \in Store[idem[k].type]
      /\ \A type \in {"task", "inspection", "action"} : \A e \in Store[type] :
           \E k \in DOMAIN idem : /\ idem[k].type = type /\ idem[k].entity = e
                                  /\ \A l \in DOMAIN idem \ {k} :
                                       idem[l].type = type => idem[l].entity # e

\* What was ever decided stays: idempotency records, approved actions, closed tasks and
\* past events are never rewritten, whatever calls follow.
HistoryIsFinal ==
  [][ /\ \A k \in DOMAIN idem : k \in DOMAIN idem' /\ idem'[k] = idem[k]
      /\ \A a \in DOMAIN actions : actions[a].review = "approved" => actions'[a] = actions[a]
      /\ \A t \in DOMAIN tasks : tasks[t].status = "closed" => tasks'[t] = tasks[t]
      /\ \A t \in TaskIds : /\ Len(events[t]) <= Len(events'[t])
                            /\ SubSeq(events'[t], 1, Len(events[t])) = events[t]
    ]_vars

WorkOf(t) == <<tasks[t], InspectionsOf(t), [i \in InspectionsOf(t) |-> inspections[i]],
               [a \in ActionsOf(t) |-> actions[a]], events[t]>>

\* Optimistic concurrency has something to hold on to: no part of a task's work changes
\* without its revision rising, and never by more than one.
RevisionMovesWithWork ==
  [][ \A t \in DOMAIN tasks :
        /\ tasks'[t].revision \in {tasks[t].revision, tasks[t].revision + 1}
        /\ tasks'[t].revision = tasks[t].revision => WorkOf(t)' = WorkOf(t) ]_vars

\* The store keeps the promise of TaskSchedule: whatever is inspected, corrected, decided or
\* closed in which order, a window is held from the booking to the closing, and no task
\* goes back to an earlier stage.
Schedule == INSTANCE TaskSchedule WITH
  Ids <- TaskIds, Windows <- Plans, Conflict <- Clash,
  window <- [t \in DOMAIN tasks |-> tasks[t].plan],
  stage <- [t \in DOMAIN tasks |-> tasks[t].status]

KeepsSchedule == Schedule!Spec

\* What a task still lacks can still be supplied: while an anomaly of the current
\* inspection has no action, creating that action is possible.
UncoveredStaysAssignable ==
  \A t \in DOMAIN tasks :
    tasks[t].status \in {"pending_action", "pending_review"} =>
      \A c \in inspections[ActiveInspection(t)].anomalies :
        AnomalyCovered(c, t) \/ Assignable(t, c, ActiveInspection(t), 0)

(***************************************************************************)
(* Liveness.  Assignees, reviewers and the owner do their part when it is  *)
(* their turn; nobody is assumed to create a task, inspect it or assign.   *)
(***************************************************************************)
Fairness ==
  /\ \A a \in ActionIds :
       /\ WF_vars(/\ a \in DOMAIN actions
                  /\ actions[a].review \in {"pending_submission", "rejected"}
                  /\ \E f \in Fingerprints : Submit(a, NoKey, f))
       /\ WF_vars(a \in DOMAIN actions /\ Approve(a))
  /\ \A t \in TaskIds : WF_vars(t \in DOMAIN tasks /\ Close(t))

FairSpec == Spec /\ Fairness

\* Once every anomaly of a task has its action, the task gets closed, however often
\* results are rejected or resubmitted on the way.
CoveredTaskCloses ==
  \A t \in TaskIds :
    (t \in DOMAIN tasks /\ ActionsOf(t) # {} /\ FullyCovered(t))
      ~> (t \in DOMAIN tasks /\ tasks[t].status = "closed")
=============================================================================
