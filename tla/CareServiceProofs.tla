-------------------------- MODULE CareServiceProofs --------------------------
(***************************************************************************)
(* Proofs about the requests of CareService, for every value of the        *)
(* constants: the sections they call take only the steps that CareStore    *)
(* allows, a request that names a revision acts on what its client has     *)
(* seen, and a keyed request is answered once and for all.                 *)
(***************************************************************************)
EXTENDS CareService, CareStoreProofs

\* The store may draw any unused id, and takes every digest that a request can have.
DrawsAny ==
  \A S \in UNION {SUBSET TaskIds, SUBSET InspectionIds, SUBSET ActionIds, SUBSET Keys} :
    Draw(S) = S
TakesDigests ==
  /\ \A p \in Plans : <<"create", p>> \in Fingerprints
  /\ \A t \in TaskIds, at \in Dates, s \in Outcomes, i \in InspectionIds \cup {NoInspection} :
       <<"inspect", t, at, s, i>> \in Fingerprints
  /\ \A t \in TaskIds, i \in InspectionIds, d \in Codes, at \in Dates :
       <<"recommend", t, i, d, at>> \in Fingerprints
  /\ \A a \in ActionIds : <<"submit", a>> \in Fingerprints
Whole == DrawsAny /\ TakesDigests

(***************************************************************************)
(* What is known of a request under way, whatever runs in between.         *)
(***************************************************************************)
TaskOps == {"inspect", "recommend", "close"}
ActionOps == {"submit", "decide", "approve"}
Ops == {"create"} \cup TaskOps \cup ActionOps

\* What the request says is of the kind its operation takes.
WellFormed(r) ==
  /\ r.op \in Ops
  /\ r.op = "create" => r.plan \in Plans
  /\ r.op \in KeyedOps => r.key \in Keys \cup {NoKey} /\ (r.op # "submit" => r.key # NoKey)
  /\ r.op \in {"inspect", "recommend"} => r.at \in Dates
  /\ r.op = "inspect" => r.anomalies \in Outcomes /\ r.old \in InspectionIds \cup {NoInspection}
  /\ r.op = "recommend" => r.code \in Codes \cup {Combined}
  /\ r.op = "decide" => r.decision \in {"approved", "rejected"}
  /\ r.op \in ActionOps \ {"approve"} => r.actionRevision \in Nat
  /\ r.op # "create" => r.revision \in Nat

\* What it names is stored, and no revision it names is ahead.
RequestOK(r) ==
  /\ WellFormed(r)
  /\ r.op \in TaskOps => r.task \in DOMAIN tasks
  /\ r.op \in ActionOps => r.action \in DOMAIN actions
  /\ r.op \in ActionOps \ {"approve"} => r.actionRevision <= actions[r.action].revision
  /\ r.op # "create" => r.revision <= tasks[Requested(r)].revision

\* What was read of an action is what it holds, until its revision rises.
ActionRead(r, got) ==
  LET a == actions[r.action]
  IN  /\ got.actionRevision \in Nat /\ got.actionRevision <= a.revision
      /\ r.op # "approve" => r.actionRevision <= got.actionRevision
      /\ got.submitted \in 0..Len(a.submissions)
      /\ got.actionRevision = a.revision =>
           /\ got.submitted = Len(a.submissions)
           /\ a.submissions # <<>> => got.version = Last(a.submissions)

\* An inspection never changes what it has found.
CodeRead(r, got) ==
  /\ got.source \in DOMAIN inspections
  /\ got.code = IF r.code = Combined THEN FirstAnomaly(inspections[got.source].anomalies)
                                     ELSE r.code

ReadOK(r, got) ==
  /\ r.op = "create" => r.plan.artifact \in artifacts
  /\ r.op = "recommend" => CodeRead(r, got)
  /\ r.op \in ActionOps => ActionRead(r, got)

\* The key of a request that was answered is taken: its section cannot run again.
Spent(r) == r.op \in KeyedOps /\ r.key # NoKey /\ r.key \in DOMAIN idem

\* The client has seen the work as it is, until the revision it names is passed.
SeenOK(r, seen) ==
  \/ Spent(r)
  \/ /\ r.op # "create" /\ r.revision # 0 /\ tasks[Requested(r)].revision = r.revision
     => seen = WorkOf(Requested(r))

CallFits(q) ==
  /\ q.stage \in {"idle", "sent", "action_read", "ready", "answered"}
  /\ q.stage # "idle" => RequestOK(q.req)
  /\ q.stage \in {"sent", "action_read", "ready"} => SeenOK(q.req, q.seen)
  /\ q.stage = "action_read" => q.req.op \in ActionOps /\ ActionRead(q.req, q.got)
  /\ q.stage = "ready" => ReadOK(q.req, q.got)
  /\ q.stage = "answered" => Spent(q.req)

CallsFit == DOMAIN calls = Clients /\ \A c \in Clients : \A q \in {calls[c]} : CallFits(q)

ServiceInv == IInv /\ CallsFit

(***************************************************************************)
(* The store only grows: what a request names stays, and what was read of  *)
(* it can only be passed by a higher revision.                             *)
(***************************************************************************)
TasksGrow ==
  \A t \in DOMAIN tasks : t \in DOMAIN tasks' /\ tasks'[t].plan = tasks[t].plan

InspectionsGrow ==
  \A i \in DOMAIN inspections :
    /\ i \in DOMAIN inspections'
    /\ inspections'[i].task = inspections[i].task
    /\ inspections'[i].anomalies = inspections[i].anomalies
    /\ inspections'[i].supersedes = inspections[i].supersedes

ActionsGrow ==
  \A a \in DOMAIN actions :
    /\ a \in DOMAIN actions'
    /\ actions'[a].task = actions[a].task /\ actions'[a].source = actions[a].source
    /\ actions'[a].code = actions[a].code
    /\ \/ actions'[a] = actions[a]
       \/ /\ actions'[a].revision = actions[a].revision + 1
          /\ Len(actions'[a].submissions) >= Len(actions[a].submissions)

StoreGrows == artifacts \subseteq artifacts' /\ TasksGrow /\ InspectionsGrow
              /\ ActionsGrow /\ KeysKept

LEMMA StoreStaysGrows == ASSUME UNCHANGED vars PROVE StoreGrows
BY DEF vars, StoreGrows, TasksGrow, InspectionsGrow, ActionsGrow, KeysKept

LEMMA MovesGrow == ASSUME NEW t, NEW status, Moves(t, status) PROVE TasksGrow
BY DEF Moves, TasksGrow

LEMMA OneActionGrows ==
  ASSUME IInv, NEW a \in DOMAIN actions, NEW review, NEW subs, NEW t, NEW status,
         ActionMoves(a, review), Moves(t, status),
         actions'[a].revision = actions[a].revision + 1, actions'[a].submissions = subs,
         subs = actions[a].submissions \/ \E v : subs = Append(actions[a].submissions, v),
         artifacts' = artifacts, inspections' = inspections, KeysKept
  PROVE  StoreGrows
<1>1. actions[a].submissions \in Seq(Nat)
  BY TypeFacts DEF TypeOK, Action
<1>2. Len(subs) >= Len(actions[a].submissions)
  BY <1>1
<1>3. ActionsGrow
  BY <1>2 DEF ActionMoves, ActionsGrow
<1>4. QED BY <1>3, MovesGrow DEF StoreGrows, InspectionsGrow

LEMMA SubmittingGrows == ASSUME IInv, Submitting PROVE StoreGrows
<1>1. PICK a \in DOMAIN actions, k \in Keys \cup {NoKey}, f \in Fingerprints :
        SubmitActionAtomic(a, Len(actions[a].submissions) + 1,
                           Revisions(a)[1], Revisions(a)[2], k, f)
  BY DEF Submitting
<1> DEFINE subs == Append(actions[a].submissions, Len(actions[a].submissions) + 1)
           t == actions[a].task
<1>2. /\ actions' = [actions EXCEPT ![a].submissions = subs,
                                    ![a].review = "pending_review",
                                    ![a].evidenceComplete = FALSE,
                                    ![a].revision = @ + 1]
      /\ tasks' = [tasks EXCEPT ![t].revision = @ + 1]
      /\ inspections' = inspections /\ artifacts' = artifacts
  BY <1>1 DEF SubmitActionAtomic
<1>3. \E v : subs = Append(actions[a].submissions, v)
  OBVIOUS
<1> HIDE DEF subs
<1>4. /\ t \in DOMAIN tasks /\ actions \in [DOMAIN actions -> Action]
      /\ tasks \in [DOMAIN tasks -> Task]
  BY TypeFacts DEF ActionsHaveTasks, TypeOK
<1>5. /\ ActionMoves(a, "pending_review") /\ Moves(t, tasks[t].status)
      /\ actions'[a].revision = actions[a].revision + 1 /\ actions'[a].submissions = subs
  BY <1>2, <1>4 DEF ActionMoves, Action, Moves, Task
<1>6. KeysKept
  BY <1>1, SavedKeys DEF SubmitActionAtomic, KeysKept
<1>7. QED BY <1>2, <1>3, <1>5, <1>6, OneActionGrows

LEMMA DecidingGrows == ASSUME IInv, Deciding PROVE StoreGrows
<1>1. PICK a \in DOMAIN actions, decision \in {"approved", "rejected"} :
        ReviewActionAtomic(a, [submission |-> Last(actions[a].submissions),
                               decision |-> decision], Revisions(a)[1], Revisions(a)[2])
  BY DEF Deciding
<1> DEFINE t == actions[a].task
           revs == Append(actions[a].reviews, [submission |-> Last(actions[a].submissions),
                                               decision |-> decision])
           status == IF decision = "approved" /\ OthersApproved(a) /\ FullyCovered(t)
                     THEN "reviewed" ELSE "pending_review"
<1>2. /\ actions' = [actions EXCEPT ![a].reviews = revs,
                                    ![a].evidenceComplete = (decision = "approved"),
                                    ![a].review = decision,
                                    ![a].revision = @ + 1]
      /\ tasks' = [tasks EXCEPT ![t].status = status, ![t].revision = @ + 1]
      /\ inspections' = inspections /\ artifacts' = artifacts /\ KeysKept
  BY <1>1 DEF ReviewActionAtomic, KeysKept
<1> HIDE DEF revs, status
<1>3. /\ t \in DOMAIN tasks /\ actions \in [DOMAIN actions -> Action] /\ TypeOK
  BY TypeFacts DEF ActionsHaveTasks, TypeOK
<1>4. /\ ActionMoves(a, decision) /\ actions'[a].submissions = actions[a].submissions
      /\ actions'[a].revision = actions[a].revision + 1
  BY <1>2, <1>3 DEF ActionMoves, Action
<1>5. Moves(t, status)
  BY <1>2, <1>3, MovesIntro
<1>6. QED BY <1>2, <1>4, <1>5, OneActionGrows

LEMMA CompletingGrows == ASSUME IInv, Completing PROVE StoreGrows
<1>1. PICK a \in DOMAIN actions, version \in Int : CompleteAndApproveActionAtomic(a, version)
  BY DEF Completing
<1> DEFINE t == actions[a].task
           subs == Append(actions[a].submissions, version)
           revs == Append(actions[a].reviews, [submission |-> version,
                                               decision |-> "approved"])
           status == IF OthersApproved(a) /\ (actions[a].legacy \/ FullyCovered(t))
                     THEN "reviewed" ELSE tasks[t].status
<1>2. /\ actions' = [actions EXCEPT ![a].submissions = subs,
                                    ![a].reviews = revs,
                                    ![a].evidenceComplete = TRUE,
                                    ![a].review = "approved",
                                    ![a].revision = @ + 1]
      /\ tasks' = [tasks EXCEPT ![t].status = status, ![t].revision = @ + 1]
      /\ inspections' = inspections /\ artifacts' = artifacts /\ KeysKept
  BY <1>1 DEF CompleteAndApproveActionAtomic, KeysKept
<1>3. \E v : subs = Append(actions[a].submissions, v)
  OBVIOUS
<1> HIDE DEF subs, revs, status
<1>4. /\ t \in DOMAIN tasks /\ actions \in [DOMAIN actions -> Action] /\ TypeOK
  BY TypeFacts DEF ActionsHaveTasks, TypeOK
<1>5. /\ ActionMoves(a, "approved") /\ actions'[a].submissions = subs
      /\ actions'[a].revision = actions[a].revision + 1
  BY <1>2, <1>4 DEF ActionMoves, Action
<1>6. Moves(t, status)
  BY <1>2, <1>4, MovesIntro
<1>7. QED BY <1>2, <1>3, <1>5, <1>6, OneActionGrows

LEMMA InspectingGrows ==
  ASSUME IInv, Recording \/ Correcting
  PROVE  StoreGrows
<1>0. /\ TypeOK /\ Chain /\ tasks \in [DOMAIN tasks -> Task]
      /\ inspections \in [DOMAIN inspections -> InspectionEntry]
  BY TypeFacts DEF TypeOK
<1>1. PICK i, t, type, k, f, old, new :
        /\ i \in InspectionIds \ DOMAIN inspections /\ t \in DOMAIN tasks
        /\ KeyIsFree(k) /\ AdoptInspection(i, t, type, k, f)
        /\ \/ inspections' = Put(inspections, i, new)
           \/ inspections' = Put(Supersede(old, i), i, new)
  <2>1. CASE Recording
    <3>1. PICK i \in InspectionIds \ DOMAIN inspections, t \in DOMAIN tasks,
               anomalies \in Outcomes, k \in Keys, f \in Fingerprints :
            RecordFirstInspection(i, t, anomalies, tasks[t].revision, k, f)
      BY <2>1 DEF Recording
    <3>2. QED BY <3>1 DEF RecordFirstInspection
  <2>2. CASE Correcting
    <3>1. PICK i \in InspectionIds \ DOMAIN inspections, t \in DOMAIN tasks,
               anomalies \in Outcomes, k \in Keys, f \in Fingerprints :
            CorrectInspection(i, t, anomalies, ActiveInspection(t), tasks[t].revision, k, f)
      BY <2>2 DEF Correcting
    <3>2. QED BY <3>1 DEF CorrectInspection
  <2>3. QED BY <2>1, <2>2
<1>2. InspectionsGrow
  BY <1>0, <1>1 DEF InspectionsGrow, Put, Supersede, InspectionEntry
<1>3. TasksGrow /\ artifacts' = artifacts /\ actions' = actions
  BY <1>0, <1>1 DEF AdoptInspection, TasksGrow, Task
<1>4. KeysKept
  BY <1>1, SavedKeys DEF AdoptInspection
<1>5. QED BY <1>2, <1>3, <1>4 DEF StoreGrows, ActionsGrow

LEMMA CreatingGrows == ASSUME Creating PROVE StoreGrows
<1>1. PICK t \in TaskIds \ DOMAIN tasks, p \in Plans, k \in Keys, f \in Fingerprints :
        CreateTaskAtomic(t, p, k, f)
  BY DEF Creating
<1>2. TasksGrow /\ UNCHANGED <<artifacts, inspections, actions>>
  BY <1>1 DEF CreateTaskAtomic, Put, TasksGrow
<1>3. KeysKept
  BY <1>1, SavedKeys DEF CreateTaskAtomic
<1>4. QED BY <1>2, <1>3 DEF StoreGrows, InspectionsGrow, ActionsGrow

LEMMA AssigningGrows == ASSUME IInv, Assigning PROVE StoreGrows
<1>1. PICK a \in ActionIds \ DOMAIN actions, t \in DOMAIN tasks, c \in Codes,
           legacy \in BOOLEAN, k \in Keys, f \in Fingerprints :
        CreateActionAtomic(a, t, c, ActiveInspection(t), legacy, tasks[t].revision, k, f)
  BY DEF Assigning
<1>2. ActionsGrow /\ UNCHANGED <<artifacts, inspections>>
  BY <1>1 DEF CreateActionAtomic, Put, ActionsGrow
<1>3. TasksGrow
  BY AssigningEffect, MovesGrow, TypeFacts
<1>4. KeysKept
  BY <1>1, SavedKeys DEF CreateActionAtomic
<1>5. QED BY <1>2, <1>3, <1>4 DEF StoreGrows, InspectionsGrow

LEMMA ClosingGrows == ASSUME IInv, Closing PROVE StoreGrows
<1>1. TasksGrow
  BY ClosingEffect, MovesGrow, TypeFacts
<1>2. UNCHANGED <<artifacts, inspections, actions, idem>>
  BY DEF Closing, CloseTaskAtomic
<1>3. QED BY <1>1, <1>2 DEF StoreGrows, InspectionsGrow, ActionsGrow, KeysKept

LEMMA Growth == ASSUME IInv, [Next]_vars PROVE StoreGrows
<1>1. CASE Registering
  BY <1>1 DEF Registering, AddArtifact, StoreGrows, TasksGrow, InspectionsGrow,
              ActionsGrow, KeysKept
<1>2. QED BY <1>1, StoreStaysGrows, SubmittingGrows, DecidingGrows, CompletingGrows,
             InspectingGrows, CreatingGrows, AssigningGrows, ClosingGrows,
             NextIsOneSection, TypeFacts

(***************************************************************************)
(* What is known of a request stays known, whatever section runs.          *)
(***************************************************************************)
LEMMA RequestedIsStored ==
  ASSUME IInv, NEW r, RequestOK(r), r.op # "create"
  PROVE  Requested(r) \in DOMAIN tasks /\ Requested(r) \in TaskIds /\ r.revision \in Nat
<1>1. r.op \in TaskOps \/ r.op \in ActionOps
  BY DEF RequestOK, WellFormed, Ops
<1>2. TypeOK /\ ActionsHaveTasks
  BY TypeFacts
<1>3. CASE r.op \in TaskOps
  BY <1>2, <1>3 DEF RequestOK, WellFormed, Requested, TaskOps, TypeOK
<1>4. CASE r.op \in ActionOps
  BY <1>2, <1>4 DEF RequestOK, WellFormed, Requested, ActionOps, ActionsHaveTasks, TypeOK
<1>5. QED BY <1>1, <1>3, <1>4

LEMMA RevisionRises ==
  ASSUME IInv, [Next]_vars, NEW t \in DOMAIN tasks
  PROVE  /\ t \in DOMAIN tasks'
         /\ tasks[t].revision \in Nat /\ tasks'[t].revision \in Nat
         /\ tasks[t].revision <= tasks'[t].revision
<1>1. tasks[t].revision \in Nat
  BY TypeFacts DEF Task
<1>2. t \in DOMAIN tasks'
  BY Growth DEF StoreGrows, TasksGrow
<1>3. QED BY <1>1, <1>2, RevisionStep

LEMMA RequestedStays ==
  ASSUME IInv, [Next]_vars, NEW r, RequestOK(r), r.op # "create"
  PROVE  Requested(r)' = Requested(r)
<1>1. r.op \in TaskOps \/ r.op \in ActionOps
  BY DEF RequestOK, WellFormed, Ops
<1>2. ActionsGrow
  BY Growth DEF StoreGrows
<1>3. QED BY <1>1, <1>2 DEF RequestOK, Requested, TaskOps, ActionOps, ActionsGrow

LEMMA RequestKept ==
  ASSUME IInv, [Next]_vars, NEW r, RequestOK(r)
  PROVE  RequestOK(r)'
<1>1. WellFormed(r)'
  BY DEF RequestOK, WellFormed
<1>2. r.op \in TaskOps => r.task \in DOMAIN tasks'
  BY Growth DEF RequestOK, StoreGrows, TasksGrow
<1>3. ASSUME r.op \in ActionOps
      PROVE  /\ r.action \in DOMAIN actions'
             /\ r.op # "approve" => r.actionRevision <= actions'[r.action].revision
  <2>1. r.action \in DOMAIN actions /\ actions[r.action].revision \in Nat
    BY <1>3, TypeFacts DEF RequestOK, TypeOK, Action
  <2>2. /\ r.action \in DOMAIN actions'
        /\ \/ actions'[r.action].revision = actions[r.action].revision
           \/ actions'[r.action].revision = actions[r.action].revision + 1
    BY <2>1, Growth DEF StoreGrows, ActionsGrow
  <2>3. QED BY <1>3, <2>1, <2>2 DEF RequestOK, WellFormed, ActionOps
<1>4. ASSUME r.op # "create"
      PROVE  r.revision <= tasks'[Requested(r)'].revision
  <2>1. PICK t \in DOMAIN tasks : t = Requested(r) /\ r.revision \in Nat
    BY <1>4, RequestedIsStored
  <2>2. Requested(r)' = t
    BY <1>4, <2>1, RequestedStays
  <2>3. r.revision <= tasks[t].revision
    BY <1>4, <2>1 DEF RequestOK
  <2>4. QED BY <2>1, <2>2, <2>3, RevisionRises
<1>5. QED BY <1>1, <1>2, <1>3, <1>4 DEF RequestOK

LEMMA ActionReadKept ==
  ASSUME IInv, [Next]_vars, NEW r, NEW got, RequestOK(r), r.op \in ActionOps,
         ActionRead(r, got)
  PROVE  ActionRead(r, got)'
<1>1. PICK a \in DOMAIN actions : a = r.action
  BY DEF RequestOK
<1>2. actions[a].revision \in Nat /\ actions[a].submissions \in Seq(Nat)
  BY TypeFacts DEF TypeOK, Action
<1>3. CASE actions'[a] = actions[a]
  BY <1>1, <1>3 DEF ActionRead, Last
<1>4. CASE /\ actions'[a].revision = actions[a].revision + 1
           /\ Len(actions'[a].submissions) >= Len(actions[a].submissions)
  <2>1. Len(actions'[a].submissions) \in Nat
    BY Growth, TypeStep, TypeFacts DEF StoreGrows, ActionsGrow, TypeOK, Action
  <2>2. /\ got.actionRevision <= actions'[a].revision
        /\ got.actionRevision # actions'[a].revision
        /\ got.submitted \in 0..Len(actions'[a].submissions)
    BY <1>1, <1>2, <1>4, <2>1 DEF ActionRead
  <2>3. QED BY <1>1, <2>2 DEF ActionRead
<1>5. QED BY <1>3, <1>4, Growth DEF StoreGrows, ActionsGrow

LEMMA ReadKept ==
  ASSUME IInv, [Next]_vars, NEW r, NEW got, RequestOK(r), ReadOK(r, got)
  PROVE  ReadOK(r, got)'
<1>1. r.op = "create" => r.plan.artifact \in artifacts'
  BY Growth DEF ReadOK, StoreGrows
<1>2. r.op = "recommend" => CodeRead(r, got)'
  BY Growth DEF ReadOK, CodeRead, StoreGrows, InspectionsGrow
<1>3. r.op \in ActionOps => ActionRead(r, got)'
  BY ActionReadKept DEF ReadOK
<1>4. QED BY <1>1, <1>2, <1>3 DEF ReadOK

LEMMA SpentKept ==
  ASSUME IInv, [Next]_vars, NEW r, Spent(r)
  PROVE  Spent(r)'
BY Growth DEF Spent, StoreGrows, KeysKept

LEMMA SeenKept ==
  ASSUME IInv, [Next]_vars, NEW r, NEW seen, RequestOK(r), SeenOK(r, seen)
  PROVE  SeenOK(r, seen)'
<1>1. CASE Spent(r)
  BY <1>1, SpentKept DEF SeenOK
<1>2. CASE r.op = "create"
  BY <1>2 DEF SeenOK
<1>3. CASE ~Spent(r) /\ r.op # "create"
  <2>1. PICK t \in DOMAIN tasks : t = Requested(r) /\ r.revision \in Nat
    BY <1>3, RequestedIsStored
  <2>2. Requested(r)' = t /\ r.revision <= tasks[t].revision
    BY <1>3, <2>1, RequestedStays DEF RequestOK
  <2>3. WorkOf(Requested(r))' = WorkOf(t)'
    BY <2>2 DEF WorkOf, ActionsOf, InspectionsOf
  <2>4. tasks'[t].revision = r.revision => tasks[t].revision = r.revision
    BY <2>1, <2>2, RevisionRises
  <2>5. ASSUME r.revision # 0, tasks'[t].revision = r.revision
        PROVE  seen = WorkOf(t)'
    BY <1>3, <2>1, <2>4, <2>5, RevisionStep DEF SeenOK
  <2>6. QED BY <2>2, <2>3, <2>5 DEF SeenOK
<1>4. QED BY <1>1, <1>2, <1>3

LEMMA CallKept ==
  ASSUME IInv, [Next]_vars, NEW q, CallFits(q)
  PROVE  CallFits(q)'
<1>1. q.stage # "idle" => RequestOK(q.req)'
  BY RequestKept DEF CallFits
<1>2. q.stage \in {"sent", "action_read", "ready"} => SeenOK(q.req, q.seen)'
  BY SeenKept DEF CallFits
<1>3. q.stage = "action_read" => q.req.op \in ActionOps /\ ActionRead(q.req, q.got)'
  BY ActionReadKept DEF CallFits
<1>4. q.stage = "ready" => ReadOK(q.req, q.got)'
  BY ReadKept DEF CallFits
<1>5. q.stage = "answered" => Spent(q.req)'
  BY SpentKept DEF CallFits
<1>6. QED BY <1>1, <1>2, <1>3, <1>4, <1>5 DEF CallFits

\* A step of the service settles the calls if it settles those it changes.
LEMMA CallsStep ==
  ASSUME ServiceInv, [Next]_vars, NEW c \in Clients, NEW q, CallFits(q)',
         calls' = [calls EXCEPT ![c] = q]
  PROVE  CallsFit'
<1>1. DOMAIN calls' = Clients /\ \A d \in Clients : calls'[d] \in {calls[d], q}
  BY DEF ServiceInv, CallsFit
<1>2. \A d \in Clients : \A p \in {calls[d]} : CallFits(p)'
  BY CallKept DEF ServiceInv, CallsFit
<1>3. \A d \in Clients : \A p \in {calls'[d]} : CallFits(p)'
  BY <1>1, <1>2
<1>4. QED BY <1>1, <1>3 DEF CallsFit

LEMMA CallsOnly ==
  ASSUME ServiceInv, UNCHANGED vars, NEW c \in Clients, NEW q, CallFits(q),
         calls' = [calls EXCEPT ![c] = q]
  PROVE  CallsFit'
BY CallKept, CallsStep DEF ServiceInv

LEMMA IdleFits == CallFits(Idle)
BY DEF CallFits, Idle

(***************************************************************************)
(* A request that is sent names what is stored, and no revision ahead.     *)
(***************************************************************************)
LEMMA KeysSentAreKeys == ServiceInv => KeysSent \subseteq Keys
<1> SUFFICES ASSUME ServiceInv PROVE KeysSent \subseteq Keys
  OBVIOUS
<1>1. \A c \in Clients : calls[c].stage # "idle" /\ calls[c].req.op \in KeyedOps
                         => calls[c].req.key \in Keys \cup {NoKey}
  BY DEF ServiceInv, CallsFit, CallFits, RequestOK, WellFormed
<1>2. InFlight \subseteq Keys \cup {NoKey}
  BY <1>1 DEF InFlight
<1>3. DOMAIN idem \subseteq Keys
  BY TypeFacts DEF ServiceInv, TypeOK
<1>4. KnownKeys \subseteq Keys
  BY <1>2, <1>3, KeyAssumption DEF KnownKeys
<1>5. Mint(Keys \ KnownKeys) \subseteq Keys \ KnownKeys
  BY ServiceAssumption
<1>6. QED BY <1>4, <1>5 DEF KeysSent

LEMMA NamedRevisions ==
  ASSUME IInv, NEW c
  PROVE  /\ \A t \in DOMAIN tasks : /\ tasks[t].revision \in Nat
                                    /\ TaskRevision(c, t) \in Nat
                                    /\ TaskRevision(c, t) <= tasks[t].revision
         /\ \A a \in DOMAIN actions : /\ actions[a].task \in DOMAIN tasks
                                      /\ ActionRevision(c, a) \in Nat
                                      /\ ActionRevision(c, a) <= actions[a].revision
<1>1. \A t \in DOMAIN tasks : tasks[t].revision \in Nat
  BY TypeFacts DEF Task
<1>2. \A a \in DOMAIN actions : actions[a].revision \in Nat /\ actions[a].task \in DOMAIN tasks
  BY TypeFacts DEF TypeOK, Action, ActionsHaveTasks
<1>3. QED BY <1>1, <1>2 DEF TaskRevision, ActionRevision

LEMMA SentTaskRequests ==
  ASSUME ServiceInv, NEW c, NEW t \in DOMAIN tasks,
         NEW r \in Inspections(c, t) \cup Recommendations(c, t) \cup Closings(t)
  PROVE  RequestOK(r)
<1>1. /\ TaskRevision(c, t) \in Nat /\ TaskRevision(c, t) <= tasks[t].revision
      /\ tasks[t].revision \in Nat
  BY NamedRevisions DEF ServiceInv
<1>2. KeysSent \subseteq Keys /\ NoKey \notin Keys /\ InspectionsOf(t) \subseteq InspectionIds
  BY KeysSentAreKeys, KeyAssumption, TypeFacts DEF ServiceInv, TypeOK, InspectionsOf
<1>3. CASE r \in Inspections(c, t)
  BY <1>1, <1>2, <1>3 DEF Inspections, RequestOK, WellFormed, Ops, TaskOps, ActionOps,
                          KeyedOps, Requested
<1>4. CASE r \in Recommendations(c, t)
  BY <1>1, <1>2, <1>4 DEF Recommendations, RequestOK, WellFormed, Ops, TaskOps, ActionOps,
                          KeyedOps, Requested
<1>5. CASE r \in Closings(t)
  BY <1>1, <1>5 DEF Closings, RequestOK, WellFormed, Ops, TaskOps, ActionOps,
                    KeyedOps, Requested
<1>6. QED BY <1>3, <1>4, <1>5

LEMMA SentActionRequests ==
  ASSUME ServiceInv, NEW c, NEW a \in DOMAIN actions,
         NEW r \in Submissions(c, a) \cup Decisions(c, a) \cup OneCallReviews(c, a)
  PROVE  RequestOK(r)
<1>1. PICK t \in DOMAIN tasks : t = actions[a].task
  BY NamedRevisions DEF ServiceInv
<1>2. /\ TaskRevision(c, t) \in Nat /\ TaskRevision(c, t) <= tasks[t].revision
      /\ ActionRevision(c, a) \in Nat /\ ActionRevision(c, a) <= actions[a].revision
  BY NamedRevisions DEF ServiceInv
<1>3. KeysSent \subseteq Keys
  BY KeysSentAreKeys
<1>4. CASE r \in Submissions(c, a)
  BY <1>1, <1>2, <1>3, <1>4 DEF Submissions, RequestOK, WellFormed, Ops, TaskOps, ActionOps,
                                KeyedOps, Requested
<1>5. CASE r \in Decisions(c, a)
  BY <1>1, <1>2, <1>5 DEF Decisions, RequestOK, WellFormed, Ops, TaskOps, ActionOps,
                          KeyedOps, Requested
<1>6. CASE r \in OneCallReviews(c, a)
  BY <1>1, <1>2, <1>6 DEF OneCallReviews, RequestOK, WellFormed, Ops, TaskOps, ActionOps,
                          KeyedOps, Requested
<1>7. QED BY <1>4, <1>5, <1>6

LEMMA SentIsOK ==
  ASSUME ServiceInv, NEW c, NEW r \in Requests(c)
  PROVE  RequestOK(r)
<1> DEFINE OfTask(t) == Inspections(c, t) \cup Recommendations(c, t) \cup Closings(t)
           OfAction(a) == Submissions(c, a) \cup Decisions(c, a) \cup OneCallReviews(c, a)
           ofTasks == UNION {OfTask(t) : t \in DOMAIN tasks}
           ofActions == UNION {OfAction(a) : a \in DOMAIN actions}
<1>1. CASE r \in Creations
  BY <1>1, KeysSentAreKeys, KeyAssumption
  DEF Creations, RequestOK, WellFormed, Ops, TaskOps, ActionOps, KeyedOps
<1>2. \/ r \in Creations
      \/ \E t \in DOMAIN tasks : r \in OfTask(t)
      \/ \E a \in DOMAIN actions : r \in OfAction(a)
  <2> HIDE DEF OfTask, OfAction
  <2>1. r \in Creations \cup ofTasks \cup ofActions
    BY Zenon DEF Requests, OfTask, OfAction
  <2>2. ASSUME r \in ofTasks
        PROVE  \E t \in DOMAIN tasks : r \in OfTask(t)
    <3>1. PICK S \in {OfTask(t) : t \in DOMAIN tasks} : r \in S
      BY <2>2
    <3>2. QED BY <3>1
  <2>3. ASSUME r \in ofActions
        PROVE  \E a \in DOMAIN actions : r \in OfAction(a)
    <3>1. PICK S \in {OfAction(a) : a \in DOMAIN actions} : r \in S
      BY <2>3
    <3>2. QED BY <3>1
  <2> HIDE DEF ofTasks, ofActions
  <2>4. QED BY <2>1, <2>2, <2>3
<1>3. QED BY <1>1, <1>2, SentTaskRequests, SentActionRequests

LEMMA SendFits == ServiceInv /\ (\E c \in Clients : Send(c)) => CallsFit'
<1> SUFFICES ASSUME ServiceInv, NEW c \in Clients, Send(c) PROVE CallsFit'
  OBVIOUS
<1>1. PICK r \in Requests(c) :
        calls' = [calls EXCEPT ![c] =
                    [stage |-> "sent", req |-> r, seen |-> SeenBy(r), first |-> NoEntity]]
  BY DEF Send
<1> DEFINE q == [stage |-> "sent", req |-> r, seen |-> SeenBy(r), first |-> NoEntity]
<1>2. SeenOK(r, SeenBy(r))
  BY DEF SeenOK, SeenBy
<1>3. CallFits(q)
  BY <1>2, SentIsOK DEF CallFits
<1> HIDE DEF q
<1>4. calls' = [calls EXCEPT ![c] = q] /\ UNCHANGED vars
  BY <1>1 DEF q, Send
<1>5. QED BY <1>3, <1>4, CallsOnly

(***************************************************************************)
(* What the handlers read.                                                 *)
(***************************************************************************)
LEMMA ReadingFits ==
  ASSUME ServiceInv, NEW c \in Clients, NEW op, NEW valid, NEW stage, NEW got,
         Read(c, op, valid, stage, got),
         valid => \/ stage = "ready" /\ ReadOK(calls[c].req, got)
                  \/ /\ stage = "action_read" /\ calls[c].req.op \in ActionOps
                     /\ ActionRead(calls[c].req, got)
  PROVE  CallsFit'
<1> DEFINE q == [stage |-> stage, req |-> calls[c].req, seen |-> calls[c].seen,
                 got |-> got, first |-> calls[c].first]
<1>1. RequestOK(calls[c].req) /\ SeenOK(calls[c].req, calls[c].seen)
  BY DEF Read, ServiceInv, CallsFit, CallFits
<1>2. valid => CallFits(q)
  BY <1>1 DEF CallFits
<1> HIDE DEF q
<1>3. \/ calls' = [calls EXCEPT ![c] = q] /\ valid
      \/ calls' = [calls EXCEPT ![c] = Idle]
  BY DEF Read, Refused, q
<1>4. UNCHANGED vars
  BY DEF Read
<1>5. QED BY <1>2, <1>3, <1>4, CallsOnly, IdleFits

LEMMA ReadInspectionFits ==
  ASSUME ServiceInv, NEW c \in Clients, ReadInspection(c)
  PROVE  CallsFit'
<1> DEFINE r == calls[c].req
           source == ActiveInspection(r.task)
           found == IF source = NoInspection THEN {} ELSE inspections[source].anomalies
           named == r.code # Combined
           valid == /\ IF named THEN r.code \in found ELSE found # {}
                    /\ InTime(r)
           got == [source |-> source,
                   code |-> IF named \/ found = {} THEN r.code ELSE FirstAnomaly(found)]
<1>1. Read(c, "recommend", valid, "ready", got)
  BY DEF ReadInspection
<1>2. ASSUME valid PROVE ReadOK(r, got)
  <2>1. r.op = "recommend"
    BY <1>1 DEF Read
  <2>2. source \in DOMAIN inspections /\ found = inspections[source].anomalies
    BY <1>2, ActiveFacts
  <2>3. CodeRead(r, got)
    BY <1>2, <2>2 DEF CodeRead
  <2>4. QED BY <2>1, <2>3 DEF ReadOK, ActionOps
<1> HIDE DEF valid, got
<1>3. QED BY <1>1, <1>2, ReadingFits

LEMMA ReadActionFits ==
  ASSUME ServiceInv, NEW c \in Clients, ReadAction(c)
  PROVE  CallsFit'
<1> DEFINE r == calls[c].req
           a == actions[r.action]
           got == [actionRevision |-> a.revision, submitted |-> Len(a.submissions),
                   version |-> IF a.submissions = <<>> THEN 0 ELSE Last(a.submissions)]
<1>1. PICK op \in ActionOps, valid \in BOOLEAN : Read(c, op, valid, "action_read", got)
  <2>1. PICK op \in ActionOps : Read(c, op, op = "decide" => a.submissions # <<>>,
                                    "action_read", got)
    BY DEF ReadAction, ActionOps
  <2>2. QED BY <2>1
<1>2. RequestOK(r) /\ r.op \in ActionOps
  BY <1>1 DEF Read, ServiceInv, CallsFit, CallFits
<1>3. a.revision \in Nat /\ Len(a.submissions) \in Nat
  BY <1>2, TypeFacts DEF ServiceInv, RequestOK, TypeOK, Action
<1>4. ActionRead(r, got)
  BY <1>2, <1>3 DEF ActionRead, RequestOK
<1> HIDE DEF got
<1>5. QED BY <1>1, <1>2, <1>4, ReadingFits

LEMMA ReadTaskOfActionFits ==
  ASSUME ServiceInv, NEW c \in Clients, ReadTaskOfAction(c)
  PROVE  CallsFit'
<1> DEFINE r == calls[c].req
           got == [actionRevision |-> calls[c].got.actionRevision,
                   submitted |-> calls[c].got.submitted, version |-> calls[c].got.version,
                   revision |-> tasks[Requested(calls[c].req)].revision]
           q == [stage |-> "ready", req |-> r, seen |-> calls[c].seen, got |-> got,
                 first |-> calls[c].first]
<1>1. /\ RequestOK(r) /\ SeenOK(r, calls[c].seen) /\ r.op \in ActionOps
      /\ ActionRead(r, calls[c].got)
  BY DEF ReadTaskOfAction, ServiceInv, CallsFit, CallFits
<1>2. ActionRead(r, got)
  BY <1>1 DEF ActionRead
<1>3. CallFits(q)
  BY <1>1, <1>2 DEF CallFits, ReadOK, ActionOps
<1> HIDE DEF q
<1>4. calls' = [calls EXCEPT ![c] = q] /\ UNCHANGED vars
  BY DEF ReadTaskOfAction, q
<1>5. QED BY <1>3, <1>4, CallsOnly

LEMMA ReadsFit ==
  ASSUME ServiceInv, NEW c \in Clients,
         \/ ReadArtifact(c) \/ ReadTask(c) \/ ReadInspection(c) \/ ReadNothing(c)
         \/ ReadAction(c) \/ ReadTaskOfAction(c)
  PROVE  CallsFit'
<1>1. CASE ReadArtifact(c)
  <2>1. PICK valid \in BOOLEAN : /\ Read(c, "create", valid, "ready", <<>>)
                                 /\ valid => calls[c].req.plan.artifact \in artifacts
    BY <1>1 DEF ReadArtifact
  <2>2. valid => ReadOK(calls[c].req, <<>>)
    BY <2>1 DEF Read, ReadOK, ActionOps
  <2>3. QED BY <2>1, <2>2, ReadingFits
<1>2. CASE ReadTask(c)
  <2>1. PICK valid, got : Read(c, "inspect", valid, "ready", got)
    BY <1>2 DEF ReadTask
  <2>2. ReadOK(calls[c].req, got)
    BY <2>1 DEF Read, ReadOK, ActionOps
  <2>3. QED BY <2>1, <2>2, ReadingFits
<1>3. CASE ReadNothing(c)
  <2>1. ReadOK(calls[c].req, <<>>)
    BY <1>3 DEF ReadNothing, Read, ReadOK, ActionOps
  <2>2. QED BY <1>3, <2>1, ReadingFits DEF ReadNothing
<1>4. QED BY <1>1, <1>2, <1>3, ReadInspectionFits, ReadActionFits, ReadTaskOfActionFits

(***************************************************************************)
(* The answers.                                                            *)
(***************************************************************************)

(***************************************************************************)
(* A section carries a request out by a step of CareStore, whatever the    *)
(* reads before it were made of.                                           *)
(***************************************************************************)
LEMMA Fresh ==
  ASSUME Whole
  PROVE  /\ \A k : KeyIsFree(k) => k \in KeysTried
         /\ Mint(TaskIds \ DOMAIN tasks) \subseteq Drawn(TaskIds, DOMAIN tasks)
         /\ Mint(InspectionIds \ DOMAIN inspections)
              \subseteq Drawn(InspectionIds, DOMAIN inspections)
         /\ Mint(ActionIds \ DOMAIN actions) \subseteq Drawn(ActionIds, DOMAIN actions)
<1>1. \A S : \/ S \in SUBSET TaskIds \/ S \in SUBSET InspectionIds
             \/ S \in SUBSET ActionIds \/ S \in SUBSET Keys
             => Draw(S) = S /\ Mint(S) \subseteq S
  BY ServiceAssumption DEF Whole, DrawsAny
<1>2. QED BY <1>1 DEF Drawn, KeyIsFree, KeysTried

LEMMA SavedIsTaken ==
  ASSUME NEW k, NEW f, NEW type, NEW e, SaveIdempotency(k, f, type, e)
  PROVE  k \in DOMAIN idem'
BY DEF SaveIdempotency, Put

\* What is known of a request whose section is about to run.
LEMMA ReadyFacts ==
  ASSUME ServiceInv, NEW c \in Clients, calls[c].stage = "ready"
  PROVE  /\ IInv /\ TypeOK /\ RequestOK(calls[c].req) /\ WellFormed(calls[c].req)
         /\ ReadOK(calls[c].req, calls[c].got)
         /\ SeenOK(calls[c].req, calls[c].seen)
<1>1. CallFits(calls[c])
  BY DEF ServiceInv, CallsFit
<1>2. QED BY <1>1, TypeFacts DEF ServiceInv, CallFits, RequestOK

LEMMA CarriesCreate ==
  ASSUME Whole, ServiceInv, NEW c \in Clients, NEW e, calls[c].stage = "ready",
         calls[c].req.op = "create", CarryOut(c, e)
  PROVE  Next /\ calls[c].req.key \in DOMAIN idem'
<1> DEFINE r == calls[c].req
           f == <<"create", r.plan>>
<1>1. Fingerprint(c) = f
  BY DEF Fingerprint
<1>2. e \in Mint(TaskIds \ DOMAIN tasks) /\ CreateTaskAtomic(e, r.plan, r.key, f)
  BY <1>1 DEF CarryOut
<1>3. r.plan \in Plans /\ r.plan.artifact \in artifacts /\ f \in Fingerprints
  BY ReadyFacts DEF WellFormed, ReadOK, Whole, TakesDigests
<1>4. KeyIsFree(r.key) /\ SaveIdempotency(r.key, f, "task", e)
  BY <1>2 DEF CreateTaskAtomic
<1>5. CreateTask(e, r.plan, r.key, f)
  BY <1>2, <1>3 DEF CreateTask
<1>6. e \in Drawn(TaskIds, DOMAIN tasks) /\ r.key \in KeysTried
  BY <1>2, <1>4, Fresh
<1> HIDE DEF f
<1>7. QED BY <1>3, <1>4, <1>5, <1>6, SavedIsTaken DEF Next

LEMMA CarriesInspect ==
  ASSUME Whole, ServiceInv, NEW c \in Clients, NEW e, calls[c].stage = "ready",
         calls[c].req.op = "inspect", CarryOut(c, e)
  PROVE  Next /\ calls[c].req.key \in DOMAIN idem'
<1> DEFINE r == calls[c].req
           t == r.task
           f == <<"inspect", t, r.at, r.anomalies, r.old>>
<1>1. Fingerprint(c) = f
  BY DEF Fingerprint
<1>2. /\ e \in Mint(InspectionIds \ DOMAIN inspections)
      /\ \/ RecordFirstInspection(e, t, r.anomalies, ExpectedRevision(c), r.key, f)
         \/ CorrectInspection(e, t, r.anomalies, r.old, ExpectedRevision(c), r.key, f)
  BY <1>1 DEF CarryOut
<1>3. /\ t \in DOMAIN tasks /\ t \in TaskIds /\ r.anomalies \in Outcomes
      /\ r.at \in Dates /\ r.old \in InspectionIds \cup {NoInspection}
  BY ReadyFacts DEF RequestOK, WellFormed, TaskOps, TypeOK
<1>4. f \in Fingerprints
  BY <1>3 DEF Whole, TakesDigests
<1> HIDE DEF f
<1>5. \/ RecordFirstInspection(e, t, r.anomalies, tasks[t].revision, r.key, f)
      \/ CorrectInspection(e, t, r.anomalies, ActiveInspection(t), tasks[t].revision,
                           r.key, f)
  <2>1. CASE RecordFirstInspection(e, t, r.anomalies, ExpectedRevision(c), r.key, f)
    <3>1. tasks[t].revision = ExpectedRevision(c)
      BY <2>1 DEF RecordFirstInspection, Inspectable
    <3>2. QED BY <2>1, <3>1
  <2>2. CASE CorrectInspection(e, t, r.anomalies, r.old, ExpectedRevision(c), r.key, f)
    <3>1. tasks[t].revision = ExpectedRevision(c) /\ ActiveInspection(t) = r.old
      BY <2>2 DEF CorrectInspection, Inspectable
    <3>2. QED BY <2>2, <3>1
  <2>3. QED BY <1>2, <2>1, <2>2
<1>6. KeyIsFree(r.key) /\ SaveIdempotency(r.key, f, "inspection", e)
  BY <1>5 DEF RecordFirstInspection, CorrectInspection, AdoptInspection
<1>7. Inspect(e, t, r.anomalies, r.key, f) \/ Correct(e, t, r.anomalies, r.key, f)
  BY <1>5 DEF Inspect, Correct
<1>8. e \in Drawn(InspectionIds, DOMAIN inspections) /\ r.key \in KeysTried
  BY <1>2, <1>6, Fresh
<1>9. QED BY <1>3, <1>4, <1>6, <1>7, <1>8, SavedIsTaken DEF Next

LEMMA CarriesRecommend ==
  ASSUME Whole, ServiceInv, NEW c \in Clients, NEW e, calls[c].stage = "ready",
         calls[c].req.op = "recommend", CarryOut(c, e)
  PROVE  Next /\ calls[c].req.key \in DOMAIN idem'
<1> DEFINE r == calls[c].req
           t == r.task
           source == calls[c].got.source
           code == calls[c].got.code
           f == <<"recommend", t, source, code, r.at>>
<1>1. Fingerprint(c) = f
  BY DEF Fingerprint
<1>2. /\ e \in Mint(ActionIds \ DOMAIN actions)
      /\ CreateActionAtomic(e, t, code, source, r.code = Combined, r.revision, r.key, f)
  BY <1>1 DEF CarryOut
<1>3. /\ t \in DOMAIN tasks /\ t \in TaskIds /\ r.at \in Dates /\ CodeRead(r, calls[c].got)
      /\ inspections \in [DOMAIN inspections -> InspectionEntry]
      /\ DOMAIN inspections \subseteq InspectionIds
  BY ReadyFacts DEF RequestOK, WellFormed, ReadOK, TaskOps, TypeOK
<1>4. /\ ActiveInspection(t) = source /\ source # NoInspection
      /\ code \in inspections[source].anomalies
      /\ Assignable(t, code, source, tasks[t].revision)
  BY <1>2 DEF CreateActionAtomic, Assignable
<1>5. f \in Fingerprints
  <2>1. source \in InspectionIds /\ code \in Codes
    BY <1>3, <1>4 DEF CodeRead, InspectionEntry
  <2>2. QED BY <1>3, <2>1 DEF Whole, TakesDigests
<1> HIDE DEF f
<1>6. CreateActionAtomic(e, t, code, source, r.code = Combined, tasks[t].revision, r.key, f)
  BY <1>2, <1>4 DEF CreateActionAtomic
<1>7. Recommend(e, t, r.key, f)
  <2>1. CASE r.code = Combined
    <3>1. code = FirstAnomaly(inspections[source].anomalies) /\ (r.code = Combined) = TRUE
      BY <1>3, <2>1 DEF CodeRead
    <3>2. CreateActionAtomic(e, t, FirstAnomaly(inspections[source].anomalies), source, TRUE,
                             tasks[t].revision, r.key, f)
      BY <1>6, <3>1
    <3>3. QED BY <1>4, <3>2 DEF Recommend
  <2>2. CASE r.code # Combined
    <3>1. (r.code = Combined) = FALSE
      BY <2>2
    <3>2. CreateActionAtomic(e, t, code, source, FALSE, tasks[t].revision, r.key, f)
      BY <1>6, <3>1
    <3>3. QED BY <1>4, <3>2 DEF Recommend
  <2>3. QED BY <2>1, <2>2
<1>8. KeyIsFree(r.key) /\ SaveIdempotency(r.key, f, "action", e)
  BY <1>2 DEF CreateActionAtomic
<1>9. e \in Drawn(ActionIds, DOMAIN actions) /\ r.key \in KeysTried
  BY <1>2, <1>8, Fresh
<1>10. QED BY <1>3, <1>5, <1>7, <1>8, <1>9, SavedIsTaken DEF Next

\* An action whose revision the section accepts is as the handler has read it.
LEMMA AcceptedIsRead ==
  ASSUME ServiceInv, NEW c \in Clients, calls[c].stage = "ready",
         calls[c].req.op \in {"submit", "decide"}, calls[c].req.action \in DOMAIN actions,
         actions[calls[c].req.action].revision = ExpectedActionRevision(c)
  PROVE  LET a == actions[calls[c].req.action]
         IN  /\ calls[c].got.submitted = Len(a.submissions)
             /\ a.submissions # <<>> => calls[c].got.version = Last(a.submissions)
<1> DEFINE r == calls[c].req
           got == calls[c].got
           a == actions[r.action]
<1>1. ActionRead(r, got) /\ r.actionRevision \in Nat /\ a.revision \in Nat
  BY ReadyFacts DEF ReadOK, WellFormed, ActionOps, TypeOK, Action
<1>2. /\ got.actionRevision \in Nat /\ got.actionRevision <= a.revision
      /\ r.actionRevision <= got.actionRevision
  BY <1>1 DEF ActionRead
<1>3. got.actionRevision = a.revision
  BY <1>1, <1>2 DEF ExpectedActionRevision
<1>4. QED BY <1>1, <1>3 DEF ActionRead

LEMMA CarriesSubmit ==
  ASSUME Whole, ServiceInv, NEW c \in Clients, NEW e, calls[c].stage = "ready",
         calls[c].req.op = "submit", CarryOut(c, e)
  PROVE  Next /\ (calls[c].req.key # NoKey => calls[c].req.key \in DOMAIN idem')
<1> DEFINE r == calls[c].req
           f == <<"submit", r.action>>
<1>1. Fingerprint(c) = f
  BY DEF Fingerprint
<1>2. /\ e = r.action /\ Len(actions[e].submissions) < MaxSubmissions
      /\ SubmitActionAtomic(e, calls[c].got.submitted + 1, ExpectedActionRevision(c),
                            ExpectedRevision(c), r.key, f)
  BY <1>1 DEF CarryOut
<1>3. /\ e \in DOMAIN actions /\ e \in ActionIds
  BY <1>2, ReadyFacts DEF RequestOK, ActionOps, TypeOK
<1>4. f \in Fingerprints
  BY <1>2, <1>3 DEF Whole, TakesDigests
<1> HIDE DEF f
<1>5. /\ actions[e].revision = ExpectedActionRevision(c)
      /\ tasks[actions[e].task].revision = ExpectedRevision(c)
      /\ r.key = NoKey \/ KeyIsFree(r.key)
  BY <1>2 DEF SubmitActionAtomic, Submittable
<1>6. calls[c].got.submitted = Len(actions[e].submissions)
  BY <1>2, <1>3, <1>5, AcceptedIsRead
<1>7. Submit(e, r.key, f)
  BY <1>2, <1>5, <1>6 DEF Submit, Revisions
<1>8. r.key \in KeysTried \cup {NoKey}
  BY <1>5, Fresh
<1>9. r.key # NoKey => r.key \in DOMAIN idem'
  BY <1>2, SavedIsTaken DEF SubmitActionAtomic
<1>10. QED BY <1>3, <1>4, <1>7, <1>8, <1>9 DEF Next

LEMMA CarriesDecide ==
  ASSUME ServiceInv, NEW c \in Clients, NEW e, calls[c].stage = "ready",
         calls[c].req.op = "decide", CarryOut(c, e)
  PROVE  Next
<1> DEFINE r == calls[c].req
<1>1. /\ e = r.action
      /\ r.decision = "rejected" => Len(actions[e].submissions) < MaxSubmissions
      /\ ReviewActionAtomic(e, [submission |-> calls[c].got.version, decision |-> r.decision],
                            ExpectedActionRevision(c), ExpectedRevision(c))
  BY DEF CarryOut
<1>2. r.decision \in {"approved", "rejected"}
  BY ReadyFacts DEF WellFormed
<1>3. /\ e \in DOMAIN actions /\ actions[e].submissions # <<>>
      /\ actions[e].revision = ExpectedActionRevision(c)
      /\ tasks[actions[e].task].revision = ExpectedRevision(c)
  BY <1>1 DEF ReviewActionAtomic, Reviewable
<1>4. calls[c].got.version = Last(actions[e].submissions)
  BY <1>1, <1>3, AcceptedIsRead
<1>5. Decide(e, r.decision)
  BY <1>1, <1>3, <1>4 DEF Decide, Revisions
<1>6. Approve(e) \/ Reject(e)
  BY <1>1, <1>2, <1>5 DEF Approve, Reject
<1>7. QED BY <1>3, <1>6 DEF Next

LEMMA CarriesApprove ==
  ASSUME ServiceInv, NEW c \in Clients, NEW e, calls[c].stage = "ready",
         calls[c].req.op = "approve", CarryOut(c, e)
  PROVE  Next
<1>1. /\ e = calls[c].req.action
      /\ CompleteAndApproveActionAtomic(e, calls[c].got.submitted + 1)
  BY DEF CarryOut
<1>2. /\ e \in DOMAIN actions
      /\ calls[c].got.submitted \in 0..Len(actions[e].submissions)
  BY <1>1, ReadyFacts DEF RequestOK, ReadOK, ActionRead, ActionOps
<1>3. ApproveInOneCall(e)
  BY <1>1, <1>2 DEF ApproveInOneCall
<1>4. QED BY <1>2, <1>3 DEF Next

LEMMA CarriesClose ==
  ASSUME ServiceInv, NEW c \in Clients, NEW e, calls[c].stage = "ready",
         calls[c].req.op = "close", CarryOut(c, e)
  PROVE  Next
<1>1. CloseTaskAtomic(e, calls[c].req.revision)
  BY DEF CarryOut
<1>2. e \in DOMAIN tasks /\ tasks[e].revision = calls[c].req.revision
  BY <1>1 DEF CloseTaskAtomic, Closable
<1>3. Close(e)
  BY <1>1, <1>2 DEF Close
<1>4. QED BY <1>2, <1>3 DEF Next

LEMMA CarryingIsNext ==
  ASSUME Whole, ServiceInv, NEW c \in Clients, NEW e, calls[c].stage = "ready",
         CarryOut(c, e)
  PROVE  /\ Next
         /\ calls[c].req.op \in KeyedOps /\ calls[c].req.key # NoKey
              => calls[c].req.key \in DOMAIN idem'
<1>1. calls[c].req.op \in Ops
  BY ReadyFacts DEF WellFormed
<1>2. calls[c].req.op \in KeyedOps /\ calls[c].req.key # NoKey
        => calls[c].req.key \in DOMAIN idem'
  BY CarriesCreate, CarriesInspect, CarriesRecommend, CarriesSubmit DEF KeyedOps
<1>3. Next
  BY <1>1, CarriesCreate, CarriesInspect, CarriesRecommend, CarriesSubmit, CarriesDecide,
     CarriesApprove, CarriesClose DEF Ops, TaskOps, ActionOps
<1>4. QED BY <1>2, <1>3

(***************************************************************************)
(* The answers.                                                            *)
(***************************************************************************)
LEMMA AnsweringFits ==
  ASSUME ServiceInv, [Next]_vars, NEW c \in Clients, NEW e, calls[c].stage = "ready",
         Answered(c, e),
         calls[c].req.op \in KeyedOps /\ calls[c].req.key # NoKey
           => calls[c].req.key \in DOMAIN idem'
  PROVE  CallsFit'
<1>1. PICK r, q :
        /\ r = calls[c].req
        /\ q = [stage |-> "answered", req |-> r, entity |-> e,
                first |-> IF calls[c].first = NoEntity THEN e ELSE calls[c].first]
  OBVIOUS
<1>2. RequestOK(r)'
  BY <1>1, ReadyFacts, RequestKept
<1>3. CASE r.op \in KeyedOps /\ r.key # NoKey
  <2>1. calls' = [calls EXCEPT ![c] = q]
    BY <1>1, <1>3 DEF Answered
  <2>2. CallFits(q)'
    BY <1>1, <1>2, <1>3 DEF CallFits, Spent
  <2>3. QED BY <2>1, <2>2, CallsStep
<1>4. CASE ~(r.op \in KeyedOps /\ r.key # NoKey)
  <2>1. calls' = [calls EXCEPT ![c] = Idle]
    BY <1>1, <1>4 DEF Answered
  <2>2. CallFits(Idle)'
    BY DEF CallFits, Idle
  <2>3. QED BY <2>1, <2>2, CallsStep
<1>5. QED BY <1>3, <1>4

LEMMA CarryFits ==
  ASSUME Whole, ServiceInv, NEW c \in Clients, Carry(c)
  PROVE  Next /\ CallsFit'
<1>1. PICK e : calls[c].stage = "ready" /\ CarryOut(c, e) /\ Answered(c, e)
  BY DEF Carry
<1>2. /\ Next
      /\ calls[c].req.op \in KeyedOps /\ calls[c].req.key # NoKey
           => calls[c].req.key \in DOMAIN idem'
  BY <1>1, CarryingIsNext
<1>3. QED BY <1>1, <1>2, AnsweringFits

LEMMA ReplayFits ==
  ASSUME ServiceInv, NEW c \in Clients, Replay(c)
  PROVE  CallsFit'
<1>1. PICK e : Answered(c, e)
  BY DEF Replay
<1>2. calls[c].req.key \in DOMAIN idem' /\ UNCHANGED vars /\ calls[c].stage = "ready"
  BY DEF Replay, Replayable, IdempotentReplay, vars
<1>3. QED BY <1>1, <1>2, AnsweringFits

LEMMA RetryFits ==
  ASSUME ServiceInv, NEW c \in Clients, Retry(c)
  PROVE  CallsFit'
<1> DEFINE q == [stage |-> "sent", req |-> calls[c].req, seen |-> <<>>,
                 first |-> calls[c].first]
<1>1. RequestOK(calls[c].req) /\ Spent(calls[c].req)
  BY DEF Retry, ServiceInv, CallsFit, CallFits
<1>2. CallFits(q)
  BY <1>1 DEF CallFits, SeenOK
<1> HIDE DEF q
<1>3. calls' = [calls EXCEPT ![c] = q] /\ UNCHANGED vars
  BY DEF Retry, q
<1>4. QED BY <1>2, <1>3, CallsOnly

(***************************************************************************)
(* The invariant, and the service as an implementation of the store.       *)
(***************************************************************************)
LEMMA InitServiceInv == ServiceInit => ServiceInv
<1> SUFFICES ASSUME ServiceInit PROVE CallsFit
  BY InitIInv DEF ServiceInit, ServiceInv
<1>1. DOMAIN calls = Clients /\ \A c \in Clients : calls[c] = Idle
  BY DEF ServiceInit
<1>2. QED BY <1>1, IdleFits DEF CallsFit

\* The steps of the service that are not sections leave the store as it is.
LEMMA OutsideSections ==
  ASSUME ServiceInv, NEW c \in Clients,
         \/ Send(c) \/ Retry(c) \/ Finish(c) \/ Replay(c) \/ Refuse(c)
         \/ ReadArtifact(c) \/ ReadTask(c) \/ ReadInspection(c) \/ ReadNothing(c)
         \/ ReadAction(c) \/ ReadTaskOfAction(c)
  PROVE  UNCHANGED vars /\ CallsFit'
<1>1. CASE Send(c)
  BY <1>1, SendFits DEF Send
<1>2. CASE Retry(c)
  BY <1>2, RetryFits DEF Retry
<1>3. CASE Finish(c) \/ Refuse(c)
  <2>1. UNCHANGED vars /\ calls' = [calls EXCEPT ![c] = Idle]
    BY <1>3 DEF Finish, Refuse, Refused
  <2>2. QED BY <2>1, IdleFits, CallsOnly
<1>4. CASE Replay(c)
  BY <1>4, ReplayFits DEF Replay
<1>5. CASE \/ ReadArtifact(c) \/ ReadTask(c) \/ ReadInspection(c) \/ ReadNothing(c)
           \/ ReadAction(c) \/ ReadTaskOfAction(c)
  <2>1. UNCHANGED vars
    BY <1>5 DEF ReadArtifact, ReadTask, ReadInspection, ReadNothing, ReadAction,
                ReadTaskOfAction, Read
  <2>2. QED BY <1>5, <2>1, ReadsFit
<1>6. QED BY <1>1, <1>2, <1>3, <1>4, <1>5

LEMMA CallsStay ==
  ASSUME ServiceInv, [Next]_vars, UNCHANGED calls
  PROVE  CallsFit'
<1>1. \A d \in Clients : \A q \in {calls[d]} : CallFits(q)'
  BY CallKept DEF ServiceInv, CallsFit
<1>2. QED BY <1>1 DEF ServiceInv, CallsFit

LEMMA ServiceStep ==
  ASSUME Whole, ServiceInv, [ServiceNext]_serviceVars
  PROVE  [Next]_vars /\ ServiceInv'
<1>1. SUFFICES [Next]_vars /\ CallsFit'
  BY IInvStep DEF ServiceInv
<1>2. CASE Tick \/ UNCHANGED serviceVars
  BY <1>2, CallsStay DEF Tick, serviceVars
<1>3. CASE \E a \in Artifacts : AddArtifact(a) /\ UNCHANGED <<now, calls>>
  <2>1. Next /\ UNCHANGED calls
    BY <1>3 DEF Next
  <2>2. QED BY <2>1, CallsStay
<1>4. ASSUME NEW c \in Clients,
             \/ Send(c) \/ Retry(c) \/ Finish(c) \/ Replay(c) \/ Refuse(c)
             \/ ReadArtifact(c) \/ ReadTask(c) \/ ReadInspection(c) \/ ReadNothing(c)
             \/ ReadAction(c) \/ ReadTaskOfAction(c)
      PROVE  [Next]_vars /\ CallsFit'
  BY <1>4, OutsideSections
<1>5. QED BY <1>2, <1>3, <1>4, CarryFits DEF ServiceNext

LEMMA ServiceInvariance == ASSUME Whole PROVE ServiceSpec => []ServiceInv
<1>1. ServiceInv /\ [ServiceNext]_serviceVars => ServiceInv'
  BY ServiceStep
<1>2. QED BY <1>1, InitServiceInv, PTL DEF ServiceSpec

\* Whatever the handlers have read before the lock, and however stale it is by then, the
\* sections they call take only steps of CareStore: each property proved of the store holds
\* of the service (the revision checks in the sections of workflow.go, and the versions and
\* codes that the handlers of internal/inspection and internal/action compute).
THEOREM ServiceKeepsStore == Whole /\ ServiceSpec => ImplementsStore
<1> SUFFICES ASSUME Whole PROVE ServiceSpec => ImplementsStore
  OBVIOUS
<1>1. ServiceInit => Init
  BY DEF ServiceInit
<1>2. ServiceInv /\ [ServiceNext]_serviceVars => [Next]_vars
  BY ServiceStep
<1>3. ServiceSpec => []ServiceInv
  BY ServiceInvariance
<1>4. QED BY <1>1, <1>2, <1>3, PTL DEF ServiceSpec, ImplementsStore, Spec

(***************************************************************************)
(* A request that names the revision it has seen acts on nothing else.     *)
(***************************************************************************)
\* The section accepts a named revision only if it is the stored one, and the key is free.
LEMMA NamedIsStored ==
  ASSUME ServiceInv, NEW c \in Clients, NEW e, calls[c].stage = "ready", CarryOut(c, e),
         calls[c].req.op \in TaskOps \cup {"submit", "decide"}, calls[c].req.revision # 0
  PROVE  /\ tasks[Requested(calls[c].req)].revision = calls[c].req.revision
         /\ ~Spent(calls[c].req)
<1> DEFINE r == calls[c].req
<1>1. ExpectedRevision(c) = r.revision
  BY DEF ExpectedRevision
<1>2. CASE r.op = "inspect"
  BY <1>1, <1>2 DEF CarryOut, RecordFirstInspection, CorrectInspection, Inspectable,
                    KeyIsFree, Requested, Spent
<1>3. CASE r.op = "recommend"
  BY <1>3 DEF CarryOut, CreateActionAtomic, Assignable, KeyIsFree, Requested, Spent
<1>4. CASE r.op = "submit"
  BY <1>1, <1>4 DEF CarryOut, SubmitActionAtomic, Submittable, KeyIsFree, Requested, Spent
<1>5. CASE r.op = "decide"
  BY <1>1, <1>5 DEF CarryOut, ReviewActionAtomic, Reviewable, Requested, Spent, KeyedOps
<1>6. CASE r.op = "close"
  BY <1>6 DEF CarryOut, CloseTaskAtomic, Closable, Requested, Spent, KeyedOps
<1>7. QED BY <1>2, <1>3, <1>4, <1>5, <1>6 DEF TaskOps

\* Only the section of a request changes both the store and the request.
LEMMA OnlyCarryActs ==
  ASSUME ServiceInv, [ServiceNext]_serviceVars, NEW c \in Clients,
         vars' # vars, calls'[c] # calls[c]
  PROVE  Carry(c)
<1>1. ASSUME NEW d \in Clients, Carry(d)
      PROVE  Carry(c)
  <2>1. PICK q : calls' = [calls EXCEPT ![d] = q]
    BY <1>1 DEF Carry, Answered
  <2>2. c = d
    BY <2>1 DEF ServiceInv, CallsFit
  <2>3. QED BY <1>1, <2>2
<1>2. QED BY <1>1, OutsideSections DEF ServiceNext, Tick, serviceVars

LEMMA SeenStep ==
  ASSUME ServiceInv, [ServiceNext]_serviceVars
  PROVE  ActsOnSeen({"inspect", "recommend", "submit", "decide", "close"})
<1> SUFFICES ASSUME NEW c \in Clients, calls[c].stage = "ready",
                    calls[c].req.op \in {"inspect", "recommend", "submit", "decide", "close"},
                    calls[c].req.revision # 0, vars' # vars, calls'[c] # calls[c]
             PROVE  calls[c].seen = WorkOf(Requested(calls[c].req))
  BY DEF ActsOnSeen
<1>1. PICK e : CarryOut(c, e)
  BY OnlyCarryActs DEF Carry
<1>2. /\ tasks[Requested(calls[c].req)].revision = calls[c].req.revision
      /\ ~Spent(calls[c].req)
  BY <1>1, NamedIsStored DEF TaskOps
<1>3. SeenOK(calls[c].req, calls[c].seen)
  BY ReadyFacts
<1>4. QED BY <1>2, <1>3 DEF SeenOK

\* A request that names the revision it has seen never changes work that has moved on since:
\* the sections compare the revision with the stored one, and a stored revision stands for
\* all the work of the task (SubmitActionAtomic, ReviewActionAtomic, CloseTaskAtomic, and
\* the inspection and recommendation sections).
THEOREM NamedRevisionIsSeen == Whole /\ ServiceSpec => SeenIsActedOn
<1> SUFFICES ASSUME Whole PROVE ServiceSpec => SeenIsActedOn
  OBVIOUS
<1>1. ServiceInv /\ [ServiceNext]_serviceVars
        => [ActsOnSeen({"inspect", "recommend", "submit", "decide", "close"})]_serviceVars
  BY SeenStep
<1>2. ServiceSpec => []ServiceInv
  BY ServiceInvariance
<1>3. QED BY <1>1, <1>2, PTL DEF ServiceSpec, SeenIsActedOn

(***************************************************************************)
(* A keyed request is answered once and for all.  The records of the       *)
(* service hold what their entities were created from, which never         *)
(* changes; a request that was answered is settled by its record.          *)
(***************************************************************************)
RecordFits(record) ==
  LET e == record.entity
      f == record.fingerprint
  IN  /\ record.type = "task" =>
           e \in DOMAIN tasks /\ f = <<"create", tasks[e].plan>>
      /\ record.type = "inspection" =>
           /\ e \in DOMAIN inspections
           /\ \E at \in Dates : f = <<"inspect", inspections[e].task, at,
                                     inspections[e].anomalies, inspections[e].supersedes>>
      /\ record.type = "action" =>
           /\ e \in DOMAIN actions
           /\ \E at \in Dates : f = <<"recommend", actions[e].task, actions[e].source,
                                     actions[e].code, at>>
      /\ record.type = "action_submission" =>
           e \in DOMAIN actions /\ f = <<"submit", e>> /\ actions[e].submissions # <<>>

RecordsFit == \A k \in DOMAIN idem : \A record \in {idem[k]} : RecordFits(record)

\* The record of the request r is the one it was answered from: of its entity and content.
Settled(r, e) ==
  /\ r.op \in KeyedOps /\ r.key \in DOMAIN idem
  /\ idem[r.key].type = TypeOf(r.op) /\ idem[r.key].entity = e
  /\ r.op = "create" => /\ idem[r.key].fingerprint = <<"create", r.plan>>
                        /\ r.plan.artifact \in artifacts
  /\ r.op = "inspect" =>
       idem[r.key].fingerprint = <<"inspect", r.task, r.at, r.anomalies, r.old>>
  /\ r.op = "recommend" =>
       /\ e \in DOMAIN actions /\ CodeRead(r, actions[e])
       /\ idem[r.key].fingerprint =
            <<"recommend", r.task, actions[e].source, actions[e].code, r.at>>
  /\ r.op = "submit" => idem[r.key].fingerprint = <<"submit", r.action>>

AnswerFits(q) ==
  /\ q.stage \in {"sent", "action_read", "ready"} /\ q.first # NoEntity
       => Settled(q.req, q.first)
  /\ q.stage = "ready" /\ q.req.op = "recommend" /\ q.first # NoEntity
       => q.got.source = actions[q.first].source
  /\ q.stage = "answered" => Settled(q.req, q.entity) /\ q.first = q.entity

AnswersSettled == \A c \in Clients : \A q \in {calls[c]} : AnswerFits(q)

AnswerInv == ServiceInv /\ RecordsFit /\ AnswersSettled

LEMMA RecordKept ==
  ASSUME IInv, [Next]_vars, NEW record, RecordFits(record)
  PROVE  RecordFits(record)'
<1> DEFINE e == record.entity
<1>1. StoreGrows /\ TypeOK /\ TypeOK'
  BY Growth, TypeFacts, TypeStep
<1>2. record.type = "action_submission" =>
        e \in DOMAIN actions' /\ actions'[e].submissions # <<>>
  <2> SUFFICES ASSUME record.type = "action_submission"
               PROVE  e \in DOMAIN actions' /\ actions'[e].submissions # <<>>
    OBVIOUS
  <2>1. /\ e \in DOMAIN actions /\ e \in DOMAIN actions'
        /\ actions[e].submissions # <<>>
        /\ \/ actions'[e] = actions[e]
           \/ Len(actions'[e].submissions) >= Len(actions[e].submissions)
    BY <1>1 DEF RecordFits, StoreGrows, ActionsGrow
  <2>2. actions[e].submissions \in Seq(Nat) /\ actions'[e].submissions \in Seq(Nat)
    BY <1>1, <2>1 DEF TypeOK, Action
  <2>3. Len(actions[e].submissions) > 0
    BY <2>1, <2>2
  <2>4. QED BY <2>1, <2>2, <2>3
<1>3. record.type = "task" =>
        e \in DOMAIN tasks' /\ record.fingerprint = <<"create", tasks'[e].plan>>
  BY <1>1 DEF RecordFits, StoreGrows, TasksGrow
<1>4. record.type = "inspection" =>
        /\ e \in DOMAIN inspections'
        /\ \E at \in Dates : record.fingerprint =
             <<"inspect", inspections'[e].task, at, inspections'[e].anomalies,
               inspections'[e].supersedes>>
  BY <1>1 DEF RecordFits, StoreGrows, InspectionsGrow
<1>5. record.type = "action" =>
        /\ e \in DOMAIN actions'
        /\ \E at \in Dates : record.fingerprint =
             <<"recommend", actions'[e].task, actions'[e].source, actions'[e].code, at>>
  BY <1>1 DEF RecordFits, StoreGrows, ActionsGrow
<1>6. record.type = "action_submission" => record.fingerprint = <<"submit", e>>
  BY DEF RecordFits
<1>7. QED BY <1>2, <1>3, <1>4, <1>5, <1>6 DEF RecordFits

LEMMA SettledKept ==
  ASSUME IInv, [Next]_vars, NEW r, NEW e, Settled(r, e)
  PROVE  Settled(r, e)'
<1>1. StoreGrows
  BY Growth
<1>2. r.op = "recommend" =>
        /\ e \in DOMAIN actions' /\ CodeRead(r, actions[e])'
        /\ actions'[e].source = actions[e].source /\ actions'[e].code = actions[e].code
  BY <1>1 DEF Settled, CodeRead, StoreGrows, ActionsGrow, InspectionsGrow
<1>3. r.key \in DOMAIN idem' /\ idem'[r.key] = idem[r.key]
  BY <1>1 DEF Settled, StoreGrows, KeysKept
<1>4. r.op = "create" => r.plan.artifact \in artifacts'
  BY <1>1 DEF Settled, StoreGrows
<1>5. QED BY <1>2, <1>3, <1>4 DEF Settled

LEMMA AnswerKept ==
  ASSUME IInv, [Next]_vars, NEW q, AnswerFits(q)
  PROVE  AnswerFits(q)'
<1>1. q.stage \in {"sent", "action_read", "ready"} /\ q.first # NoEntity
        => Settled(q.req, q.first)'
  BY SettledKept DEF AnswerFits
<1>2. ASSUME q.stage = "ready", q.req.op = "recommend", q.first # NoEntity
      PROVE  q.got.source = actions'[q.first].source
  <2>1. q.first \in DOMAIN actions /\ q.got.source = actions[q.first].source
    BY <1>2 DEF AnswerFits, Settled
  <2>2. QED BY <2>1, Growth DEF StoreGrows, ActionsGrow
<1>3. q.stage = "answered" => Settled(q.req, q.entity)' /\ q.first = q.entity
  BY SettledKept DEF AnswerFits
<1>4. QED BY <1>1, <1>2, <1>3 DEF AnswerFits

LEMMA AnswersStep ==
  ASSUME AnswerInv, [Next]_vars, NEW c \in Clients, NEW q, AnswerFits(q)',
         calls' = [calls EXCEPT ![c] = q]
  PROVE  AnswersSettled'
<1>1. \A d \in Clients : calls'[d] \in {calls[d], q}
  BY DEF AnswerInv, ServiceInv, CallsFit
<1>2. \A d \in Clients : \A p \in {calls[d]} : AnswerFits(p)'
  BY AnswerKept DEF AnswerInv, ServiceInv, AnswersSettled
<1>3. \A d \in Clients : \A p \in {calls'[d]} : AnswerFits(p)'
  BY <1>1, <1>2
<1>4. QED BY <1>3 DEF AnswersSettled

LEMMA AnswersOnly ==
  ASSUME AnswerInv, UNCHANGED vars, NEW c \in Clients, NEW q, AnswerFits(q),
         calls' = [calls EXCEPT ![c] = q]
  PROVE  AnswersSettled'
BY AnswerKept, AnswersStep DEF AnswerInv, ServiceInv

LEMMA IdleAnswers == AnswerFits(Idle)
BY DEF AnswerFits, Idle

LEMMA RecordsStay ==
  ASSUME AnswerInv, [Next]_vars, idem' = idem
  PROVE  RecordsFit'
BY RecordKept DEF AnswerInv, ServiceInv, RecordsFit

LEMMA RecordAdded ==
  ASSUME AnswerInv, [Next]_vars, NEW k, NEW record, idem' = Put(idem, k, record),
         RecordFits(record)'
  PROVE  RecordsFit'
<1>1. \A l \in DOMAIN idem : \A old \in {idem[l]} : RecordFits(old)'
  BY RecordKept DEF AnswerInv, ServiceInv, RecordsFit
<1>2. \A l \in DOMAIN idem' : idem'[l] = record \/ (l \in DOMAIN idem /\ idem'[l] = idem[l])
  BY DEF Put
<1>3. \A l \in DOMAIN idem' : \A new \in {idem'[l]} : RecordFits(new)'
  BY <1>1, <1>2
<1>4. QED BY <1>3 DEF RecordsFit

(***************************************************************************)
(* A section that carries a keyed request out settles it.                  *)
(***************************************************************************)
Saves(r, e) ==
  /\ r.key \notin DOMAIN idem /\ Settled(r, e)'
  /\ \E record : idem' = Put(idem, r.key, record) /\ RecordFits(record)'

LEMMA CreateSaves ==
  ASSUME Whole, ServiceInv, NEW c \in Clients, NEW e, calls[c].stage = "ready", CarryOut(c, e),
         NEW r, r = calls[c].req, r.op = "create"
  PROVE  Saves(r, e)
<1> DEFINE f == <<"create", r.plan>>
           record == [type |-> "task", entity |-> e, fingerprint |-> f]
<1>1. Fingerprint(c) = f
  BY DEF Fingerprint
<1>2. CreateTaskAtomic(e, r.plan, r.key, f)
  BY <1>1 DEF CarryOut
<1>3. /\ idem' = Put(idem, r.key, record) /\ r.key \notin DOMAIN idem
      /\ e \in DOMAIN tasks' /\ tasks'[e].plan = r.plan /\ artifacts' = artifacts
  BY <1>2 DEF CreateTaskAtomic, SaveIdempotency, KeyIsFree, Put
<1>4. r.plan.artifact \in artifacts
  BY ReadyFacts DEF ReadOK
<1>5. RecordFits(record)'
  BY <1>3 DEF RecordFits
<1>6. r.key \in DOMAIN idem' /\ idem'[r.key] = record
  BY <1>3 DEF Put
<1>7. Settled(r, e)'
  BY <1>3, <1>4, <1>6 DEF Settled, KeyedOps, TypeOf
<1> HIDE DEF record
<1>8. QED BY <1>3, <1>5, <1>7 DEF Saves

LEMMA InspectSaves ==
  ASSUME Whole, ServiceInv, NEW c \in Clients, NEW e, calls[c].stage = "ready", CarryOut(c, e),
         NEW r, r = calls[c].req, r.op = "inspect"
  PROVE  Saves(r, e)
<1> DEFINE f == <<"inspect", r.task, r.at, r.anomalies, r.old>>
           record == [type |-> "inspection", entity |-> e, fingerprint |-> f]
<1>1. Fingerprint(c) = f
  BY DEF Fingerprint
<1>2. \/ /\ r.old = NoInspection
         /\ RecordFirstInspection(e, r.task, r.anomalies, ExpectedRevision(c), r.key, f)
      \/ CorrectInspection(e, r.task, r.anomalies, r.old, ExpectedRevision(c), r.key, f)
  BY <1>1 DEF CarryOut
<1> HIDE DEF f
<1>3. /\ idem' = Put(idem, r.key, record) /\ r.key \notin DOMAIN idem
  BY <1>2 DEF RecordFirstInspection, CorrectInspection, AdoptInspection, SaveIdempotency,
              KeyIsFree
<1>4. /\ e \in DOMAIN inspections' /\ inspections'[e].task = r.task
      /\ inspections'[e].anomalies = r.anomalies /\ inspections'[e].supersedes = r.old
  BY <1>2 DEF RecordFirstInspection, CorrectInspection, Put
<1>5. r.at \in Dates
  BY ReadyFacts DEF WellFormed
<1>6. RecordFits(record)'
  BY <1>4, <1>5 DEF RecordFits, f
<1>7. r.key \in DOMAIN idem' /\ idem'[r.key] = record
  BY <1>3 DEF Put
<1>8. Settled(r, e)'
  BY <1>7 DEF Settled, KeyedOps, TypeOf, f
<1> HIDE DEF record
<1>9. QED BY <1>3, <1>6, <1>8 DEF Saves

LEMMA RecommendSaves ==
  ASSUME Whole, ServiceInv, NEW c \in Clients, NEW e, calls[c].stage = "ready", CarryOut(c, e),
         NEW r, r = calls[c].req, r.op = "recommend"
  PROVE  Saves(r, e)
<1>0. PICK got : got = calls[c].got
  OBVIOUS
<1> DEFINE f == <<"recommend", r.task, got.source, got.code, r.at>>
           record == [type |-> "action", entity |-> e, fingerprint |-> f]
<1>1. Fingerprint(c) = f
  BY <1>0 DEF Fingerprint
<1>2. CreateActionAtomic(e, r.task, got.code, got.source, r.code = Combined, r.revision,
                         r.key, f)
  BY <1>0, <1>1 DEF CarryOut
<1> HIDE DEF f
<1>3. idem' = Put(idem, r.key, record) /\ r.key \notin DOMAIN idem
  BY <1>2 DEF CreateActionAtomic, SaveIdempotency, KeyIsFree
<1>4. /\ e \in DOMAIN actions' /\ actions'[e].task = r.task
      /\ actions'[e].source = got.source /\ actions'[e].code = got.code
      /\ inspections' = inspections
  BY <1>2 DEF CreateActionAtomic, Put
<1>5. r.at \in Dates /\ CodeRead(r, got)
  BY <1>0, ReadyFacts DEF WellFormed, ReadOK
<1>6. RecordFits(record)'
  BY <1>4, <1>5 DEF RecordFits, f
<1>7. r.key \in DOMAIN idem' /\ idem'[r.key] = record
  BY <1>3 DEF Put
<1>8. CodeRead(r, actions[e])'
  BY <1>4, <1>5 DEF CodeRead
<1>9. Settled(r, e)'
  BY <1>4, <1>7, <1>8 DEF Settled, KeyedOps, TypeOf, f
<1> HIDE DEF record
<1>10. QED BY <1>3, <1>6, <1>9 DEF Saves

LEMMA SubmitSaves ==
  ASSUME Whole, ServiceInv, NEW c \in Clients, NEW e, calls[c].stage = "ready", CarryOut(c, e),
         NEW r, r = calls[c].req, r.op = "submit", r.key # NoKey
  PROVE  Saves(r, e)
<1> DEFINE f == <<"submit", r.action>>
           version == calls[c].got.submitted + 1
           record == [type |-> "action_submission", entity |-> e, fingerprint |-> f]
<1>1. Fingerprint(c) = f
  BY DEF Fingerprint
<1>2. /\ e = r.action
      /\ SubmitActionAtomic(e, version, ExpectedActionRevision(c), ExpectedRevision(c), r.key, f)
  BY <1>1 DEF CarryOut
<1> HIDE DEF f, version
<1>3. idem' = Put(idem, r.key, record) /\ r.key \notin DOMAIN idem
  BY <1>2 DEF SubmitActionAtomic, SaveIdempotency, KeyIsFree
<1>4. e \in DOMAIN actions' /\ actions'[e].submissions # <<>>
  <2>1. /\ e \in DOMAIN actions /\ actions[e].submissions \in Seq(Nat)
        /\ actions \in [DOMAIN actions -> Action]
    BY <1>2, ReadyFacts DEF SubmitActionAtomic, Submittable, TypeOK, Action
  <2>2. /\ DOMAIN actions' = DOMAIN actions
        /\ actions'[e].submissions = Append(actions[e].submissions, version)
    BY <1>2, <2>1 DEF SubmitActionAtomic, Action
  <2>3. Append(actions[e].submissions, version) # <<>>
    BY <2>1
  <2>4. QED BY <2>1, <2>2, <2>3
<1>5. RecordFits(record)'
  BY <1>2, <1>4 DEF RecordFits, f
<1>6. r.key \in DOMAIN idem' /\ idem'[r.key] = record
  BY <1>3 DEF Put
<1>7. Settled(r, e)'
  BY <1>6 DEF Settled, KeyedOps, TypeOf, f
<1> HIDE DEF record
<1>8. QED BY <1>3, <1>5, <1>7 DEF Saves

LEMMA CarrySaves ==
  ASSUME Whole, ServiceInv, NEW c \in Clients, NEW e, calls[c].stage = "ready", CarryOut(c, e),
         NEW r, r = calls[c].req
  PROVE  /\ r.op \in KeyedOps /\ r.key # NoKey => Saves(r, e)
         /\ ~(r.op \in KeyedOps /\ r.key # NoKey) => idem' = idem
<1>1. r.op \in KeyedOps /\ r.key # NoKey => Saves(r, e)
  BY CreateSaves, InspectSaves, RecommendSaves, SubmitSaves DEF KeyedOps
<1>2. WellFormed(r)
  BY ReadyFacts
<1>3. CASE r.op = "submit" /\ r.key = NoKey
  BY <1>3 DEF CarryOut, SubmitActionAtomic
<1>4. CASE r.op = "decide"
  BY <1>4 DEF CarryOut, ReviewActionAtomic, KeyedOps
<1>5. CASE r.op = "approve"
  BY <1>5 DEF CarryOut, CompleteAndApproveActionAtomic, KeyedOps
<1>6. CASE r.op = "close"
  BY <1>6 DEF CarryOut, CloseTaskAtomic, KeyedOps
<1>7. CASE r.op \in KeyedOps /\ r.op # "submit"
  BY <1>1, <1>2, <1>7 DEF WellFormed
<1>8. QED BY <1>1, <1>2, <1>3, <1>4, <1>5, <1>6, <1>7
          DEF WellFormed, Ops, TaskOps, ActionOps, KeyedOps

(***************************************************************************)
(* The steps of the service.                                               *)
(***************************************************************************)
LEMMA AnswerFacts ==
  ASSUME AnswerInv, NEW c \in Clients
  PROVE  /\ ServiceInv /\ IInv /\ AnswerFits(calls[c]) /\ CallFits(calls[c])
BY DEF AnswerInv, AnswersSettled, ServiceInv, CallsFit

LEMMA AnsweredSettles ==
  ASSUME AnswerInv, [Next]_vars, NEW c \in Clients, NEW e, Answered(c, e),
         NEW r, r = calls[c].req,
         r.op \in KeyedOps /\ r.key # NoKey
           => Settled(r, e)' /\ calls[c].first \in {NoEntity, e}
  PROVE  AnswersSettled'
<1>1. CASE r.op \in KeyedOps /\ r.key # NoKey
  <2> DEFINE q == [stage |-> "answered", req |-> r, entity |-> e, first |-> e]
  <2>1. calls' = [calls EXCEPT ![c] = q]
    BY <1>1 DEF Answered
  <2>2. AnswerFits(q)'
    BY <1>1 DEF AnswerFits
  <2>3. QED BY <2>1, <2>2, AnswersStep
<1>2. CASE ~(r.op \in KeyedOps /\ r.key # NoKey)
  <2>1. calls' = [calls EXCEPT ![c] = Idle]
    BY <1>2 DEF Answered
  <2>2. AnswerFits(Idle)'
    BY DEF AnswerFits, Idle
  <2>3. QED BY <2>1, <2>2, AnswersStep
<1>3. QED BY <1>1, <1>2

LEMMA CarrySettles ==
  ASSUME Whole, AnswerInv, NEW c \in Clients, Carry(c)
  PROVE  RecordsFit' /\ AnswersSettled'
<1>1. PICK e : calls[c].stage = "ready" /\ CarryOut(c, e) /\ Answered(c, e)
  BY DEF Carry
<1>2. PICK r : r = calls[c].req
  OBVIOUS
<1>3. /\ r.op \in KeyedOps /\ r.key # NoKey => Saves(r, e)
      /\ ~(r.op \in KeyedOps /\ r.key # NoKey) => idem' = idem
  BY <1>1, <1>2, CarrySaves, AnswerFacts
<1>4. Next
  BY <1>1, CarryingIsNext, AnswerFacts
<1>5. RecordsFit'
  BY <1>3, <1>4, RecordAdded, RecordsStay DEF Saves
<1>6. Saves(r, e) => calls[c].first = NoEntity
  BY <1>1, <1>2, AnswerFacts DEF Saves, AnswerFits, Settled
<1>7. AnswersSettled'
  BY <1>1, <1>2, <1>3, <1>4, <1>6, AnsweredSettles DEF Saves
<1>8. QED BY <1>5, <1>7

\* A record that matches the type and the digest of a request settles it.
LEMMA MatchSettles ==
  ASSUME AnswerInv, NEW c \in Clients, calls[c].stage = "ready", Replayable(c)
  PROVE  Settled(calls[c].req, idem[calls[c].req.key].entity)
<1> DEFINE r == calls[c].req
           record == idem[r.key]
           e == record.entity
<1>1. /\ r.op \in KeyedOps /\ r.key \in DOMAIN idem
      /\ record.type = TypeOf(r.op) /\ record.fingerprint = Fingerprint(c)
  BY DEF Replayable, IdempotentReplay
<1>2. RecordFits(record)
  BY <1>1 DEF AnswerInv, RecordsFit
<1>3. ReadOK(r, calls[c].got)
  BY ReadyFacts, AnswerFacts
<1>4. CASE r.op = "create"
  BY <1>1, <1>3, <1>4 DEF Settled, Fingerprint, ReadOK
<1>5. CASE r.op = "inspect" \/ r.op = "submit"
  BY <1>1, <1>5 DEF Settled, Fingerprint
<1>6. CASE r.op = "recommend"
  <2>1. /\ record.type = "action"
        /\ record.fingerprint =
             <<"recommend", r.task, calls[c].got.source, calls[c].got.code, r.at>>
    BY <1>1, <1>6 DEF TypeOf, Fingerprint
  <2>2. /\ e \in DOMAIN actions /\ actions[e].source = calls[c].got.source
        /\ actions[e].code = calls[c].got.code
    BY <1>2, <2>1 DEF RecordFits
  <2>3. CodeRead(r, actions[e])
    BY <1>3, <1>6, <2>2 DEF ReadOK, CodeRead
  <2>4. QED BY <1>1, <1>6, <2>1, <2>2, <2>3 DEF Settled
<1>7. QED BY <1>1, <1>4, <1>5, <1>6 DEF KeyedOps

LEMMA ReplaySettles ==
  ASSUME AnswerInv, NEW c \in Clients, Replay(c)
  PROVE  AnswersSettled'
<1>1. PICK e, r : /\ r = calls[c].req /\ e = idem[r.key].entity
  OBVIOUS
<1>2. /\ calls[c].stage = "ready" /\ Replayable(c) /\ UNCHANGED vars /\ Answered(c, e)
  BY <1>1 DEF Replay
<1>3. Settled(r, e)
  BY <1>1, <1>2, MatchSettles
<1>4. Settled(r, e)'
  BY <1>2, <1>3, SettledKept, AnswerFacts
<1>5. calls[c].first \in {NoEntity, e}
  BY <1>1, <1>2, AnswerFacts DEF AnswerFits, Settled
<1>6. QED BY <1>1, <1>2, <1>4, <1>5, AnsweredSettles

LEMMA ReadSettles ==
  ASSUME AnswerInv, NEW c \in Clients, NEW op, NEW valid, NEW stage, NEW got,
         Read(c, op, valid, stage, got), stage \in {"action_read", "ready"},
         /\ valid /\ stage = "ready" /\ calls[c].req.op = "recommend"
         /\ calls[c].first # NoEntity
         => got.source = actions[calls[c].first].source
  PROVE  AnswersSettled'
<1> DEFINE q == [stage |-> stage, req |-> calls[c].req, seen |-> calls[c].seen,
                 got |-> got, first |-> calls[c].first]
<1>1. calls[c].first # NoEntity => Settled(calls[c].req, calls[c].first)
  BY AnswerFacts DEF Read, AnswerFits
<1>2. valid => AnswerFits(q)
  BY <1>1 DEF AnswerFits
<1> HIDE DEF q
<1>3. \/ calls' = [calls EXCEPT ![c] = q] /\ valid
      \/ calls' = [calls EXCEPT ![c] = Idle]
  BY DEF Read, Refused, q
<1>4. UNCHANGED vars
  BY DEF Read
<1>5. QED BY <1>2, <1>3, <1>4, AnswersOnly, IdleAnswers

\* What a repeated recommendation reads is what the first one has read: no correction has
\* replaced the inspection of its action.
LEMMA SettledIsCurrent ==
  ASSUME AnswerInv, NEW r, NEW e, Settled(r, e), r.op = "recommend"
  PROVE  /\ e \in DOMAIN actions /\ actions[e].task = r.task
         /\ ActiveInspection(r.task) = actions[e].source
         /\ actions[e].source # NoInspection
         /\ actions[e].code \in inspections[actions[e].source].anomalies
<1>1. /\ e \in DOMAIN actions
      /\ idem[r.key].type = "action" /\ idem[r.key].entity = e
      /\ idem[r.key].fingerprint =
           <<"recommend", r.task, actions[e].source, actions[e].code, r.at>>
      /\ r.key \in DOMAIN idem
  BY DEF Settled, TypeOf
<1>2. actions[e].task = r.task
  BY <1>1 DEF AnswerInv, RecordsFit, RecordFits
<1>3. Linked /\ Chain
  BY TypeFacts DEF AnswerInv, ServiceInv
<1>4. /\ actions[e].task \in DOMAIN tasks /\ actions[e].source # NoInspection
      /\ tasks[actions[e].task].current = actions[e].source
      /\ actions[e].code \in inspections[actions[e].source].anomalies
  BY <1>1, <1>3, SourceIsStored DEF Linked, ActionsMatchInspection
<1>5. QED BY <1>1, <1>2, <1>3, <1>4, ActiveIsCurrent

LEMMA ReadsSettle ==
  ASSUME AnswerInv, NEW c \in Clients,
         \/ ReadArtifact(c) \/ ReadTask(c) \/ ReadInspection(c) \/ ReadNothing(c)
         \/ ReadAction(c) \/ ReadTaskOfAction(c)
  PROVE  AnswersSettled'
<1>1. CASE ReadArtifact(c) \/ ReadTask(c) \/ ReadNothing(c) \/ ReadAction(c)
  <2>1. PICK op, valid, stage, got :
          /\ Read(c, op, valid, stage, got) /\ stage \in {"action_read", "ready"}
          /\ op # "recommend"
    BY <1>1 DEF ReadArtifact, ReadTask, ReadNothing, ReadAction
  <2>2. calls[c].req.op # "recommend"
    BY <2>1 DEF Read
  <2>3. QED BY <2>1, <2>2, ReadSettles
<1>2. CASE ReadInspection(c)
  <2>1. PICK valid, got :
          /\ Read(c, "recommend", valid, "ready", got)
          /\ got.source = ActiveInspection(calls[c].req.task)
    <3> DEFINE r == calls[c].req
               source == ActiveInspection(r.task)
               found == IF source = NoInspection THEN {} ELSE inspections[source].anomalies
               named == r.code # Combined
               valid == /\ IF named THEN r.code \in found ELSE found # {}
                        /\ InTime(r)
               got == [source |-> source,
                       code |-> IF named \/ found = {} THEN r.code ELSE FirstAnomaly(found)]
    <3>1. Read(c, "recommend", valid, "ready", got)
      BY <1>2 DEF ReadInspection
    <3>2. got.source = ActiveInspection(calls[c].req.task)
      OBVIOUS
    <3> HIDE DEF valid, got
    <3>3. QED BY <3>1, <3>2
  <2>2. calls[c].first # NoEntity => Settled(calls[c].req, calls[c].first)
    BY <2>1, AnswerFacts DEF Read, AnswerFits
  <2>3. calls[c].first # NoEntity => got.source = actions[calls[c].first].source
    BY <2>1, <2>2, SettledIsCurrent DEF Read
  <2>4. QED BY <2>1, <2>3, ReadSettles
<1>3. CASE ReadTaskOfAction(c)
  <2> DEFINE q == [stage |-> "ready", req |-> calls[c].req, seen |-> calls[c].seen,
                   got |-> [actionRevision |-> calls[c].got.actionRevision,
                            submitted |-> calls[c].got.submitted,
                            version |-> calls[c].got.version,
                            revision |-> tasks[Requested(calls[c].req)].revision],
                   first |-> calls[c].first]
  <2>1. /\ calls[c].first # NoEntity => Settled(calls[c].req, calls[c].first)
        /\ calls[c].req.op \in ActionOps
    BY <1>3, AnswerFacts DEF ReadTaskOfAction, AnswerFits, CallFits
  <2>2. AnswerFits(q)
    BY <2>1 DEF AnswerFits, ActionOps
  <2> HIDE DEF q
  <2>3. calls' = [calls EXCEPT ![c] = q] /\ UNCHANGED vars
    BY <1>3 DEF ReadTaskOfAction, q
  <2>4. QED BY <2>2, <2>3, AnswersOnly
<1>4. QED BY <1>1, <1>2, <1>3

LEMMA CallsSettle ==
  ASSUME AnswerInv, NEW c \in Clients, Send(c) \/ Retry(c) \/ Finish(c) \/ Refuse(c)
  PROVE  AnswersSettled'
<1>1. CASE Send(c)
  <2>1. PICK r : calls' = [calls EXCEPT ![c] =
                   [stage |-> "sent", req |-> r, seen |-> SeenBy(r), first |-> NoEntity]]
    BY <1>1 DEF Send
  <2> DEFINE q == [stage |-> "sent", req |-> r, seen |-> SeenBy(r), first |-> NoEntity]
  <2>2. AnswerFits(q)
    BY DEF AnswerFits
  <2> HIDE DEF q
  <2>3. calls' = [calls EXCEPT ![c] = q] /\ UNCHANGED vars
    BY <1>1, <2>1 DEF Send, q
  <2>4. QED BY <2>2, <2>3, AnswersOnly
<1>2. CASE Retry(c)
  <2> DEFINE q == [stage |-> "sent", req |-> calls[c].req, seen |-> <<>>,
                   first |-> calls[c].first]
  <2>1. Settled(calls[c].req, calls[c].first)
    BY <1>2, AnswerFacts DEF Retry, AnswerFits
  <2>2. AnswerFits(q)
    BY <2>1 DEF AnswerFits
  <2> HIDE DEF q
  <2>3. calls' = [calls EXCEPT ![c] = q] /\ UNCHANGED vars
    BY <1>2 DEF Retry, q
  <2>4. QED BY <2>2, <2>3, AnswersOnly
<1>3. CASE Finish(c) \/ Refuse(c)
  <2>1. UNCHANGED vars /\ calls' = [calls EXCEPT ![c] = Idle]
    BY <1>3 DEF Finish, Refuse, Refused
  <2>2. QED BY <2>1, IdleAnswers, AnswersOnly
<1>4. QED BY <1>1, <1>2, <1>3

LEMMA AnswersStay ==
  ASSUME AnswerInv, [Next]_vars, UNCHANGED <<calls, idem>>
  PROVE  RecordsFit' /\ AnswersSettled'
<1>1. \A d \in Clients : \A q \in {calls[d]} : AnswerFits(q)'
  BY AnswerKept DEF AnswerInv, ServiceInv, AnswersSettled
<1>2. QED BY <1>1, RecordsStay DEF AnswersSettled

LEMMA AnswerStep ==
  ASSUME Whole, AnswerInv, [ServiceNext]_serviceVars
  PROVE  AnswerInv'
<1>1. ServiceInv' /\ [Next]_vars
  BY ServiceStep DEF AnswerInv
<1>2. SUFFICES RecordsFit' /\ AnswersSettled'
  BY <1>1 DEF AnswerInv
<1>3. CASE \/ Tick \/ UNCHANGED serviceVars
           \/ \E a \in Artifacts : AddArtifact(a) /\ UNCHANGED <<now, calls>>
  BY <1>1, <1>3, AnswersStay DEF Tick, serviceVars, vars, AddArtifact
<1>4. ASSUME NEW c \in Clients,
             \/ Send(c) \/ Retry(c) \/ Finish(c) \/ Replay(c) \/ Refuse(c)
             \/ ReadArtifact(c) \/ ReadTask(c) \/ ReadInspection(c) \/ ReadNothing(c)
             \/ ReadAction(c) \/ ReadTaskOfAction(c)
      PROVE  RecordsFit' /\ AnswersSettled'
  <2>1. UNCHANGED vars
    BY <1>4, OutsideSections DEF AnswerInv
  <2>2. RecordsFit'
    BY <1>1, <2>1, RecordsStay DEF vars
  <2>3. QED BY <1>4, <2>2, CallsSettle, ReplaySettles, ReadsSettle
<1>5. QED BY <1>3, <1>4, CarrySettles DEF ServiceNext

LEMMA InitAnswerInv == ServiceInit => AnswerInv
<1> SUFFICES ASSUME ServiceInit PROVE RecordsFit /\ AnswersSettled
  BY InitServiceInv DEF AnswerInv
<1>1. DOMAIN idem = {}
  BY DEF ServiceInit, Init
<1>2. \A c \in Clients : calls[c] = Idle
  BY DEF ServiceInit
<1>3. QED BY <1>1, <1>2, IdleAnswers DEF RecordsFit, AnswersSettled

LEMMA AnswerInvariance == ASSUME Whole PROVE ServiceSpec => []AnswerInv
<1>1. AnswerInv /\ [ServiceNext]_serviceVars => AnswerInv'
  BY AnswerStep
<1>2. QED BY <1>1, InitAnswerInv, PTL DEF ServiceSpec

(***************************************************************************)
(* The answers fit the requests, and a request in time is answered again.  *)
(***************************************************************************)
LEMMA SettledFits ==
  ASSUME AnswerInv, NEW r, NEW e, Settled(r, e)
  PROVE  Fits(r, e)
<1>1. /\ RecordFits(idem[r.key]) /\ idem[r.key].entity = e
      /\ idem[r.key].type = TypeOf(r.op) /\ r.op \in KeyedOps
  BY DEF AnswerInv, RecordsFit, Settled
<1>2. CASE r.op = "create"
  BY <1>1, <1>2 DEF RecordFits, Settled, TypeOf, Fits
<1>3. CASE r.op = "inspect"
  BY <1>1, <1>3 DEF RecordFits, Settled, TypeOf, Fits, InspectionsOf
<1>4. CASE r.op = "recommend"
  <2>1. e \in ActionsOf(r.task)
    BY <1>4, SettledIsCurrent DEF ActionsOf
  <2>2. r.code \in {actions[e].code, Combined}
    BY <1>4 DEF Settled, CodeRead
  <2>3. QED BY <1>4, <2>1, <2>2 DEF Fits
<1>5. CASE r.op = "submit"
  BY <1>1, <1>5 DEF RecordFits, Settled, TypeOf, Fits
<1>6. QED BY <1>1, <1>2, <1>3, <1>4, <1>5 DEF KeyedOps

LEMMA AnswersAreRight == AnswerInv => AnswersFit
<1> SUFFICES ASSUME AnswerInv PROVE AnswersFit
  OBVIOUS
<1>1. ASSUME NEW c \in Clients, calls[c].stage = "answered"
      PROVE  /\ Settled(calls[c].req, calls[c].entity)
             /\ calls[c].first = calls[c].entity
             /\ calls[c].entity = idem[calls[c].req.key].entity
  BY <1>1, AnswerFacts DEF AnswerFits, Settled
<1>2. QED BY <1>1, SettledFits DEF AnswersFit

\* Whoever sends or repeats a keyed request, and whatever runs in between, the answer is an
\* entity with the content asked for, and always the same one (lookupIdempotencyLocked and
\* saveIdempotencyLocked, over the digests of the normalised requests).
THEOREM AnswersAreOnceAndForAll == Whole /\ ServiceSpec => []AnswersFit
<1> SUFFICES ASSUME Whole PROVE ServiceSpec => []AnswersFit
  OBVIOUS
<1>1. ServiceSpec => []AnswerInv
  BY AnswerInvariance
<1>2. QED BY <1>1, AnswersAreRight, PTL

\* The section of a repeated request finds its record.
LEMMA RepeatedIsReplayable ==
  ASSUME AnswerInv, NEW c \in Clients, calls[c].stage = "ready", calls[c].first # NoEntity
  PROVE  Replayable(c)
<1> DEFINE r == calls[c].req
           e == calls[c].first
<1>1. Settled(r, e) /\ (r.op = "recommend" => calls[c].got.source = actions[e].source)
  BY AnswerFacts DEF AnswerFits
<1>2. CASE r.op = "recommend"
  <2>1. calls[c].got.code = actions[e].code
    BY <1>1, <1>2, ReadyFacts, AnswerFacts DEF ReadOK, CodeRead, Settled
  <2>2. QED BY <1>1, <1>2, <2>1 DEF Replayable, IdempotentReplay, Fingerprint, Settled
<1>3. CASE r.op # "recommend"
  BY <1>1, <1>3 DEF Replayable, IdempotentReplay, Fingerprint, Settled, KeyedOps
<1>4. QED BY <1>2, <1>3

LEMMA RepeatedIsRead ==
  ASSUME AnswerInv, NEW c \in Clients, Repeated(c), InTime(calls[c].req),
         \/ ReadArtifact(c) \/ ReadTask(c) \/ ReadInspection(c) \/ ReadNothing(c)
         \/ ReadAction(c) \/ ReadTaskOfAction(c)
  PROVE  calls'[c].stage # "idle"
<1> DEFINE r == calls[c].req
           e == calls[c].first
<1>1. Settled(r, e) /\ DOMAIN calls = Clients
  BY AnswerFacts DEF Repeated, AnswerFits, ServiceInv, CallsFit
<1>2. ASSUME NEW op, NEW valid, NEW stage, NEW got, Read(c, op, valid, stage, got), valid,
             stage # "idle"
      PROVE  calls'[c].stage # "idle"
  BY <1>1, <1>2 DEF Read
<1>3. CASE ReadArtifact(c)
  <2>1. r.op = "create"
    BY <1>3 DEF ReadArtifact, Read
  <2>2. r.plan.artifact \in artifacts /\ InTime(r)
    BY <1>1, <2>1 DEF Settled
  <2>3. QED BY <1>2, <1>3, <2>2 DEF ReadArtifact
<1>4. CASE ReadTask(c) \/ ReadNothing(c)
  BY <1>2, <1>4 DEF ReadTask, ReadNothing
<1>5. CASE ReadInspection(c)
  <2> DEFINE source == ActiveInspection(r.task)
             found == IF source = NoInspection THEN {} ELSE inspections[source].anomalies
             named == r.code # Combined
             valid == /\ IF named THEN r.code \in found ELSE found # {}
                      /\ InTime(r)
             got == [source |-> source,
                     code |-> IF named \/ found = {} THEN r.code ELSE FirstAnomaly(found)]
  <2>1. Read(c, "recommend", valid, "ready", got)
    BY <1>5 DEF ReadInspection
  <2>2. r.op = "recommend"
    BY <2>1 DEF Read
  <2>3. actions[e].code \in found
    BY <1>1, <2>2, SettledIsCurrent
  <2>4. named => r.code = actions[e].code
    BY <1>1, <2>2 DEF Settled, CodeRead
  <2>5. valid
    BY <2>3, <2>4
  <2> HIDE DEF valid, got
  <2>6. QED BY <1>2, <2>1, <2>5
<1>6. CASE ReadAction(c)
  <2>1. PICK op \in ActionOps :
          \E got : Read(c, op, op = "decide" => actions[r.action].submissions # <<>>,
                       "action_read", got)
    BY <1>6 DEF ReadAction, ActionOps
  <2>2. op # "decide"
    BY <1>1, <2>1 DEF Read, Settled, KeyedOps
  <2>3. QED BY <1>2, <2>1, <2>2
<1>7. CASE ReadTaskOfAction(c)
  BY <1>1, <1>7 DEF ReadTaskOfAction
<1>8. QED BY <1>3, <1>4, <1>5, <1>6, <1>7

LEMMA OthersLeaveCall ==
  ASSUME ServiceInv, NEW c \in Clients, NEW d \in Clients, d # c,
         \/ Send(d) \/ Retry(d) \/ Finish(d) \/ Replay(d) \/ Refuse(d) \/ Carry(d)
         \/ ReadArtifact(d) \/ ReadTask(d) \/ ReadInspection(d) \/ ReadNothing(d)
         \/ ReadAction(d) \/ ReadTaskOfAction(d)
  PROVE  calls'[c] = calls[c]
<1>1. \E q : calls' = [calls EXCEPT ![d] = q]
  BY DEF Send, Retry, Finish, Replay, Refuse, Carry, ReadArtifact, ReadTask, ReadInspection,
         ReadNothing, ReadAction, ReadTaskOfAction, Read, Refused, Answered
<1>2. QED BY <1>1 DEF ServiceInv, CallsFit

LEMMA RetryStep ==
  ASSUME AnswerInv, [ServiceNext]_serviceVars, NEW c \in Clients, Repeated(c),
         InTime(calls[c].req)
  PROVE  calls'[c].stage # "idle"
<1>1. calls[c].stage \in {"sent", "ready"} /\ calls[c].first # NoEntity /\ ServiceInv
  BY AnswerFacts DEF Repeated
<1>2. CASE calls'[c] = calls[c]
  BY <1>1, <1>2
<1>3. CASE Send(c) \/ Retry(c) \/ Finish(c)
  BY <1>1, <1>3 DEF Send, Retry, Finish
<1>4. CASE Refuse(c)
  BY <1>1, <1>4, RepeatedIsReplayable DEF Refuse
<1>5. CASE Carry(c) \/ Replay(c)
  <2>1. PICK e : Answered(c, e) /\ calls[c].stage = "ready"
    BY <1>5 DEF Carry, Replay
  <2>2. calls[c].req.op \in KeyedOps /\ calls[c].req.key \in DOMAIN idem
    BY <1>1, <2>1, AnswerFacts DEF AnswerFits, Settled
  <2>3. calls[c].req.key # NoKey /\ DOMAIN calls = Clients
    BY <1>1, <2>2, TypeFacts, KeyAssumption DEF ServiceInv, CallsFit, TypeOK
  <2>4. QED BY <2>1, <2>2, <2>3 DEF Answered
<1>6. CASE \/ ReadArtifact(c) \/ ReadTask(c) \/ ReadInspection(c) \/ ReadNothing(c)
           \/ ReadAction(c) \/ ReadTaskOfAction(c)
  BY <1>6, RepeatedIsRead
<1>7. QED BY <1>1, <1>2, <1>3, <1>4, <1>5, <1>6, OthersLeaveCall
          DEF ServiceNext, Tick, serviceVars

\* A request that has been answered and is sent again in time is replayed: neither what
\* others did meanwhile nor what the handler reads the second time can refuse it (the reads
\* of the services come before the record is looked up in the section).
THEOREM RetriesAreReplayed == Whole /\ ServiceSpec => RetryInTimeIsReplayed
<1> SUFFICES ASSUME Whole PROVE ServiceSpec => RetryInTimeIsReplayed
  OBVIOUS
<1>1. AnswerInv /\ [ServiceNext]_serviceVars
        => [\A c \in Clients : Repeated(c) /\ InTime(calls[c].req)
                               => calls'[c].stage # "idle"]_serviceVars
  BY RetryStep
<1>2. ServiceSpec => []AnswerInv
  BY AnswerInvariance
<1>3. QED BY <1>1, <1>2, PTL DEF ServiceSpec, RetryInTimeIsReplayed
=============================================================================
