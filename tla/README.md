# A TLA+ model of the preventive-conservation service

The repository is an HTTP JSON service for museums: an artifact is registered, a
conservation task is created for a time window, the task is inspected against a
checklist, every anomaly gets an action, results are submitted and reviewed, and the
task is closed with a verifiable audit. This directory models how that workflow is
stored, called and persisted, checks it with TLC on small instances and proves its
main invariants with TLAPS.

## The system

| component (source) | state | operations | hard part |
|---|---|---|---|
| workflow store (`internal/storage/workflow.go`, `storage.go`) | `snapshot`: artifacts, tasks, inspections, actions, idempotency maps, events, audits, behind one `RWMutex` | `AddArtifact`, `CreateTaskAtomic`, `RecordInspectionAtomic`, `CreateActionAtomic`, `SubmitActionAtomic`, `ReviewActionAtomic`, `CompleteAndApproveActionAtomic`, `CloseTaskAtomic`, `VerifyAudit` | sections of different callers in any order; guards over several maps; a trail and a digest that must account for everything |
| services (`internal/task`, `internal/inspection`, `internal/action`) | none of their own; the clock | `Create`, `Close`, `Record`, `Recommend`, `Submit`, `Review` | they read the store before the lock, some of them twice, and pass what they read into the section; clock checks; fingerprints of retried requests |
| persistence (`storage.go`: `New`, `initMaps`, `persistLocked`, `cloneSnapshotLocked`, `commitLocked`) | the snapshot file, its temporary file, the copy for a rollback | write, rename, log, roll back, load | failures and crashes between the steps; what the JSON round trip of the copy loses |
| risk rules and checklist (`internal/risk`) | none | `Assess`, `Thresholds`, `Checklist` | caps, boundaries, conversions of floats |
| inspection normalisation (`inspection.normalize`) | none | checklist results to anomaly codes and evidence | two input forms, thresholds, evidence used once |
| progress, todos, paging (`task.progress`, `Detail`, `List`) | none; a cursor held by the client | reading requests over one copied snapshot | a walk over a list whose order changes with time |
| HTTP layer (`internal/httpapi`), `main` | none | routing, decoding, status codes | - |

The parts interact by calls: a handler calls one service operation, which makes zero or
more locked reads and at most one locked write. The mutex is the only synchronisation.
By default (no `-data-dir`) nothing is persisted and `persistLocked` returns at once;
the store model is the same in both cases. The services call `risk` when a task is
created, and `inspection` compares its readings with the thresholds the task has kept
from then.

What makes each component correct:

- store: windows are exclusive; the inspections of a task form one chain; actions belong to
  the current inspection; a task passes review exactly when its work is approved and
  complete; no task goes back; history is never rewritten; the trail accounts for the
  state; audits verify; a key stands for one entity; a covered task can always be brought
  to its close;
- services: stale reads never cause a step the store would not take for fresh ones; a
  named revision protects what the caller has seen; a repeated keyed request is answered
  with the original entity;
- persistence: a section is durable as a whole or not at all, and its answer says which;
- risk and normalisation: a worse request never scores less, the stored details add up,
  every deviation is named; both packages judge one reading alike, the order of the items
  of a report decides neither acceptance nor anomalies nor references, abnormal items have
  evidence;
- progress and paging: the to-do list asks for what the store will accept and forgets no
  open task; a walk with cursors is in order and misses no task that stays in place;
- audit: an untouched task verifies for ever, any change of what its closing covers is
  reported, at the place of the change; requests that share an array read what is written
  there.

## Modules

| module | role |
|---|---|
| `CareStore` | the store: one action per locked section, the properties of the workflow, fairness |
| `TaskSchedule` | abstract: what the store promises of windows and stages |
| `CareProgress` | what clients are told: the view and the to-do list, over the states of `CareStore` |
| `MCCareStore` | instances of both: plans that clash or touch, outcomes of inspections |
| `CareService` | the requests over `CareStore`: reads before the lock, retries, clock |
| `MCCareService` | its instances: roles of the clients, digests |
| `DurableSections` | abstract: what the store promises of its writing sections |
| `SnapshotCommit` | how a section is made durable |
| `PowerLoss` | the same on a machine that may lose power; implements `DurableSections` |
| `MCSnapshotCommit` | its instances: a store with and without history |
| `RiskRules` | thresholds, points, assessment and checklist, as operators |
| `RiskAssessment` | requests that get worse fact by fact, and the task planned from one |
| `InspectionIntake` | reports on that task and what `normalize` makes of them |
| `MCInspectionIntake` | instances of both: readings at the limits and far out |
| `TaskList` | paging through the tasks while the work goes on |
| `MCTaskList` | its instance |
| `AuditChain` | digests, the closing, restarts, a changed file, verification |
| `AuditReaders` | concurrent readers of one closed task, word by word, over `AuditChain` |
| `MCAuditReaders` | its instance |
| `CareStoreProofs` | the inductive invariant of `CareStore`; it implements `TaskSchedule`; the past is final |
| `CareStoreRecords` | reviewing, idempotency records, what a trail accounts for, the view and the to-do list |
| `CareServiceProofs` | requests: the store they leave intact, named revisions, answers and repetitions |
| `TaskListProofs` | sorted lists, pages and walks |
| `RiskProofs` | rules one by one and together, worse requests, deviations |
| `IntakeProofs` | the loop over the items of a report, and what an accepted report says |
| `AuditProofs` | the audit chain, and the readers of a closed task |
| `SnapshotProofs` | the invariants and the refinement of `PowerLoss` |

### CareStore

The variables are the maps of `snapshot`. A record keeps the fields the workflow
depends on: texts, actors, times, risk data and evidence references are left out;
`RecommendationID` and the like are the keys of the maps; the two idempotency maps are
one, and `LegacyKeys` are keys an old snapshot holds in the plain map only. Anomaly
codes are integers so that "the first one", which a request without `anomaly_code` takes
from the sorted list, is defined. A digest is the value it covers: `audits[t]` is the
closing snapshot itself, and `VerifyAudit` compares it with the one recomputed from the
live data.

Each `...Atomic` operator is a whole section of `workflow.go`: its guard is the
conjunction of the section's refusals, in a definition of its own where other
definitions need it (`Inspectable`, `Assignable`, `Submittable`, `Reviewable`, `Closable`).
`RecordInspectionAtomic` is split by its two branches (`RecordFirstInspection`,
`CorrectInspection`) over the common end (`AdoptInspection`). A section that refuses, and
one whose snapshot cannot be written, leaves the maps alone: a stuttering step. Replays
change nothing either. `CreateTask`, `Inspect`, `Correct`, `Recommend`, `Submit`,
`Approve`, `Reject`, `ApproveInOneCall` and `Close` call the sections with the arguments
the services can hand them when they succeed. Revisions are those stored, since others
are refused; the version of a one-call review is any the handler may have read. `Advance`
and `UpdateTask` have no caller and are left out.

`TaskSchedule` is the calendar a planner has in mind: `Book` takes a window that no open
task conflicts with, `Proceed` takes a task to a later stage, nothing else happens. The
mapping takes the plan of a task as its window and its status as its stage; every section
but the creation is a `Proceed` or a stutter. It is what would break if a correction were
accepted after a review, or if a decision on a late result reopened a closed task.

### CareProgress

`ReadWorkflowSnapshot` copies the data under one read lock, so what it yields is a function
of the state. `ViewedInspection` follows its loop over the copied map, which prefers the
newest live entry over the one the task names, whereas the locked sections
(`ActiveInspection`) prefer the one named. `Todos` is the list `progress` builds from the
view; `Doable` asks the guards of `CareStore` whether the section it calls for would be
carried out. Labels, due dates and percentages are left out.

### CareService

A client has one request under way, in `calls`. `Send` picks it; `ReadArtifact`,
`ReadTask`, `ReadInspection`, `ReadAction`, `ReadTaskOfAction` and `ReadNothing` are the
reads and early refusals of the six services, a step each; `Carry` runs the section with
what was read, `Replay` answers from the idempotency record, `Refuse` stands for a refusal
and for a failed write. After a keyed answer the client may `Retry` the same request or
`Finish`. `now` is the clock, in a unit longer than the five-minute tolerance.

Requests are well formed: the checks of names, texts, decisions and evidence come before
anything this module is about. A client in `Careful` names the revisions it last saw, the
others leave them out (0); a client that invents revisions is not modelled. A request
that was refused is over, and sending it again is a new request.

### SnapshotCommit, PowerLoss and DurableSections

A section is taken as one change that writes some `Parts` of the snapshot. `Change` makes
the copy and the change in memory; `WriteTemp`, `RenameTemp` and `Log` are the steps of
`persistLocked`; `FailToWrite` and `FailToRename` roll back; `Crash` ends the process
at any point and `Start` loads the file. `Encode` is the JSON round trip of the copy and of
the file: it loses nothing but an empty `Idempotency` map, which is tagged `omitempty`
and comes back nil. `initMaps` repairs that on a start, nothing does after a rollback, and
writing to a nil map panics (`Panic`, which only a store without history can reach). A
repeated registration is another section. `events.log` is written and never read: `Log`
covers both its outcomes.

`PowerLoss` adds the machine. Nothing is synced, so `onDisk` holds every file the name may
lead to after a loss of power: the ones renamed since the last `WriteBack`, in full or in
part, and the old one. A file left in part keeps the process from starting, and the file
before it is gone: the rename took its place.

`DurableSections` says what a caller may rely on: a section is stored at once, "ok" means
stored, "error" means not stored, and only a loss of power loses anything. If all that is
stored has settled, that is, was written back, it takes nothing (`LosePower` with nothing to
choose). Otherwise it takes any part of what has not settled, or it is `Ruin`: nothing is
found at all, what had settled before is lost as well, and no section runs from then on.
The refinement maps `stored` to the entities of the file and `settled` to those of the last
file that was written back, both to nothing where the file is there in part, which is
`ruined`. So it is the promise of a store that never syncs: a section that was answered "ok" puts
at risk, until it is written back, also everything before it.

### RiskRules, RiskAssessment and InspectionIntake

`RiskRules` is `internal/risk` as operators: `Thresholds`, the points of a reading, of
issues and of the artifact, the closure `add` of `Assess` with its cap (`AddRule`), `Level`
and `Checklist`. Temperatures and humidities are whole tenths, so that the floats of the
code and the integers here round up to the same points. `ToInt` and `Wrapped` keep the
width of an int: a float that does not fit becomes `OutOfRange`, the smallest int on
amd64 and the largest on arm64, and an addition wraps.

`RiskAssessment` starts from a bare request for every kind of artifact; each step makes one
fact worse and assesses the request anew, so that "worse is not better" is a property of
steps. `PlanTask` keeps what a task keeps: artifact and level.

`InspectionIntake` goes on with that task. A report is written fact by fact in either form,
and `answer` is what `normalize` returns for it as it stands: `LegacyItems` turns the old
form into items, `CheckItem` is the loop over the items (its first error ends it),
`ItemAnomalies` what an item contributes, `ReadingsAfter` the reading of each metric that is
recorded for the whole inspection, where the last one read counts. Strings are themselves with `Trim` as a table;
units are matching, missing or wrong; only values, conclusions and evidence that the
checks distinguish are tried.

### TaskList

A task is what its place in the list depends on: the time it was created, the end of its
window, the due dates of actions that are not approved, whether it is closed. `Items` is
the sorted list of `List` (by creation, or by the earliest deadline of a task that is
overdue), `Page` the cut after the cursor. `BeginCreation` and `StoreTask` are two steps,
because the creation time is read long before the lock; `AskPage` and `AnswerPage` are two
because overdue is told by the time the request came in. A cursor that is no longer in the
list is refused. `steady` follows the tasks that were there on the first page and
never moved forward.

### AuditChain and AuditReaders

A digest is the tuple of what it covers. `Work` and `Close` append chained events and write
the file; a correction keeps the inspection it replaces (`superseded`), which stays in the
file and is covered by no digest: the closing snapshot holds the current inspection, and the
event of a correction the id of the other one only; `FailToSave`, `Stop` and `Start` put data in memory that have been through JSON,
where a text that is not UTF-8 comes back changed (`Rewritten`); `ChangeFile` drops,
doubles, swaps or edits one thing while no process runs, including an event whose own
digest is computed anew, and a superseded inspection. `ChangeIsReported` is about what the
closing covers (`Covered`: events, record, summary), and `UntouchedAuditPasses` says that
nothing else matters. The list of event names and the timeline in the stored summary are
neither: `VerifyAudit` makes them anew from the events. The artifact and the idempotency
records are in no digest and left out. `Verify` has the checks of `VerifyAudit` in their order.

`AuditReaders` adds requests that read a closed task at the same time. `VerifyAudit` empties
and refills a slice that shares its array with the stored summary under the read lock,
which is a data race: a string is two words, each step reads or writes one of them, and
the requests interleave freely.

## Runs

| run | question | bounds |
|---|---|---|
| `store_one_task` | do the records, the to-do list and the trail of a task agree, is its history final, is a covered task closed? | 1 task, 2 inspections, 2 codes with outcomes none, one or both, 2 actions, 2 submissions each, one key per creation |
| `store_schedule` | are windows exclusive, and is `TaskSchedule` implemented? | 3 tasks, 4 plans, 2 inspections and actions shared among them, a legacy key |
| `store_early_review` | can what is missing still be supplied? (violated) | as `store_one_task` |
| `service_review` | does the service take only steps of the store, and do named revisions protect? | 2 clients (one does all but the one-call review, one does not create, recommend or close), 1 task, 1 action, 2 submissions, clock stopped |
| `service_retries` | do answers fit, and are repetitions replayed? | 2 clients, 1 task, 2 inspections, 1 action, 3 shared keys, dates given or left out, clock 0..1 |
| `service_one_call` | does the one-call review respect the revision? (violated) | 2 clients, 1 action |
| `snapshot_commit` | does persistence keep its promise? | 1 registration, 3 creations of which one is earlier, 1 decision |
| `snapshot_half_made` | is no section half done in a new store? (violated) | 1 registration, 2 creations, 1 decision, no file |
| `risk_and_report` | do the rules agree with each other, and both packages on a reading? | all 5 groups, both sensitivities, 2 kinds of issues up to 4 times, 4 to 6 readings a metric; reports of up to 3 measurements and references on one planned task, one of its two codes padded |
| `intake_old_form` | has every abnormal item evidence? (violated) | the same task, up to 2 facts |
| `list_walk` | is a walk in order and complete? | 3 tasks, 1 action each, 1 task a page, windows of 1 or 2, clock 0..2, 8 pages |
| `audit_chain` | are changes reported and untouched audits passed, and are names read whole? | up to 4 events, inspections and corrections, 3 texts, 2 verifications and 1 view at once |

Why the bounds are enough. Two codes and two actions give partial coverage, an approval
that is the last and one that is not, and a decision before coverage is complete; two
inspections give a correction; two submissions a rejection and a resubmission, or a result
that overtakes a review; three tasks let a window be freed and taken again while another one
holds it. All rules relate at most two entities of a kind, so a third adds only symmetric
cases. `GrowingOutcomes` leaves out an inspection that finds only the second code, which
differs from the first in its name alone. `MaxSubmissions` bounds submissions, and a
rejection is only tried while another submission is allowed, so that the bound never blocks
an otherwise live task. `Draw` and `Mint` return one unused id or key where the choice
cannot matter (ids are random in the code, and interchangeable); `service_review` lets the
specification draw any id the service may have drawn. `MaxTime` bounds the clock: 1 is
after the start of the window.

`Readings` and `Values` are a value at each limit, one beyond it, one past the cap
of the points and one far out; between two limits the rules are linear. `IntMax` is
2^20 - 1 in place of 2^63 - 1, still far above the points of any reading a report may carry:
what matters is that one reading of a request is beyond it. `MaxIssues` is the count at
which the points of a kind reach their cap. `Planned` is one task: the sensitive metal
artifact of low risk has the shortest checklist, two items, so a complete report is within
reach; what an item contributes does not depend on the length of the list.
`MaxFacts` bounds measurements and references, three of which give one item two of them
and another one the same reference, padded.
One task to a page and three tasks make every task a cursor once. `Horizon` lets a
task fall due between two pages and settle before the next, `MaxPages` exceeds the pages of
any walk that is not refused. `MaxEvents` is four: an event with two neighbours besides the
closing one, and up to two corrections. Verifications are all alike, so `audit_chain`, which
has invariants only, takes them as symmetric.

Where a deadlock exception is stated the system really may stop: the walk is over, the
report is at its bound, the trail is full. The other runs never stop: some registration can
always be repeated, and a crashed store started.

Only `store_one_task` assumes fairness (`FairSpec`, for `CoveredTaskCloses`): an assignee
eventually submits a result that is due or rejected, a reviewer eventually approves a
result that stays pending, and the owner eventually closes a reviewed task. That is what the
todo list of the service asks of these people; a weakly fair request is also what a client
that retries with a fresh revision achieves, since nothing disables the request for good.
Nobody is assumed to create, inspect or assign.

Each property of a passing run has a mutant of the code in the module, marked
`\* mutant`: a dropped guard, a missing reset, a swapped order. With the mutant in place
TLC finds the property violated.

## What disagrees with the documents

Four runs fail, each with one property that a document, a test or a message of the
program states:

- `store_early_review`: assign one of two anomalies, submit, review it. The task is
  moved to `pending_review`, where the second action cannot be created and a correction is
  refused: the task can neither be completed nor closed.
- `service_one_call`: a one-call review approves over work submitted after the revision
  the reviewer named.
- `snapshot_half_made`: in a store without keys, a failed write leaves a nil map, and the
  next keyed section panics with its entity written. `snapshot_commit` shows that a store
  with a key in it does not have this problem, and `AnsweredStaysStored` is proved for both:
  success is never reported wrongly even then.
- `intake_old_form`: a report in the old form with a reading out of range is accepted and
  its only reference dropped. `AbnormalHasEvidenceInNewForm` holds.

Five more are met where a passing property has to make an exception, and the property
states exactly how far they go:

| disagreement | stated by |
|---|---|
| a task whose inspection finds nothing stays in `pending_action`, and nobody is asked for anything | `WorkIsListed` in `store_one_task` |
| the repetition of a request is refused once a check against the clock fails, since the key is looked up later | `RetryInTimeIsReplayed` in `service_retries` |
| a reading so far out that its points exceed an int costs nothing | `DeviationIsScored` in `risk_and_report` |
| a key that is not UTF-8 makes an untouched audit fail after a restart | `UntouchedAuditPasses` in `audit_chain` |
| a padded checklist code yields an anomaly that cannot be named | none; `ItemAnomalies` records `item.code`, `Normalize` matches `Trim` of it, and `risk_and_report` has such reports |

`PROJECT.json` quotes what each of them contradicts.

## Proofs

For any sets of tasks, inspections, actions, codes, keys and plans that meet the assumptions
of `CareStore`:

| theorem | property | module |
|---|---|---|
| `TypeCorrect` | `TypeOK` | `CareStoreProofs` |
| `InspectionsFormChain` | `InspectionChain` | `CareStoreProofs` |
| `ActionsFollowInspection` | `ActionsMatchInspection` | `CareStoreProofs` |
| `ReviewIsEarned` | `ReviewedIsEarned` | `CareStoreProofs` |
| `ScheduleIsExclusive` | `ScheduleExclusive` | `CareStoreProofs` |
| `StoreKeepsSchedule` | `KeepsSchedule` | `CareStoreProofs` |
| `ReviewIsReached` | `ReviewedIsReached` | `CareStoreRecords` |
| `ReviewsMatchHistory` | `ReviewMatchesHistory` | `CareStoreRecords` |
| `PastIsFinal` | `HistoryIsFinal` | `CareStoreProofs` |
| `RevisionGuardsWork` | `RevisionMovesWithWork` | `CareStoreProofs` |
| `AuditsAlwaysVerify` | `AuditsVerify` | `CareStoreProofs` |
| `KeysNameWhatTheyMade` | `IdempotencyIntegrity` | `CareStoreRecords` |
| `TrailsAccount` | `TrailAccountsForState` | `CareStoreRecords` |
| `ViewsAgree` | `ViewAgrees` | `CareStoreRecords` |
| `TodosCanBeDone` | `TodosAreDoable` | `CareStoreRecords` |
| `WorkIsAlwaysListed` | `WorkIsListed` | `CareStoreRecords` |

The assumptions are those of the constants: a plan has an integer window that is not empty
and a registrable artifact; codes are integers; `NoInspection` and `NoKey` are no ids; legacy
keys are keys; `Draw` returns a subset of its argument; the bound is positive. TLC evaluates
them in every run.

The inductive invariant is `IInv`: `TypeOK`, `InspectionChain`, `CurrentIsStored`,
`ActionsMatchInspection`, `ReviewedIsEarned`, `ScheduleExclusive`. None of the
interesting parts is inductive alone. A window stays exclusive only if a closed task
never reopens; the section that could reopen one is the review of an action, and it cannot
run there because all actions of a closed task are approved (`ReviewedIsEarned`); that in
turn is kept because a correction, which changes the anomalies to be covered, is refused
once there is an action, so an action always refers to the current inspection
(`ActionsMatchInspection`), for which the current inspection must be the one active entry
of its chain (`InspectionChain`, `CurrentIsStored`). `CareStoreProofs` turns `Next` into
one disjunct per section (`NextIsOneSection`), proves what each writes, and has a lemma for
each part of the invariant and each section that touches it, and a frame lemma for those
that do not.

The other theorems about the store add to `IInv` what they need. The refinement adds
`StageMatchesWork` (`RInv`): a task is inspected exactly if it is past the first stage, and
waits for a review only with an action. The three theorems about the past share
`OneTaskPerSection`: a section works on one open task, raises its revision, appends to its
trail, and leaves alone other tasks, approved actions and every key. `ReviewIsReached`
compares the cover of a task before and after each section (`CoverWas`, `ReachedByDecision`).
`KeysKeepStore` splits the records by kind, so that one lemma serves the three sections
that save a key with a new entity (`KeptForNew`), and one the others (`KeptForOther`).

`TrailsAccount` rests on `TrailInv`, which says for every kind of event and every possible
id, stored or not, how many events the trail of a task owes it (`Owed`): one for an
inspection or an action on record, as many as it has submissions or decisions for an
action. Counting events is then one fact about appending (`TallyAppend`), and each section
is a lemma that what it stores and what it tells are the same (`OwesMore`).

`ProgressInv` is `RInv` with `ReviewMatchesHistory` and `ReviewedIsReached`. The view of a
task and the current inspection agree because the versions of a chain rise to its only
live entry (`ViewedIsCurrent`), so the loop over the copied map can only end there.

For the requests of any number of clients, under `Whole` (`CareServiceProofs`):

| theorem | property |
|---|---|
| `ServiceKeepsStore` | `ImplementsStore` |
| `NamedRevisionIsSeen` | `SeenIsActedOn` |
| `AnswersAreOnceAndForAll` | `AnswersFit` |
| `RetriesAreReplayed` | `RetryInTimeIsReplayed` |

`Whole` says that the store draws any unused id (`DrawsAny`) and that `Fingerprints` holds a
digest for every request (`TakesDigests`). Both are true of the code, where ids are random
and any digest can be stored; they are no assumptions of the constants because an instance
may draw one id for all to stay small. `service_review` satisfies both.

`ServiceInv` adds to `IInv` what is known of every request under way (`CallsFit`), which has
to survive the sections of the other clients. It does because the store only grows
(`Growth`): what a request names stays stored, with the plan, the findings and the versions
it was stored with, and revisions never fall. So what was read of an action is either still
so or its revision has risen (`ActionRead`), and then the section refuses;
what was read of an inspection holds for ever, whether it is current or not. For a reviewer
the version he approves is that of the last result as long as the revision stands, and
the one-call review hands in a version the store allows at any rate. `ServiceKeepsStore`
then maps each `Carry` to the section it calls, with what was read before the lock.

`AnswerInv` adds the records and the answers. A record holds the digest of what its entity
was made from (`RecordsFit`), and an answered request names a record of its own kind,
entity and digest (`Settled`); both survive because records are never rewritten, and the
key of an answered request is taken, so no later section can give it to another entity. The
hard case is a repeated recommendation, whose digest contains the inspection that the
handler reads the second time: it is the same one, because the action that was created is
still about the current inspection (`ActionsMatchInspection`).

For trails of any length, any texts and any bound (`AuditProofs`):

| theorem | property |
|---|---|
| `UntouchedPasses` | `UntouchedAuditPasses` |
| `ChangesAreReported` | `ChangeIsReported` |
| `FailuresAreNamed` | `FailureNamesChange` |
| `SharedNamesAreWhole` | `NamesAreWhole` |

They assume that what a file makes of a text (`Rewritten`) does not change when it is
written again, as in `encoding/json`, where a byte that is not UTF-8 becomes the replacement
character. `ChainInv` says that what the process wrote last (`intact`) is an unbroken trail
with its summary, that the file is that or differs from it by one change, within what the closing covers or in
the superseded inspections, and that memory is
the file, except for a text that has not been read back yet. A link of a chain is the whole
event before it, so an unbroken trail is determined by its last event and two of
them that differ must differ at the end; `FailuresAreNamed` goes through the ways to change
a trail one by one. `ReadersKeepChain` shows that readers only take steps of the chain;
`ReadersInv`, that the shared array always holds the names of the trail, because the first
pass of a verifier rewrites each name with itself.

For persistence, with any sets of sections (`SnapshotProofs`):

| theorem | property | of |
|---|---|---|
| `SnapshotTypes` | `TypeOK` | a store with history |
| `NothingIsHalf` | `NothingHalf` | a store with history |
| `MemoryMatchesFile` | `MemoryIsSaved` | a store with history |
| `StoreKeepsPromise` | `KeepsPromise` | a store with history |
| `AnsweredStaysStored` | `AnsweredIsStored` | any store, while the machine has power |

The first four rest on `PInv` and on the condition `Used`, that is `Earlier # NoFile`, which
is what `snapshot_commit` checks too; `snapshot_half_made` shows that `NothingHalf` fails
without it. `PInv` says how data, copy and files agree at each stage of a section, that the
plain map is never empty, so that encoding changes nothing, and that whatever the name may
lead to lies between what has settled and what was renamed last, or is a snapshot in part, and
that only if something was renamed since. `AnsweredStaysStored`
rests on `AInv`, which survives the panic: what is recorded under a key is in the file,
and the file holds no more than the data in memory.

For any tasks, actions and bounds, any filter and page size (`TaskListProofs`):

| theorem | property |
|---|---|
| `PagesGoOn` | `WalkIsInOrder` |
| `NobodySteadyIsMissed` | `SteadyTasksAreShown` |

`SortedExists` and `SortedIsWhole` show that the list of a state exists and holds every task
that matches: an induction on its length, in the form that of all sets without a sorted
list one would be the smallest (`WFMin`, which takes no operator). `PageFacts` then says that
a page is what lies behind the cursor, up to the next one. `WalkInv` says that what has been
shown lies up to the cursor, and that a steady task up to the cursor has been shown:
it lay there before and was shown then, or it lay behind the cursor and has come up on this
page, since it does not move forward. The work between the pages does not touch the walk; it
only has to keep the data typed (`WorkTypes`).

For any readings that are whole numbers of their unit, any number of kinds of issues and any
width of an int (`RiskProofs`):

| theorem | property |
|---|---|
| `RiskIsAssessed` | (the invariant `RiskInv`) |
| `DetailsAlwaysAddUp` | `DetailsAddUp` |
| `WorseNeverScoresLess` | `WorseIsNotBetter` |
| `DeviationsAreScored` | `DeviationIsScored` |

`RiskInv` says that the risk on record is the assessment of the request on record, so the
theorems are about `Assess`. The loop over the rules is the recursive function `Totals`.
That it exists, and what holds after every rule, needs induction over data: the theorems of
the library take an operator, but `WFMin` takes a set, and `UpTo` is induction in that form,
over the set of the numbers up to which a fact holds; `Recursion` builds the function.
`TotalsAddUp` is then the account of the score, `TotalsName` says which rules have a detail,
and `TotalsGrow` that rules which are worse one by one are worse together, although the
last detail is cut at 100. One by one, a reading further out costs no less because
the deviation grows (`DeviationGrows`), rounding up keeps the order even when the divisor is
a smaller limit (`RoundUpGrows`), and the sensitive tables lie within the normal ones
(`SensitiveIsStricter`). The condition on ints cannot be dropped: past them the points of
a reading wrap around to less than nothing (`ReadingPointsFacts`), and its detail is lost.

For any codes, references and values of reports, on top of these (`IntakeProofs`):

| theorem | property |
|---|---|
| `ReportsAreAnswered` | (the invariant `IntakeInv`) |
| `PackagesAgree` | `InspectionAgreesWithRisk` |
| `OrderIsIrrelevant` | `OrderDoesNotMatter` |
| `AbnormalIsEvidenced` | `AbnormalHasEvidenceInNewForm` |

They assume that `Trim` is defined on what requests write and leaves the names of metrics
alone, that values are whole numbers of their unit, and that an int has at least 32 bits, as
Go guarantees. `IntakeInv` says that the answer is what `Normalize` makes of the report on
record, so the theorems are about `Normalize`. Its loop is the recursive function `After`, whose
accumulator depends on the items before: a reference may not be used twice in a report.
`LoopFacts` does away with the order, by the same induction on the number of items:
the loop accepts exactly the items that pass one by one (`Right`) and share no
reference (`Clean`), and what it gathers is a union over the items (`Gathers`). From there
`OrderIsIrrelevant` is that a function from 1..N to itself which takes no value twice takes
every value (`InjectionIsOnto`); of the readings, where the last item counts, it says that
they come from some item that measures the metric (`ReadIn`), so that the order can matter only
where two items end with different readings; and `AbnormalIsEvidenced` that an item in the new form which
adds an anomaly without evidence does not pass. `PackagesAgree` compares two pieces of code
that share only the thresholds: inspection takes a value for abnormal if it
deviates, planning if it costs points, and these differ for readings whose points exceed an
int. Values that `Measurable` admits stay below that (`AbnormalCosts`); without its bounds on
values the theorem would be false. It needs as well that no code of the checklist is the name of a
metric, since both end up in the same set of anomalies (`CodeIsNoMetric`).

Only model-checked:

- `CoveredTaskCloses`: the prover handles neither fairness nor ENABLED.

## Not modelled

- Validation of the fields of requests other than reports, error bodies, status codes,
  decoding limits: checks of single values before anything is read.
- Times of events: `Create` and the other operations read the clock before the lock, so a
  trail may hold times that go back. No rule reads them; the order is by sequence.
- Labels, due dates and percentages of the progress, texts and versions of risk rules.
- That a walk through the list ends: `WalkIsInOrder` is about every page of a walk,
  `SteadyTasksAreShown` about walks that have ended.
- `events.log` beyond a step that may fail; flags, the listener, shutdown, the self check.
- `Advance`, `UpdateTask` and the one-line helpers, which nothing calls.

## Plan

1. `CoveredTaskCloses`: prove the part of it that is not about fairness, that as long as a
   covered task is open the guard of one of the requests in `FairSpec` holds, written out
   where the prover has no ENABLED.
2. `SnapshotProofs`: what a store without keys promises up to its first failed write.
