----------------------------- MODULE CareService -----------------------------
(***************************************************************************)
(* The requests of internal/httpapi and the services behind them, over the *)
(* store of CareStore.  A handler reads what it needs before the lock of   *)
(* its store section is taken, several times for some requests, and other  *)
(* requests run in between: a step per read, then one for the section.  A  *)
(* client that got no answer may send the same request again.              *)
(*                                                                         *)
(* The requests are well formed: blank names, unknown decisions, missing   *)
(* evidence and the like are refused before anything is read, and left     *)
(* out.  An explicit revision is one the client has seen.                  *)
(***************************************************************************)
EXTENDS CareStore

CONSTANTS
  Clients,
  Careful,         \* the clients that name the revisions they have seen
  Roles,           \* client -> the operations it asks for
  Mint(_),         \* which unused ids or keys newID, randomID and clients draw
  Combined,        \* the anomaly_code of a request that names none
  NoTime,          \* an instant a request leaves out
  Dates,           \* what requests say of an instant: one, or NoTime
  Early, Late,     \* tolerances of an inspection around its window
  MaxTime          \* bound on the clock

ASSUME ServiceAssumption ==
  /\ MaxTime \in Nat /\ Early \in Nat /\ Late \in Nat
  /\ NoTime \notin Int /\ Dates \subseteq Int \cup {NoTime} /\ Combined \notin Codes
  /\ \A S \in UNION {SUBSET TaskIds, SUBSET InspectionIds, SUBSET ActionIds, SUBSET Keys} :
       Mint(S) \subseteq S

VARIABLES
  now,    \* the clock of the services, in a unit above their five minutes of tolerance
  calls   \* client -> the request it has under way, and how far that is

serviceVars == <<vars, now, calls>>

Idle == [stage |-> "idle"]
NoEntity == "none"
KeyedOps == {"create", "inspect", "recommend", "submit"}
TypeOf(op) == CASE op = "create" -> "task" [] op = "inspect" -> "inspection"
                [] op = "recommend" -> "action" [] op = "submit" -> "action_submission"

Requested(r) == IF r.op \in {"submit", "decide", "approve"} THEN actions[r.action].task ELSE r.task

(***************************************************************************)
(* What clients send.                                                      *)
(***************************************************************************)
InFlight == {calls[c].req.key : c \in {d \in Clients : /\ calls[d].stage # "idle"
                                                       /\ calls[d].req.op \in KeyedOps}}
KnownKeys == DOMAIN idem \cup LegacyKeys \cup (InFlight \ {NoKey})
KeysSent == KnownKeys \cup Mint(Keys \ KnownKeys)

\* The revisions a client names are of what it has seen; 0 is none.
TaskRevision(c, t) == IF c \in Careful THEN tasks[t].revision ELSE 0
ActionRevision(c, a) == IF c \in Careful THEN actions[a].revision ELSE 0

Creations == {[op |-> "create", key |-> k, plan |-> p] : k \in KeysSent, p \in Plans}

Inspections(c, t) ==
  {[op |-> "inspect", key |-> k, task |-> t, anomalies |-> s, old |-> i, at |-> at,
    revision |-> TaskRevision(c, t)] :
     k \in KeysSent, s \in Outcomes, i \in InspectionsOf(t) \cup {NoInspection}, at \in Dates}

Recommendations(c, t) ==
  {[op |-> "recommend", key |-> k, task |-> t, code |-> d, at |-> due,
    revision |-> TaskRevision(c, t)] :
     k \in KeysSent, d \in Codes \cup {Combined}, due \in Dates}

Submissions(c, a) ==
  {[op |-> "submit", key |-> k, action |-> a, revision |-> TaskRevision(c, actions[a].task),
    actionRevision |-> ActionRevision(c, a)] : k \in KeysSent \cup {NoKey}}

Decisions(c, a) ==
  {[op |-> "decide", action |-> a, decision |-> d,
    revision |-> TaskRevision(c, actions[a].task),
    actionRevision |-> ActionRevision(c, a)] : d \in {"approved", "rejected"}}

OneCallReviews(c, a) ==
  {[op |-> "approve", action |-> a, revision |-> TaskRevision(c, actions[a].task)]}

\* The revision of a closing cannot be left out.
Closings(t) == {[op |-> "close", task |-> t, revision |-> tasks[t].revision]}

Requests(c) ==
  LET ofTasks == UNION {Inspections(c, t) \cup Recommendations(c, t) \cup Closings(t) :
                          t \in DOMAIN tasks}
      ofActions == UNION {Submissions(c, a) \cup Decisions(c, a) \cup OneCallReviews(c, a) :
                            a \in DOMAIN actions}
  IN  {r \in Creations \cup ofTasks \cup ofActions : r.op \in Roles[c]}

\* A client that names a revision has seen the work of the task as it was then.
SeenBy(r) == IF r.op # "create" /\ r.revision # 0 THEN WorkOf(Requested(r)) ELSE <<>>

Send(c) ==
  /\ calls[c].stage = "idle"
  /\ \E r \in Requests(c) :
       calls' = [calls EXCEPT ![c] =
                   [stage |-> "sent", req |-> r, seen |-> SeenBy(r), first |-> NoEntity]]
  /\ UNCHANGED <<vars, now>>

(***************************************************************************)
(* What a handler reads before the lock.                                   *)
(***************************************************************************)
\* A request that was refused, or had no key, is over: sending it again is a new request.
Refused(c) == calls' = [calls EXCEPT ![c] = Idle]

Answered(c, e) ==
  LET r == calls[c].req
  IN  IF r.op \in KeyedOps /\ r.key # NoKey
      THEN calls' = [calls EXCEPT ![c] =
             [stage |-> "answered", req |-> r, entity |-> e,
              first |-> IF calls[c].first = NoEntity THEN e ELSE calls[c].first]]
      ELSE calls' = [calls EXCEPT ![c] = Idle]

\* The handler goes on with what it has read, or refuses at once.
Read(c, op, valid, stage, got) ==
  /\ calls[c].stage = "sent" /\ calls[c].req.op = op
  /\ IF valid
     THEN calls' = [calls EXCEPT ![c] =
                      [stage |-> stage, req |-> calls[c].req, seen |-> calls[c].seen,
                       got |-> got, first |-> calls[c].first]]
     ELSE Refused(c)
  /\ UNCHANGED <<vars, now>>

\* An inspection is dated by the request, or else by the clock.
InWindow(r) ==
  LET at == IF r.at = NoTime THEN now ELSE r.at
      p == tasks[r.task].plan
  IN  p.start - Early <= at /\ at <= now /\ at <= p.end + Late

\* The checks of the keyed requests against the clock.
InTime(r) == /\ r.op = "create" => now <= r.plan.start
             /\ r.op = "inspect" => InWindow(r)
             /\ r.op = "recommend" => r.at = NoTime \/ now < r.at

ReadArtifact(c) ==
  LET r == calls[c].req
  IN  Read(c, "create", r.plan.artifact \in artifacts /\ InTime(r), "ready", <<>>)

ReadTask(c) ==
  Read(c, "inspect", InTime(calls[c].req), "ready",
       [revision |-> tasks[calls[c].req.task].revision])

ReadInspection(c) ==
  LET r == calls[c].req
      source == ActiveInspection(r.task)
      found == IF source = NoInspection THEN {} ELSE inspections[source].anomalies
      named == r.code # Combined
  IN  Read(c, "recommend",
           /\ IF named THEN r.code \in found ELSE found # {}
           /\ InTime(r),
           "ready",
           [source |-> source,
            code |-> IF named \/ found = {} THEN r.code ELSE FirstAnomaly(found)])

\* The action first, its task in a second read.
ReadAction(c) ==
  \E op \in {"submit", "decide", "approve"} :
    LET a == actions[calls[c].req.action]
    IN  Read(c, op, op = "decide" => a.submissions # <<>>, "action_read",
             [actionRevision |-> a.revision, submitted |-> Len(a.submissions),
              version |-> IF a.submissions = <<>> THEN 0 ELSE Last(a.submissions)])

ReadTaskOfAction(c) ==
  /\ calls[c].stage = "action_read"
  /\ calls' = [calls EXCEPT ![c] =
       [stage |-> "ready", req |-> calls[c].req, seen |-> calls[c].seen,
        got |-> [actionRevision |-> calls[c].got.actionRevision,
                 submitted |-> calls[c].got.submitted, version |-> calls[c].got.version,
                 revision |-> tasks[Requested(calls[c].req)].revision],
        first |-> calls[c].first]]
  /\ UNCHANGED <<vars, now>>

ReadNothing(c) == Read(c, "close", TRUE, "ready", <<>>)

(***************************************************************************)
(* The locked section of a handler that is ready.                          *)
(***************************************************************************)
FingerprintOfReading(c) ==  \* mutant: an inspection is digested with the time it got
  LET r == calls[c].req
  IN  CASE r.op = "create"    -> <<"create", r.plan>>
        [] r.op = "inspect"   -> <<"inspect", r.task, IF r.at = NoTime THEN now ELSE r.at,
                                   r.anomalies, r.old>>
        [] r.op = "recommend" -> <<"recommend", r.task, calls[c].got.source,
                                   calls[c].got.code, r.at>>
        [] r.op = "submit"    -> <<"submit", r.action>>

\* The digest of the normalised request: what the client wrote, not the times filled in.
Fingerprint(c) ==
  LET r == calls[c].req
  IN  CASE r.op = "create"    -> <<"create", r.plan>>
        [] r.op = "inspect"   -> <<"inspect", r.task, r.at, r.anomalies, r.old>>
        [] r.op = "recommend" -> <<"recommend", r.task, calls[c].got.source,
                                   calls[c].got.code, r.at>>
        [] r.op = "submit"    -> <<"submit", r.action>>

Replayable(c) ==
  LET r == calls[c].req
  IN  r.op \in KeyedOps /\ IdempotentReplay(r.key, Fingerprint(c), TypeOf(r.op))

\* The revision the request names, or else the one the handler has read.
ExpectedRevision(c) ==
  IF calls[c].req.revision # 0 THEN calls[c].req.revision ELSE calls[c].got.revision

ActionRevisionReadLate(c) == actions[calls[c].req.action].revision  \* mutant

ExpectedActionRevision(c) ==
  IF calls[c].req.actionRevision # 0 THEN calls[c].req.actionRevision
                                     ELSE calls[c].got.actionRevision

\* The section carries the request out on the entity e.
CarryOut(c, e) ==
  LET r == calls[c].req
      got == calls[c].got
      f == Fingerprint(c)
  IN  \/ /\ r.op = "create" /\ e \in Mint(TaskIds \ DOMAIN tasks)
         /\ CreateTaskAtomic(e, r.plan, r.key, f)
      \/ /\ r.op = "inspect" /\ e \in Mint(InspectionIds \ DOMAIN inspections)
         /\ IF r.old = NoInspection
            THEN RecordFirstInspection(e, r.task, r.anomalies, ExpectedRevision(c), r.key, f)
            ELSE CorrectInspection(e, r.task, r.anomalies, r.old, ExpectedRevision(c), r.key, f)
      \/ /\ r.op = "recommend" /\ e \in Mint(ActionIds \ DOMAIN actions)
         /\ CreateActionAtomic(e, r.task, got.code, got.source, r.code = Combined,
                               r.revision, r.key, f)
      \/ /\ r.op = "submit" /\ e = r.action
         /\ Len(actions[e].submissions) < MaxSubmissions
         /\ SubmitActionAtomic(e, got.submitted + 1, ExpectedActionRevision(c),
                               ExpectedRevision(c), r.key, f)
      \/ /\ r.op = "decide" /\ e = r.action
         /\ r.decision = "rejected" => Len(actions[e].submissions) < MaxSubmissions
         /\ ReviewActionAtomic(e, [submission |-> got.version, decision |-> r.decision],
                               ExpectedActionRevision(c), ExpectedRevision(c))
      \/ /\ r.op = "approve" /\ e = r.action
         /\ CompleteAndApproveActionAtomic(e, got.submitted + 1)
      \/ /\ r.op = "close" /\ e = r.task
         /\ CloseTaskAtomic(e, r.revision)

Carry(c) ==
  /\ calls[c].stage = "ready"
  /\ \E e \in TaskIds \cup InspectionIds \cup ActionIds :
       CarryOut(c, e) /\ Answered(c, e)
  /\ UNCHANGED now

Replay(c) ==
  /\ calls[c].stage = "ready" /\ Replayable(c)
  /\ Answered(c, idem[calls[c].req.key].entity)
  /\ UNCHANGED <<vars, now>>

\* A section that cannot carry the request out refuses it; one that could may still fail
\* to write the snapshot, and then puts the data back.
Refuse(c) ==
  /\ calls[c].stage = "ready" /\ ~Replayable(c)
  /\ Refused(c)
  /\ UNCHANGED <<vars, now>>

\* The answer is lost: the client sends the same request again.
Retry(c) ==
  /\ calls[c].stage = "answered"
  /\ calls' = [calls EXCEPT ![c] = [stage |-> "sent", req |-> calls[c].req,
                                    seen |-> <<>>, first |-> calls[c].first]]
  /\ UNCHANGED <<vars, now>>

Finish(c) ==
  /\ calls[c].stage = "answered"
  /\ calls' = [calls EXCEPT ![c] = Idle]
  /\ UNCHANGED <<vars, now>>

Tick ==
  /\ now < MaxTime /\ now' = now + 1
  /\ UNCHANGED <<vars, calls>>

ServiceInit == Init /\ now = 0 /\ calls = [c \in Clients |-> Idle]

ServiceNext ==
  \/ \E a \in Artifacts : AddArtifact(a) /\ UNCHANGED <<now, calls>>
  \/ Tick
  \/ \E c \in Clients :
       \/ Send(c) \/ Retry(c) \/ Finish(c)
       \/ ReadArtifact(c) \/ ReadTask(c) \/ ReadInspection(c) \/ ReadNothing(c)
       \/ ReadAction(c) \/ ReadTaskOfAction(c)
       \/ Carry(c) \/ Replay(c) \/ Refuse(c)

ServiceSpec == ServiceInit /\ [][ServiceNext]_serviceVars

(***************************************************************************)
(* Properties.                                                             *)
(***************************************************************************)
\* However the reads of the handlers go stale, the sections they call take only the steps
\* CareStore allows: every property of CareStore holds of the service.
ImplementsStore == Spec

\* What a keyed request asks for is what the entity answered to it holds.
Fits(r, e) ==
  CASE r.op = "create"    -> e \in DOMAIN tasks /\ tasks[e].plan = r.plan
    [] r.op = "inspect"   -> /\ e \in InspectionsOf(r.task)
                             /\ inspections[e].anomalies = r.anomalies
                             /\ inspections[e].supersedes = r.old
    [] r.op = "recommend" -> e \in ActionsOf(r.task) /\ r.code \in {actions[e].code, Combined}
    [] r.op = "submit"    -> e = r.action /\ actions[e].submissions # <<>>

\* Whoever sends or repeats a keyed request, and whatever runs in between, the answer is
\* an entity with the content asked for, and always the same one.
AnswersFit ==
  LET answered == {c \in Clients : calls[c].stage = "answered"}
  IN  /\ \A c \in answered : Fits(calls[c].req, calls[c].entity)
      /\ \A c, d \in answered : calls[c].req.key = calls[d].req.key
                                 => calls[c].entity = calls[d].first

Repeated(c) == calls[c].stage \in {"sent", "ready"} /\ calls[c].first # NoEntity

\* A request that has been answered and is sent again is replayed.  Only the checks
\* against the clock, made before the record is looked up, can refuse it: neither what
\* others did meanwhile nor what the handler reads the second time does.
RetryInTimeIsReplayed ==
  [][\A c \in Clients : Repeated(c) /\ InTime(calls[c].req)
                         => calls'[c].stage # "idle"]_serviceVars

ActsOnSeen(ops) ==
  \A c \in Clients :
    /\ calls[c].stage = "ready" /\ calls[c].req.op \in ops
    /\ calls[c].req.revision # 0
    /\ vars' # vars /\ calls'[c] # calls[c]
    => calls[c].seen = WorkOf(Requested(calls[c].req))

\* A request that names the revision it has seen never changes work that has moved on
\* since, in whatever part.
SeenIsActedOn ==
  [][ActsOnSeen({"inspect", "recommend", "submit", "decide", "close"})]_serviceVars

\* The same of the review in one call.
OneCallIsActedOnSeen == [][ActsOnSeen({"approve"})]_serviceVars

=============================================================================
