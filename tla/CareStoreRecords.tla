--------------------------- MODULE CareStoreRecords ---------------------------
(***************************************************************************)
(* Proofs that the records of CareStore agree with each other, for every   *)
(* value of its constants: the review state of an action with its history, *)
(* the last approval with the stage of the task, the idempotency records   *)
(* with what was made under their keys, the trail with all of it; and that *)
(* what clients are told of a task is what the store will do.              *)
(***************************************************************************)
EXTENDS CareProgress, CareStoreProofs, FiniteSetTheorems

(***************************************************************************)
(* Review states.                                                          *)
(***************************************************************************)
Matches(r) ==
  /\ r.review = "approved" <=> r.evidenceComplete
  /\ r.review = "pending_submission" <=> r.submissions = <<>>
  /\ r.review \in {"approved", "rejected"} =>
       /\ r.reviews # <<>> /\ r.submissions # <<>>
       /\ Last(r.reviews) = [submission |-> Last(r.submissions), decision |-> r.review]

LEMMA Appended ==
  ASSUME NEW S, NEW s \in Seq(S), NEW x \in S
  PROVE  Append(s, x) # <<>> /\ Last(Append(s, x)) = x
BY DEF Last

LEMMA SubmittingMatches ==
  ASSUME TypeOK, ReviewMatchesHistory, Submitting
  PROVE  ReviewMatchesHistory'
<1>1. PICK a \in DOMAIN actions, version \in Nat :
        actions' = [actions EXCEPT ![a].submissions = Append(@, version),
                                   ![a].review = "pending_review",
                                   ![a].evidenceComplete = FALSE,
                                   ![a].revision = @ + 1]
  <2>1. PICK a \in DOMAIN actions, k \in Keys \cup {NoKey}, f \in Fingerprints :
          SubmitActionAtomic(a, Len(actions[a].submissions) + 1,
                             Revisions(a)[1], Revisions(a)[2], k, f)
    BY DEF Submitting
  <2>2. Len(actions[a].submissions) + 1 \in Nat
    BY DEF TypeOK, Action
  <2>3. QED BY <2>1, <2>2 DEF SubmitActionAtomic
<1>2. actions[a] \in Action /\ actions \in [DOMAIN actions -> Action]
  BY DEF TypeOK
<1> DEFINE subs == Append(actions[a].submissions, version)
<1>3. subs # <<>>
  BY <1>2, Appended DEF Action
<1>4. DOMAIN actions' = DOMAIN actions /\ \A b \in DOMAIN actions \ {a} : actions'[b] = actions[b]
  BY <1>1
<1> HIDE DEF subs
<1>5. /\ actions'[a].submissions = subs /\ actions'[a].review = "pending_review"
      /\ actions'[a].evidenceComplete = FALSE
  BY <1>1, <1>2 DEF Action, subs
<1>6. Matches(actions'[a])
  BY <1>3, <1>5 DEF Matches
<1>7. QED BY <1>4, <1>6 DEF ReviewMatchesHistory, Matches

LEMMA DecidingMatches ==
  ASSUME TypeOK, ReviewMatchesHistory, Deciding
  PROVE  ReviewMatchesHistory'
<1>1. PICK a \in DOMAIN actions, decision \in {"approved", "rejected"} :
        /\ actions[a].submissions # <<>>
        /\ ReviewActionAtomic(a, [submission |-> Last(actions[a].submissions),
                                  decision |-> decision], Revisions(a)[1], Revisions(a)[2])
  BY DEF Deciding
<1> DEFINE review == [submission |-> Last(actions[a].submissions), decision |-> decision]
           revs == Append(actions[a].reviews, review)
           complete == decision = "approved"
<1>2. actions[a] \in Action /\ actions \in [DOMAIN actions -> Action]
  BY DEF TypeOK
<1>3. review \in Review
  BY <1>1, <1>2 DEF Action, Review, Last
<1>4. actions' = [actions EXCEPT ![a].reviews = revs, ![a].evidenceComplete = complete,
                                 ![a].review = decision, ![a].revision = @ + 1]
  BY <1>1 DEF ReviewActionAtomic
<1>5. revs # <<>> /\ Last(revs) = review
  BY <1>2, <1>3, Appended DEF Action
<1>6. decision = "approved" <=> complete
  OBVIOUS
<1> HIDE DEF revs, complete
<1>7. DOMAIN actions' = DOMAIN actions /\ \A b \in DOMAIN actions \ {a} : actions'[b] = actions[b]
  BY <1>4
<1>8. /\ actions'[a].submissions = actions[a].submissions /\ actions'[a].reviews = revs
      /\ actions'[a].review = decision /\ actions'[a].evidenceComplete = complete
  BY <1>2, <1>4 DEF Action
<1>9. Matches(actions'[a])
  BY <1>1, <1>5, <1>6, <1>8 DEF Matches, review
<1>10. QED BY <1>7, <1>9 DEF ReviewMatchesHistory, Matches

LEMMA CompletingMatches ==
  ASSUME TypeOK, ReviewMatchesHistory, Completing
  PROVE  ReviewMatchesHistory'
<1>1. PICK a \in DOMAIN actions : \E seen \in 0..Len(actions[a].submissions) :
        CompleteAndApproveActionAtomic(a, seen + 1)
  BY DEF Completing
<1>2. actions[a] \in Action /\ actions \in [DOMAIN actions -> Action]
  BY DEF TypeOK
<1>3. PICK version \in Nat : CompleteAndApproveActionAtomic(a, version)
  <2>1. PICK seen \in 0..Len(actions[a].submissions) :
          CompleteAndApproveActionAtomic(a, seen + 1)
    BY <1>1
  <2>2. QED BY <2>1
<1> DEFINE review == [submission |-> version, decision |-> "approved"]
           subs == Append(actions[a].submissions, version)
           revs == Append(actions[a].reviews, review)
<1>4. actions' = [actions EXCEPT ![a].submissions = subs, ![a].reviews = revs,
                                 ![a].evidenceComplete = TRUE, ![a].review = "approved",
                                 ![a].revision = @ + 1]
  BY <1>3 DEF CompleteAndApproveActionAtomic
<1>5. review \in Review
  BY DEF Review
<1>6. /\ actions[a].submissions \in Seq(Nat) /\ actions[a].reviews \in Seq(Review)
      /\ version \in Nat
  BY <1>2 DEF Action
<1>11. subs # <<>> /\ Last(subs) = version
  BY <1>6, Appended
<1>12. revs # <<>> /\ Last(revs) = review
  BY <1>5, <1>6, Appended
<1> HIDE DEF revs, subs
<1>7. DOMAIN actions' = DOMAIN actions /\ \A b \in DOMAIN actions \ {a} : actions'[b] = actions[b]
  BY <1>4
<1>8. /\ actions'[a].submissions = subs /\ actions'[a].reviews = revs
      /\ actions'[a].review = "approved" /\ actions'[a].evidenceComplete = TRUE
  BY <1>2, <1>4 DEF Action
<1>9. Matches(actions'[a])
  BY <1>11, <1>12, <1>8 DEF Matches
<1>10. QED BY <1>7, <1>9 DEF ReviewMatchesHistory, Matches

LEMMA AssigningMatches ==
  ASSUME ReviewMatchesHistory, Assigning
  PROVE  ReviewMatchesHistory'
<1>1. PICK a \in ActionIds \ DOMAIN actions, t \in DOMAIN tasks, c \in Codes,
           legacy \in BOOLEAN, k \in Keys, f \in Fingerprints :
        CreateActionAtomic(a, t, c, ActiveInspection(t), legacy, tasks[t].revision, k, f)
  BY DEF Assigning
<1> DEFINE new == [task |-> t, source |-> ActiveInspection(t), code |-> c, legacy |-> legacy,
                   review |-> "pending_submission", evidenceComplete |-> FALSE,
                   revision |-> 1, submissions |-> <<>>, reviews |-> <<>>]
<1>2. actions' = Put(actions, a, new)
  BY <1>1 DEF CreateActionAtomic
<1>3. Matches(new)
  BY DEF Matches
<1> HIDE DEF new
<1>4. QED BY <1>2, <1>3 DEF ReviewMatchesHistory, Matches, Put

LEMMA MatchesStep == Linked /\ ReviewMatchesHistory /\ [Next]_vars => ReviewMatchesHistory'
<1> SUFFICES ASSUME Linked, ReviewMatchesHistory, [Next]_vars PROVE ReviewMatchesHistory'
  OBVIOUS
<1>1. TypeOK
  BY DEF Linked, Chain
<1>2. CASE UNCHANGED vars \/ Registering \/ Creating \/ Closing
  <2>1. actions' = actions
    BY <1>2 DEF vars, Registering, AddArtifact, Creating, CreateTaskAtomic, Closing,
                CloseTaskAtomic
  <2>2. QED BY <2>1 DEF ReviewMatchesHistory
<1>3. CASE Recording \/ Correcting
  BY <1>3, InspectingLinks DEF ReviewMatchesHistory
<1>4. QED BY <1>1, <1>2, <1>3, SubmittingMatches, DecidingMatches, CompletingMatches,
             AssigningMatches, NextIsOneSection

\* Approval and complete evidence go together, and the last decision on an action is about
\* its last result (SubmitActionAtomic, ReviewActionAtomic, CompleteAndApproveActionAtomic).
THEOREM ReviewsMatchHistory == Spec => []ReviewMatchesHistory
<1>1. Init => ReviewMatchesHistory
  BY DEF Init, ReviewMatchesHistory
<1>2. IInv => Linked
  BY DEF IInv
<1>3. QED BY <1>1, <1>2, MatchesStep, Invariance, PTL DEF Spec

(***************************************************************************)
(* The reviewed stage is reached.                                          *)
(***************************************************************************)
AllApproved(t) ==
  /\ ActionsOf(t) # {} /\ FullyCovered(t)
  /\ \A a \in ActionsOf(t) : actions[a].review = "approved"

LEMMA CoverWas ==
  ASSUME Chain, Chain', NEW t \in DOMAIN tasks, KeepsCover(t), FullyCovered(t)'
  PROVE  FullyCovered(t)
<1>1. Chain' => CoverIsCurrent'
  BY CoveredByCurrent, PTL
<1>2. t \in DOMAIN tasks'
  BY DEF KeepsCover
<1>3. /\ tasks'[t].current # NoInspection
      /\ \A c \in inspections'[tasks'[t].current].anomalies :
           \E a \in ActionsOf(t)' : actions'[a].code = c
  BY <1>1, <1>2 DEF CoverIsCurrent
<1>4. tasks[t].current = tasks'[t].current /\ tasks[t].current \in DOMAIN inspections
  BY <1>3 DEF KeepsCover, Chain, CurrentIsStored, InspectionsOf
<1>5. /\ tasks[t].current # NoInspection
      /\ \A c \in inspections[tasks[t].current].anomalies :
           \E a \in ActionsOf(t) : actions[a].code = c
  BY <1>3, <1>4 DEF KeepsCover
<1>6. QED BY <1>5, CoveredByCurrent DEF CoverIsCurrent

\* A task whose actions and cover a section keeps had earned what it has.
LEMMA ApprovedBefore ==
  ASSUME Chain, Chain', NEW t \in DOMAIN tasks, KeepsCover(t), AllApproved(t)',
         \A a \in ActionsOf(t) : actions'[a].review = actions[a].review
  PROVE  AllApproved(t)
BY CoverWas DEF AllApproved, KeepsCover

\* An action under work that completes the approvals takes its task along.
LEMMA ReachedByDecision ==
  ASSUME Linked, Linked', ReviewedIsReached, NEW a \in DOMAIN actions, NEW review,
         NEW status, actions[a].review # "approved", ActionMoves(a, review),
         Moves(actions[a].task, status), inspections' = inspections,
         review = "approved" /\ OthersApproved(a) /\ FullyCovered(actions[a].task)
           => status = "reviewed"
  PROVE  ReviewedIsReached'
<1> DEFINE t == actions[a].task
<1>1. t \in DOMAIN tasks
  BY SourceIsStored
<1>2. Chain /\ Chain'
  BY DEF Linked
<1>3. DOMAIN tasks' = DOMAIN tasks /\ tasks'[t].status = status
      /\ \A u \in DOMAIN tasks \ {t} : tasks'[u] = tasks[u]
  BY <1>1 DEF Moves
<1>4. SUFFICES ASSUME NEW u \in DOMAIN tasks, AllApproved(u)'
               PROVE  tasks'[u].status \in {"reviewed", "closed"}
  BY <1>3 DEF ReviewedIsReached, AllApproved
<1>5. KeepsCover(u)
  BY MovesKeepCover
<1>6. CASE u # t
  <2>1. \A b \in ActionsOf(u) : actions'[b] = actions[b]
    BY <1>6 DEF ActionsOf, ActionMoves
  <2>2. AllApproved(u)
    BY <1>2, <1>4, <1>5, <2>1, ApprovedBefore
  <2>3. QED BY <1>3, <1>6, <2>2 DEF ReviewedIsReached, AllApproved
<1>7. CASE u = t
  <2>1. ActionsOf(u)' = ActionsOf(u) /\ a \in ActionsOf(u)
    BY <1>5, <1>7 DEF KeepsCover, ActionsOf
  <2>2. \A b \in ActionsOf(u) : actions'[b].review = "approved"
    BY <1>4, <2>1 DEF AllApproved
  <2>3. review = "approved"
    BY <2>1, <2>2 DEF ActionMoves
  <2>4. OthersApproved(a)
    BY <1>7, <2>2 DEF OthersApproved, ActionMoves, ActionsOf
  <2>5. FullyCovered(u)
    BY <1>2, <1>4, <1>5, CoverWas DEF AllApproved
  <2>6. QED BY <1>3, <1>7, <2>3, <2>4, <2>5
<1>8. QED BY <1>6, <1>7

LEMMA ReachedStep == Linked /\ ReviewedIsReached /\ [Next]_vars => ReviewedIsReached'
<1> SUFFICES ASSUME Linked, ReviewedIsReached, [Next]_vars PROVE ReviewedIsReached'
  OBVIOUS
<1>1. Linked' /\ Chain /\ Chain' /\ TypeOK /\ ActionsHaveTasks
  BY LinkStep DEF Linked, Chain, ActionsMatchInspection, ActionsHaveTasks
<1>2. ASSUME NEW u \in DOMAIN tasks, AllApproved(u)', KeepsCover(u),
             \A a \in ActionsOf(u) : actions'[a].review = actions[a].review
      PROVE  tasks[u].status \in {"reviewed", "closed"}
  BY <1>1, <1>2, ApprovedBefore DEF ReviewedIsReached, AllApproved
<1>3. CASE UNCHANGED vars \/ Registering
  <2>1. UNCHANGED <<tasks, inspections, actions>>
    BY <1>3 DEF vars, Registering, AddArtifact
  <2>2. \A u \in DOMAIN tasks : KeepsCover(u)
    BY <2>1 DEF KeepsCover, ActionsOf
  <2>3. QED BY <1>2, <2>1, <2>2 DEF ReviewedIsReached, AllApproved
<1>4. CASE Creating
  <2>1. PICK t \in TaskIds \ DOMAIN tasks :
          /\ DOMAIN tasks' = DOMAIN tasks \cup {t}
          /\ \A u \in DOMAIN tasks : tasks'[u] = tasks[u]
          /\ UNCHANGED <<inspections, actions>>
    BY <1>4 DEF Creating, CreateTaskAtomic, Put
  <2>2. \A u \in DOMAIN tasks : KeepsCover(u)
    BY <2>1 DEF KeepsCover, ActionsOf
  <2>3. ActionsOf(t)' = {}
    BY <1>1, <2>1 DEF ActionsOf, ActionsHaveTasks
  <2>4. QED BY <1>2, <2>1, <2>2, <2>3 DEF ReviewedIsReached, AllApproved
<1>5. CASE Recording \/ Correcting
  <2>1. PICK t \in DOMAIN tasks :
           /\ ActionsOf(t) = {} /\ actions' = actions /\ DOMAIN tasks' = DOMAIN tasks
           /\ \A u \in DOMAIN tasks \ {t} : tasks'[u] = tasks[u]
           /\ \A i \in DOMAIN inspections :
                /\ i \in DOMAIN inspections'
                /\ inspections'[i].anomalies = inspections[i].anomalies
    BY <1>5, InspectingLinks
  <2>2. \A u \in DOMAIN tasks \ {t} : KeepsCover(u)
    BY <2>1 DEF KeepsCover, ActionsOf
  <2>3. ActionsOf(t)' = {}
    BY <2>1 DEF ActionsOf
  <2>4. QED BY <1>2, <2>1, <2>2, <2>3 DEF ReviewedIsReached, AllApproved
<1>6. CASE Assigning
  <2>1. PICK a \in ActionIds \ DOMAIN actions, t \in DOMAIN tasks, c \in Codes,
             status \in {"pending_action", "pending_review"} :
           /\ DOMAIN actions' = DOMAIN actions \cup {a} /\ actions'[a].task = t
           /\ \A b \in DOMAIN actions : actions'[b] = actions[b]
           /\ actions'[a].review = "pending_submission"
           /\ Moves(t, status) /\ inspections' = inspections
    BY <1>1, <1>6, AssigningEffect
  <2>2. /\ DOMAIN tasks' = DOMAIN tasks
        /\ \A u \in DOMAIN tasks \ {t} : tasks'[u] = tasks[u]
    BY <2>1 DEF Moves
  <2>3. \A u \in DOMAIN tasks \ {t} : KeepsCover(u)
    BY <2>1, <2>2 DEF KeepsCover, ActionsOf
  <2>4. \A u \in DOMAIN tasks \ {t} : \A b \in ActionsOf(u) : actions'[b] = actions[b]
    BY <2>1 DEF ActionsOf
  <2>5. ~AllApproved(t)'
    BY <2>1 DEF AllApproved, ActionsOf
  <2>6. QED BY <1>2, <2>2, <2>3, <2>4, <2>5 DEF ReviewedIsReached, AllApproved
<1>7. CASE Submitting
  BY <1>1, <1>7, SubmittingEffect, ReachedByDecision
<1>8. CASE Deciding
  BY <1>1, <1>8, DecidingEffect, ReachedByDecision
<1>9. CASE Completing
  BY <1>1, <1>9, CompletingEffect, ReachedByDecision
<1>10. CASE Closing
  <2>1. PICK t \in DOMAIN tasks : /\ Moves(t, "closed")
                                  /\ inspections' = inspections /\ actions' = actions
    BY <1>1, <1>10, ClosingEffect
  <2>2. \A u \in DOMAIN tasks : KeepsCover(u)
    BY <2>1 DEF Moves, KeepsCover, ActionsOf
  <2>3. QED BY <1>2, <2>1, <2>2 DEF Moves, ReviewedIsReached, AllApproved
<1>11. QED BY <1>1, <1>3, <1>4, <1>5, <1>6, <1>7, <1>8, <1>9, <1>10, NextIsOneSection

\* The last approval is never missed: a task all of whose anomalies are covered by approved
\* actions is reviewed or closed (the recount in ReviewActionAtomic and
\* CompleteAndApproveActionAtomic).
THEOREM ReviewIsReached == Spec => []ReviewedIsReached
<1>1. Init => ReviewedIsReached
  BY DEF Init, ReviewedIsReached
<1>2. IInv => Linked
  BY DEF IInv
<1>3. QED BY <1>1, <1>2, ReachedStep, Invariance, PTL DEF Spec

(***************************************************************************)
(* Idempotency records.  For each kind of record: the store of the kind    *)
(* holds what the records name, and each member was made under one key.    *)
(***************************************************************************)
Names(r, type, S) == \A k \in DOMAIN r : r[k].type = type => r[k].entity \in S
MadeOnce(r, type, S) ==
  \A e \in S : \E k \in DOMAIN r :
    /\ r[k].type = type /\ r[k].entity = e
    /\ \A l \in DOMAIN r \ {k} : r[l].type = type => r[l].entity # e
Kept(r, type, S) == Names(r, type, S) /\ MadeOnce(r, type, S)

KeysKeepStore ==
  /\ Kept(idem, "task", DOMAIN tasks)
  /\ Kept(idem, "inspection", DOMAIN inspections)
  /\ Kept(idem, "action", DOMAIN actions)
  /\ Names(idem, "action_submission", DOMAIN actions)

Saved(type, e, f) == [type |-> type, entity |-> e, fingerprint |-> f]

\* A new entity under a new key: the store of its kind grows by it.
LEMMA KeptForNew ==
  ASSUME NEW r, NEW k, k \notin DOMAIN r, NEW type, NEW e, NEW f, NEW S, e \notin S,
         Kept(r, type, S)
  PROVE  Kept(Put(r, k, Saved(type, e, f)), type, S \cup {e})
<1> DEFINE new == Saved(type, e, f)
           r2 == Put(r, k, new)
<1>1. /\ DOMAIN r2 = DOMAIN r \cup {k} /\ r2[k] = new
      /\ \A l \in DOMAIN r : r2[l] = r[l]
  BY DEF Put
<1>2. new.type = type /\ new.entity = e
  BY DEF Saved
<1> HIDE DEF r2, new
<1>3. Names(r2, type, S \cup {e})
  BY <1>1, <1>2 DEF Kept, Names
<1>4. ASSUME NEW x \in S \cup {e}
      PROVE  \E n \in DOMAIN r2 :
               /\ r2[n].type = type /\ r2[n].entity = x
               /\ \A l \in DOMAIN r2 \ {n} : r2[l].type = type => r2[l].entity # x
  <2>1. CASE x = e
    <3>1. \A l \in DOMAIN r2 \ {k} : r2[l].type = type => r2[l].entity # x
      BY <1>1, <2>1 DEF Kept, Names
    <3>2. QED BY <1>1, <1>2, <2>1, <3>1
  <2>2. CASE x \in S
    <3>1. PICK n \in DOMAIN r :
            /\ r[n].type = type /\ r[n].entity = x
            /\ \A l \in DOMAIN r \ {n} : r[l].type = type => r[l].entity # x
      BY <2>2 DEF Kept, MadeOnce
    <3>2. QED BY <1>1, <1>2, <2>2, <3>1
  <2>3. QED BY <2>1, <2>2
<1>5. QED BY <1>3, <1>4 DEF Kept, MadeOnce, r2, new

\* A record of another kind leaves what the records of this kind say as it was.
LEMMA KeptForOther ==
  ASSUME NEW r, NEW k, k \notin DOMAIN r, NEW type, NEW e, NEW f, NEW S,
         NEW other, other # type
  PROVE  /\ Kept(r, other, S) => Kept(Put(r, k, Saved(type, e, f)), other, S)
         /\ Names(r, other, S) => Names(Put(r, k, Saved(type, e, f)), other, S)
<1> DEFINE new == Saved(type, e, f)
           r2 == Put(r, k, new)
<1>1. /\ DOMAIN r2 = DOMAIN r \cup {k} /\ r2[k] = new
      /\ \A l \in DOMAIN r : r2[l] = r[l]
  BY DEF Put
<1>2. new.type = type
  BY DEF Saved
<1> HIDE DEF r2, new
<1>3. Names(r, other, S) => Names(r2, other, S)
  BY <1>1, <1>2 DEF Names
<1>4. ASSUME MadeOnce(r, other, S), NEW x \in S
      PROVE  \E n \in DOMAIN r2 :
               /\ r2[n].type = other /\ r2[n].entity = x
               /\ \A l \in DOMAIN r2 \ {n} : r2[l].type = other => r2[l].entity # x
  <2>1. PICK n \in DOMAIN r :
          /\ r[n].type = other /\ r[n].entity = x
          /\ \A l \in DOMAIN r \ {n} : r[l].type = other => r[l].entity # x
    BY <1>4 DEF MadeOnce
  <2>2. QED BY <1>1, <1>2, <2>1
<1>5. QED BY <1>3, <1>4 DEF Kept, MadeOnce, r2, new

LEMMA NamesGrows ==
  ASSUME NEW r, NEW type, NEW S, NEW T, S \subseteq T, Names(r, type, S)
  PROVE  Names(r, type, T)
BY DEF Names

\* A key is free when a section saves a record under it.
LEMMA SavedUnderFreeKey ==
  ASSUME NEW k, NEW f, NEW type, NEW e, KeyIsFree(k), SaveIdempotency(k, f, type, e)
  PROVE  k \notin DOMAIN idem /\ idem' = Put(idem, k, Saved(type, e, f))
BY DEF KeyIsFree, SaveIdempotency, Saved

LEMMA CreatingKeeps == KeysKeepStore /\ Creating => KeysKeepStore'
<1> SUFFICES ASSUME KeysKeepStore, Creating PROVE KeysKeepStore'
  OBVIOUS
<1>1. PICK t \in TaskIds \ DOMAIN tasks, p \in Plans, k \in Keys, f \in Fingerprints :
        CreateTaskAtomic(t, p, k, f)
  BY DEF Creating
<1>2. k \notin DOMAIN idem /\ idem' = Put(idem, k, Saved("task", t, f))
  BY <1>1, SavedUnderFreeKey DEF CreateTaskAtomic
<1>3. DOMAIN tasks' = DOMAIN tasks \cup {t} /\ inspections' = inspections /\ actions' = actions
  BY <1>1 DEF CreateTaskAtomic, Put
<1>4. Kept(idem', "task", DOMAIN tasks')
  BY <1>1, <1>2, <1>3, KeptForNew DEF KeysKeepStore
<1>5. /\ Kept(idem', "inspection", DOMAIN inspections)
      /\ Kept(idem', "action", DOMAIN actions)
      /\ Names(idem', "action_submission", DOMAIN actions)
  BY <1>2, KeptForOther DEF KeysKeepStore
<1>6. QED BY <1>3, <1>4, <1>5 DEF KeysKeepStore

LEMMA InspectingKeeps == KeysKeepStore /\ (Recording \/ Correcting) => KeysKeepStore'
<1> SUFFICES ASSUME KeysKeepStore, Recording \/ Correcting PROVE KeysKeepStore'
  OBVIOUS
<1>1. PICK i \in InspectionIds \ DOMAIN inspections, k \in Keys, f \in Fingerprints :
        /\ KeyIsFree(k) /\ SaveIdempotency(k, f, "inspection", i)
        /\ DOMAIN inspections' = DOMAIN inspections \cup {i}
        /\ DOMAIN tasks' = DOMAIN tasks /\ actions' = actions
  <2>1. CASE Recording
    <3>1. PICK i \in InspectionIds \ DOMAIN inspections, t \in DOMAIN tasks,
               anomalies \in Outcomes, k \in Keys, f \in Fingerprints :
            RecordFirstInspection(i, t, anomalies, tasks[t].revision, k, f)
      BY <2>1 DEF Recording
    <3>2. /\ KeyIsFree(k) /\ SaveIdempotency(k, f, "inspection", i)
          /\ DOMAIN inspections' = DOMAIN inspections \cup {i}
          /\ DOMAIN tasks' = DOMAIN tasks /\ actions' = actions
      BY <3>1 DEF RecordFirstInspection, AdoptInspection, Put
    <3>3. QED BY <3>2
  <2>2. CASE Correcting
    <3>1. PICK i \in InspectionIds \ DOMAIN inspections, t \in DOMAIN tasks,
               anomalies \in Outcomes, k \in Keys, f \in Fingerprints :
            CorrectInspection(i, t, anomalies, ActiveInspection(t), tasks[t].revision, k, f)
      BY <2>2 DEF Correcting
    <3>2. /\ KeyIsFree(k) /\ SaveIdempotency(k, f, "inspection", i)
          /\ DOMAIN inspections' = DOMAIN inspections \cup {i}
          /\ DOMAIN tasks' = DOMAIN tasks /\ actions' = actions
      BY <3>1 DEF CorrectInspection, AdoptInspection, Put, Supersede
    <3>3. QED BY <3>2
  <2>3. QED BY <2>1, <2>2
<1>2. k \notin DOMAIN idem /\ idem' = Put(idem, k, Saved("inspection", i, f))
  BY <1>1, SavedUnderFreeKey
<1>3. Kept(idem', "inspection", DOMAIN inspections')
  BY <1>1, <1>2, KeptForNew DEF KeysKeepStore
<1>4. /\ Kept(idem', "task", DOMAIN tasks)
      /\ Kept(idem', "action", DOMAIN actions)
      /\ Names(idem', "action_submission", DOMAIN actions)
  BY <1>2, KeptForOther DEF KeysKeepStore
<1>5. QED BY <1>1, <1>3, <1>4 DEF KeysKeepStore

LEMMA AssigningKeeps == KeysKeepStore /\ Assigning => KeysKeepStore'
<1> SUFFICES ASSUME KeysKeepStore, Assigning PROVE KeysKeepStore'
  OBVIOUS
<1>1. PICK a \in ActionIds \ DOMAIN actions, k \in Keys, f \in Fingerprints :
        /\ KeyIsFree(k) /\ SaveIdempotency(k, f, "action", a)
        /\ DOMAIN actions' = DOMAIN actions \cup {a}
        /\ DOMAIN tasks' = DOMAIN tasks /\ inspections' = inspections
  <2>1. PICK a \in ActionIds \ DOMAIN actions, t \in DOMAIN tasks, c \in Codes,
             legacy \in BOOLEAN, k \in Keys, f \in Fingerprints :
          CreateActionAtomic(a, t, c, ActiveInspection(t), legacy, tasks[t].revision, k, f)
    BY DEF Assigning
  <2>2. /\ KeyIsFree(k) /\ SaveIdempotency(k, f, "action", a)
        /\ DOMAIN actions' = DOMAIN actions \cup {a}
        /\ DOMAIN tasks' = DOMAIN tasks /\ inspections' = inspections
    BY <2>1 DEF CreateActionAtomic, Put
  <2>3. QED BY <2>2
<1>2. k \notin DOMAIN idem /\ idem' = Put(idem, k, Saved("action", a, f))
  BY <1>1, SavedUnderFreeKey
<1>3. Kept(idem', "action", DOMAIN actions')
  BY <1>1, <1>2, KeptForNew DEF KeysKeepStore
<1>4. /\ Kept(idem', "task", DOMAIN tasks)
      /\ Kept(idem', "inspection", DOMAIN inspections)
      /\ Names(idem', "action_submission", DOMAIN actions)
  BY <1>2, KeptForOther DEF KeysKeepStore
<1>5. Names(idem', "action_submission", DOMAIN actions')
  BY <1>1, <1>4, NamesGrows
<1>6. QED BY <1>1, <1>3, <1>4, <1>5 DEF KeysKeepStore

LEMMA SubmittingKeeps == KeysKeepStore /\ Submitting => KeysKeepStore'
<1> SUFFICES ASSUME KeysKeepStore, Submitting PROVE KeysKeepStore'
  OBVIOUS
<1>1. PICK a \in DOMAIN actions, k \in Keys \cup {NoKey}, f \in Fingerprints :
        /\ k = NoKey \/ KeyIsFree(k)
        /\ IF k = NoKey THEN UNCHANGED idem
                        ELSE SaveIdempotency(k, f, "action_submission", a)
        /\ DOMAIN actions' = DOMAIN actions
        /\ DOMAIN tasks' = DOMAIN tasks /\ inspections' = inspections
  BY DEF Submitting, SubmitActionAtomic
<1>2. CASE k = NoKey
  BY <1>1, <1>2 DEF KeysKeepStore
<1>3. CASE k # NoKey
  <2>1. k \notin DOMAIN idem /\ idem' = Put(idem, k, Saved("action_submission", a, f))
    BY <1>1, <1>3, SavedUnderFreeKey
  <2>2. /\ Kept(idem', "task", DOMAIN tasks)
        /\ Kept(idem', "inspection", DOMAIN inspections)
        /\ Kept(idem', "action", DOMAIN actions)
    BY <2>1, KeptForOther DEF KeysKeepStore
  <2>3. Names(idem', "action_submission", DOMAIN actions)
    BY <2>1 DEF KeysKeepStore, Names, Put, Saved
  <2>4. QED BY <1>1, <2>2, <2>3 DEF KeysKeepStore
<1>4. QED BY <1>2, <1>3

LEMMA KeysKeepStep == IInv /\ KeysKeepStore /\ [Next]_vars => KeysKeepStore'
<1> SUFFICES ASSUME IInv, KeysKeepStore, [Next]_vars PROVE KeysKeepStore'
  OBVIOUS
<1>1. TypeOK
  BY DEF IInv, Linked, Chain
<1>2. CASE UNCHANGED vars \/ Registering \/ Deciding \/ Completing \/ Closing
  <2>1. /\ idem' = idem /\ DOMAIN tasks' = DOMAIN tasks /\ inspections' = inspections
        /\ DOMAIN actions' = DOMAIN actions
    <3>1. CASE UNCHANGED vars \/ Registering
      BY <3>1 DEF vars, Registering, AddArtifact
    <3>2. CASE Deciding
      BY <3>2 DEF Deciding, ReviewActionAtomic
    <3>3. CASE Completing
      BY <3>3 DEF Completing, CompleteAndApproveActionAtomic
    <3>4. CASE Closing
      BY <3>4 DEF Closing, CloseTaskAtomic
    <3>5. QED BY <1>2, <3>1, <3>2, <3>3, <3>4
  <2>2. QED BY <2>1 DEF KeysKeepStore
<1>3. QED BY <1>1, <1>2, CreatingKeeps, InspectingKeeps, AssigningKeeps, SubmittingKeeps,
             NextIsOneSection

LEMMA KeysKeepIntegrity == TypeOK /\ KeysKeepStore => IdempotencyIntegrity
<1> SUFFICES ASSUME TypeOK, KeysKeepStore PROVE IdempotencyIntegrity
  OBVIOUS
<1> DEFINE Store == [task |-> DOMAIN tasks, inspection |-> DOMAIN inspections,
                     action |-> DOMAIN actions, action_submission |-> DOMAIN actions]
<1>1. /\ Store["task"] = DOMAIN tasks /\ Store["inspection"] = DOMAIN inspections
      /\ Store["action"] = DOMAIN actions /\ Store["action_submission"] = DOMAIN actions
  OBVIOUS
<1> HIDE DEF Store
<1>2. ASSUME NEW k \in DOMAIN idem PROVE idem[k].entity \in Store[idem[k].type]
  <2>1. idem[k].type \in {"task", "inspection", "action", "action_submission"}
    BY DEF TypeOK, IdempotencyRecord
  <2>2. QED BY <1>1, <2>1 DEF KeysKeepStore, Kept, Names
<1>3. ASSUME NEW type \in {"task", "inspection", "action"} PROVE MadeOnce(idem, type, Store[type])
  BY <1>1 DEF KeysKeepStore, Kept
<1>4. QED BY <1>2, <1>3 DEF IdempotencyIntegrity, MadeOnce, Store

\* Each record of a key names what exists, and each task, inspection and action was made
\* under one key (lookupIdempotencyLocked, saveIdempotencyLocked).
THEOREM KeysNameWhatTheyMade == Spec => []IdempotencyIntegrity
<1>1. Init => KeysKeepStore
  BY DEF Init, KeysKeepStore, Kept, Names, MadeOnce
<1>2. IInv => TypeOK
  BY DEF IInv, Linked, Chain
<1>3. QED BY <1>1, <1>2, KeysKeepStep, KeysKeepIntegrity, Invariance, PTL DEF Spec

(***************************************************************************)
(* The trail.  Four kinds of event are owed for what is on record of a     *)
(* task, and nothing is owed for what is not, so that an id drawn later    *)
(* has no past.                                                            *)
(***************************************************************************)
Hits(s, types, o) == {n \in DOMAIN s : s[n].type \in types /\ s[n].object = o}
Tally(s, types, o) == Cardinality(Hits(s, types, o))
Hit(e, types, o) == IF e.type \in types /\ e.object = o THEN 1 ELSE 0

Kinds == {"inspection", "assignment", "submission", "review"}
TypesOf(kind) ==
  IF kind = "inspection" THEN {"inspection_recorded", "inspection_corrected"}
  ELSE IF kind = "assignment" THEN {"action_assigned"}
  ELSE IF kind = "submission" THEN {"action_result_submitted"}
  ELSE {"action_review_approved", "action_review_rejected"}

Owed(kind, t, o) ==
  IF kind = "inspection" THEN IF o \in InspectionsOf(t) THEN 1 ELSE 0
  ELSE IF o \notin ActionsOf(t) THEN 0
  ELSE IF kind = "assignment" THEN 1
  ELSE IF kind = "submission" THEN Len(actions[o].submissions)
  ELSE Len(actions[o].reviews)

Objects == InspectionIds \cup ActionIds
Accounted(t) ==
  \A kind \in Kinds : \A o \in Objects : Tally(events[t], TypesOf(kind), o) = Owed(kind, t, o)

\* The trail s leads task t to a revision, one by one, and to its closing if that is the end.
Walks(s, t, revision, closed) ==
  /\ s # <<>> /\ s[1] = Event("task_created", t, 1)
  /\ Last(s).revision = revision
  /\ \A n \in 2..Len(s) :
       s[n].revision - s[n-1].revision \in
         IF s[n].type = "action_review_approved" THEN {0, 1} ELSE {1}
  /\ (Last(s).type = "task_closed") = closed

TrailInv ==
  \A t \in TaskIds :
    /\ Accounted(t)
    /\ t \notin DOMAIN tasks => events[t] = <<>>
    /\ t \in DOMAIN tasks =>
         Walks(events[t], t, tasks[t].revision, tasks[t].status = "closed")

LEMMA TallyNothing ==
  ASSUME NEW types, NEW o
  PROVE  Tally(<<>>, types, o) = 0
<1>1. Hits(<<>>, types, o) = {}
  BY DEF Hits
<1>2. QED BY <1>1, FS_EmptySet DEF Tally

LEMMA TallyAppend ==
  ASSUME NEW S, NEW s \in Seq(S), NEW e \in S, NEW types, NEW o
  PROVE  /\ Tally(s, types, o) \in Nat
         /\ Tally(Append(s, e), types, o) = Tally(s, types, o) + Hit(e, types, o)
<1> DEFINE H == Hits(s, types, o)
           m == Len(s) + 1
<1>1. H \in SUBSET (1..Len(s)) /\ Len(s) \in Nat
  BY DEF Hits
<1>2. IsFiniteSet(H) /\ Cardinality(H) \in Nat /\ m \notin H
  <2>1. IsFiniteSet(1..Len(s))
    BY <1>1, FS_Interval
  <2>2. IsFiniteSet(H)
    <3> HIDE DEF H
    <3>1. QED BY <1>1, <2>1, FS_Subset
  <2>3. Cardinality(H) \in Nat
    BY <2>2, FS_CardinalityType
  <2>4. m \notin H
    BY <1>1
  <2>5. QED BY <2>2, <2>3, <2>4
<1>3. Hits(Append(s, e), types, o) = IF Hit(e, types, o) = 1 THEN H \cup {m} ELSE H
  BY <1>1 DEF Hits, Hit
<1>4. Cardinality(H \cup {m}) = Cardinality(H) + 1
  BY <1>2, FS_AddElement
<1> HIDE DEF H, m
<1>5. QED BY <1>2, <1>3, <1>4 DEF Tally, Hit, H

LEMMA OneAppended ==
  ASSUME TypeOK, NEW t \in TaskIds, NEW e, AppendEvents(t, <<e>>)
  PROVE  /\ events'[t] = Append(events[t], e)
         /\ \A u \in TaskIds \ {t} : events'[u] = events[u]
BY DEF AppendEvents, TypeOK

LEMMA TwoAppended ==
  ASSUME TypeOK, NEW t \in TaskIds, NEW e, NEW f, AppendEvents(t, <<e, f>>)
  PROVE  /\ events'[t] = Append(Append(events[t], e), f)
         /\ \A u \in TaskIds \ {t} : events'[u] = events[u]
BY DEF AppendEvents, TypeOK

LEMMA WalksOn ==
  ASSUME NEW s \in Seq(AuditEvent), NEW t, NEW revision \in Nat, NEW closed,
         Walks(s, t, revision, closed), NEW e \in AuditEvent,
         e.revision - revision \in IF e.type = "action_review_approved" THEN {0, 1} ELSE {1}
  PROVE  Walks(Append(s, e), t, e.revision, e.type = "task_closed")
<1> DEFINE r == Append(s, e)
<1>1. /\ Len(s) \in Nat \ {0} /\ Len(r) = Len(s) + 1
      /\ r[Len(s) + 1] = e /\ \A n \in 1..Len(s) : r[n] = s[n]
  BY DEF Walks
<1>2. \A n \in 2..Len(r) :
        r[n].revision - r[n-1].revision \in
          IF r[n].type = "action_review_approved" THEN {0, 1} ELSE {1}
  BY <1>1 DEF Walks, Last
<1> HIDE DEF r
<1>3. QED BY <1>1, <1>2 DEF Walks, Last, r

\* What a section owes more is what it tells in the event it appends.
OwesMore(t, e) ==
  \A kind \in Kinds : \A o \in Objects : \A u \in TaskIds :
    Owed(kind, u, o)' = Owed(kind, u, o) + IF u = t THEN Hit(e, TypesOf(kind), o) ELSE 0

LEMMA AccountedOn ==
  ASSUME TypeOK, TrailInv, NEW t \in TaskIds, NEW e \in AuditEvent,
         AppendEvents(t, <<e>>), OwesMore(t, e)
  PROVE  \A u \in TaskIds : Accounted(u)'
<1>1. /\ events'[t] = Append(events[t], e) /\ events[t] \in Seq(AuditEvent)
      /\ \A u \in TaskIds \ {t} : events'[u] = events[u]
  BY OneAppended DEF TypeOK
<1> SUFFICES ASSUME NEW u \in TaskIds, NEW kind \in Kinds, NEW o \in Objects
             PROVE  Tally(events'[u], TypesOf(kind), o) = Owed(kind, u, o)'
  BY DEF Accounted
<1>2. Tally(events[u], TypesOf(kind), o) = Owed(kind, u, o)
      /\ Tally(events[u], TypesOf(kind), o) \in Nat
  BY TallyAppend DEF TrailInv, Accounted, TypeOK
<1>3. Owed(kind, u, o)' = Owed(kind, u, o) + IF u = t THEN Hit(e, TypesOf(kind), o) ELSE 0
  BY DEF OwesMore
<1>4. CASE u = t
  <2>1. Tally(Append(events[t], e), TypesOf(kind), o)
          = Tally(events[t], TypesOf(kind), o) + Hit(e, TypesOf(kind), o)
    BY <1>1, TallyAppend
  <2>2. QED BY <1>1, <1>2, <1>3, <1>4, <2>1
<1>5. CASE u # t
  BY <1>1, <1>2, <1>3, <1>5
<1>6. QED BY <1>4, <1>5

\* A section over a stored task that appends one event keeps the trail in step.
LEMMA OneEventKeeps ==
  ASSUME TypeOK, TypeOK', TrailInv, NEW t \in DOMAIN tasks, NEW type \in EventType,
         NEW o \in TaskIds \cup InspectionIds \cup ActionIds,
         AppendEvents(t, <<Event(type, o, tasks[t].revision + 1)>>),
         OwesMore(t, Event(type, o, tasks[t].revision + 1)),
         DOMAIN tasks' = DOMAIN tasks, \A u \in DOMAIN tasks \ {t} : tasks'[u] = tasks[u],
         tasks'[t].revision = tasks[t].revision + 1,
         (tasks'[t].status = "closed") = (type = "task_closed")
  PROVE  TrailInv'
<1> DEFINE e == Event(type, o, tasks[t].revision + 1)
<1>1. t \in TaskIds /\ tasks[t].revision \in Nat /\ events[t] \in Seq(AuditEvent)
  BY DEF TypeOK, Task
<1>2. e \in AuditEvent /\ e.revision = tasks[t].revision + 1 /\ e.type = type
  BY <1>1 DEF Event, AuditEvent
<1>3. AppendEvents(t, <<e>>) /\ OwesMore(t, e)
  OBVIOUS
<1> HIDE DEF e
<1>4. /\ events'[t] = Append(events[t], e)
      /\ \A u \in TaskIds \ {t} : events'[u] = events[u]
  BY <1>1, <1>3, OneAppended
<1>5. \A u \in TaskIds : Accounted(u)'
  BY <1>1, <1>2, <1>3, AccountedOn
<1>6. Walks(events'[t], t, tasks'[t].revision, tasks'[t].status = "closed")
  <2>1. Walks(events[t], t, tasks[t].revision, tasks[t].status = "closed")
    BY <1>1 DEF TrailInv
  <2>2. e.revision - tasks[t].revision \in
          IF e.type = "action_review_approved" THEN {0, 1} ELSE {1}
    BY <1>1, <1>2
  <2>3. Walks(events'[t], t, e.revision, e.type = "task_closed")
    BY <1>1, <1>2, <1>4, <2>1, <2>2, WalksOn
  <2>4. QED BY <1>2, <2>3
<1>7. \A u \in TaskIds \ {t} :
        /\ u \notin DOMAIN tasks => events'[u] = <<>>
        /\ u \in DOMAIN tasks =>
             Walks(events'[u], u, tasks'[u].revision, tasks'[u].status = "closed")
  BY <1>4 DEF TrailInv
<1>8. QED BY <1>5, <1>6, <1>7 DEF TrailInv

LEMMA CreatingTrail ==
  ASSUME TypeOK, TrailInv, Creating
  PROVE  TrailInv'
<1>1. PICK t \in TaskIds \ DOMAIN tasks, p \in Plans, k \in Keys, f \in Fingerprints :
        CreateTaskAtomic(t, p, k, f)
  BY DEF Creating
<1>2. /\ DOMAIN tasks' = DOMAIN tasks \cup {t} /\ tasks'[t].status = "pending_inspection"
      /\ tasks'[t].revision = 1 /\ \A u \in DOMAIN tasks : tasks'[u] = tasks[u]
      /\ UNCHANGED <<inspections, actions>>
  BY <1>1 DEF CreateTaskAtomic, Put
<1> DEFINE e == Event("task_created", t, 1)
<1>3. AppendEvents(t, <<e>>)
  BY <1>1 DEF CreateTaskAtomic
<1>4. e \in AuditEvent /\ e.type = "task_created" /\ e.revision = 1
  BY DEF Event, AuditEvent, EventType
<1>5. OwesMore(t, e)
  <2>1. \A kind \in Kinds : e.type \notin TypesOf(kind)
    BY <1>4 DEF TypesOf
  <2>2. \A kind \in Kinds, o \in Objects, u \in TaskIds :
          /\ Owed(kind, u, o)' = Owed(kind, u, o) /\ Owed(kind, u, o) \in Nat
    BY <1>2 DEF Owed, InspectionsOf, ActionsOf, TypeOK, Action
  <2>3. QED BY <2>1, <2>2 DEF OwesMore, Hit
<1> HIDE DEF e
<1>6. /\ events'[t] = <<e>> /\ \A u \in TaskIds \ {t} : events'[u] = events[u]
  BY <1>1, <1>3, OneAppended DEF TrailInv
<1>7. Walks(<<e>>, t, 1, FALSE)
  BY <1>4 DEF Walks, Last, e
<1>8. \A u \in TaskIds : Accounted(u)'
  BY <1>3, <1>4, <1>5, AccountedOn
<1>9. QED BY <1>2, <1>6, <1>7, <1>8 DEF TrailInv

\* What is on record is counted in natural numbers.
LEMMA OwedIsNat ==
  ASSUME TypeOK, NEW kind, NEW t, NEW o
  PROVE  Owed(kind, t, o) \in Nat
<1>1. CASE o \in ActionsOf(t)
  BY <1>1 DEF TypeOK, Action, ActionsOf, Owed
<1>2. CASE o \notin ActionsOf(t)
  BY <1>2 DEF Owed
<1>3. QED BY <1>1, <1>2

LEMMA InspectingTrail ==
  ASSUME TypeOK, TypeOK', TrailInv, Recording \/ Correcting
  PROVE  TrailInv'
<1>1. PICK i, t, type, k, f :
        /\ i \in InspectionIds \ DOMAIN inspections /\ t \in DOMAIN tasks
        /\ type \in {"inspection_recorded", "inspection_corrected"}
        /\ AdoptInspection(i, t, type, k, f)
        /\ \E new, old : /\ new.task = t
                         /\ \/ inspections' = Put(inspections, i, new)
                            \/ inspections' = Put(Supersede(old, i), i, new)
  <2>1. CASE Recording
    <3>1. PICK i \in InspectionIds \ DOMAIN inspections, t \in DOMAIN tasks,
               anomalies \in Outcomes, k \in Keys, f \in Fingerprints :
            RecordFirstInspection(i, t, anomalies, tasks[t].revision, k, f)
      BY <2>1 DEF Recording
    <3> DEFINE new == [task |-> t, anomalies |-> anomalies, version |-> 1, active |-> TRUE,
                       supersedes |-> NoInspection, supersededBy |-> NoInspection]
    <3>2. /\ AdoptInspection(i, t, "inspection_recorded", k, f)
          /\ inspections' = Put(inspections, i, new) /\ new.task = t
      BY <3>1 DEF RecordFirstInspection
    <3> HIDE DEF new
    <3>3. QED BY <3>2
  <2>2. CASE Correcting
    <3>1. PICK i \in InspectionIds \ DOMAIN inspections, t \in DOMAIN tasks,
               anomalies \in Outcomes, k \in Keys, f \in Fingerprints :
            CorrectInspection(i, t, anomalies, ActiveInspection(t), tasks[t].revision, k, f)
      BY <2>2 DEF Correcting
    <3> DEFINE old == ActiveInspection(t)
               new == [task |-> t, anomalies |-> anomalies,
                       version |-> inspections[old].version + 1, active |-> TRUE,
                       supersedes |-> old, supersededBy |-> NoInspection]
    <3>2. /\ AdoptInspection(i, t, "inspection_corrected", k, f)
          /\ inspections' = Put(Supersede(old, i), i, new) /\ new.task = t
      BY <3>1 DEF CorrectInspection
    <3> HIDE DEF new, old
    <3>3. QED BY <3>2
  <2>3. QED BY <2>1, <2>2
<1>2. /\ DOMAIN tasks' = DOMAIN tasks /\ tasks'[t].status = "pending_action"
      /\ tasks'[t].revision = tasks[t].revision + 1
      /\ \A u \in DOMAIN tasks \ {t} : tasks'[u] = tasks[u]
      /\ actions' = actions
      /\ AppendEvents(t, <<Event(type, i, tasks[t].revision + 1)>>)
  BY <1>1 DEF AdoptInspection, TypeOK, Task
<1>3. /\ DOMAIN inspections' = DOMAIN inspections \cup {i} /\ inspections'[i].task = t
      /\ \A j \in DOMAIN inspections : inspections'[j].task = inspections[j].task
  <2>1. PICK new, old : /\ new.task = t
                        /\ \/ inspections' = Put(inspections, i, new)
                           \/ inspections' = Put(Supersede(old, i), i, new)
    BY <1>1
  <2>2. CASE inspections' = Put(inspections, i, new)
    BY <1>1, <2>1, <2>2 DEF Put
  <2>3. CASE inspections' = Put(Supersede(old, i), i, new)
    BY <1>1, <2>1, <2>3 DEF Put, Supersede, InspectionEntry, TypeOK
  <2>4. QED BY <2>1, <2>2, <2>3
<1> DEFINE e == Event(type, i, tasks[t].revision + 1)
<1>4. OwesMore(t, e)
  <2>1. e.type = type /\ e.object = i
    BY DEF Event
  <2>2. \A u \in TaskIds : InspectionsOf(u)' = IF u = t THEN InspectionsOf(u) \cup {i}
                                                      ELSE InspectionsOf(u)
    BY <1>1, <1>3 DEF InspectionsOf
  <2>3. i \notin InspectionsOf(t) /\ \A u \in TaskIds : ActionsOf(u)' = ActionsOf(u)
    BY <1>1, <1>2 DEF InspectionsOf, ActionsOf
  <2> HIDE DEF e
  <2>4. SUFFICES ASSUME NEW kind \in Kinds, NEW o \in Objects, NEW u \in TaskIds
                 PROVE  Owed(kind, u, o)'
                          = Owed(kind, u, o) + IF u = t THEN Hit(e, TypesOf(kind), o) ELSE 0
    BY DEF OwesMore
  <2>5. CASE kind = "inspection"
    BY <1>1, <2>1, <2>2, <2>3, <2>5 DEF Owed, Hit, TypesOf
  <2>6. CASE kind # "inspection"
    <3>1. Hit(e, TypesOf(kind), o) = 0
      BY <1>1, <2>1, <2>6 DEF Hit, TypesOf
    <3>2. Owed(kind, u, o)' = Owed(kind, u, o)
      BY <1>2, <2>3, <2>6 DEF Owed
    <3>3. QED BY <3>1, <3>2, OwedIsNat
  <2>7. QED BY <2>5, <2>6
<1>5. type \in EventType /\ type # "task_closed"
  BY <1>1 DEF EventType
<1>6. QED BY <1>1, <1>2, <1>4, <1>5, OneEventKeeps

\* A section that works on the action a owes more what it adds to its history.
LEMMA ActionOwes ==
  ASSUME TypeOK, NEW a \in DOMAIN actions, inspections' = inspections,
         DOMAIN actions' = DOMAIN actions,
         \A b \in DOMAIN actions \ {a} : actions'[b] = actions[b],
         actions'[a].task = actions[a].task,
         NEW kind \in Kinds, NEW o \in Objects, NEW u \in TaskIds
  PROVE  /\ Owed(kind, u, o) \in Nat
         /\ IF u = actions[a].task /\ o = a /\ kind = "submission"
            THEN /\ Owed(kind, u, o) = Len(actions[a].submissions)
                 /\ Owed(kind, u, o)' = Len(actions'[a].submissions)
            ELSE IF u = actions[a].task /\ o = a /\ kind = "review"
            THEN /\ Owed(kind, u, o) = Len(actions[a].reviews)
                 /\ Owed(kind, u, o)' = Len(actions'[a].reviews)
            ELSE Owed(kind, u, o)' = Owed(kind, u, o)
<1>1. ActionsOf(u)' = ActionsOf(u) /\ InspectionsOf(u)' = InspectionsOf(u)
  BY DEF ActionsOf, InspectionsOf
<1>2. a \in ActionsOf(u) <=> u = actions[a].task
  BY DEF ActionsOf
<1>3. CASE o = a /\ u = actions[a].task
  <2>1. CASE kind \in {"submission", "review"}
    BY <1>1, <1>2, <1>3, <2>1, OwedIsNat DEF Owed
  <2>2. CASE kind \in {"inspection", "assignment"}
    <3>1. Owed(kind, u, o)' = Owed(kind, u, o)
      BY <1>1, <1>2, <1>3, <2>2 DEF Owed
    <3>2. QED BY <2>2, <3>1, OwedIsNat
  <2>3. QED BY <2>1, <2>2 DEF Kinds
<1>4. CASE o # a \/ u # actions[a].task
  <2>1. o \in ActionsOf(u) => actions'[o] = actions[o]
    BY <1>2, <1>4 DEF ActionsOf
  <2>2. Owed(kind, u, o)' = Owed(kind, u, o)
    BY <1>1, <2>1 DEF Owed
  <2>3. QED BY <1>4, <2>2, OwedIsNat
<1>5. QED BY <1>3, <1>4

LEMMA AssigningTrail ==
  ASSUME TypeOK, TypeOK', TrailInv, Assigning
  PROVE  TrailInv'
<1>1. PICK a \in ActionIds \ DOMAIN actions, t \in DOMAIN tasks, c \in Codes,
           legacy \in BOOLEAN, k \in Keys, f \in Fingerprints :
        CreateActionAtomic(a, t, c, ActiveInspection(t), legacy, tasks[t].revision, k, f)
  BY DEF Assigning
<1> DEFINE new == [task |-> t, source |-> ActiveInspection(t), code |-> c, legacy |-> legacy,
                   review |-> "pending_submission", evidenceComplete |-> FALSE,
                   revision |-> 1, submissions |-> <<>>, reviews |-> <<>>]
           e == Event("action_assigned", a, tasks[t].revision + 1)
<1>2. /\ actions' = Put(actions, a, new)
      /\ inspections' = inspections /\ AppendEvents(t, <<e>>)
  BY <1>1 DEF CreateActionAtomic
<1>3. PICK status \in {"pending_action", "pending_review"} : Moves(t, status)
  <2>1. PICK b \in ActionIds \ DOMAIN actions, u \in DOMAIN tasks,
             status \in {"pending_action", "pending_review"} :
          /\ DOMAIN actions' = DOMAIN actions \cup {b} /\ actions'[b].task = u
          /\ Moves(u, status)
    BY AssigningEffect
  <2>2. DOMAIN actions' = DOMAIN actions \cup {a} /\ actions'[a].task = t
    BY <1>2 DEF Put
  <2>3. a = b /\ u = t
    BY <2>1, <2>2
  <2>4. QED BY <2>1, <2>3
<1>4. OwesMore(t, e)
  <2>1. e.type = "action_assigned" /\ e.object = a
    BY DEF Event
  <2>2. new.task = t /\ new.submissions = <<>> /\ new.reviews = <<>>
    OBVIOUS
  <2> HIDE DEF e, new
  <2>3. /\ actions'[a] = new /\ \A b \in DOMAIN actions : actions'[b] = actions[b]
        /\ DOMAIN actions' = DOMAIN actions \cup {a}
    BY <1>1, <1>2 DEF Put
  <2>4. \A u \in TaskIds : /\ ActionsOf(u)' = IF u = t THEN ActionsOf(u) \cup {a}
                                                     ELSE ActionsOf(u)
                           /\ InspectionsOf(u)' = InspectionsOf(u)
    BY <1>1, <1>2, <2>2, <2>3 DEF ActionsOf, InspectionsOf
  <2>5. SUFFICES ASSUME NEW kind \in Kinds, NEW o \in Objects, NEW u \in TaskIds
                 PROVE  Owed(kind, u, o)'
                          = Owed(kind, u, o) + IF u = t THEN Hit(e, TypesOf(kind), o) ELSE 0
    BY DEF OwesMore
  <2>6. Hit(e, TypesOf(kind), o) = IF kind = "assignment" /\ o = a THEN 1 ELSE 0
    BY <2>1 DEF Hit, TypesOf, Kinds
  <2>7. CASE u = t /\ o = a
    <3>1. a \notin ActionsOf(u) /\ (a \in ActionsOf(u))'
      <4>1. a \notin ActionsOf(u)
        BY <1>1 DEF ActionsOf
      <4>2. ActionsOf(u)' = ActionsOf(u) \cup {a}
        BY <2>4, <2>7
      <4>3. QED BY <4>1, <4>2
    <3>2. CASE kind = "inspection"
      BY <2>4, <2>6, <2>7, <3>2, OwedIsNat DEF Owed
    <3>3. CASE kind \in {"assignment", "submission", "review"}
      BY <2>2, <2>3, <2>6, <2>7, <3>1, <3>3 DEF Owed
    <3>4. QED BY <3>2, <3>3 DEF Kinds
  <2>8. CASE u # t \/ o # a
    <3>1. Owed(kind, u, o)' = Owed(kind, u, o)
      <4>1. o \in ActionsOf(u) => actions'[o] = actions[o]
        BY <2>3 DEF ActionsOf
      <4>2. (o \in ActionsOf(u))' = (o \in ActionsOf(u))
        BY <2>4, <2>8
      <4>3. QED BY <2>4, <4>1, <4>2 DEF Owed
    <3>2. QED BY <2>6, <2>8, <3>1, OwedIsNat
  <2>9. QED BY <2>7, <2>8
<1>5. "action_assigned" \in EventType
  BY DEF EventType
<1>6. QED BY <1>1, <1>2, <1>3, <1>4, <1>5, OneEventKeeps DEF Moves

LEMMA SubmittingTrail ==
  ASSUME IInv, TypeOK', TrailInv, Submitting
  PROVE  TrailInv'
<1>1. PICK a \in DOMAIN actions, k \in Keys \cup {NoKey}, f \in Fingerprints :
        SubmitActionAtomic(a, Len(actions[a].submissions) + 1,
                           Revisions(a)[1], Revisions(a)[2], k, f)
  BY DEF Submitting
<1>2. PICK t : t = actions[a].task
  OBVIOUS
<1> DEFINE subs == Append(actions[a].submissions, Len(actions[a].submissions) + 1)
           e == Event("action_result_submitted", a, tasks[t].revision + 1)
<1>3. /\ actions' = [actions EXCEPT ![a].submissions = subs,
                                    ![a].review = "pending_review",
                                    ![a].evidenceComplete = FALSE,
                                    ![a].revision = @ + 1]
      /\ tasks' = [tasks EXCEPT ![t].revision = @ + 1]
      /\ inspections' = inspections /\ AppendEvents(t, <<e>>)
      /\ actions[a].review # "approved"
  BY <1>1, <1>2 DEF SubmitActionAtomic, Submittable
<1>4. TypeOK /\ t \in DOMAIN tasks /\ tasks[t].status # "closed"
  BY <1>2, <1>3, UnapprovedIsOpen DEF IInv, Linked, Chain
<1>5. actions \in [DOMAIN actions -> Action] /\ a \in ActionIds
      /\ tasks \in [DOMAIN tasks -> Task]
  BY <1>4 DEF TypeOK
<1>6. Len(subs) = Len(actions[a].submissions) + 1 /\ Len(actions[a].reviews) \in Nat
  BY <1>5 DEF Action
<1> HIDE DEF subs
<1>7. /\ DOMAIN actions' = DOMAIN actions
      /\ \A b \in DOMAIN actions \ {a} : actions'[b] = actions[b]
      /\ actions'[a].task = actions[a].task /\ actions'[a].reviews = actions[a].reviews
      /\ actions'[a].submissions = subs
  BY <1>3, <1>5 DEF Action
<1>8. Moves(t, tasks[t].status)
  BY <1>3, <1>4, <1>5 DEF Moves, Task
<1>9. OwesMore(t, e)
  <2>1. e.type = "action_result_submitted" /\ e.object = a
    BY DEF Event
  <2> HIDE DEF e
  <2>2. SUFFICES ASSUME NEW kind \in Kinds, NEW o \in Objects, NEW u \in TaskIds
                 PROVE  Owed(kind, u, o)'
                          = Owed(kind, u, o) + IF u = t THEN Hit(e, TypesOf(kind), o) ELSE 0
    BY DEF OwesMore
  <2>3. Hit(e, TypesOf(kind), o) = IF kind = "submission" /\ o = a THEN 1 ELSE 0
    BY <2>1 DEF Hit, TypesOf, Kinds
  <2>4. Owed(kind, u, o)' = Owed(kind, u, o) +
          IF u # t \/ o # a THEN 0 ELSE IF kind = "submission" THEN 1
          ELSE IF kind = "review" THEN 0 ELSE 0
    BY <1>2, <1>3, <1>4, <1>6, <1>7, ActionOwes
  <2>5. QED BY <2>3, <2>4
<1>10. "action_result_submitted" \in EventType
  BY DEF EventType
<1>11. QED BY <1>3, <1>4, <1>5, <1>8, <1>9, <1>10, OneEventKeeps DEF Moves

LEMMA DecidingTrail ==
  ASSUME IInv, TypeOK', TrailInv, Deciding
  PROVE  TrailInv'
<1>1. PICK a \in DOMAIN actions, decision \in {"approved", "rejected"} :
        ReviewActionAtomic(a, [submission |-> Last(actions[a].submissions),
                               decision |-> decision], Revisions(a)[1], Revisions(a)[2])
  BY DEF Deciding
<1>2. PICK t : t = actions[a].task
  OBVIOUS
<1> DEFINE review == [submission |-> Last(actions[a].submissions), decision |-> decision]
           revs == Append(actions[a].reviews, review)
           status == IF decision = "approved" /\ OthersApproved(a) /\ FullyCovered(t)
                     THEN "reviewed" ELSE "pending_review"
           type == IF decision = "rejected" THEN "action_review_rejected"
                                            ELSE "action_review_approved"
           e == Event(type, a, tasks[t].revision + 1)
<1>3. /\ actions' = [actions EXCEPT ![a].reviews = revs,
                                    ![a].evidenceComplete = (decision = "approved"),
                                    ![a].review = decision,
                                    ![a].revision = @ + 1]
      /\ tasks' = [tasks EXCEPT ![t].status = status, ![t].revision = @ + 1]
      /\ inspections' = inspections /\ AppendEvents(t, <<e>>)
      /\ actions[a].review # "approved"
  BY <1>1, <1>2 DEF ReviewActionAtomic, Reviewable
<1>4. TypeOK /\ t \in DOMAIN tasks
  BY <1>2, <1>3, UnapprovedIsOpen DEF IInv, Linked, Chain
<1>5. actions \in [DOMAIN actions -> Action] /\ a \in ActionIds
  BY <1>4 DEF TypeOK
<1>6. Len(revs) = Len(actions[a].reviews) + 1 /\ Len(actions[a].submissions) \in Nat
  <2>1. actions[a].reviews \in Seq(Review) /\ Len(actions[a].submissions) \in Nat
    BY <1>5 DEF Action
  <2> HIDE DEF review
  <2>2. QED BY <2>1
<1>7. status # "closed"
  OBVIOUS
<1> HIDE DEF revs, status
<1>8. /\ DOMAIN actions' = DOMAIN actions
      /\ \A b \in DOMAIN actions \ {a} : actions'[b] = actions[b]
      /\ actions'[a].task = actions[a].task /\ actions'[a].reviews = revs
      /\ actions'[a].submissions = actions[a].submissions
  BY <1>3, <1>5 DEF Action
<1>9. Moves(t, status)
  BY <1>3, <1>4, MovesIntro
<1>10. type \in {"action_review_approved", "action_review_rejected"}
  OBVIOUS
<1> HIDE DEF type
<1>11. OwesMore(t, e)
  <2>1. e.type = type /\ e.object = a
    BY DEF Event
  <2> HIDE DEF e
  <2>2. SUFFICES ASSUME NEW kind \in Kinds, NEW o \in Objects, NEW u \in TaskIds
                 PROVE  Owed(kind, u, o)'
                          = Owed(kind, u, o) + IF u = t THEN Hit(e, TypesOf(kind), o) ELSE 0
    BY DEF OwesMore
  <2>3. Hit(e, TypesOf(kind), o) = IF kind = "review" /\ o = a THEN 1 ELSE 0
    BY <1>10, <2>1 DEF Hit, TypesOf, Kinds
  <2>4. Owed(kind, u, o)' = Owed(kind, u, o) +
          IF u # t \/ o # a THEN 0 ELSE IF kind = "submission" THEN 0
          ELSE IF kind = "review" THEN 1 ELSE 0
    BY <1>2, <1>3, <1>4, <1>6, <1>8, ActionOwes
  <2>5. QED BY <2>3, <2>4
<1>12. type \in EventType /\ type # "task_closed"
  BY <1>10 DEF EventType
<1>13. QED BY <1>3, <1>4, <1>5, <1>7, <1>9, <1>11, <1>12, OneEventKeeps DEF Moves

LEMMA CompletingTrail ==
  ASSUME IInv, TypeOK', TrailInv, Completing
  PROVE  TrailInv'
<1>1. PICK a \in DOMAIN actions, version \in Int : CompleteAndApproveActionAtomic(a, version)
  BY DEF Completing
<1>2. PICK t : t = actions[a].task
  OBVIOUS
<1> DEFINE subs == Append(actions[a].submissions, version)
           review == [submission |-> version, decision |-> "approved"]
           revs == Append(actions[a].reviews, review)
           status == IF OthersApproved(a) /\ (actions[a].legacy \/ FullyCovered(t))
                     THEN "reviewed" ELSE tasks[t].status
           first == Event("action_result_submitted", a, tasks[t].revision + 1)
           second == Event("action_review_approved", a, tasks[t].revision + 1)
<1>3. /\ actions[a].review # "approved"
      /\ actions' = [actions EXCEPT ![a].submissions = subs,
                                    ![a].reviews = revs,
                                    ![a].evidenceComplete = TRUE,
                                    ![a].review = "approved",
                                    ![a].revision = @ + 1]
      /\ tasks' = [tasks EXCEPT ![t].status = status, ![t].revision = @ + 1]
      /\ AppendEvents(t, <<first, second>>) /\ inspections' = inspections
  BY <1>1, <1>2 DEF CompleteAndApproveActionAtomic
<1>4. TypeOK /\ t \in DOMAIN tasks /\ tasks[t].status # "closed"
  BY <1>2, <1>3, UnapprovedIsOpen DEF IInv, Linked, Chain
<1>5. /\ actions \in [DOMAIN actions -> Action] /\ a \in ActionIds /\ t \in TaskIds
      /\ tasks[t].revision \in Nat /\ events[t] \in Seq(AuditEvent)
  BY <1>4 DEF TypeOK, Task
<1>6. /\ Len(subs) = Len(actions[a].submissions) + 1
      /\ Len(revs) = Len(actions[a].reviews) + 1
  <2>1. actions[a].submissions \in Seq(Nat) /\ actions[a].reviews \in Seq(Review)
    BY <1>5 DEF Action
  <2> HIDE DEF review
  <2>2. QED BY <2>1
<1>7. status # "closed"
  BY <1>4
<1>8. /\ first \in AuditEvent /\ second \in AuditEvent
      /\ first.type = "action_result_submitted" /\ second.type = "action_review_approved"
      /\ first.object = a /\ second.object = a
      /\ first.revision = tasks[t].revision + 1 /\ second.revision = tasks[t].revision + 1
  BY <1>5 DEF Event, AuditEvent, EventType
<1> HIDE DEF subs, revs, status, first, second
<1>9. /\ DOMAIN actions' = DOMAIN actions
      /\ \A b \in DOMAIN actions \ {a} : actions'[b] = actions[b]
      /\ actions'[a].task = actions[a].task /\ actions'[a].reviews = revs
      /\ actions'[a].submissions = subs
  BY <1>3, <1>5 DEF Action
<1>10. Moves(t, status)
  BY <1>3, <1>4, MovesIntro
<1>11. /\ events'[t] = Append(Append(events[t], first), second)
       /\ Append(events[t], first) \in Seq(AuditEvent)
       /\ \A u \in TaskIds \ {t} : events'[u] = events[u]
  BY <1>3, <1>4, <1>5, <1>8, TwoAppended
<1>12. ASSUME NEW u \in TaskIds PROVE Accounted(u)'
  <2>1. SUFFICES ASSUME NEW kind \in Kinds, NEW o \in Objects
                 PROVE  Tally(events'[u], TypesOf(kind), o) = Owed(kind, u, o)'
    BY DEF Accounted
  <2>2. Owed(kind, u, o)' = Owed(kind, u, o) +
          IF u # t \/ o # a THEN 0 ELSE IF kind = "submission" THEN 1
          ELSE IF kind = "review" THEN 1 ELSE 0
    BY <1>2, <1>3, <1>4, <1>6, <1>9, ActionOwes
  <2>3. Tally(events[u], TypesOf(kind), o) = Owed(kind, u, o) /\ Owed(kind, u, o) \in Nat
    BY <1>4, OwedIsNat DEF TrailInv, Accounted
  <2>4. CASE u = t
    <3>1. Tally(events'[u], TypesOf(kind), o)
            = Tally(events[u], TypesOf(kind), o) + Hit(first, TypesOf(kind), o)
                + Hit(second, TypesOf(kind), o)
      <4>1. Tally(Append(events[t], first), TypesOf(kind), o)
              = Tally(events[t], TypesOf(kind), o) + Hit(first, TypesOf(kind), o)
        BY <1>5, <1>8, TallyAppend
      <4>2. Tally(Append(Append(events[t], first), second), TypesOf(kind), o)
              = Tally(Append(events[t], first), TypesOf(kind), o) + Hit(second, TypesOf(kind), o)
        <5> DEFINE s == Append(events[t], first)
        <5>1. s \in Seq(AuditEvent)
          BY <1>11
        <5> HIDE DEF s
        <5>2. Tally(Append(s, second), TypesOf(kind), o)
                = Tally(s, TypesOf(kind), o) + Hit(second, TypesOf(kind), o)
          BY <1>8, <5>1, TallyAppend
        <5>3. QED BY <5>2 DEF s
      <4>3. QED BY <1>11, <2>4, <4>1, <4>2
    <3>2. Hit(first, TypesOf(kind), o) = IF kind = "submission" /\ o = a THEN 1 ELSE 0
      BY <1>8 DEF Hit, TypesOf, Kinds
    <3>3. Hit(second, TypesOf(kind), o) = IF kind = "review" /\ o = a THEN 1 ELSE 0
      BY <1>8 DEF Hit, TypesOf, Kinds
    <3>4. QED BY <2>2, <2>3, <2>4, <3>1, <3>2, <3>3
  <2>5. CASE u # t
    BY <1>11, <2>2, <2>3, <2>5
  <2>6. QED BY <2>4, <2>5
<1>13. Walks(events'[t], t, tasks'[t].revision, tasks'[t].status = "closed")
  <2>1. Walks(events[t], t, tasks[t].revision, tasks[t].status = "closed")
    BY <1>4, <1>5 DEF TrailInv
  <2>2. /\ first.revision - tasks[t].revision \in
             IF first.type = "action_review_approved" THEN {0, 1} ELSE {1}
        /\ second.revision - first.revision \in
             IF second.type = "action_review_approved" THEN {0, 1} ELSE {1}
        /\ first.revision \in Nat
    BY <1>5, <1>8
  <2>3. Walks(Append(events[t], first), t, first.revision, first.type = "task_closed")
    BY <1>5, <1>8, <2>1, <2>2, WalksOn
  <2>4. Walks(events'[t], t, second.revision, second.type = "task_closed")
    BY <1>8, <1>11, <2>2, <2>3, WalksOn
  <2>5. QED BY <1>7, <1>8, <1>10, <2>4 DEF Moves
<1>14. \A u \in TaskIds \ {t} :
         /\ u \notin DOMAIN tasks' => events'[u] = <<>>
         /\ u \in DOMAIN tasks' =>
              Walks(events'[u], u, tasks'[u].revision, tasks'[u].status = "closed")
  BY <1>10, <1>11 DEF TrailInv, Moves
<1>15. QED BY <1>4, <1>10, <1>12, <1>13, <1>14 DEF TrailInv, Moves

LEMMA ClosingTrail ==
  ASSUME IInv, TypeOK', TrailInv, Closing
  PROVE  TrailInv'
<1>1. PICK t \in DOMAIN tasks : CloseTaskAtomic(t, tasks[t].revision)
  BY DEF Closing
<1> DEFINE e == Event("task_closed", t, tasks[t].revision + 1)
<1>2. TypeOK /\ t \in TaskIds
  BY DEF IInv, Linked, Chain, TypeOK
<1>3. /\ tasks' = [tasks EXCEPT ![t].status = "closed", ![t].revision = @ + 1]
      /\ UNCHANGED <<inspections, actions>> /\ AppendEvents(t, <<e>>)
  BY <1>1 DEF CloseTaskAtomic
<1>4. Moves(t, "closed")
  BY <1>2, <1>3, MovesIntro
<1>5. OwesMore(t, e)
  <2>1. \A kind \in Kinds, o \in Objects : Hit(e, TypesOf(kind), o) = 0
    BY DEF Hit, Event, TypesOf
  <2>2. \A kind \in Kinds, o \in Objects, u \in TaskIds :
          Owed(kind, u, o)' = Owed(kind, u, o) /\ Owed(kind, u, o) \in Nat
    <3>1. \A u \in TaskIds : ActionsOf(u)' = ActionsOf(u) /\ InspectionsOf(u)' = InspectionsOf(u)
      BY <1>3 DEF ActionsOf, InspectionsOf
    <3>2. QED BY <1>2, <1>3, <3>1, OwedIsNat DEF Owed
  <2> HIDE DEF e
  <2>3. QED BY <2>1, <2>2 DEF OwesMore
<1>6. "task_closed" \in EventType
  BY DEF EventType
<1>7. QED BY <1>2, <1>3, <1>4, <1>5, <1>6, OneEventKeeps DEF Moves

LEMMA InitTrail == Init => TrailInv
<1> SUFFICES ASSUME Init PROVE TrailInv
  OBVIOUS
<1>1. DOMAIN tasks = {} /\ \A t \in TaskIds : events[t] = <<>>
      /\ InspectionsOf(t) = {} /\ ActionsOf(t) = {}
  BY DEF Init, InspectionsOf, ActionsOf
<1>2. QED BY <1>1, TallyNothing DEF TrailInv, Accounted, Owed

LEMMA TrailStep == IInv /\ TrailInv /\ [Next]_vars => TrailInv'
<1> SUFFICES ASSUME IInv, TrailInv, [Next]_vars PROVE TrailInv'
  OBVIOUS
<1>1. TypeOK /\ TypeOK'
  BY IInvStep DEF IInv, Linked, Chain
<1>2. CASE UNCHANGED vars \/ Registering
  <2>1. UNCHANGED <<tasks, inspections, actions, events>>
    BY <1>2 DEF vars, Registering, AddArtifact
  <2>2. QED BY <2>1 DEF TrailInv, Accounted, Owed, ActionsOf, InspectionsOf
<1>3. QED BY <1>1, <1>2, CreatingTrail, InspectingTrail, AssigningTrail, SubmittingTrail,
     DecidingTrail, CompletingTrail, ClosingTrail, NextIsOneSection

LEMMA TrailAccounts ==
  ASSUME TypeOK, TrailInv
  PROVE  TrailAccountsForState
<1>1. SUFFICES ASSUME NEW t \in DOMAIN tasks PROVE TrailAccountsForState!(t)
  BY DEF TrailAccountsForState
<1>2. t \in TaskIds
  BY DEF TypeOK
<1>3. Walks(events[t], t, tasks[t].revision, tasks[t].status = "closed")
  BY <1>2 DEF TrailInv
<1>4. \A kind \in Kinds, o \in Objects :
        Count(t, TypesOf(kind), o) = Owed(kind, t, o)
  BY <1>2 DEF TrailInv, Accounted, Tally, Hits, Count
<1>5. \A i \in InspectionsOf(t) :
        Count(t, {"inspection_recorded", "inspection_corrected"}, i) = 1
  <2>1. TypesOf("inspection") = {"inspection_recorded", "inspection_corrected"}
        /\ InspectionsOf(t) \subseteq Objects /\ "inspection" \in Kinds
    BY DEF TypesOf, InspectionsOf, Objects, TypeOK, Kinds
  <2>2. \A i \in InspectionsOf(t) : Owed("inspection", t, i) = 1
    BY DEF Owed
  <2>3. QED BY <1>4, <2>1, <2>2
<1>6. \A a \in ActionsOf(t) :
        /\ Count(t, {"action_assigned"}, a) = 1
        /\ Count(t, {"action_result_submitted"}, a) = Len(actions[a].submissions)
        /\ Count(t, {"action_review_approved", "action_review_rejected"}, a)
             = Len(actions[a].reviews)
  <2>1. /\ TypesOf("assignment") = {"action_assigned"}
        /\ TypesOf("submission") = {"action_result_submitted"}
        /\ TypesOf("review") = {"action_review_approved", "action_review_rejected"}
        /\ ActionsOf(t) \subseteq Objects /\ {"assignment", "submission", "review"} \subseteq Kinds
    BY DEF TypesOf, ActionsOf, Objects, TypeOK, Kinds
  <2>2. \A a \in ActionsOf(t) : /\ Owed("assignment", t, a) = 1
                                /\ Owed("submission", t, a) = Len(actions[a].submissions)
                                /\ Owed("review", t, a) = Len(actions[a].reviews)
    BY DEF Owed
  <2>3. QED BY <1>4, <2>1, <2>2
<1>7. QED BY <1>3, <1>5, <1>6 DEF Walks

\* The trail of a task accounts for all that is on record of it: it begins with the creation,
\* passes through every revision and holds one event for every inspection, assignment, result
\* and decision (appendEventLocked, in every section of the store).
THEOREM TrailsAccount == Spec => []TrailAccountsForState
<1>1. Init => IInv /\ TrailInv
  BY InitIInv, InitTrail
<1>2. IInv /\ TrailInv /\ [Next]_vars => (IInv /\ TrailInv)'
  BY IInvStep, TrailStep
<1>3. IInv /\ TrailInv => TrailAccountsForState
  BY TrailAccounts DEF IInv, Linked, Chain
<1>4. QED BY <1>1, <1>2, <1>3, PTL DEF Spec

(***************************************************************************)
(* What clients are told of a task.  The properties are state functions of *)
(* the store, so they follow from its invariants: the chains give the view,*)
(* the stages the to-do list.                                              *)
(***************************************************************************)
\* What the to-do list relies on.
ProgressInv == RInv /\ ReviewMatchesHistory /\ ReviewedIsReached

LEMMA ProgressInvariance == Spec => []ProgressInv
<1>1. Spec => []RInv
  BY InitRInv, RInvStep, PTL DEF Spec
<1>2. QED BY <1>1, ReviewsMatchHistory, ReviewIsReached, PTL DEF ProgressInv

(***************************************************************************)
(* The view.                                                               *)
(***************************************************************************)
LEMMA ViewedIsCurrent ==
  ASSUME Chain, NEW t \in DOMAIN tasks
  PROVE  ViewedInspection(t) = tasks[t].current
<1> DEFINE cur == tasks[t].current
           named == {cur} \cap DOMAIN inspections
           live == {i \in InspectionsOf(t) :
                      inspections[i].active \/ inspections[i].supersededBy = NoInspection}
           newer == {i \in live : \A n \in named : inspections[i].version > inspections[n].version}
           found == IF newer = {} THEN named ELSE newer
           latest == CHOOSE i \in found : \A j \in found :
                       inspections[j].version <= inspections[i].version
<1>1. ViewedInspection(t) = IF found = {} THEN NoInspection ELSE latest
  BY DEF ViewedInspection
<1>2. /\ NoInspection \notin DOMAIN inspections
      /\ inspections \in [DOMAIN inspections -> InspectionEntry]
  BY NoInspectionAssumption DEF Chain, TypeOK
<1>3. CASE cur = NoInspection
  <2>1. InspectionsOf(t) = {}
    BY <1>2, <1>3 DEF Chain, InspectionChain, InspectionsOf
  <2>2. found = {}
    BY <1>2, <1>3, <2>1
  <2>3. QED BY <1>1, <1>3, <2>2
<1>4. CASE cur # NoInspection
  <2>1. cur \in InspectionsOf(t) /\ cur \in DOMAIN inspections
    BY <1>4 DEF Chain, CurrentIsStored, InspectionsOf
  <2>2. live \subseteq {cur}
    BY <1>2 DEF Chain, InspectionChain, InspectionsOf
  <2>3. inspections[cur].version \in Nat
    BY <1>2, <2>1 DEF InspectionEntry
  <2>4. newer = {}
    BY <2>1, <2>2, <2>3
  <2>5. found = {cur}
    BY <2>1, <2>4
  <2>6. latest = cur
    BY <2>3, <2>5
  <2>7. QED BY <1>1, <2>5, <2>6
<1>5. QED BY <1>3, <1>4

\* The view of ReadWorkflowSnapshot and the locked sections (activeInspectionLocked) mean
\* the same inspection in every reachable state.
THEOREM ViewsAgree == Spec => []ViewAgrees
<1>1. IInv => ViewAgrees
  BY ViewedIsCurrent, ActiveIsCurrent DEF IInv, Linked, ViewAgrees
<1>2. QED BY <1>1, Invariance, PTL

(***************************************************************************)
(* The to-do list.                                                         *)
(***************************************************************************)
\* What is asked for, kind by kind.
LEMMA TodoFacts ==
  ASSUME TypeOK, NEW t \in DOMAIN tasks, NEW todo
  PROVE  todo \in Todos(t) <=>
           \/ ViewedInspection(t) = NoInspection /\ todo = Todo("pending_inspection", t)
           \/ \E c \in Uncovered(t) : todo = Todo("anomaly_unassigned", c)
           \/ \E a \in ActionsOf(t) : /\ actions[a].review # "approved"
                                      /\ todo = Todo(Asks[actions[a].review], a)
           \/ tasks[t].status = "reviewed" /\ todo = Todo("closable", t)
BY DEF Todos

\* A result that is missing or rejected is asked for, one that waits for review is decided.
LEMMA AskedOfAction ==
  ASSUME TypeOK, NEW a \in DOMAIN actions, actions[a].review # "approved"
  PROVE  Asks[actions[a].review] = IF actions[a].review = "pending_review"
                                   THEN "review_pending"
                                   ELSE IF actions[a].review = "rejected"
                                        THEN "result_resubmission" ELSE "result_pending"
<1>1. actions[a].review \in ReviewStatus
  BY DEF TypeOK, Action
<1>2. QED BY <1>1 DEF Asks, ReviewStatus

LEMMA UncoveredFacts ==
  ASSUME Chain, NEW t \in DOMAIN tasks
  PROVE  /\ Uncovered(t) # {} => tasks[t].current # NoInspection
         /\ \A c \in Uncovered(t) : /\ ~AnomalyCovered(c, t)
                                    /\ c \in inspections[tasks[t].current].anomalies
         /\ FullyCovered(t) <=> tasks[t].current # NoInspection /\ Uncovered(t) = {}
<1>1. ViewedInspection(t) = tasks[t].current /\ ActiveInspection(t) = tasks[t].current
  BY ViewedIsCurrent, ActiveIsCurrent
<1>2. QED BY <1>1 DEF Uncovered, ViewedAnomalies, FullyCovered, AllAnomaliesCovered

LEMMA ActionIsDoable ==
  ASSUME ProgressInv, NEW a \in DOMAIN actions, actions[a].review # "approved",
         NEW t, NEW todo, todo = Todo(Asks[actions[a].review], a)
  PROVE  Doable(t, todo)
<1>1. TypeOK /\ todo.object = a /\ todo.type = Asks[actions[a].review]
  BY TypeFacts DEF ProgressInv, RInv, Todo
<1>2. CASE actions[a].review = "pending_review"
  <2>1. todo.type = "review_pending"
    BY <1>1, <1>2, AskedOfAction
  <2>2. actions[a].submissions # <<>>
    BY <1>2 DEF ProgressInv, ReviewMatchesHistory
  <2>3. Reviewable(a, Revisions(a)[1], Revisions(a)[2])
    BY <1>2, <2>2 DEF Reviewable, Revisions
  <2>4. QED BY <1>1, <2>1, <2>3 DEF Doable
<1>3. CASE actions[a].review # "pending_review"
  <2>1. todo.type \in {"result_resubmission", "result_pending"}
    BY <1>1, <1>3, AskedOfAction
  <2>2. Submittable(a, Revisions(a)[1], Revisions(a)[2])
    BY DEF Submittable, Revisions
  <2>3. QED BY <1>1, <2>1, <2>2 DEF Doable
<1>4. QED BY <1>2, <1>3

LEMMA ReviewedIsClosable ==
  ASSUME ProgressInv, NEW t \in DOMAIN tasks, tasks[t].status = "reviewed"
  PROVE  Closable(t, tasks[t].revision)
<1>1. ActiveInspection(t) = tasks[t].current /\ tasks[t].current # NoInspection
  BY TypeFacts, ActiveIsCurrent DEF ProgressInv, RInv, StageMatchesWork
<1>2. /\ \A a \in ActionsOf(t) : actions[a].review = "approved"
      /\ FullyCovered(t) \/ \E a \in ActionsOf(t) : actions[a].legacy
  BY DEF ProgressInv, RInv, IInv, ReviewedIsEarned
<1>3. \A a \in ActionsOf(t) : actions[a].evidenceComplete
  BY <1>2 DEF ProgressInv, ReviewMatchesHistory, ActionsOf
<1>4. QED BY <1>1, <1>2, <1>3 DEF Closable, FullyCovered

LEMMA TodoIsDoable ==
  ASSUME ProgressInv, NEW t \in DOMAIN tasks, NEW todo \in Todos(t)
  PROVE  Doable(t, todo) \/ (todo.type = "anomaly_unassigned" /\ tasks[t].status # "pending_action")
<1>1. TypeOK /\ Chain /\ StageMatchesWork
  BY TypeFacts DEF ProgressInv, RInv
<1>2. ViewedInspection(t) = tasks[t].current /\ ActiveInspection(t) = tasks[t].current
  BY <1>1, ViewedIsCurrent, ActiveIsCurrent
<1>3. CASE ViewedInspection(t) = NoInspection /\ todo = Todo("pending_inspection", t)
  <2>1. tasks[t].status = "pending_inspection"
    BY <1>1, <1>2, <1>3 DEF StageMatchesWork
  <2>2. Inspectable(t, tasks[t].revision)
    BY <2>1 DEF Inspectable
  <2>3. todo.type = "pending_inspection"
    BY <1>3 DEF Todo
  <2>4. QED BY <2>1, <2>2, <2>3 DEF Doable
<1>4. ASSUME NEW c \in Uncovered(t), todo = Todo("anomaly_unassigned", c),
             tasks[t].status = "pending_action"
      PROVE  Doable(t, todo)
  <2>1. todo.type = "anomaly_unassigned" /\ todo.object = c
    BY <1>4 DEF Todo
  <2>2. Assignable(t, c, ActiveInspection(t), 0)
    BY <1>1, <1>2, <1>4, UncoveredFacts DEF Assignable
  <2>3. QED BY <2>1, <2>2 DEF Doable
<1>5. ASSUME NEW a \in ActionsOf(t), actions[a].review # "approved",
             todo = Todo(Asks[actions[a].review], a)
      PROVE  Doable(t, todo)
  BY <1>5, ActionIsDoable DEF ActionsOf
<1>6. CASE tasks[t].status = "reviewed" /\ todo = Todo("closable", t)
  <2>1. todo.type = "closable"
    BY <1>6 DEF Todo
  <2>2. QED BY <1>6, <2>1, ReviewedIsClosable DEF Doable
<1>7. ASSUME NEW c \in Uncovered(t), todo = Todo("anomaly_unassigned", c)
      PROVE  todo.type = "anomaly_unassigned"
  BY <1>7 DEF Todo
<1>8. QED BY <1>1, <1>3, <1>4, <1>5, <1>6, <1>7, TodoFacts

\* The to-do list of progress never sends anybody to do what the locked sections refuse.
THEOREM TodosCanBeDone == Spec => []TodosAreDoable
<1>1. ProgressInv => TodosAreDoable
  BY TodoIsDoable DEF TodosAreDoable
<1>2. QED BY <1>1, ProgressInvariance, PTL

\* A closed task asks for nothing but what a combined action left without one of its own.
LEMMA ClosedAsksForNothing ==
  ASSUME ProgressInv, NEW t \in DOMAIN tasks, tasks[t].status = "closed", NEW todo \in Todos(t)
  PROVE  /\ todo.type = "anomaly_unassigned"
         /\ \E a \in ActionsOf(t) : actions[a].legacy
<1>1. TypeOK /\ Chain /\ StageMatchesWork
  BY TypeFacts DEF ProgressInv, RInv
<1>2. ViewedInspection(t) # NoInspection /\ tasks[t].current # NoInspection
  BY <1>1, ViewedIsCurrent DEF StageMatchesWork
<1>3. /\ \A a \in ActionsOf(t) : actions[a].review = "approved"
      /\ FullyCovered(t) \/ \E a \in ActionsOf(t) : actions[a].legacy
  BY DEF ProgressInv, RInv, IInv, ReviewedIsEarned
<1>4. PICK c \in Uncovered(t) : todo = Todo("anomaly_unassigned", c)
  BY <1>1, <1>2, <1>3, TodoFacts
<1>5. ~FullyCovered(t)
  BY <1>1, <1>4, UncoveredFacts
<1>6. QED BY <1>3, <1>4, <1>5 DEF Todo

\* An open task that asks for nothing has an inspection without findings.
LEMMA OpenAsksForSomething ==
  ASSUME ProgressInv, NEW t \in DOMAIN tasks, tasks[t].status # "closed", Todos(t) = {}
  PROVE  ActionsOf(t) = {} /\ ViewedAnomalies(t) = {}
<1>1. TypeOK /\ Chain
  BY TypeFacts DEF ProgressInv, RInv
<1>2. /\ ViewedInspection(t) # NoInspection /\ Uncovered(t) = {}
      /\ \A a \in ActionsOf(t) : actions[a].review = "approved"
      /\ tasks[t].status # "reviewed"
  BY <1>1, TodoFacts
<1>3. FullyCovered(t)
  BY <1>1, <1>2, ViewedIsCurrent, UncoveredFacts
<1>4. ActionsOf(t) = {}
  BY <1>2, <1>3 DEF ProgressInv, ReviewedIsReached
<1>5. QED BY <1>2, <1>4 DEF Uncovered, AnomalyCovered

\* Nobody is forgotten by the to-do list of progress: an open task asks for something
\* unless its inspection found nothing, a closed one for nothing that could be done.
THEOREM WorkIsAlwaysListed == Spec => []WorkIsListed
<1>1. ProgressInv => WorkIsListed
  BY ClosedAsksForNothing, OpenAsksForSomething DEF WorkIsListed
<1>2. QED BY <1>1, ProgressInvariance, PTL
=============================================================================
