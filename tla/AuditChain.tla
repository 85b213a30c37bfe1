------------------------------ MODULE AuditChain ------------------------------
(***************************************************************************)
(* The hash chain of one task: how appendEventLocked and CloseTaskAtomic   *)
(* of internal/storage build it, how the snapshot file carries it from one *)
(* process to the next, and what VerifyAudit finds when the file was       *)
(* changed in between: records lost, moved, doubled or edited.  Among them *)
(* are the versions of the inspection that were corrected, which the file  *)
(* keeps and no digest covers.                                             *)
(*                                                                         *)
(* A digest is the tuple of what it is taken of, which is to say that no   *)
(* two contents share one.                                                 *)
(***************************************************************************)
EXTENDS Integers, Sequences, FiniteSetsExt

CONSTANTS
  EventTypes,
  Texts,      \* what clients write into a record of the task
  Rewritten,  \* a text -> what it is after it went through the file
  MaxEvents   \* bound on the events of the task

\* A text that has been through the file once comes back as it is from then on.
ASSUME TextAssumption == /\ Rewritten \in [Texts -> Texts]
                         /\ \A x \in Texts : Rewritten[Rewritten[x]] = Rewritten[x]
ASSUME BoundAssumption == MaxEvents \in Nat

VARIABLES
  trail,   \* the task's events
  record,  \* what else the closing digest covers: task, current inspection and actions
  superseded,  \* the texts of the inspections that were corrected, in their order
  audit,   \* its AuditSummary, or NotClosed
  file,    \* the four as written last
  up,      \* is a process running?
  intact   \* the file before anybody changed it

vars == <<trail, record, superseded, audit, file, up, intact>>

NoDigest == <<>>
NotClosed == [closedAt |-> 0, snapshot |-> NoDigest, digest |-> NoDigest]

(***************************************************************************)
(* Digests.                                                                *)
(***************************************************************************)
EventDigest(e) == <<e.sequence, e.type, e.previous>>
SnapshotDigest(rec, events) == <<rec, events>>
LastDigest(events) == IF events = <<>> THEN NoDigest ELSE events[Len(events)].digest
FinalDigest(closedAt, snapshot, last) == <<closedAt, snapshot, last>>

Sealed(e) == [e EXCEPT !.digest = EventDigest(e)]

ChainAfterFirst(events, type) ==  \* mutant: every event is chained to the first one
  Append(events, Sealed([sequence |-> Len(events) + 1, type |-> type, digest |-> NoDigest,
    previous |-> IF events = <<>> THEN NoDigest ELSE events[1].digest]))

AppendEvent(events, type) ==
  Append(events, Sealed([sequence |-> Len(events) + 1, type |-> type,
                         previous |-> LastDigest(events), digest |-> NoDigest]))

(***************************************************************************)
(* VerifyAudit, in the order of its checks.                                *)
(***************************************************************************)
BrokenAtItself(events, n) ==  \* mutant: the link to the event before is not followed
  events[n].sequence # n \/ events[n].digest # EventDigest(events[n])

Broken(events, n) ==
  \/ events[n].sequence # n
  \/ events[n].previous # (IF n = 1 THEN NoDigest ELSE events[n-1].digest)
  \/ events[n].digest # EventDigest(events[n])

Result(status, sequence) == [status |-> status, sequence |-> sequence]

VerifyTrustingSnapshot(rec, events, summary) ==  \* mutant: the snapshot is not recomputed
  LET broken == {n \in DOMAIN events : Broken(events, n)}
  IN  IF broken # {} THEN Result("failed", Min(broken))
      ELSE IF summary.digest
                # FinalDigest(summary.closedAt, summary.snapshot, LastDigest(events))
           THEN Result("failed", 0)
           ELSE Result("passed", 0)

Verify(rec, events, summary) ==
  LET broken == {n \in DOMAIN events : Broken(events, n)}
  IN  IF broken # {} THEN Result("failed", Min(broken))
      ELSE IF \/ summary.snapshot # SnapshotDigest(rec, events)
              \/ summary.digest
                   # FinalDigest(summary.closedAt, summary.snapshot, LastDigest(events))
           THEN Result("failed", 0)
           ELSE Result("passed", 0)

(***************************************************************************)
(* The process.  Every section writes the file before it answers; one that *)
(* fails to leaves the copy it took, which went through JSON as well.      *)
(***************************************************************************)
\* What is read back: event types are words of the program, other texts are the clients'.
Reread(rec) == [rec EXCEPT !.text = Rewritten[@]]

RereadAll(texts) == [n \in DOMAIN texts |-> Rewritten[texts[n]]]

Content(t, rec, old, a) ==
  [trail |-> t, record |-> Reread(rec), superseded |-> RereadAll(old), audit |-> a]

Save == /\ file' = Content(trail', record', superseded', audit')
        /\ intact' = file' /\ UNCHANGED up

\* A correction keeps the inspection it supersedes, in a record of its own.
Correction == "inspection_corrected"

Work(type, text) ==
  /\ up /\ audit = NotClosed /\ Len(trail) < MaxEvents - 1
  /\ type = Correction => trail # <<>>  \* there is something to correct
  /\ trail' = AppendEvent(trail, type)
  /\ record' = [version |-> record.version + 1, text |-> text]
  /\ superseded' = IF type = Correction THEN Append(superseded, record.text) ELSE superseded
  /\ UNCHANGED audit
  /\ Save

Close ==
  /\ up /\ audit = NotClosed /\ trail # <<>>
  /\ trail' = AppendEvent(trail, "task_closed")
  /\ record' = [record EXCEPT !.version = @ + 1]
  /\ audit' = LET snapshot == SnapshotDigest(record', trail') IN
                [closedAt |-> Len(trail'), snapshot |-> snapshot,
                 digest |-> FinalDigest(Len(trail'), snapshot, LastDigest(trail'))]
  /\ UNCHANGED superseded
  /\ Save

FailToSave ==
  /\ up /\ record' = Reread(record) /\ superseded' = RereadAll(superseded)
  /\ UNCHANGED <<trail, audit, file, up, intact>>

Stop == up /\ up' = FALSE /\ UNCHANGED <<trail, record, superseded, audit, file, intact>>

Start == /\ ~up /\ up' = TRUE
         /\ trail' = file.trail /\ record' = file.record
         /\ superseded' = file.superseded /\ audit' = file.audit
         /\ UNCHANGED <<file, intact>>

(***************************************************************************)
(* The file is changed while no process runs, in one place.                *)
(***************************************************************************)
Drop(s, n) == [k \in 1..(Len(s) - 1) |-> s[IF k < n THEN k ELSE k + 1]]
Double(s, n) == [k \in 1..(Len(s) + 1) |-> s[IF k <= n THEN k ELSE k - 1]]
Swap(s, m, n) == [s EXCEPT ![m] = s[n], ![n] = s[m]]

DamagedTrails(s) ==
  {Drop(s, n) : n \in DOMAIN s} \cup {Double(s, n) : n \in DOMAIN s}
  \cup {Swap(s, m, n) : m \in DOMAIN s, n \in DOMAIN s}
  \cup {[s EXCEPT ![n].type = type] : n \in DOMAIN s, type \in EventTypes}
  \cup {[s EXCEPT ![n] = Sealed([@ EXCEPT !.type = type])] : n \in DOMAIN s, type \in EventTypes}

\* A corrected inspection is lost or its text edited.
DamagedVersions(s) == {Drop(s, n) : n \in DOMAIN s}
                      \cup {[s EXCEPT ![n] = Rewritten[x]] : n \in DOMAIN s, x \in Texts}

DamagedAudits(a) == {[a EXCEPT !.closedAt = 0], [a EXCEPT !.snapshot = NoDigest],
                     [a EXCEPT !.digest = NoDigest]}

ChangeFile ==
  /\ ~up /\ file = intact /\ file.audit # NotClosed
  /\ \/ \E t \in DamagedTrails(file.trail) : file' = [file EXCEPT !.trail = t]
     \/ \E v \in 0..MaxEvents, x \in Texts :
          file' = [file EXCEPT !.record = Reread([version |-> v, text |-> x])]
     \/ \E old \in DamagedVersions(file.superseded) : file' = [file EXCEPT !.superseded = old]
     \/ \E a \in DamagedAudits(file.audit) : file' = [file EXCEPT !.audit = a]
  /\ UNCHANGED <<trail, record, superseded, audit, up, intact>>

Init ==
  /\ trail = <<>> /\ record \in [version : {0}, text : Texts]
  /\ superseded = <<>> /\ audit = NotClosed
  /\ file = Content(trail, record, superseded, audit)
  /\ up = TRUE /\ intact = file

Next ==
  \/ \E type \in EventTypes, text \in Texts : Work(type, text)
  \/ Close \/ FailToSave \/ Stop \/ Start \/ ChangeFile

Spec == Init /\ [][Next]_vars

(***************************************************************************)
(* Properties.                                                             *)
(***************************************************************************)
\* A process that runs has loaded the file, or written it; a file is only changed without.
Answer == Verify(record, trail, audit)
Verifiable == up /\ audit # NotClosed

\* Is the text that the closing digest covers the same after it went through the file?
SealedTextLasts == LET text == audit.snapshot[1].text IN Rewritten[text] = text

\* What the digests of the closing cover: all but the inspections that were corrected.
\* What else the summary holds, VerifyAudit makes anew or does not look at.
Covered(f) == <<f.trail, f.record, f.audit>>

\* A closed task verifies at any later time as long as what the closing covers is what was
\* written: right after the closing, after a section that failed, after any number of
\* restarts, and also when a corrected inspection was edited or lost.  The exception are
\* texts that are not UTF-8, whose digest is taken before they have been through the file.
UntouchedAuditPasses ==
  Verifiable /\ Covered(file) = Covered(intact) /\ SealedTextLasts => Answer.status = "passed"

\* Any single change of what the closing covers is reported: of the events, of the task, its
\* current inspection and its actions, of the closing time and of the digests.
ChangeIsReported ==
  Verifiable /\ Covered(file) # Covered(intact) => Answer.status = "failed"

\* The first event at which the trail differs from the one written.
FirstChange ==
  Min({n \in 1..(Len(trail) + 1) : \/ n > Len(trail) \/ n > Len(intact.trail)
                                   \/ trail[n] # intact.trail[n]})

\* failure_sequence leads to the place: to the first changed event or the one behind it, and
\* it stays 0 only when all events but the last are as they were written.
FailureNamesChange ==
  Verifiable /\ Answer.status = "failed" =>
    IF Answer.sequence # 0
    THEN Answer.sequence \in {FirstChange, FirstChange + 1}
    ELSE FirstChange >= Len(trail)
=============================================================================
