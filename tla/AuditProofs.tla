------------------------------ MODULE AuditProofs ------------------------------
(***************************************************************************)
(* Proofs about the audit of a closed task, for every value of the         *)
(* constants: what verification answers when the file was not touched, and *)
(* when it was changed in one place, and what concurrent readers see.      *)
(***************************************************************************)
EXTENDS AuditReaders, TLAPS

Records == [version : Nat, text : Texts]

IsEvent(e) == e = [sequence |-> e.sequence, type |-> e.type, previous |-> e.previous,
                   digest |-> e.digest]
IsTrail(s) == s \in Seq({s[n] : n \in DOMAIN s}) /\ \A n \in DOMAIN s : IsEvent(s[n])
Unbroken(s) == IsTrail(s) /\ \A n \in DOMAIN s : ~Broken(s, n)

\* The summary that a closing writes over the trail s and the record r.
Summary(s, r) ==
  [closedAt |-> Len(s), snapshot |-> SnapshotDigest(r, s),
   digest |-> FinalDigest(Len(s), SnapshotDigest(r, s), LastDigest(s))]

\* What the process wrote: an unbroken trail, and the summary of it if the task is closed.
WellWritten ==
  /\ intact = [trail |-> intact.trail, record |-> intact.record,
               superseded |-> intact.superseded, audit |-> intact.audit]
  /\ Unbroken(intact.trail)
  /\ intact.record \in Records /\ Reread(intact.record) = intact.record
  /\ intact.audit # NotClosed =>
       \E r \in Records : /\ Reread(r) = intact.record /\ intact.trail # <<>>
                          /\ intact.audit = Summary(intact.trail, r)

TrailChanged(s) == \E t \in DamagedTrails(s) : t # s /\ file = [intact EXCEPT !.trail = t]
RecordChanged == \E r \in Records : Reread(r) # intact.record
                                    /\ file = [intact EXCEPT !.record = Reread(r)]
SupersededChanged == \E old : file = [intact EXCEPT !.superseded = old]
AuditChanged == \E a \in DamagedAudits(intact.audit) :
                  a # intact.audit /\ file = [intact EXCEPT !.audit = a]

\* What else may have happened to it.
ChangedOnce ==
  file # intact => /\ intact.audit # NotClosed
                   /\ \/ TrailChanged(intact.trail) \/ RecordChanged
                      \/ SupersededChanged \/ AuditChanged

\* What a running process holds in memory: the file, but for the text of a record that it
\* has not read back since.
MemoryIsLoaded ==
  /\ record \in Records
  /\ up => /\ trail = file.trail /\ audit = file.audit /\ Reread(record) = file.record
           /\ file # intact => record = file.record
           /\ file = intact /\ audit # NotClosed => record \in {audit.snapshot[1], file.record}

ChainInv == WellWritten /\ ChangedOnce /\ MemoryIsLoaded

(***************************************************************************)
(* The invariant is kept.                                                  *)
(***************************************************************************)
LEMMA RereadFacts ==
  ASSUME NEW r \in Records
  PROVE  /\ Reread(r) \in Records /\ Reread(Reread(r)) = Reread(r)
         /\ Reread(r).version = r.version /\ Reread(r).text = Rewritten[r.text]
         /\ Rewritten[r.text] = r.text => Reread(r) = r
BY TextAssumption DEF Reread, Records

\* An event is appended with its number, the digest before it and a digest of its own.
LEMMA AppendKeepsUnbroken ==
  ASSUME NEW s, Unbroken(s), NEW type
  PROVE  /\ Unbroken(AppendEvent(s, type)) /\ AppendEvent(s, type) # <<>>
         /\ Len(AppendEvent(s, type)) = Len(s) + 1
<1> DEFINE e == [sequence |-> Len(s) + 1, type |-> type, previous |-> LastDigest(s),
                 digest |-> <<Len(s) + 1, type, LastDigest(s)>>]
           S == {s[n] : n \in DOMAIN s}
           t == Append(s, e)
           T == {t[n] : n \in DOMAIN t}
<1>1. AppendEvent(s, type) = t
  BY DEF AppendEvent, Sealed, EventDigest
<1>2. s \in Seq(S) /\ Len(s) \in Nat /\ DOMAIN s = 1..Len(s)
  BY DEF Unbroken, IsTrail
<1> HIDE DEF e, S
<1>3. /\ t \in Seq(S \cup {e}) /\ Len(t) = Len(s) + 1 /\ DOMAIN t = 1..(Len(s) + 1)
      /\ t[Len(s) + 1] = e /\ \A n \in 1..Len(s) : t[n] = s[n]
  BY <1>2
<1> HIDE DEF t
<1>4. t \in Seq(T)
  <2>1. t \in [1..Len(t) -> T] /\ Len(t) \in Nat
    BY <1>2, <1>3
  <2> HIDE DEF T
  <2>2. QED BY <2>1
<1>5. IsEvent(e) /\ e.sequence = Len(s) + 1 /\ e.previous = LastDigest(s)
      /\ e.digest = EventDigest(e)
  BY DEF IsEvent, e, EventDigest
<1>6. IsTrail(t)
  BY <1>2, <1>3, <1>4, <1>5 DEF IsTrail, Unbroken
<1>7. \A n \in 1..Len(s) : ~Broken(t, n)
  BY <1>2, <1>3 DEF Unbroken, Broken
<1>8. ~Broken(t, Len(s) + 1)
  <2>1. CASE s = <<>>
    BY <1>2, <1>3, <1>5, <2>1 DEF Broken, LastDigest
  <2>2. CASE s # <<>>
    <3>1. Len(s) # 0 /\ LastDigest(s) = s[Len(s)].digest
      BY <1>2, <2>2 DEF LastDigest
    <3>2. QED BY <1>2, <1>3, <1>5, <3>1 DEF Broken
  <2>3. QED BY <2>1, <2>2
<1>9. t # <<>> /\ Unbroken(t)
  BY <1>2, <1>3, <1>6, <1>7, <1>8 DEF Unbroken
<1>10. QED BY <1>1, <1>3, <1>9

LEMMA InitChain == Init => ChainInv
<1> SUFFICES ASSUME Init PROVE ChainInv
  OBVIOUS
<1>1. record \in Records
  BY DEF Init, Records
<1>2. /\ file = [trail |-> <<>>, record |-> Reread(record),
                 superseded |-> RereadAll(superseded), audit |-> NotClosed]
      /\ intact = file /\ trail = <<>> /\ audit = NotClosed /\ up = TRUE
  BY DEF Init, Content
<1>3. Unbroken(<<>>)
  BY DEF Unbroken, IsTrail
<1>4. WellWritten
  BY <1>1, <1>2, <1>3, RereadFacts DEF WellWritten
<1>5. QED BY <1>1, <1>2, <1>4 DEF ChainInv, ChangedOnce, MemoryIsLoaded

\* A section that writes the file writes what WellWritten says, whatever was there before.
LEMMA SaveKeeps ==
  ASSUME Save, up, record' \in Records, Unbroken(trail'),
         audit' # NotClosed => trail' # <<>> /\ audit' = Summary(trail', record')
  PROVE  ChainInv'
<1>1. /\ file' = [trail |-> trail', record |-> Reread(record'),
                  superseded |-> RereadAll(superseded'), audit |-> audit']
      /\ intact' = file' /\ up'
  BY DEF Save, Content
<1>2. /\ intact'.trail = trail' /\ intact'.record = Reread(record') /\ intact'.audit = audit'
      /\ file'.trail = trail' /\ file'.record = Reread(record') /\ file'.audit = audit'
  BY <1>1
<1>3. WellWritten'
  BY <1>1, <1>2, RereadFacts DEF WellWritten
<1>4. audit' # NotClosed => audit'.snapshot[1] = record'
  BY DEF Summary, SnapshotDigest
<1>5. QED BY <1>1, <1>2, <1>3, <1>4 DEF ChainInv, ChangedOnce, MemoryIsLoaded

LEMMA NoDigestIsNone ==
  /\ \A r, s : SnapshotDigest(r, s) # NoDigest
  /\ \A n, d, l : FinalDigest(n, d, l) # NoDigest
BY DEF SnapshotDigest, FinalDigest, NoDigest

\* While the task is open nobody has changed its file.
LEMMA ChangedIsClosed ==
  ASSUME ChainInv, file # intact
  PROVE  file.audit # NotClosed
<1>1. PICK r : intact.audit = Summary(intact.trail, r)
  BY DEF ChainInv, WellWritten, ChangedOnce
<1>2. intact.audit # NotClosed
  BY DEF ChainInv, ChangedOnce
<1>3. CASE TrailChanged(intact.trail) \/ RecordChanged \/ SupersededChanged
  BY <1>2, <1>3 DEF ChainInv, WellWritten, TrailChanged, RecordChanged, SupersededChanged
<1>4. CASE AuditChanged
  <2>1. PICK a \in DamagedAudits(intact.audit) : file = [intact EXCEPT !.audit = a]
    BY <1>4 DEF AuditChanged
  <2>2. file.audit = a
    BY <2>1 DEF ChainInv, WellWritten
  <2>3. a.snapshot # NoDigest \/ a.digest # NoDigest
    <3>1. intact.audit.snapshot # NoDigest /\ intact.audit.digest # NoDigest
      BY <1>1, NoDigestIsNone DEF Summary
    <3>2. a.snapshot = intact.audit.snapshot \/ a.digest = intact.audit.digest
      BY <1>1, <2>1 DEF DamagedAudits, Summary
    <3>3. QED BY <3>1, <3>2
  <2>4. QED BY <2>2, <2>3 DEF NotClosed
<1>5. QED BY <1>3, <1>4 DEF ChainInv, ChangedOnce

LEMMA ChainStepKeeps == ChainInv /\ [Next]_vars => ChainInv'
<1> SUFFICES ASSUME ChainInv, [Next]_vars PROVE ChainInv'
  OBVIOUS
<1>1. ASSUME NEW type, NEW text \in Texts, Work(type, text)
      PROVE  ChainInv'
  <2>1. up /\ audit = NotClosed /\ audit' = audit /\ Save /\ trail' = AppendEvent(trail, type)
        /\ record' = [version |-> record.version + 1, text |-> text]
    BY <1>1 DEF Work
  <2>2. Unbroken(trail)
    BY <2>1, ChangedIsClosed DEF ChainInv, WellWritten, MemoryIsLoaded
  <2>3. record' \in Records
    BY <2>1 DEF Records, ChainInv, MemoryIsLoaded
  <2>4. QED BY <2>1, <2>2, <2>3, AppendKeepsUnbroken, SaveKeeps
<1>2. CASE Close
  <2>1. up /\ audit = NotClosed /\ Save /\ trail' = AppendEvent(trail, "task_closed")
        /\ record' = [record EXCEPT !.version = @ + 1]
        /\ audit' = Summary(trail', record')
    BY <1>2 DEF Close, Summary
  <2>2. Unbroken(trail)
    BY <2>1, ChangedIsClosed DEF ChainInv, WellWritten, MemoryIsLoaded
  <2>3. record' \in Records
    BY <2>1 DEF Records, ChainInv, MemoryIsLoaded
  <2>4. QED BY <2>1, <2>2, <2>3, AppendKeepsUnbroken, SaveKeeps
<1>3. CASE FailToSave
  <2>1. /\ up /\ record' = Reread(record) /\ UNCHANGED <<trail, audit, file, up, intact>>
    BY <1>3 DEF FailToSave
  <2>2. WellWritten' /\ ChangedOnce'
    BY <2>1 DEF ChainInv, WellWritten, ChangedOnce, TrailChanged, RecordChanged,
                SupersededChanged, AuditChanged
  <2>3. MemoryIsLoaded'
    BY <2>1, RereadFacts DEF ChainInv, MemoryIsLoaded
  <2>4. QED BY <2>2, <2>3 DEF ChainInv
<1>4. CASE Stop
  BY <1>4 DEF Stop, ChainInv, WellWritten, ChangedOnce, TrailChanged, RecordChanged,
              SupersededChanged, AuditChanged, MemoryIsLoaded
<1>5. CASE Start
  <2>1. /\ trail' = file.trail /\ record' = file.record /\ audit' = file.audit
        /\ UNCHANGED <<file, intact>>
    BY <1>5 DEF Start
  <2>2. WellWritten' /\ ChangedOnce'
    BY <2>1 DEF ChainInv, WellWritten, ChangedOnce, TrailChanged, RecordChanged,
                SupersededChanged, AuditChanged
  <2>3. file.record \in Records /\ Reread(file.record) = file.record
    BY RereadFacts DEF ChainInv, WellWritten, ChangedOnce, TrailChanged, RecordChanged,
                       SupersededChanged, AuditChanged
  <2>4. QED BY <2>1, <2>2, <2>3 DEF ChainInv, MemoryIsLoaded
<1>6. CASE ChangeFile
  <2>1. /\ ~up /\ file = intact /\ file.audit # NotClosed
        /\ UNCHANGED <<trail, record, audit, up, intact>>
    BY <1>6 DEF ChangeFile
  <2>2. WellWritten' /\ MemoryIsLoaded'
    BY <2>1 DEF ChainInv, WellWritten, MemoryIsLoaded
  <2>3. \/ \E t \in DamagedTrails(file.trail) : file' = [file EXCEPT !.trail = t]
        \/ \E r \in Records : file' = [file EXCEPT !.record = Reread(r)]
        \/ \E old : file' = [file EXCEPT !.superseded = old]
        \/ \E a \in DamagedAudits(file.audit) : file' = [file EXCEPT !.audit = a]
    <3>1. \A v \in 0..MaxEvents, x \in Texts : [version |-> v, text |-> x] \in Records
      BY BoundAssumption DEF Records
    <3>2. QED BY <1>6, <3>1 DEF ChangeFile
  <2>4. ChangedOnce'
    BY <2>1, <2>3 DEF ChangedOnce, TrailChanged, RecordChanged,
                           SupersededChanged, AuditChanged, ChainInv, WellWritten
  <2>5. QED BY <2>2, <2>4 DEF ChainInv
<1>7. CASE UNCHANGED vars
  BY <1>7 DEF vars, ChainInv, WellWritten, ChangedOnce, TrailChanged, RecordChanged,
              SupersededChanged, AuditChanged, MemoryIsLoaded
<1>8. QED BY <1>1, <1>2, <1>3, <1>4, <1>5, <1>6, <1>7 DEF Next

\* The invariant of the chain through closings, failed sections, changes of the file and
\* restarts (CloseTaskAtomic, AuditDigest, cloneSnapshotLocked, New).
THEOREM ChainInvariance == Spec => []ChainInv
BY InitChain, ChainStepKeeps, PTL DEF Spec

(***************************************************************************)
(* What verification answers.                                              *)
(***************************************************************************)
BrokenIn(s) == {n \in DOMAIN s : Broken(s, n)}

LEMMA VerifyFacts ==
  ASSUME NEW r, NEW s, NEW a
  PROVE  /\ BrokenIn(s) # {} => Verify(r, s, a) = Result("failed", Min(BrokenIn(s)))
         /\ BrokenIn(s) = {} =>
              Verify(r, s, a) =
                Result(IF /\ a.snapshot = SnapshotDigest(r, s)
                          /\ a.digest = FinalDigest(a.closedAt, a.snapshot, LastDigest(s))
                       THEN "passed" ELSE "failed", 0)
BY DEF Verify, BrokenIn

LEMMA PassedMeansUnchanged ==
  ASSUME NEW r, NEW s, NEW a, Verify(r, s, a).status # "failed"
  PROVE  /\ a.snapshot = SnapshotDigest(r, s)
         /\ a.digest = FinalDigest(a.closedAt, a.snapshot, LastDigest(s))
BY VerifyFacts DEF Result

LEMMA PassesUntouched ==
  ASSUME ChainInv, Verifiable, Covered(file) = Covered(intact), SealedTextLasts
  PROVE  Answer.status = "passed"
<1>1. /\ trail = intact.trail /\ audit = intact.audit /\ intact.audit # NotClosed
      /\ file.record = intact.record /\ record \in {audit.snapshot[1], file.record}
  BY DEF ChainInv, MemoryIsLoaded, Verifiable, Covered
<1>2. PICK r \in Records : Reread(r) = intact.record /\ audit = Summary(trail, r)
  BY <1>1 DEF ChainInv, WellWritten
<1>3. audit.snapshot[1] = r
  BY <1>2 DEF Summary, SnapshotDigest
<1>4. Reread(r) = r
  BY <1>3, RereadFacts DEF SealedTextLasts
<1>5. record = r
  BY <1>1, <1>2, <1>3, <1>4
<1>6. BrokenIn(trail) = {}
  BY <1>1 DEF ChainInv, WellWritten, Unbroken, BrokenIn
<1>7. QED BY <1>2, <1>5, <1>6, VerifyFacts DEF Answer, Summary, Result

\* An audit passes for ever, through failed sections and restarts, as long as nobody changes
\* what the closing covers and the texts of the task survive the file; whatever happens to
\* the inspections that were corrected (CloseTaskAtomic, VerifyAudit, the copy of
\* cloneSnapshotLocked and the load of New).
THEOREM UntouchedPasses == Spec => []UntouchedAuditPasses
<1>1. ChainInv => UntouchedAuditPasses
  BY PassesUntouched DEF UntouchedAuditPasses
<1>2. QED BY <1>1, ChainInvariance, PTL

LEMMA ReportsChange ==
  ASSUME ChainInv, Verifiable, Covered(file) # Covered(intact)
  PROVE  Answer.status = "failed"
<1>0. file # intact
  OBVIOUS
<1>1. trail = file.trail /\ audit = file.audit /\ record = file.record
  BY <1>0 DEF ChainInv, MemoryIsLoaded, Verifiable
<1>2. PICK r \in Records : Reread(r) = intact.record /\ intact.audit = Summary(intact.trail, r)
  BY <1>0 DEF ChainInv, WellWritten, ChangedOnce
<1>3. /\ intact.audit.snapshot = <<r, intact.trail>>
      /\ intact.audit.digest = FinalDigest(Len(intact.trail), intact.audit.snapshot,
                                           LastDigest(intact.trail))
      /\ intact.audit.closedAt = Len(intact.trail)
  BY <1>2 DEF Summary, SnapshotDigest
<1>4. SUFFICES ASSUME Answer.status # "failed" PROVE FALSE
  OBVIOUS
<1>5. /\ audit.snapshot = <<record, trail>>
      /\ audit.digest = FinalDigest(audit.closedAt, audit.snapshot, LastDigest(trail))
  BY <1>4, PassedMeansUnchanged DEF Answer, SnapshotDigest
<1>6. CASE TrailChanged(intact.trail)
  <2>1. audit = intact.audit /\ trail # intact.trail
    BY <1>1, <1>6 DEF TrailChanged, ChainInv, WellWritten
  <2>2. QED BY <1>3, <1>5, <2>1
<1>7. CASE RecordChanged
  <2>1. PICK x \in Records : record = Reread(x) /\ record # intact.record /\ audit = intact.audit
    BY <1>1, <1>7 DEF RecordChanged, ChainInv, WellWritten
  <2>2. record = r
    BY <1>3, <1>5, <2>1
  <2>3. Reread(record) = record
    BY <2>1, RereadFacts
  <2>4. QED BY <1>2, <2>1, <2>2, <2>3
<1>8. CASE AuditChanged
  <2>1. PICK a \in DamagedAudits(intact.audit) :
          a # intact.audit /\ audit = a /\ trail = intact.trail
    BY <1>1, <1>8 DEF AuditChanged, ChainInv, WellWritten
  <2>2. CASE a = [intact.audit EXCEPT !.closedAt = 0]
    <3>1. a.snapshot = intact.audit.snapshot /\ a.digest = intact.audit.digest /\ a.closedAt = 0
      BY <1>2, <2>2 DEF Summary
    <3>2. Len(intact.trail) = 0
      BY <1>3, <1>5, <2>1, <3>1 DEF FinalDigest
    <3>3. QED BY <1>2, <2>1, <2>2, <3>2 DEF Summary
  <2>3. CASE a = [intact.audit EXCEPT !.snapshot = NoDigest]
    <3>1. a.snapshot = NoDigest
      BY <1>2, <2>3 DEF Summary
    <3>2. audit.snapshot # NoDigest
      BY <1>5, NoDigestIsNone DEF SnapshotDigest
    <3>3. QED BY <2>1, <3>1, <3>2
  <2>4. CASE a = [intact.audit EXCEPT !.digest = NoDigest]
    BY <1>2, <1>5, <2>1, <2>4, NoDigestIsNone DEF Summary
  <2>5. QED BY <2>1, <2>2, <2>3, <2>4 DEF DamagedAudits
<1>9. ~SupersededChanged
  BY DEF SupersededChanged, Covered, ChainInv, WellWritten
<1>10. QED BY <1>0, <1>6, <1>7, <1>8, <1>9 DEF ChainInv, ChangedOnce

\* Whatever single thing is changed in the file among those that the closing covers, the
\* events, the task, its current inspection and actions, the closing time and the digests,
\* verification reports it (VerifyAudit, against the digests CloseTaskAtomic has stored).
\* The inspections that were corrected are not among them: UntouchedPasses.
THEOREM ChangesAreReported == Spec => []ChangeIsReported
<1>1. ChainInv => ChangeIsReported
  BY ReportsChange DEF ChangeIsReported
<1>2. QED BY <1>1, ChainInvariance, PTL

(***************************************************************************)
(* Where verification points to.                                           *)
(***************************************************************************)
LEMMA MinIs ==
  ASSUME NEW S \in SUBSET Int, NEW m \in S, \A x \in S : m <= x
  PROVE  Min(S) = m
<1>1. Min(S) \in S /\ \A x \in S : Min(S) <= x
  BY DEF Min
<1>2. Min(S) <= m /\ m <= Min(S) /\ Min(S) \in Int
  BY <1>1
<1>3. QED BY <1>2

LEMMA LengthOf ==
  ASSUME NEW n \in Nat, NEW t, t = [k \in 1..n |-> t[k]]
  PROVE  Len(t) = n /\ DOMAIN t = 1..n
<1> DEFINE T == {t[k] : k \in 1..n}
<1>1. t \in [1..n -> T]
  OBVIOUS
<1> HIDE DEF T
<1>2. t \in Seq(T)
  BY <1>1
<1>3. QED BY <1>1, <1>2

\* The trail t differs from s at f for the first time.
DiffersFrom(s, t, f) ==
  /\ Len(t) \in Nat /\ DOMAIN t = 1..Len(t) /\ f \in 1..(Len(t) + 1) /\ f <= Len(s) + 1
  /\ \A k \in 1..(f - 1) : t[k] = s[k]
  /\ f > Len(t) \/ f > Len(s) \/ t[f] # s[f]

\* What is broken in t leads to f.
PointedAt(t, f) ==
  \/ f \in DOMAIN t /\ Broken(t, f)
  \/ f + 1 \in DOMAIN t /\ Broken(t, f + 1)
  \/ f > Len(t)
  \/ f = Len(t) /\ ~Broken(t, f)

LEMMA UnbrokenFacts ==
  ASSUME NEW s, Unbroken(s)
  PROVE  /\ Len(s) \in Nat /\ DOMAIN s = 1..Len(s)
         /\ s = [k \in 1..Len(s) |-> s[k]]
         /\ \A n \in 1..Len(s) :
              /\ IsEvent(s[n]) /\ s[n].sequence = n
              /\ s[n].digest = <<n, s[n].type, s[n].previous>>
              /\ s[n].previous = IF n = 1 THEN NoDigest ELSE s[n-1].digest
<1>1. Len(s) \in Nat /\ DOMAIN s = 1..Len(s) /\ s = [k \in 1..Len(s) |-> s[k]]
  BY DEF Unbroken, IsTrail
<1>2. QED BY <1>1 DEF Unbroken, IsTrail, Broken, EventDigest

LEMMA AgreesBefore ==
  ASSUME NEW s, Unbroken(s), NEW t, NEW f, DiffersFrom(s, t, f), NEW k \in 1..(f - 1)
  PROVE  ~Broken(t, k)
BY UnbrokenFacts DEF DiffersFrom, Broken, EventDigest

LEMMA FirstChangeIs ==
  ASSUME NEW f, DiffersFrom(intact.trail, trail, f), Len(intact.trail) \in Nat
  PROVE  FirstChange = f
<1> DEFINE S == {n \in 1..(Len(trail) + 1) : \/ n > Len(trail) \/ n > Len(intact.trail)
                                             \/ trail[n] # intact.trail[n]}
<1>1. S \in SUBSET Int /\ f \in S /\ f \in Int
  BY DEF DiffersFrom
<1>2. ASSUME NEW x \in S PROVE f <= x
  BY <1>2 DEF DiffersFrom
<1> HIDE DEF S
<1>3. Min(S) = f
  BY <1>1, <1>2, MinIs
<1>4. QED BY <1>3 DEF FirstChange, S

LEMMA PointedFromBroken ==
  ASSUME NEW s, Unbroken(s), NEW t, NEW f, DiffersFrom(s, t, f), PointedAt(t, f)
  PROVE  IF BrokenIn(t) # {} THEN Min(BrokenIn(t)) \in {f, f + 1} ELSE f >= Len(t)
<1>1. Len(t) \in Nat /\ DOMAIN t = 1..Len(t) /\ f \in 1..(Len(t) + 1)
  BY DEF DiffersFrom
<1>2. \A k \in BrokenIn(t) : f <= k
  BY <1>1, AgreesBefore DEF BrokenIn
<1>3. BrokenIn(t) \in SUBSET Int
  BY <1>1 DEF BrokenIn
<1>4. CASE f \in BrokenIn(t)
  BY <1>2, <1>3, <1>4, MinIs
<1>5. CASE f \notin BrokenIn(t) /\ f + 1 \in BrokenIn(t)
  <2>1. \A k \in BrokenIn(t) : f + 1 <= k
    BY <1>1, <1>2, <1>3, <1>5
  <2>2. QED BY <1>3, <1>5, <2>1, MinIs
<1>6. CASE f \notin BrokenIn(t) /\ f + 1 \notin BrokenIn(t)
  <2>1. ~(f \in DOMAIN t /\ Broken(t, f)) /\ ~(f + 1 \in DOMAIN t /\ Broken(t, f + 1))
    BY <1>6 DEF BrokenIn
  <2>2. f >= Len(t)
    <3>1. f > Len(t) \/ f = Len(t)
      BY <2>1, Zenon DEF PointedAt
    <3>2. f \in Int /\ Len(t) \in Int
      BY <1>1
    <3> HIDE DEF PointedAt
    <3>3. QED BY <3>1, <3>2
  <2>3. BrokenIn(t) = {}
    <3>1. \A k \in BrokenIn(t) : k \in 1..Len(t) /\ f <= k /\ k # f
      BY <1>1, <1>2, <1>6 DEF BrokenIn
    <3>2. QED BY <1>1, <2>2, <3>1
  <2>4. QED BY <2>2, <2>3
<1>7. QED BY <1>4, <1>5, <1>6

(***************************************************************************)
(* One lemma for every way to change the trail.                            *)
(***************************************************************************)
LEMMA DropPoints ==
  ASSUME NEW s, Unbroken(s), NEW n \in DOMAIN s
  PROVE  LET t == Drop(s, n) IN DiffersFrom(s, t, n) /\ PointedAt(t, n)
<1> DEFINE t == Drop(s, n)
<1>1. Len(s) \in Nat /\ n \in 1..Len(s) /\ Len(s) - 1 \in Nat
  BY UnbrokenFacts
<1>2. t = [k \in 1..(Len(s) - 1) |-> t[k]]
      /\ \A k \in 1..(Len(s) - 1) : t[k] = s[IF k < n THEN k ELSE k + 1]
  BY DEF Drop
<1> HIDE DEF t
<1>3. Len(t) = Len(s) - 1 /\ DOMAIN t = 1..(Len(s) - 1)
  BY <1>1, <1>2, LengthOf
<1>4. n < Len(s) => t[n].sequence = n + 1 /\ s[n].sequence = n
  <2>1. SUFFICES ASSUME n < Len(s) PROVE t[n].sequence = n + 1 /\ s[n].sequence = n
    OBVIOUS
  <2>2. n \in 1..(Len(s) - 1) /\ n + 1 \in 1..Len(s) /\ ~(n < n)
    BY <1>1, <2>1
  <2>3. t[n] = s[n + 1]
    BY <1>2, <2>2
  <2>4. QED BY <1>1, <2>2, <2>3, UnbrokenFacts
<1>5. DiffersFrom(s, t, n)
  BY <1>1, <1>2, <1>3, <1>4 DEF DiffersFrom
<1>6. PointedAt(t, n)
  BY <1>1, <1>3, <1>4 DEF PointedAt, Broken
<1>7. QED BY <1>5, <1>6 DEF t

LEMMA DoublePoints ==
  ASSUME NEW s, Unbroken(s), NEW n \in DOMAIN s
  PROVE  LET t == Double(s, n) IN DiffersFrom(s, t, n + 1) /\ PointedAt(t, n + 1)
<1> DEFINE t == Double(s, n)
<1>1. Len(s) \in Nat /\ n \in 1..Len(s)
  BY UnbrokenFacts
<1>2. t = [k \in 1..(Len(s) + 1) |-> t[k]]
      /\ \A k \in 1..(Len(s) + 1) : t[k] = s[IF k <= n THEN k ELSE k - 1]
  BY DEF Double
<1> HIDE DEF t
<1>3. Len(t) = Len(s) + 1 /\ DOMAIN t = 1..(Len(s) + 1)
  BY <1>1, <1>2, LengthOf
<1>4. t[n + 1].sequence = n /\ (n < Len(s) => s[n + 1].sequence = n + 1)
  BY <1>1, <1>2, UnbrokenFacts
<1>5. DiffersFrom(s, t, n + 1)
  BY <1>1, <1>2, <1>3, <1>4 DEF DiffersFrom
<1>6. PointedAt(t, n + 1)
  BY <1>1, <1>3, <1>4 DEF PointedAt, Broken
<1>7. QED BY <1>5, <1>6 DEF t

LEMMA SwapPoints ==
  ASSUME NEW s, Unbroken(s), NEW m \in DOMAIN s, NEW n \in DOMAIN s, Swap(s, m, n) # s
  PROVE  LET t == Swap(s, m, n) IN \E f : DiffersFrom(s, t, f) /\ PointedAt(t, f)
<1> DEFINE t == Swap(s, m, n)
           f == IF m < n THEN m ELSE n
<1>1. Len(s) \in Nat /\ DOMAIN s = 1..Len(s) /\ m \in 1..Len(s) /\ n \in 1..Len(s)
  BY UnbrokenFacts
<1>2. m # n
  BY UnbrokenFacts DEF Swap
<1>3. /\ t = [k \in 1..Len(s) |-> t[k]]
      /\ t[m] = s[n] /\ t[n] = s[m]
      /\ \A k \in 1..Len(s) : k \notin {m, n} => t[k] = s[k]
  BY <1>1, <1>2 DEF Swap
<1> HIDE DEF t
<1>4. Len(t) = Len(s) /\ DOMAIN t = 1..Len(s)
  BY <1>1, <1>3, LengthOf
<1>5. f \in 1..Len(s) /\ t[f].sequence # f /\ s[f].sequence = f
  BY <1>1, <1>2, <1>3, UnbrokenFacts
<1>6. DiffersFrom(s, t, f)
  BY <1>1, <1>3, <1>4, <1>5 DEF DiffersFrom
<1>7. PointedAt(t, f)
  BY <1>1, <1>4, <1>5 DEF PointedAt, Broken
<1>8. QED BY <1>6, <1>7 DEF t

\* The type is changed, and the digest of the event is not.
LEMMA EditPoints ==
  ASSUME NEW s, Unbroken(s), NEW n \in DOMAIN s, NEW type, [s EXCEPT ![n].type = type] # s
  PROVE  LET t == [s EXCEPT ![n].type = type] IN DiffersFrom(s, t, n) /\ PointedAt(t, n)
<1> DEFINE t == [s EXCEPT ![n].type = type]
<1>1. Len(s) \in Nat /\ DOMAIN s = 1..Len(s) /\ n \in 1..Len(s) /\ IsEvent(s[n])
  BY UnbrokenFacts
<1>2. /\ t = [k \in 1..Len(s) |-> t[k]]
      /\ t[n] = [s[n] EXCEPT !.type = type]
      /\ \A k \in 1..Len(s) : k # n => t[k] = s[k]
  BY <1>1
<1>3. type # s[n].type
  <2>1. SUFFICES ASSUME type = s[n].type PROVE t = s
    OBVIOUS
  <2>2. [s[n] EXCEPT !.type = type] = s[n]
    BY <1>1, <2>1 DEF IsEvent
  <2>3. QED BY <1>1, <2>2, UnbrokenFacts
<1> HIDE DEF t
<1>4. Len(t) = Len(s) /\ DOMAIN t = 1..Len(s)
  BY <1>1, <1>2, LengthOf
<1>5. /\ t[n].type = type /\ t[n].digest = s[n].digest
      /\ s[n].digest = <<n, s[n].type, s[n].previous>>
      /\ t[n].sequence = n /\ t[n].previous = s[n].previous
  BY <1>1, <1>2, UnbrokenFacts DEF IsEvent
<1>6. Broken(t, n)
  BY <1>3, <1>5 DEF Broken, EventDigest
<1>7. DiffersFrom(s, t, n)
  BY <1>1, <1>2, <1>3, <1>4, <1>5 DEF DiffersFrom
<1>8. QED BY <1>1, <1>4, <1>6, <1>7 DEF t, PointedAt

\* The type is changed and the digest made to fit: the event behind it no longer does.
LEMMA SealedEditPoints ==
  ASSUME NEW s, Unbroken(s), NEW n \in DOMAIN s, NEW type,
         [s EXCEPT ![n] = Sealed([@ EXCEPT !.type = type])] # s
  PROVE  LET t == [s EXCEPT ![n] = Sealed([@ EXCEPT !.type = type])]
         IN  DiffersFrom(s, t, n) /\ PointedAt(t, n)
<1> DEFINE e == Sealed([s[n] EXCEPT !.type = type])
           t == [s EXCEPT ![n] = Sealed([@ EXCEPT !.type = type])]
<1>1. /\ Len(s) \in Nat /\ DOMAIN s = 1..Len(s) /\ n \in 1..Len(s) /\ IsEvent(s[n])
      /\ s[n].sequence = n /\ s[n].digest = <<n, s[n].type, s[n].previous>>
  BY UnbrokenFacts
<1>2. /\ t = [k \in 1..Len(s) |-> t[k]]
      /\ t[n] = e
      /\ \A k \in 1..Len(s) : k # n => t[k] = s[k]
  BY <1>1
<1>3. e = [sequence |-> n, type |-> type, previous |-> s[n].previous,
           digest |-> <<n, type, s[n].previous>>]
  <2>1. [s[n] EXCEPT !.type = type] =
          [sequence |-> n, type |-> type, previous |-> s[n].previous, digest |-> s[n].digest]
    BY <1>1 DEF IsEvent
  <2> DEFINE d == [s[n] EXCEPT !.type = type]
  <2>2. EventDigest(d) = <<n, type, s[n].previous>>
    BY <2>1 DEF EventDigest
  <2>3. [d EXCEPT !.digest = EventDigest(d)] =
          [sequence |-> n, type |-> type, previous |-> s[n].previous, digest |-> EventDigest(d)]
    <3> HIDE DEF d
    <3>1. d = [sequence |-> n, type |-> type, previous |-> s[n].previous, digest |-> s[n].digest]
      BY <2>1 DEF d
    <3>2. QED BY <3>1
  <2>4. QED BY <2>2, <2>3 DEF Sealed, e
<1>4. type # s[n].type
  <2>1. SUFFICES ASSUME type = s[n].type PROVE t = s
    OBVIOUS
  <2>2. e = s[n]
    BY <1>1, <1>3, <2>1 DEF IsEvent
  <2>3. QED BY <1>1, <2>2, UnbrokenFacts
<1> HIDE DEF t, e
<1>5. Len(t) = Len(s) /\ DOMAIN t = 1..Len(s)
  BY <1>1, <1>2, LengthOf
<1>6. /\ t[n].type = type /\ t[n].sequence = n /\ t[n].previous = s[n].previous
      /\ t[n].digest = <<n, type, s[n].previous>>
  BY <1>2, <1>3
<1>7. DiffersFrom(s, t, n)
  BY <1>1, <1>2, <1>4, <1>5, <1>6 DEF DiffersFrom
<1>8. ~Broken(t, n)
  BY <1>1, <1>2, <1>6, UnbrokenFacts DEF Broken, EventDigest
<1>9. n < Len(s) => Broken(t, n + 1)
  <2>1. SUFFICES ASSUME n < Len(s) PROVE t[n + 1].previous # t[n].digest
    BY <1>1 DEF Broken
  <2>2. t[n + 1].previous = s[n].digest
    <3>1. n + 1 \in 1..Len(s) /\ n + 1 # n /\ n + 1 # 1 /\ (n + 1) - 1 = n
      BY <1>1, <2>1
    <3>2. t[n + 1] = s[n + 1]
      BY <1>2, <3>1
    <3>3. s[n + 1].previous = s[(n + 1) - 1].digest
      BY <3>1, UnbrokenFacts
    <3>4. QED BY <3>1, <3>2, <3>3
  <2>3. QED BY <1>1, <1>4, <1>6, <2>2
<1>10. QED BY <1>1, <1>5, <1>7, <1>8, <1>9 DEF t, PointedAt

LEMMA DamagePoints ==
  ASSUME NEW s, Unbroken(s), NEW t \in DamagedTrails(s), t # s
  PROVE  \E f : DiffersFrom(s, t, f) /\ PointedAt(t, f)
<1> DEFINE Edit(n, type) == [s EXCEPT ![n].type = type]
           SealedEdit(n, type) == [s EXCEPT ![n] = Sealed([@ EXCEPT !.type = type])]
<1>1. ASSUME NEW n \in DOMAIN s, NEW type, SealedEdit(n, type) # s
      PROVE  DiffersFrom(s, SealedEdit(n, type), n) /\ PointedAt(SealedEdit(n, type), n)
  BY <1>1, SealedEditPoints
<1>2. ASSUME NEW n \in DOMAIN s, NEW type, Edit(n, type) # s
      PROVE  DiffersFrom(s, Edit(n, type), n) /\ PointedAt(Edit(n, type), n)
  BY <1>2, EditPoints
<1>3. DamagedTrails(s) =
        {Drop(s, n) : n \in DOMAIN s} \cup {Double(s, n) : n \in DOMAIN s}
        \cup {Swap(s, m, n) : m \in DOMAIN s, n \in DOMAIN s}
        \cup {Edit(n, type) : n \in DOMAIN s, type \in EventTypes}
        \cup {SealedEdit(n, type) : n \in DOMAIN s, type \in EventTypes}
  BY DEF DamagedTrails
<1> HIDE DEF Edit, SealedEdit
<1>4. \/ \E n \in DOMAIN s : t = Drop(s, n) \/ t = Double(s, n)
      \/ \E m \in DOMAIN s, n \in DOMAIN s : t = Swap(s, m, n)
      \/ \E n \in DOMAIN s, type \in EventTypes : t = Edit(n, type) \/ t = SealedEdit(n, type)
  BY <1>3
<1>5. CASE \E n \in DOMAIN s : t = Drop(s, n) \/ t = Double(s, n)
  <2>1. PICK n \in DOMAIN s : t = Drop(s, n) \/ t = Double(s, n)
    BY <1>5
  <2>2. QED BY <2>1, DropPoints, DoublePoints
<1>6. CASE \E m \in DOMAIN s, n \in DOMAIN s : t = Swap(s, m, n)
  <2>1. PICK m \in DOMAIN s, n \in DOMAIN s : t = Swap(s, m, n)
    BY <1>6
  <2>2. QED BY <2>1, SwapPoints
<1>7. CASE \E n \in DOMAIN s, type \in EventTypes : t = Edit(n, type) \/ t = SealedEdit(n, type)
  BY <1>1, <1>2, <1>7
<1>8. QED BY <1>4, <1>5, <1>6, <1>7

LEMMA NamesFailure == ChainInv => FailureNamesChange
<1> SUFFICES ASSUME ChainInv, Verifiable, Answer.status = "failed"
             PROVE  IF Answer.sequence # 0
                    THEN Answer.sequence \in {FirstChange, FirstChange + 1}
                    ELSE FirstChange >= Len(trail)
  BY DEF FailureNamesChange
<1>1. trail = file.trail /\ Unbroken(intact.trail) /\ Len(intact.trail) \in Nat
  BY UnbrokenFacts DEF ChainInv, WellWritten, MemoryIsLoaded, Verifiable
<1>2. \E f : DiffersFrom(intact.trail, trail, f) /\ PointedAt(trail, f)
  <2>1. CASE trail = intact.trail
    <3>1. DiffersFrom(trail, trail, Len(trail) + 1) /\ PointedAt(trail, Len(trail) + 1)
      BY <1>1, <2>1, UnbrokenFacts DEF DiffersFrom, PointedAt
    <3>2. QED BY <2>1, <3>1
  <2>2. CASE trail # intact.trail
    <3>1. trail \in DamagedTrails(intact.trail)
      BY <1>1, <2>2 DEF ChainInv, WellWritten, ChangedOnce, TrailChanged, RecordChanged,
                        SupersededChanged, AuditChanged
    <3>2. QED BY <1>1, <2>2, <3>1, DamagePoints
  <2>3. QED BY <2>1, <2>2
<1>3. PICK f : DiffersFrom(intact.trail, trail, f) /\ PointedAt(trail, f)
  BY <1>2
<1>4. FirstChange = f /\ f \in 1..(Len(trail) + 1) /\ Len(trail) \in Nat
  BY <1>1, <1>3, FirstChangeIs DEF DiffersFrom
<1>5. IF BrokenIn(trail) # {} THEN Min(BrokenIn(trail)) \in {f, f + 1} ELSE f >= Len(trail)
  BY <1>1, <1>3, PointedFromBroken
<1>6. Answer.sequence = IF BrokenIn(trail) # {} THEN Min(BrokenIn(trail)) ELSE 0
  BY VerifyFacts DEF Answer, Result
<1>7. QED BY <1>4, <1>5, <1>6

\* failure_sequence leads to the first changed event or to the one behind it, and is missing
\* only when nothing but the last event can have been changed (VerifyAudit).
THEOREM FailuresAreNamed == Spec => []FailureNamesChange
BY NamesFailure, ChainInvariance, PTL

(***************************************************************************)
(* Requests that read at the same time.                                    *)
(***************************************************************************)
Requests == Verifiers \cup Viewers

\* How many words request r has read: the first pass of a verifier writes.
WordsRead(r) == IF r \in Viewers THEN step[r]
                ELSE IF step[r] = 0 \/ step[r] <= Total THEN 0 ELSE step[r] - Total

TypesOf(s) == [n \in DOMAIN s |-> [w \in Words |-> s[n].type]]

ReadersInv ==
  /\ audit # NotClosed => names = TypesOf(trail)
  /\ step \in [Requests -> Nat] /\ DOMAIN got = Requests
  /\ \A r \in Requests :
       got[r] = [k \in 1..WordsRead(r) |-> trail[Position(k)].type]

LEMMA NothingRead == <<>> = [k \in 1..0 |-> trail[Position(k)].type]'
OBVIOUS

LEMMA ReadableTrail ==
  ASSUME ChainInv, Readable
  PROVE  /\ Len(trail) \in Nat /\ DOMAIN trail = 1..Len(trail)
         /\ names = TypesOf(trail) \/ ~ReadersInv
<1>1. trail = intact.trail /\ audit # NotClosed
  BY DEF ChainInv, MemoryIsLoaded, Readable, Verifiable
<1>2. QED BY <1>1, UnbrokenFacts DEF ChainInv, WellWritten, ReadersInv

LEMMA PositionIsEvent ==
  ASSUME NEW k \in 1..Total, Len(trail) \in Nat
  PROVE  Position(k) \in 1..Len(trail) /\ Word(k) \in Words
BY DEF Position, Total, Word, Words

LEMMA InitReaders == ReadersInit => ChainInv /\ ReadersInv
<1> SUFFICES ASSUME ReadersInit PROVE ChainInv /\ ReadersInv
  OBVIOUS
<1>1. ChainInv /\ trail = <<>> /\ audit = NotClosed
  BY InitChain DEF ReadersInit, Init
<1>2. Total = 0
  BY <1>1 DEF Total
<1>3. step \in [Requests -> Nat] /\ DOMAIN got = Requests
      /\ \A r \in Requests : got[r] = <<>> /\ step[r] = 0 /\ WordsRead(r) = 0
  BY <1>2 DEF ReadersInit, ForAll, Requests, WordsRead
<1>4. \A r \in Requests : got[r] = [k \in 1..WordsRead(r) |-> trail[Position(k)].type]
  <2>1. <<>> = [k \in 1..0 |-> trail[Position(k)].type]
    OBVIOUS
  <2>2. QED BY <1>3, <2>1
<1>5. QED BY <1>1, <1>3, <1>4 DEF ReadersInv

LEMMA ReadersStepChain == [ReadersNext]_readerVars => [Next]_vars
BY DEF ReadersNext, readerVars, vars, ChainStep, Fill, Encode, CopyWord, ReadWord, Steps

\* A verifier writes what the array says already.
LEMMA FillChangesNothing ==
  ASSUME ChainInv, ReadersInv, NEW r \in Verifiers, Fill(r)
  PROVE  names' = names /\ got' = got /\ UNCHANGED vars
         /\ Total \in Nat /\ step[r] < Total /\ step' = [step EXCEPT ![r] = @ + 1]
<1>1. PICK k \in 1..(2 * MaxEvents) :
        /\ Steps(r, 0, k) /\ got' = got
        /\ names' = [names EXCEPT ![Position(k)][Word(k)] = trail[Position(k)].type]
  BY DEF Fill
<1>2. /\ Readable /\ k = step[r] + 1 - Total * 0 /\ k \in 1..Total
      /\ step' = [step EXCEPT ![r] = @ + 1] /\ UNCHANGED vars
  BY <1>1 DEF Steps
<1>3. /\ Len(trail) \in Nat /\ DOMAIN trail = 1..Len(trail) /\ names = TypesOf(trail)
  BY <1>2, ReadableTrail
<1>4. Position(k) \in 1..Len(trail) /\ Word(k) \in Words
  BY <1>2, <1>3, PositionIsEvent
<1>5. names[Position(k)][Word(k)] = trail[Position(k)].type
  BY <1>3, <1>4 DEF TypesOf
<1>6. names' = names
  BY <1>1, <1>3, <1>4, <1>5 DEF TypesOf
<1>7. Total \in Nat /\ step[r] \in Nat
  BY <1>3 DEF Total, ReadersInv, Requests
<1>8. step[r] < Total
  BY <1>2, <1>7
<1>9. QED BY <1>1, <1>2, <1>6, <1>7, <1>8

\* A word that is read is the word of the event at that place.
LEMMA ReadWordKeeps ==
  ASSUME ChainInv, ReadersInv, NEW r \in Requests, NEW part \in {0, 1}, ReadWord(r, part),
         part = IF r \in Viewers THEN 0 ELSE 1
  PROVE  ReadersInv'
<1>1. PICK k \in 1..(2 * MaxEvents) :
        /\ Steps(r, part, k) /\ names' = names
        /\ got' = [got EXCEPT ![r] = Append(@, names[Position(k)][Word(k)])]
  BY DEF ReadWord
<1>2. /\ Readable /\ k = step[r] + 1 - Total * part /\ k \in 1..Total
      /\ step' = [step EXCEPT ![r] = @ + 1] /\ UNCHANGED vars
  BY <1>1 DEF Steps
<1>3. /\ Len(trail) \in Nat /\ DOMAIN trail = 1..Len(trail) /\ names = TypesOf(trail)
  BY <1>2, ReadableTrail
<1>4. Position(k) \in 1..Len(trail) /\ Word(k) \in Words
  BY <1>2, <1>3, PositionIsEvent
<1>5. names[Position(k)][Word(k)] = trail[Position(k)].type
  BY <1>3, <1>4 DEF TypesOf
<1>6. /\ Total \in Nat /\ step \in [Requests -> Nat] /\ step[r] \in Nat
      /\ Total' = Total /\ trail' = trail /\ audit' = audit
  BY <1>2, <1>3 DEF Total, ReadersInv, vars
<1>7. WordsRead(r) = k - 1 /\ WordsRead(r)' = k /\ k \in Nat
  BY <1>2, <1>6 DEF WordsRead
<1>8. got'[r] = [j \in 1..k |-> trail[Position(j)].type]
  <2> DEFINE W == {trail[Position(j)].type : j \in 1..k}
  <2>1. got[r] = [j \in 1..(k - 1) |-> trail[Position(j)].type]
    BY <1>7 DEF ReadersInv
  <2>2. got[r] \in [1..(k - 1) -> W] /\ trail[Position(k)].type \in W
    BY <1>7, <2>1
  <2>3. got[r] \in Seq(W) /\ Len(got[r]) = k - 1
    <3> HIDE DEF W
    <3>1. k - 1 \in Nat
      BY <1>2
    <3>2. QED BY <2>2, <3>1
  <2>4. got'[r] = Append(got[r], trail[Position(k)].type)
    BY <1>1, <1>5 DEF ReadersInv
  <2>5. /\ DOMAIN got'[r] = 1..k /\ got'[r] = [j \in 1..k |-> got'[r][j]]
        /\ \A j \in 1..k : got'[r][j] = trail[Position(j)].type
    <3> HIDE DEF W
    <3>1. got'[r] \in Seq(W) /\ Len(got'[r]) = k
      BY <1>7, <2>2, <2>3, <2>4
    <3>2. QED BY <1>7, <2>1, <2>3, <2>4, <3>1
  <2>6. QED BY <2>5
<1>9. \A q \in Requests : q # r => got'[q] = got[q] /\ WordsRead(q)' = WordsRead(q)
  BY <1>1, <1>2, <1>6 DEF WordsRead, ReadersInv
<1>10. step' \in [Requests -> Nat] /\ DOMAIN got' = Requests /\ r \in Requests
  BY <1>1, <1>2, <1>6 DEF ReadersInv
<1>11. \A q \in Requests :
         got'[q] = [j \in 1..WordsRead(q)' |-> trail[Position(j)].type]
  BY <1>7, <1>8, <1>9 DEF ReadersInv
<1>12. QED BY <1>1, <1>3, <1>6, <1>10, <1>11 DEF ReadersInv, Position

LEMMA ReadersStepKeeps == ChainInv /\ ReadersInv /\ [ReadersNext]_readerVars => ReadersInv'
<1> SUFFICES ASSUME ChainInv, ReadersInv, [ReadersNext]_readerVars PROVE ReadersInv'
  OBVIOUS
<1>1. CASE ChainStep
  <2>1. step' \in [Requests -> Nat] /\ DOMAIN got' = Requests
        /\ \A r \in Requests : step'[r] = 0 /\ got'[r] = <<>>
    BY <1>1 DEF ChainStep, ForAll, Requests
  <2>2. \A r \in Requests : WordsRead(r)' = 0
    BY <2>1 DEF WordsRead
  <2>3. audit' # NotClosed => names' = TypesOf(trail)'
    BY <1>1 DEF ChainStep, TypesOf
  <2>4. QED BY <2>1, <2>2, <2>3, NothingRead DEF ReadersInv
<1>2. ASSUME NEW r \in Verifiers, Fill(r) PROVE ReadersInv'
  <2>1. names' = names /\ got' = got /\ UNCHANGED vars
        /\ Total \in Nat /\ step[r] < Total /\ step' = [step EXCEPT ![r] = @ + 1]
    BY <1>2, FillChangesNothing
  <2>2. Total' = Total /\ trail' = trail /\ audit' = audit
    BY <2>1 DEF Total, vars
  <2>3. r \in Requests /\ r \notin Viewers /\ step \in [Requests -> Nat]
    BY ReaderAssumption DEF Requests, ReadersInv
  <2>4. step' \in [Requests -> Nat] /\ \A q \in Requests : WordsRead(q)' = WordsRead(q)
    BY <2>1, <2>2, <2>3 DEF WordsRead
  <2>5. QED BY <2>1, <2>2, <2>4 DEF ReadersInv, TypesOf, Position
<1>3. ASSUME NEW r \in Verifiers, Encode(r) PROVE ReadersInv'
  BY <1>3, ReadWordKeeps, ReaderAssumption DEF Encode, Requests
<1>4. ASSUME NEW r \in Viewers, CopyWord(r) PROVE ReadersInv'
  BY <1>4, ReadWordKeeps DEF CopyWord, Requests
<1>5. CASE UNCHANGED readerVars
  BY <1>5 DEF readerVars, ReadersInv, WordsRead, Total, TypesOf, Position
<1>6. QED BY <1>1, <1>2, <1>3, <1>4, <1>5 DEF ReadersNext

\* The readers add nothing to the life of the chain.
THEOREM ReadersKeepChain == ReadersSpec => Spec
<1>1. ReadersInit => Init
  BY DEF ReadersInit
<1>2. QED BY <1>1, ReadersStepChain, PTL DEF ReadersSpec, Spec

\* Requests that share the array of a closed task read whole names, and those of the events
\* they stand for: VerifyAudit empties the slice and fills it again with what is there.
THEOREM SharedNamesAreWhole == ReadersSpec => []NamesAreWhole
<1>1. ReadersInit => ChainInv /\ ReadersInv
  BY InitReaders
<1>2. ChainInv /\ ReadersInv /\ [ReadersNext]_readerVars => (ChainInv /\ ReadersInv)'
  BY ReadersStepChain, ReadersStepKeeps, ChainStepKeeps
<1>3. ReadersInv => NamesAreWhole
  BY DEF ReadersInv, NamesAreWhole, Requests
<1>4. QED BY <1>1, <1>2, <1>3, PTL DEF ReadersSpec
=============================================================================
