---------------------------- MODULE SnapshotProofs ----------------------------
(***************************************************************************)
(* Proofs about SnapshotCommit and PowerLoss, for any sets of sections.    *)
(* The first part is about a store that has a snapshot with a keyed        *)
(* creation: no section is ever there in part, and the store implements    *)
(* DurableSections on a machine that may lose power.  What this rests on   *)
(* is that its plain idempotency map is never empty, so that encoding and  *)
(* decoding change nothing and no section can panic.  The second part      *)
(* holds for a new store as well: what was answered with success is        *)
(* stored, as long as the machine has power.                               *)
(***************************************************************************)
EXTENDS PowerLoss, TLAPS

Used == Earlier # NoFile

Stages == {"idle", "changed", "written", "renamed", "down"}
UnderWay == {"changed", "written", "renamed"}

\* The snapshots of a used store: no part of them is nil, and no section is there in part.
Good(d) == /\ d \in [Parts -> SUBSET Sections]
           /\ d["idempotency"] # {}
           /\ Whole(d)

\* The data, the copy and the files agree as the stage says, and exactly the caller of the
\* section under way is waiting.
Agreement ==
  /\ Good(data) /\ (file = Partial \/ Good(file))
  /\ before \in Snapshots /\ temp \in Snapshots \cup {NoFile, Partial}
  /\ stage \in Stages /\ section \in Sections
  /\ answers \in [Sections -> Promise!Answers]
  /\ file = Partial => stage = "down"
  /\ stage \in {"idle", "renamed"} => data = file
  /\ stage \in {"changed", "written"} =>
       /\ before = file /\ section \notin file["entities"]
       /\ data = Write(file, section, PartsOf(section))
  /\ stage = "written" => temp = data
  /\ stage = "renamed" => section \in file["entities"]
  /\ \A s \in Sections : answers[s] = "pending" <=> stage \in UnderWay /\ s = section

\* What the name may lead to lies between what has settled and what was renamed last, or is
\* damaged, and damaged only if something was renamed that has not settled.
DiskIsBetween ==
  /\ Good(flushed) /\ file \in onDisk
  /\ \A f \in onDisk : f = Partial \/ (Good(f) /\ flushed["entities"] \subseteq f["entities"])
  /\ IF file = Partial THEN onDisk = {Partial}
     ELSE /\ \A f \in onDisk \ {Partial} : f["entities"] \subseteq file["entities"]
          /\ Partial \in onDisk => flushed["entities"] # file["entities"]

PInv == Agreement /\ DiskIsBetween

(***************************************************************************)
(* The conversions and the change of one section.                          *)
(***************************************************************************)
LEMMA GoodFacts ==
  ASSUME NEW d, Good(d)
  PROVE  /\ d \in Snapshots /\ d # NoFile /\ d # Partial
         /\ Encode(d) = d /\ InitMaps(d) = d /\ Held(d) = d["entities"]
         /\ \A p \in Parts : d[p] # Nil
<1>1. d \in [Parts -> SUBSET Sections] /\ d["idempotency"] # {}
  BY DEF Good
<1>2. d \in Snapshots
  BY <1>1 DEF Snapshots
<1>3. d # NoFile /\ d # Partial
  BY <1>2, SnapshotAssumption
<1>4. \A p \in Parts : d[p] # Nil
  BY <1>1, SnapshotAssumption DEF Nil
<1>5. Encode(d) = d
  BY <1>1 DEF Encode
<1>6. InitMaps(d) = d
  BY <1>1, <1>4 DEF InitMaps
<1>7. Held(d) = d["entities"]
  BY <1>3 DEF Held
<1>8. QED BY <1>2, <1>3, <1>4, <1>5, <1>6, <1>7

LEMMA WriteIsGood ==
  ASSUME NEW d, Good(d), NEW s \in Sections, s \notin d["entities"]
  PROVE  /\ Good(Write(d, s, PartsOf(s)))
         /\ Write(d, s, PartsOf(s))["entities"] = d["entities"] \cup {s}
<1> DEFINE w == Write(d, s, PartsOf(s))
<1>1. d \in [Parts -> SUBSET Sections] /\ d["idempotency"] # {} /\ Whole(d)
  BY DEF Good
<1>2. "entities" \in PartsOf(s) /\ PartsOf(s) \subseteq Parts
  BY DEF PartsOf, Parts
<1>3. w = [p \in Parts |-> IF p \in PartsOf(s) THEN d[p] \cup {s} ELSE d[p]]
  BY DEF Write
<1> HIDE DEF w
<1>4. w \in [Parts -> SUBSET Sections] /\ w["entities"] = d["entities"] \cup {s}
  BY <1>1, <1>2, <1>3 DEF Parts
<1>5. w["idempotency"] # {}
  BY <1>1, <1>3 DEF Parts
<1>6. \A p \in Parts : s \notin d[p]
  <2>1. {p \in Parts : s \in d[p]} \in {{}, PartsOf(s)}
    BY <1>1 DEF Whole
  <2>2. "entities" \notin {p \in Parts : s \in d[p]}
    OBVIOUS
  <2>3. {p \in Parts : s \in d[p]} = {}
    BY <1>2, <2>1, <2>2
  <2>4. QED BY <2>3
<1>7. Whole(w)
  <2> SUFFICES ASSUME NEW u \in Sections
               PROVE  {p \in Parts : u \in w[p]} \in {{}, PartsOf(u)}
    BY DEF Whole
  <2>1. CASE u = s
    <3>1. {p \in Parts : u \in w[p]} = PartsOf(s)
      BY <1>2, <1>3, <1>6, <2>1
    <3>2. QED BY <2>1, <3>1
  <2>2. CASE u # s
    <3>1. {p \in Parts : u \in w[p]} = {p \in Parts : u \in d[p]}
      BY <1>3, <2>2
    <3>2. QED BY <1>1, <3>1 DEF Whole
  <2>3. QED BY <2>1, <2>2
<1>8. QED BY <1>4, <1>5, <1>7 DEF Good, w

\* A good snapshot holds a section in all the parts it writes if it holds its entity.
LEMMA HeldWhole ==
  ASSUME NEW d, Good(d), NEW s \in Sections, NEW q \in Parts, s \in d[q]
  PROVE  s \in d["entities"]
<1>1. {p \in Parts : s \in d[p]} \in {{}, PartsOf(s)}
  BY DEF Good, Whole
<1>2. q \in {p \in Parts : s \in d[p]}
  OBVIOUS
<1>3. {p \in Parts : s \in d[p]} = PartsOf(s)
  BY <1>1, <1>2
<1>4. "entities" \in PartsOf(s)
  BY DEF PartsOf, Parts
<1>5. QED BY <1>3, <1>4

(***************************************************************************)
(* The invariant.                                                          *)
(***************************************************************************)
LEMMA InitPInv == Used /\ PowerInit => PInv
<1> SUFFICES ASSUME Used, PowerInit PROVE PInv
  OBVIOUS
<1>1. PICK c \in (SUBSET Creations) \ {{}} : Earlier = [p \in Parts |-> c]
  BY EarlierAssumption DEF Used
<1>2. Whole(Earlier)
  <2> SUFFICES ASSUME NEW s \in Sections
               PROVE  {p \in Parts : s \in Earlier[p]} \in {{}, PartsOf(s)}
    BY DEF Whole
  <2>1. CASE s \in c
    <3>1. PartsOf(s) = Parts
      BY <2>1, SnapshotAssumption DEF PartsOf
    <3>2. {p \in Parts : s \in Earlier[p]} = Parts
      BY <1>1, <2>1
    <3>3. QED BY <3>1, <3>2
  <2>2. CASE s \notin c
    <3>1. {p \in Parts : s \in Earlier[p]} = {}
      BY <1>1, <2>2
    <3>2. QED BY <3>1
  <2>3. QED BY <2>1, <2>2
<1>3. Good(Earlier)
  BY <1>1, <1>2 DEF Good, Parts, Sections
<1>4. file = Earlier /\ flushed = Earlier /\ onDisk = {Earlier} /\ temp = NoFile
      /\ data = Earlier /\ before = EmptySnapshot /\ stage = "idle"
      /\ answers = [s \in Sections |-> "none"]
  BY <1>3, GoodFacts DEF PowerInit, Init, Load
<1>5. section \in Sections
  <2>1. Sections # {}
    BY <1>1 DEF Sections
  <2>2. QED BY <2>1 DEF PowerInit, Init
<1>6. before \in Snapshots
  BY <1>4 DEF EmptySnapshot, Snapshots
<1>7. Agreement
  BY <1>3, <1>4, <1>5, <1>6, GoodFacts DEF Agreement, Stages, UnderWay, Promise!Answers
<1>8. DiskIsBetween
  BY <1>3, <1>4, GoodFacts DEF DiskIsBetween
<1>9. QED BY <1>7, <1>8 DEF PInv

\* Under the invariant every step is one of these; in a used store no section panics.
LEMMA CommitCases ==
  ASSUME PInv, Next
  PROVE  \/ \E s \in Sections : Replay(s) \/ Refuse(s) \/ Change(s)
         \/ WriteTemp \/ RenameTemp \/ FailToWrite \/ FailToRename \/ Log \/ Crash \/ Start
<1>1. \A s \in Sections : ~Panic(s)
  BY GoodFacts DEF PInv, Agreement, Panic, Parts
<1>2. QED BY <1>1 DEF Next

\* A call that is answered without a change: the section is stored.
LEMMA AnsweringStep ==
  ASSUME PInv, NEW s \in Sections, Replay(s) \/ Refuse(s)
  PROVE  /\ Agreement' /\ file' = file
         /\ s \in file["entities"] /\ file # Partial
         /\ Answer(s, "ok") \/ Answer(s, "refused")
<1>1. /\ stage = "idle" /\ data = file /\ file # Partial /\ Good(file)
      /\ UNCHANGED <<data, before, temp, file, stage, section>>
      /\ Answer(s, "ok") \/ Answer(s, "refused")
  BY DEF PInv, Agreement, Replay, Refuse
<1>2. s \in file["entities"]
  BY <1>1, HeldWhole DEF Replay, Refuse, Parts
<1>3. /\ answers' \in [Sections -> Promise!Answers]
      /\ \A u \in Sections : answers'[u] # "pending"
  BY <1>1 DEF PInv, Agreement, Answer, Promise!Answers, UnderWay
<1>4. Agreement'
  BY <1>1, <1>3 DEF PInv, Agreement, UnderWay, Good, Whole
<1>5. QED BY <1>1, <1>2, <1>4

LEMMA ChangeStep ==
  ASSUME PInv, NEW s \in Sections, Change(s)
  PROVE  /\ Agreement' /\ file' = file
         /\ s \notin file["entities"] /\ file # Partial /\ Answer(s, "pending")
<1>1. /\ stage = "idle" /\ data = file /\ file # Partial /\ Good(file)
      /\ s \notin file["entities"]
      /\ before' = Encode(data) /\ data' = Write(data, s, PartsOf(s))
      /\ stage' = "changed" /\ section' = s /\ Answer(s, "pending")
      /\ UNCHANGED <<temp, file>>
  BY DEF PInv, Agreement, Change, Copy
<1>2. before' = file /\ before' \in Snapshots
  BY <1>1, GoodFacts
<1>3. Good(data')
  BY <1>1, WriteIsGood
<1>4. /\ answers' \in [Sections -> Promise!Answers]
      /\ \A u \in Sections : answers'[u] = "pending" <=> u = s
  BY <1>1 DEF PInv, Agreement, Answer, Promise!Answers, UnderWay
<1>5. Agreement'
  BY <1>1, <1>2, <1>3, <1>4 DEF PInv, Agreement, UnderWay, Stages, Good, Whole
<1>6. QED BY <1>1, <1>5

LEMMA WriteTempStep ==
  ASSUME PInv, WriteTemp
  PROVE  Agreement' /\ file' = file /\ answers' = answers
<1>1. /\ stage = "changed" /\ temp' = Encode(data) /\ stage' = "written"
      /\ UNCHANGED <<data, before, file, section, answers>>
  BY DEF WriteTemp
<1>2. temp' = data /\ temp' \in Snapshots
  BY <1>1, GoodFacts DEF PInv, Agreement
<1>3. Agreement'
  BY <1>1, <1>2 DEF PInv, Agreement, UnderWay, Stages, Good, Whole
<1>4. QED BY <1>1, <1>3

LEMMA RenameStep ==
  ASSUME PInv, RenameTemp
  PROVE  /\ Agreement' /\ answers' = answers /\ file # Partial /\ Good(file')
         /\ answers[section] = "pending" /\ section \notin file["entities"]
         /\ file'["entities"] = file["entities"] \cup {section}
<1>1. /\ stage = "written" /\ file' = temp /\ temp' = NoFile /\ stage' = "renamed"
      /\ UNCHANGED <<data, before, section, answers>>
  BY DEF RenameTemp
<1>2. /\ Good(data) /\ Good(file) /\ file # Partial /\ temp = data
      /\ section \in Sections /\ section \notin file["entities"]
      /\ data = Write(file, section, PartsOf(section))
      /\ answers[section] = "pending"
  BY <1>1 DEF PInv, Agreement, UnderWay
<1>3. data["entities"] = file["entities"] \cup {section}
  BY <1>2, WriteIsGood
<1>4. file' = data /\ file' # Partial
  BY <1>1, <1>2, GoodFacts
<1>5. Agreement'
  BY <1>1, <1>2, <1>3, <1>4 DEF PInv, Agreement, UnderWay, Stages, Good, Whole
<1>6. QED BY <1>1, <1>2, <1>3, <1>4, <1>5

LEMMA FailStep ==
  ASSUME PInv, FailToWrite \/ FailToRename
  PROVE  /\ Agreement' /\ file' = file /\ file # Partial
         /\ section \in Sections /\ section \notin file["entities"]
         /\ answers[section] = "pending" /\ Answer(section, "error")
<1>1. /\ stage \in {"changed", "written"} /\ data' = before /\ stage' = "idle"
      /\ Answer(section, "error") /\ UNCHANGED <<before, section, file>>
      /\ temp' \in {temp, Partial}
  BY DEF FailToWrite, FailToRename, Rollback
<1>2. /\ before = file /\ file # Partial /\ Good(file)
      /\ section \in Sections /\ section \notin file["entities"]
      /\ answers[section] = "pending"
  BY <1>1 DEF PInv, Agreement, UnderWay
<1>3. /\ answers' \in [Sections -> Promise!Answers]
      /\ \A u \in Sections : answers'[u] # "pending"
  BY <1>1, <1>2 DEF PInv, Agreement, Answer, Promise!Answers
<1>4. Agreement'
  BY <1>1, <1>2, <1>3 DEF PInv, Agreement, UnderWay, Stages, Good, Whole
<1>5. QED BY <1>1, <1>2, <1>4

LEMMA LogStep ==
  ASSUME PInv, Log
  PROVE  /\ Agreement' /\ file' = file /\ file # Partial
         /\ section \in Sections /\ section \in file["entities"] /\ Answer(section, "ok")
<1>1. /\ stage = "renamed" /\ stage' = "idle" /\ Answer(section, "ok")
      /\ UNCHANGED <<data, before, temp, file, section>>
  BY DEF Log, Succeed
<1>2. /\ data = file /\ file # Partial /\ section \in Sections
      /\ section \in file["entities"]
  BY <1>1 DEF PInv, Agreement
<1>3. /\ answers' \in [Sections -> Promise!Answers]
      /\ \A u \in Sections : answers'[u] # "pending"
  BY <1>1 DEF PInv, Agreement, Answer, Promise!Answers
<1>4. Agreement'
  BY <1>1, <1>2, <1>3 DEF PInv, Agreement, UnderWay, Stages, Good, Whole
<1>5. QED BY <1>1, <1>2, <1>4

LEMMA CrashStep ==
  ASSUME PInv, Crash
  PROVE  /\ Agreement' /\ file' = file
         /\ \/ answers' = answers
            \/ /\ section \in Sections /\ answers[section] = "pending"
               /\ Answer(section, "dropped")
<1>1. /\ stage # "down" /\ stage' = "down" /\ temp' \in {temp, Partial}
      /\ IF stage = "idle" THEN answers' = answers ELSE Answer(section, "dropped")
      /\ UNCHANGED <<data, before, file, section>>
  BY DEF Crash
<1>2. section \in Sections /\ (stage # "idle" => answers[section] = "pending")
  BY <1>1 DEF PInv, Agreement, UnderWay, Stages
<1>3. /\ answers' \in [Sections -> Promise!Answers]
      /\ \A u \in Sections : answers'[u] # "pending"
  BY <1>1, <1>2 DEF PInv, Agreement, Answer, Promise!Answers, UnderWay, Stages
<1>4. Agreement'
  BY <1>1, <1>3 DEF PInv, Agreement, UnderWay, Stages, Good, Whole
<1>5. QED BY <1>1, <1>2, <1>4

LEMMA StartStep ==
  ASSUME PInv, Start
  PROVE  Agreement' /\ file' = file /\ answers' = answers
<1>1. /\ stage = "down" /\ stage' = "idle" /\ file # Partial /\ data' = Load
      /\ UNCHANGED <<before, temp, file, section, answers>>
  BY DEF Start
<1>2. Good(file) /\ data' = file
  BY <1>1, GoodFacts DEF PInv, Agreement, Load
<1>3. Agreement'
  BY <1>1, <1>2 DEF PInv, Agreement, UnderWay, Stages, Good, Whole
<1>4. QED BY <1>1, <1>3

(***************************************************************************)
(* The machine.                                                            *)
(***************************************************************************)
LEMMA CommitAgreement ==
  ASSUME PInv, Next
  PROVE  /\ Agreement'
         /\ \/ file' = file
            \/ /\ file # Partial /\ Good(file')
               /\ file["entities"] \subseteq file'["entities"]
               /\ file["entities"] # file'["entities"]
<1>1. CASE RenameTemp
  BY <1>1, RenameStep
<1>2. CASE ~RenameTemp
  BY <1>2, CommitCases, AnsweringStep, ChangeStep, WriteTempStep, FailStep, LogStep,
     CrashStep, StartStep
<1>3. QED BY <1>1, <1>2

LEMMA CommitPInv == PInv /\ CommitStep => PInv'
<1> SUFFICES ASSUME PInv, CommitStep PROVE PInv'
  OBVIOUS
<1>1. Next /\ flushed' = flushed
      /\ onDisk' = IF file' = file THEN onDisk ELSE onDisk \cup {file', Partial}
  BY DEF CommitStep
<1>2. DiskIsBetween /\ (file = Partial \/ Good(file))
  BY DEF PInv, Agreement
<1>3. CASE file' = file
  <2>1. DiskIsBetween'
    BY <1>1, <1>2, <1>3 DEF DiskIsBetween, Good, Whole
  <2>2. QED BY <1>1, <2>1, CommitAgreement DEF PInv
<1>4. CASE file' # file
  <2>1. /\ Agreement' /\ file # Partial /\ Good(file')
        /\ file["entities"] \subseteq file'["entities"]
        /\ file["entities"] # file'["entities"]
    BY <1>1, <1>4, CommitAgreement
  <2>2. onDisk' = onDisk \cup {file', Partial} /\ file' # Partial
    BY <1>1, <1>4, <2>1, GoodFacts
  <2>3. \A f \in onDisk \ {Partial} :
          /\ Good(f) /\ flushed["entities"] \subseteq f["entities"]
          /\ f["entities"] \subseteq file'["entities"]
    BY <1>2, <2>1 DEF DiskIsBetween
  <2>4. file \in onDisk \ {Partial}
    BY <1>2, <2>1 DEF DiskIsBetween
  <2>5. flushed["entities"] \subseteq file'["entities"] /\ flushed["entities"] # file'["entities"]
    BY <2>1, <2>3, <2>4
  <2>6. Good(flushed)'
    BY <1>1, <1>2 DEF DiskIsBetween, Good, Whole
  <2>7. DiskIsBetween'
    BY <1>1, <2>1, <2>2, <2>3, <2>5, <2>6 DEF DiskIsBetween, Good, Whole
  <2>8. QED BY <2>1, <2>7 DEF PInv
<1>5. QED BY <1>3, <1>4

LEMMA WriteBackPInv == PInv /\ WriteBack => PInv'
<1> SUFFICES ASSUME PInv, WriteBack PROVE PInv'
  OBVIOUS
<1>1. file # Partial /\ onDisk' = {file} /\ flushed' = file /\ UNCHANGED vars
  BY DEF WriteBack
<1>2. Agreement'
  BY <1>1 DEF PInv, Agreement, vars, Good, Whole
<1>3. DiskIsBetween'
  BY <1>1 DEF PInv, Agreement, DiskIsBetween, vars, Good, Whole
<1>4. QED BY <1>2, <1>3 DEF PInv

\* After a loss of power the file is one of those that may be found, and nobody waits.
LEMMA LosePowerStep ==
  ASSUME PInv, LosePower
  PROVE  /\ PInv'
         /\ \E f \in onDisk : /\ file' = f
                              /\ flushed' = IF f = Partial THEN flushed ELSE f
         /\ answers' = [s \in Sections |->
                          IF answers[s] = "pending" THEN "dropped" ELSE answers[s]]
<1>1. PICK f \in onDisk :
        /\ file' = f /\ onDisk' = {f}
        /\ flushed' = IF f = Partial THEN flushed ELSE f
        /\ stage' = "down" /\ temp' \in {temp, Partial, NoFile}
        /\ IF stage \in {"idle", "down"} THEN answers' = answers
           ELSE Answer(section, "dropped")
        /\ UNCHANGED <<data, before, section>>
  BY DEF LosePower
<1>2. f = Partial \/ Good(f)
  BY DEF PInv, DiskIsBetween
<1>3. answers' = [s \in Sections |->
                    IF answers[s] = "pending" THEN "dropped" ELSE answers[s]]
  BY <1>1 DEF PInv, Agreement, Answer, UnderWay, Stages
<1>4. /\ answers' \in [Sections -> Promise!Answers]
      /\ \A s \in Sections : answers'[s] # "pending"
  BY <1>3 DEF PInv, Agreement, Promise!Answers
<1>5. Agreement'
  BY <1>1, <1>2, <1>4 DEF PInv, Agreement, UnderWay, Stages, Good, Whole
<1>6. DiskIsBetween'
  <2>1. CASE f = Partial
    BY <1>1, <2>1 DEF PInv, DiskIsBetween, Good, Whole
  <2>2. CASE f # Partial
    BY <1>1, <1>2, <2>2 DEF DiskIsBetween, Good, Whole
  <2>3. QED BY <2>1, <2>2
<1>7. QED BY <1>1, <1>3, <1>5, <1>6 DEF PInv

LEMMA PInvStep == PInv /\ [PowerNext]_powerVars => PInv'
<1> SUFFICES ASSUME PInv, [PowerNext]_powerVars PROVE PInv'
  OBVIOUS
<1>1. CASE UNCHANGED powerVars
  BY <1>1 DEF powerVars, PInv, Agreement, DiskIsBetween, Good, Whole
<1>2. QED BY <1>1, CommitPInv, WriteBackPInv, LosePowerStep DEF PowerNext

LEMMA PInvariance == Used /\ PowerSpec => []PInv
<1>1. Used /\ PowerInit => PInv
  BY InitPInv
<1>2. PInv /\ [PowerNext]_powerVars => PInv'
  BY PInvStep
<1>3. QED BY <1>1, <1>2, PTL DEF PowerSpec

\* The data, the copy and the files of a used store stay snapshots, and a process only runs
\* on one it could decode (New, cloneSnapshotLocked, persistLocked).
THEOREM SnapshotTypes == Used /\ PowerSpec => []TypeOK
<1>1. PInv => TypeOK
  BY GoodFacts DEF PInv, Agreement, TypeOK, Stages, Promise!Answers
<1>2. QED BY <1>1, PInvariance, PTL

\* A used store never shows or keeps a section in part (commitLocked with its rollback).
THEOREM NothingIsHalf == Used /\ PowerSpec => []NothingHalf
<1>1. PInv => NothingHalf
  BY DEF PInv, Agreement, NothingHalf, Good
<1>2. QED BY <1>1, PInvariance, PTL

\* Whenever a used store is free, what it shows is what a restart would load.
THEOREM MemoryMatchesFile == Used /\ PowerSpec => []MemoryIsSaved
<1>1. PInv => MemoryIsSaved
  BY GoodFacts DEF PInv, Agreement, MemoryIsSaved, Load
<1>2. QED BY <1>1, PInvariance, PTL

(***************************************************************************)
(* The store implements DurableSections.                                   *)
(***************************************************************************)
LEMMA StoredFacts ==
  ASSUME PInv
  PROVE  /\ Held(flushed) = flushed["entities"]
         /\ file # Partial => Stored(file) = file["entities"] /\ Settled = flushed["entities"]
         /\ file = Partial => Stored(file) = {} /\ Settled = {}
BY GoodFacts DEF PInv, Agreement, DiskIsBetween, Stored, Settled

\* A step of a running process leaves the file decodable and what has settled as it was.
LEMMA CommitKeepsSettled ==
  ASSUME PInv, CommitStep
  PROVE  /\ (file' = Partial) = (file = Partial)
         /\ Settled' = Settled
         /\ file' = file => Stored(file)' = Stored(file)
<1>1. Next /\ flushed' = flushed
  BY DEF CommitStep
<1>2. file' = file \/ (file # Partial /\ Good(file'))
  BY <1>1, CommitAgreement
<1>3. (file' = Partial) = (file = Partial)
  BY <1>2, GoodFacts
<1>4. QED BY <1>1, <1>3 DEF Settled, Stored, Held

LEMMA CommitPromise ==
  ASSUME PInv, PInv', CommitStep
  PROVE  Promise!Next \/ UNCHANGED Promise!durable
<1> DEFINE Kept == /\ Settled' = Settled /\ (file' = Partial) = (file = Partial)
<1>1. Next /\ Kept
  BY CommitKeepsSettled DEF CommitStep
<1>2. file' = file => Stored(file)' = Stored(file)
  BY CommitKeepsSettled
<1>3. ASSUME NEW s \in Sections, Replay(s) \/ Refuse(s)
      PROVE  Promise!Confirm(s) /\ file # Partial
  BY <1>1, <1>2, <1>3, AnsweringStep, StoredFacts
     DEF Promise!Confirm, Promise!Tell, Answer
<1>4. ASSUME NEW s \in Sections, Change(s)
      PROVE  Promise!Ask(s) /\ file # Partial
  BY <1>1, <1>2, <1>4, ChangeStep, StoredFacts DEF Promise!Ask, Promise!Tell, Answer
<1>5. CASE WriteTemp \/ Start
  BY <1>1, <1>2, <1>5, WriteTempStep, StartStep DEF Promise!durable
<1>6. CASE RenameTemp
  <2>1. /\ answers' = answers /\ answers[section] = "pending" /\ section \in Sections
        /\ section \notin file["entities"] /\ file # Partial
        /\ file'["entities"] = file["entities"] \cup {section}
    BY <1>6, RenameStep DEF PInv, Agreement
  <2>2. file' # Partial /\ Held(file') = file'["entities"]
    BY <1>6, RenameStep, GoodFacts
  <2>3. Stored(file) = file["entities"] /\ Stored(file)' = file'["entities"]
    BY <2>1, <2>2, StoredFacts DEF Stored
  <2>4. Promise!Store(section)
    BY <1>1, <2>1, <2>3 DEF Promise!Store
  <2>5. QED BY <2>1, <2>4 DEF Promise!Next
<1>7. CASE FailToWrite \/ FailToRename
  <2>1. Promise!Fail(section) /\ section \in Sections /\ file # Partial
    BY <1>1, <1>2, <1>7, FailStep, StoredFacts DEF Promise!Fail, Promise!Tell, Answer
  <2>2. QED BY <2>1 DEF Promise!Next
<1>8. CASE Log
  <2>1. Promise!Confirm(section) /\ section \in Sections /\ file # Partial
    BY <1>1, <1>2, <1>8, LogStep, StoredFacts DEF Promise!Confirm, Promise!Tell, Answer
  <2>2. QED BY <2>1 DEF Promise!Next
<1>9. CASE Crash
  <2>1. CASE answers' = answers
    BY <1>1, <1>2, <1>9, <2>1, CrashStep DEF Promise!durable
  <2>2. CASE answers' # answers
    <3>1. Promise!Lose(section) /\ section \in Sections
      BY <1>1, <1>2, <1>9, <2>2, CrashStep DEF Promise!Lose, Promise!Tell, Answer
    <3>2. file # Partial
      BY <1>9 DEF PInv, Agreement, Crash
    <3>3. QED BY <3>1, <3>2 DEF Promise!Next
  <2>3. QED BY <2>1, <2>2
<1>10. QED
  BY <1>1, <1>3, <1>4, <1>5, <1>6, <1>7, <1>8, <1>9, CommitCases DEF Promise!Next

\* What a loss of power costs: nothing that has settled, unless there is more than that.
LEMMA LosePowerPromise ==
  ASSUME PInv, LosePower
  PROVE  Promise!Next \/ UNCHANGED Promise!durable
<1>1. PICK f \in onDisk : file' = f /\ flushed' = IF f = Partial THEN flushed ELSE f
  BY LosePowerStep
<1>2. answers' = [s \in Sections |->
                    IF answers[s] = "pending" THEN "dropped" ELSE answers[s]]
  BY LosePowerStep
<1>3. CASE file = Partial
  <2>1. f = Partial
    BY <1>3 DEF PInv, DiskIsBetween
  <2>2. answers' = answers
    BY <1>2, <1>3 DEF PInv, Agreement, UnderWay
  <2>3. Settled' = Settled /\ Stored(file)' = Stored(file)
    BY <1>1, <1>3, <2>1 DEF Settled, Stored
  <2>4. QED BY <1>1, <1>3, <2>1, <2>2, <2>3 DEF Promise!durable
<1>4. CASE file # Partial /\ f = Partial
  <2>1. Settled = flushed["entities"] /\ Stored(file) = file["entities"]
    BY <1>4, StoredFacts
  <2>2. flushed["entities"] # file["entities"]
    BY <1>4 DEF PInv, DiskIsBetween
  <2>3. Settled' = {} /\ Stored(file)' = {} /\ (file' = Partial) = TRUE
    BY <1>1, <1>4 DEF Settled, Stored
  <2>4. Promise!Ruin
    BY <1>2, <2>1, <2>2, <2>3 DEF Promise!Ruin, Promise!PowerBack
  <2>5. QED BY <1>4, <2>4 DEF Promise!Next
<1>5. CASE file # Partial /\ f # Partial
  <2>1. flushed' = f /\ file' = f /\ Good(f) /\ flushed["entities"] \subseteq f["entities"]
        /\ f["entities"] \subseteq file["entities"]
    BY <1>1, <1>5 DEF PInv, DiskIsBetween
  <2>2. Settled' = f["entities"] /\ Stored(file)' = f["entities"]
        /\ (file' = Partial) = (file = Partial)
    BY <1>5, <2>1, GoodFacts DEF Settled, Stored, Held
  <2>3. Promise!LosePower
    BY <1>2, <1>5, <2>1, <2>2, StoredFacts DEF Promise!LosePower, Promise!PowerBack
  <2>4. QED BY <1>5, <2>3 DEF Promise!Next
<1>6. QED BY <1>3, <1>4, <1>5

LEMMA InitPromise == Used /\ PowerInit => Promise!Init
<1> SUFFICES ASSUME Used, PowerInit PROVE Promise!Init
  OBVIOUS
<1>1. file = Earlier /\ flushed = Earlier /\ answers = [s \in Sections |-> "none"]
  BY DEF PowerInit, Init
<1>2. file # Partial
  BY InitPInv, GoodFacts DEF PInv, Agreement, PowerInit, Init
<1>3. QED BY <1>1, <1>2 DEF Promise!Init, Stored, Settled

LEMMA StepPromise ==
  PInv /\ PInv' /\ [PowerNext]_powerVars => [Promise!Next]_(Promise!durable)
<1> SUFFICES ASSUME PInv, PInv', [PowerNext]_powerVars
             PROVE  Promise!Next \/ UNCHANGED Promise!durable
  OBVIOUS
<1>1. CASE UNCHANGED powerVars
  BY <1>1 DEF powerVars, Promise!durable, Stored, Settled, Held
<1>2. CASE CommitStep
  BY <1>2, CommitPromise
<1>3. CASE WriteBack
  <2>1. /\ file # Partial /\ flushed' = file /\ file' = file /\ answers' = answers
    BY <1>3 DEF WriteBack, vars
  <2>2. Promise!Settle
    BY <2>1 DEF Promise!Settle, Stored, Settled, Held
  <2>3. QED BY <2>1, <2>2 DEF Promise!Next
<1>4. CASE LosePower
  BY <1>4, LosePowerPromise
<1>5. QED BY <1>1, <1>2, <1>3, <1>4 DEF PowerNext

\* Whatever the file system, crashes and losses of power do to a used store, it keeps the
\* promise of DurableSections: a section is stored as a whole or not at all, and the answer
\* tells which.  A loss of power takes nothing when all has settled; otherwise it takes some
\* of what has not settled, or ruins the store for good, with what had settled before
\* (commitLocked, persistLocked without a sync, New, which refuses a snapshot in part).
THEOREM StoreKeepsPromise == Used /\ PowerSpec => KeepsPromise
<1>1. Used /\ PowerInit => Promise!Init
  BY InitPromise
<1>2. PInv /\ PInv' /\ [PowerNext]_powerVars => [Promise!Next]_(Promise!durable)
  BY StepPromise
<1>3. QED BY <1>1, <1>2, PInvariance, PTL DEF PowerSpec, KeepsPromise, Promise!Spec

(***************************************************************************)
(* New stores as well: what was answered with success is stored.           *)
(***************************************************************************)
Within(d, e) == \A s \in Sections, p \in Parts : s \in d[p] => s \in e[p]
Recorded(d, s) == s \in Sections /\ s \in d["records"]
WholeRecords(d) == \A s \in Sections : Recorded(d, s) => \A p \in PartsOf(s) : s \in d[p]
InFile(s) == file # NoFile /\ \A p \in PartsOf(s) : s \in file[p]

\* A snapshot of which at most the plain idempotency map is nil and all that has a record
\* is whole: a panic leaves an entity without its record, never a record without its parts.
Sound(d) == /\ d \in [Parts -> (SUBSET Sections) \cup {Nil}]
            /\ \A p \in Parts \ {"idempotency"} : d[p] # Nil
            /\ WholeRecords(d)

AInv ==
  /\ Sound(data) /\ Sound(before) /\ (file = NoFile \/ Sound(file))
  /\ answers \in [Sections -> Promise!Answers]
  /\ stage \in UnderWay => section \in Sections
  /\ stage # "down" /\ file # NoFile => Within(file, data)
  /\ stage \in {"changed", "written"} =>
       /\ file # NoFile => Within(file, before)
       /\ \A s \in Sections : Recorded(before, s) => InFile(s)
  /\ stage = "idle" => \A s \in Sections : Recorded(data, s) => InFile(s)
  /\ stage \in UnderWay => \A p \in PartsOf(section) : section \in data[p]
  /\ stage = "written" => temp = Encode(data)
  /\ stage = "renamed" => file # NoFile /\ Within(data, file)
  /\ AnsweredIsStored

LEMMA SoundIsSnapshot ==
  ASSUME NEW d, Sound(d)
  PROVE  d \in Snapshots /\ d # NoFile /\ d # Partial
<1>1. d \in Snapshots
  BY DEF Sound, Snapshots
<1>2. QED BY <1>1, SnapshotAssumption

\* Encoding and decoding keep every section where it is.
LEMMA ConversionsKeep ==
  ASSUME NEW d, Sound(d)
  PROVE  /\ Sound(Encode(d)) /\ Within(d, Encode(d)) /\ Within(Encode(d), d)
         /\ Sound(InitMaps(d)) /\ Within(d, InitMaps(d)) /\ Within(InitMaps(d), d)
<1>1. /\ d \in [Parts -> (SUBSET Sections) \cup {Nil}] /\ WholeRecords(d)
      /\ \A p \in Parts \ {"idempotency"} : d[p] # Nil
  BY DEF Sound
<1>2. \A s \in Sections : PartsOf(s) \subseteq Parts /\ s \notin Nil
  BY SnapshotAssumption DEF PartsOf, Parts, Nil
<1>3. /\ Encode(d) \in [Parts -> (SUBSET Sections) \cup {Nil}]
      /\ \A p \in Parts \ {"idempotency"} : Encode(d)[p] = d[p]
      /\ Within(d, Encode(d)) /\ Within(Encode(d), d)
  BY <1>1, <1>2 DEF Encode, Within
<1>4. /\ InitMaps(d) \in [Parts -> (SUBSET Sections) \cup {Nil}]
      /\ \A p \in Parts : InitMaps(d)[p] # Nil
      /\ Within(d, InitMaps(d)) /\ Within(InitMaps(d), d)
  BY <1>1, <1>2 DEF InitMaps, Within, Nil
<1>5. "records" \in Parts
  BY DEF Parts
<1>6. WholeRecords(Encode(d))
  BY <1>1, <1>2, <1>3, <1>5 DEF WholeRecords, Recorded, Within
<1>7. WholeRecords(InitMaps(d))
  BY <1>1, <1>2, <1>4, <1>5 DEF WholeRecords, Recorded, Within
<1>8. QED BY <1>1, <1>3, <1>4, <1>6, <1>7 DEF Sound

LEMMA WriteIsSound ==
  ASSUME NEW d, Sound(d), NEW s \in Sections, NEW parts \in SUBSET Parts,
         \A p \in parts : d[p] # Nil, "records" \in parts => PartsOf(s) \subseteq parts
  PROVE  /\ Sound(Write(d, s, parts)) /\ Within(d, Write(d, s, parts))
         /\ \A p \in parts : s \in Write(d, s, parts)[p]
         /\ \A u \in Sections : Recorded(Write(d, s, parts), u) =>
                                  Recorded(d, u) \/ (u = s /\ "records" \in parts)
<1> DEFINE w == Write(d, s, parts)
<1>1. /\ d \in [Parts -> (SUBSET Sections) \cup {Nil}] /\ WholeRecords(d)
      /\ \A p \in Parts \ {"idempotency"} : d[p] # Nil
  BY DEF Sound
<1>2. w = [p \in Parts |-> IF p \in parts THEN d[p] \cup {s} ELSE d[p]]
  BY DEF Write
<1> HIDE DEF w
<1>3. w \in [Parts -> (SUBSET Sections) \cup {Nil}]
  BY <1>1, <1>2
<1>4. \A p \in parts : w[p] = d[p] \cup {s} /\ w[p] # Nil
  <2>1. s # "nil"
    BY SnapshotAssumption
  <2>2. QED BY <1>2, <2>1 DEF Nil
<1>5. \A p \in Parts \ parts : w[p] = d[p]
  BY <1>2
<1>6. \A p \in Parts \ {"idempotency"} : w[p] # Nil
  BY <1>1, <1>4, <1>5
<1>7. Within(d, w)
  BY <1>4, <1>5 DEF Within
<1>8. \A u \in Sections : Recorded(w, u) => Recorded(d, u) \/ (u = s /\ "records" \in parts)
  BY <1>4, <1>5 DEF Recorded, Parts
<1>9. \A u \in Sections : PartsOf(u) \subseteq Parts
  BY DEF PartsOf, Parts
<1>10. WholeRecords(w)
  BY <1>1, <1>4, <1>7, <1>8, <1>9 DEF WholeRecords, Within
<1>11. QED BY <1>3, <1>4, <1>6, <1>7, <1>8, <1>10 DEF Sound, w

LEMMA InitAInv == Init => AInv
<1> SUFFICES ASSUME Init PROVE AInv
  OBVIOUS
<1>1. file = Earlier /\ data = Load /\ before = EmptySnapshot /\ stage = "idle"
      /\ answers = [s \in Sections |-> "none"]
  BY DEF Init
<1>2. Sound(EmptySnapshot) /\ \A s \in Sections : ~Recorded(EmptySnapshot, s)
  BY DEF EmptySnapshot, Sound, WholeRecords, Recorded, Nil, Parts
<1>3. CASE Earlier = NoFile
  BY <1>1, <1>2, <1>3
     DEF Load, AInv, AnsweredIsStored, Promise!Answers, UnderWay
<1>4. CASE Earlier # NoFile
  <2>1. PICK c \in (SUBSET Creations) \ {{}} : Earlier = [p \in Parts |-> c]
    BY <1>4, EarlierAssumption
  <2>2. Sound(Earlier)
    BY <2>1, SnapshotAssumption DEF Sound, WholeRecords, Recorded, Sections, PartsOf, Nil, Parts
  <2>3. Sound(data) /\ Within(file, data) /\ Within(data, file)
    BY <1>1, <1>4, <2>2, ConversionsKeep DEF Load
  <2>4. \A s \in Sections : Recorded(data, s) => InFile(s)
    BY <1>1, <1>4, <2>2, <2>3 DEF Within, Recorded, InFile, Sound, WholeRecords, Parts
  <2>5. QED BY <1>1, <1>2, <1>4, <2>2, <2>3, <2>4
            DEF AInv, AnsweredIsStored, Promise!Answers, UnderWay
<1>5. QED BY <1>3, <1>4

LEMMA InFileKept ==
  ASSUME AInv, NEW s, InFile(s), file' = file
  PROVE  InFile(s)'
BY DEF InFile

\* A call that leaves the file alone and tells of success only what is in it keeps every
\* answer true.
LEMMA AnswerKept ==
  ASSUME AInv, NEW s \in Sections, NEW a \in Promise!Answers, Answer(s, a), file' = file,
         a = "ok" => InFile(s)
  PROVE  AnsweredIsStored' /\ answers' \in [Sections -> Promise!Answers]
<1>1. answers' = [answers EXCEPT ![s] = a] /\ answers \in [Sections -> Promise!Answers]
  BY DEF AInv, Answer
<1>2. \A u \in Sections : answers'[u] = "ok" => InFile(u)
  BY <1>1 DEF AInv, AnsweredIsStored, InFile
<1>3. QED BY <1>1, <1>2 DEF AnsweredIsStored, InFile

LEMMA AnsweringAInv ==
  ASSUME AInv, NEW s \in Sections, Replay(s) \/ Refuse(s)
  PROVE  AInv'
<1>1. PICK a \in Promise!Answers : Answer(s, a) /\ (a = "ok" => InFile(s))
  BY DEF Replay, Refuse, AInv, Recorded, Promise!Answers
<1>2. UNCHANGED <<data, before, temp, file, stage, section>>
  BY DEF Replay, Refuse
<1>3. AnsweredIsStored' /\ answers' \in [Sections -> Promise!Answers]
  BY <1>1, <1>2, AnswerKept
<1>4. QED BY <1>2, <1>3 DEF AInv, Sound, WholeRecords, Recorded, Within, InFile

LEMMA ChangeAInv ==
  ASSUME AInv, NEW s \in Sections, Change(s)
  PROVE  AInv'
<1>1. /\ stage = "idle" /\ before' = Encode(data) /\ data' = Write(data, s, PartsOf(s))
      /\ stage' = "changed" /\ section' = s /\ Answer(s, "pending")
      /\ UNCHANGED <<temp, file>>
      /\ PartsOf(s) \subseteq Parts /\ \A p \in PartsOf(s) : data[p] # Nil
  BY DEF Change, Copy
<1>2. /\ Sound(data) /\ (file # NoFile => Within(file, data))
      /\ \A u \in Sections : Recorded(data, u) => InFile(u)
  BY <1>1 DEF AInv
<1>3. /\ Sound(data') /\ Within(data, data') /\ \A p \in PartsOf(s) : s \in data'[p]
  BY <1>1, <1>2, WriteIsSound
<1>4. /\ Sound(before') /\ Within(data, before') /\ Within(before', data)
  BY <1>1, <1>2, ConversionsKeep
<1>5. AnsweredIsStored' /\ answers' \in [Sections -> Promise!Answers]
  BY <1>1, AnswerKept DEF Promise!Answers
<1>6. file # NoFile => Within(file, data') /\ Within(file, before')
  BY <1>2, <1>3, <1>4 DEF Within
<1>7. \A u \in Sections : Recorded(before', u) => InFile(u)
  BY <1>2, <1>4 DEF Recorded, Within, Parts
<1>8. QED BY <1>1, <1>3, <1>4, <1>5, <1>6, <1>7
          DEF AInv, Sound, WholeRecords, Recorded, Within, InFile, UnderWay

\* A panic leaves the entity in memory, but no record under the key.
LEMMA PanicAInv ==
  ASSUME AInv, NEW s \in Sections, Panic(s)
  PROVE  AInv'
<1>1. /\ stage = "idle" /\ before' = Encode(data) /\ data' = Write(data, s, {"entities"})
      /\ Answer(s, "dropped") /\ UNCHANGED <<temp, file, stage>>
  BY DEF Panic, Copy
<1>2. /\ Sound(data) /\ (file # NoFile => Within(file, data))
      /\ \A u \in Sections : Recorded(data, u) => InFile(u)
  BY <1>1 DEF AInv
<1>3. /\ Sound(data') /\ Within(data, data')
      /\ \A u \in Sections : Recorded(data', u) => Recorded(data, u)
  BY <1>1, <1>2, WriteIsSound DEF Sound, Parts
<1>4. Sound(before')
  BY <1>1, <1>2, ConversionsKeep
<1>5. AnsweredIsStored' /\ answers' \in [Sections -> Promise!Answers]
  BY <1>1, AnswerKept DEF Promise!Answers
<1>6. file # NoFile => Within(file, data')
  BY <1>2, <1>3 DEF Within
<1>7. QED BY <1>1, <1>2, <1>3, <1>4, <1>5, <1>6
          DEF AInv, Sound, WholeRecords, Recorded, Within, InFile, UnderWay

LEMMA WriteTempAInv == AInv /\ WriteTemp => AInv'
BY DEF AInv, WriteTemp, Sound, WholeRecords, Recorded, Within, InFile, UnderWay,
       AnsweredIsStored

LEMMA RenameAInv ==
  ASSUME AInv, RenameTemp
  PROVE  AInv'
<1>1. /\ stage = "written" /\ file' = Encode(data) /\ stage' = "renamed"
      /\ UNCHANGED <<data, before, section, answers>>
  BY DEF AInv, RenameTemp
<1>2. /\ Sound(data) /\ (file # NoFile => Within(file, data))
  BY <1>1 DEF AInv
<1>3. /\ Sound(file') /\ Within(data, file') /\ Within(file', data)
  BY <1>1, <1>2, ConversionsKeep
<1>4. file' # NoFile
  BY <1>3, SoundIsSnapshot
<1>5. \A s \in Sections : InFile(s) => InFile(s)'
  BY <1>2, <1>3, <1>4 DEF InFile, Within, PartsOf, Parts
<1>6. AnsweredIsStored'
  BY <1>1, <1>5 DEF AInv, AnsweredIsStored, InFile
<1>7. QED BY <1>1, <1>3, <1>4, <1>6
          DEF AInv, Sound, WholeRecords, Recorded, Within, UnderWay

LEMMA FailAInv ==
  ASSUME AInv, FailToWrite \/ FailToRename
  PROVE  AInv'
<1>1. /\ stage \in {"changed", "written"} /\ data' = before /\ stage' = "idle"
      /\ Answer(section, "error") /\ UNCHANGED <<before, section, file>>
  BY DEF FailToWrite, FailToRename, Rollback
<1>2. section \in Sections
  BY <1>1 DEF AInv, UnderWay
<1>3. AnsweredIsStored' /\ answers' \in [Sections -> Promise!Answers]
  BY <1>1, <1>2, AnswerKept DEF Promise!Answers
<1>4. QED BY <1>1, <1>3 DEF AInv, Sound, WholeRecords, Recorded, Within, InFile, UnderWay

LEMMA LogAInv ==
  ASSUME AInv, Log
  PROVE  AInv'
<1>1. /\ stage = "renamed" /\ stage' = "idle" /\ Answer(section, "ok")
      /\ UNCHANGED <<data, before, temp, file, section>>
  BY DEF Log, Succeed
<1>2. /\ file # NoFile /\ Within(data, file) /\ Sound(data) /\ section \in Sections
      /\ \A p \in PartsOf(section) : section \in data[p]
  BY <1>1 DEF AInv, UnderWay
<1>3. \A s \in Sections : (\A p \in PartsOf(s) : s \in data[p]) => InFile(s)
  BY <1>2 DEF InFile, Within, PartsOf, Parts
<1>4. AnsweredIsStored' /\ answers' \in [Sections -> Promise!Answers]
  BY <1>1, <1>2, <1>3, AnswerKept DEF Promise!Answers
<1>5. \A s \in Sections : Recorded(data, s) => InFile(s)
  BY <1>2, <1>3 DEF Sound, WholeRecords
<1>6. QED BY <1>1, <1>4, <1>5
          DEF AInv, Sound, WholeRecords, Recorded, Within, InFile, UnderWay

LEMMA CrashAInv ==
  ASSUME AInv, Crash
  PROVE  AInv'
<1>1. /\ stage' = "down" /\ UNCHANGED <<data, before, file, section>>
  BY DEF Crash
<1>2. AnsweredIsStored' /\ answers' \in [Sections -> Promise!Answers]
  <2>1. CASE answers' = answers
    BY <1>1, <2>1 DEF AInv, AnsweredIsStored
  <2>2. CASE answers' # answers
    <3>1. Answer(section, "dropped")
      BY <2>2 DEF Crash
    <3>2. CASE section \in Sections
      BY <1>1, <3>1, <3>2, AnswerKept DEF Promise!Answers
    <3>3. CASE section \notin Sections
      BY <2>2, <3>1, <3>3 DEF Answer, AInv
    <3>4. QED BY <3>2, <3>3
  <2>3. QED BY <2>1, <2>2
<1>3. QED BY <1>1, <1>2 DEF AInv, Sound, WholeRecords, Recorded, Within, UnderWay

LEMMA StartAInv ==
  ASSUME AInv, Start
  PROVE  AInv'
<1>1. /\ stage' = "idle" /\ data' = Load
      /\ UNCHANGED <<before, temp, file, section, answers>>
  BY DEF Start
<1>2. AnsweredIsStored'
  BY <1>1 DEF AInv, AnsweredIsStored
<1>3. CASE file = NoFile
  <2>1. Sound(data') /\ \A s \in Sections : ~Recorded(data', s)
    BY <1>1, <1>3
       DEF Load, EmptySnapshot, Sound, WholeRecords, Recorded, Nil, Parts
  <2>2. QED BY <1>1, <1>2, <1>3, <2>1
            DEF AInv, Sound, WholeRecords, Recorded, Within, UnderWay
<1>4. CASE file # NoFile
  <2>1. Sound(file) /\ data' = InitMaps(file)
    BY <1>1, <1>4 DEF AInv, Load
  <2>2. Sound(data') /\ Within(file, data') /\ Within(data', file)
    BY <2>1, ConversionsKeep
  <2>3. \A s \in Sections : Recorded(data', s) => InFile(s)
    BY <1>4, <2>1, <2>2 DEF Recorded, Within, InFile, Sound, WholeRecords, Parts
  <2>4. QED BY <1>1, <1>2, <2>1, <2>2, <2>3
            DEF AInv, Sound, WholeRecords, Recorded, Within, InFile, UnderWay
<1>5. QED BY <1>3, <1>4

LEMMA AInvStep == AInv /\ [Next]_vars => AInv'
<1> SUFFICES ASSUME AInv, [Next]_vars PROVE AInv'
  OBVIOUS
<1>1. CASE UNCHANGED vars
  BY <1>1 DEF vars, AInv, Sound, WholeRecords, Recorded, Within, InFile, AnsweredIsStored
<1>2. QED
  BY <1>1, AnsweringAInv, ChangeAInv, PanicAInv, WriteTempAInv, RenameAInv, FailAInv,
     LogAInv, CrashAInv, StartAInv DEF Next

\* Whoever is told of success finds the section in the file in all its parts, even where the
\* store has just been created and keyed calls panic (commitLocked answers after the rename).
THEOREM AnsweredStaysStored == Spec => []AnsweredIsStored
<1>1. AInv => AnsweredIsStored
  BY DEF AInv
<1>2. QED BY <1>1, InitAInv, AInvStep, PTL DEF Spec
=============================================================================
