---------------------------- MODULE SnapshotCommit ----------------------------
(***************************************************************************)
(* How a locked section of internal/storage makes its change durable: a    *)
(* copy of the data is taken, the data are changed in memory, the snapshot *)
(* is written to a temporary file and renamed over the old one, and when   *)
(* that fails the copy is put back.  The process may stop between any two  *)
(* of these steps and start again from the file.                           *)
(*                                                                         *)
(* What the sections write is taken as the parts they write it in; the     *)
(* rest of their effect is in CareStore.  A file that has been renamed is  *)
(* taken as durable here; PowerLoss adds the loss of power.                *)
(***************************************************************************)
EXTENDS Naturals

CONSTANTS
  Registrations,  \* calls of AddArtifact: they write an entity, no key, no event
  Creations,      \* keyed calls: entity, plain idempotency map, records, events
  Decisions,      \* reviews and closings: entity and events, no key
  NoFile, Partial,
  Earlier         \* the snapshot in the directory at the first start, or NoFile

Sections == Registrations \cup Creations \cup Decisions
Parts == {"entities", "idempotency", "records", "events"}
Nil == {"nil"}   \* a Go map that is nil
Snapshots == [Parts -> (SUBSET Sections) \cup {Nil}]

\* A section is one change, and an earlier snapshot has some creation in full.
ASSUME SnapshotAssumption ==
  /\ Registrations \cap Creations = {} /\ Registrations \cap Decisions = {}
  /\ Creations \cap Decisions = {}
  /\ "nil" \notin Sections
  /\ NoFile \notin Snapshots /\ Partial \notin Snapshots
ASSUME EarlierAssumption ==
  Earlier = NoFile \/ \E c \in (SUBSET Creations) \ {{}} : Earlier = [p \in Parts |-> c]

VARIABLES
  data,     \* Store.data
  before,   \* the copy the section under way has taken
  temp,     \* the temporary file
  file,     \* the snapshot file
  stage,    \* how far the section under way is, "idle" without one, "down" without a process
  section,  \* the section last called
  answers   \* section -> what its caller has been told

vars == <<data, before, temp, file, stage, section, answers>>

PartsOf(s) ==
  IF s \in Registrations THEN {"entities"}
  ELSE IF s \in Creations THEN Parts ELSE {"entities", "events"}

(***************************************************************************)
(* Conversions of the data.                                                *)
(***************************************************************************)
EmptySnapshot == [p \in Parts |-> {}]

EncodeWithoutKeys(d) == [d EXCEPT !["idempotency"] = Nil]  \* mutant: the map is never written

\* To JSON and back into an empty snapshot: an empty plain map is omitted and comes back nil.
Encode(d) == [d EXCEPT !["idempotency"] = IF @ = {} THEN Nil ELSE @]

InitMaps(d) == [p \in Parts |-> IF d[p] = Nil THEN {} ELSE d[p]]

Write(d, s, parts) == [p \in Parts |-> IF p \in parts THEN d[p] \cup {s} ELSE d[p]]

(***************************************************************************)
(* A section.                                                              *)
(***************************************************************************)
Answer(s, a) == answers' = [answers EXCEPT ![s] = a]

\* A change of what an entity holds needs one that was created.
Callable(s) == s \in Decisions => data["records"] # {}

Replay(s) ==
  /\ stage = "idle" /\ s \in data["records"]
  /\ Answer(s, "ok")
  /\ UNCHANGED <<data, before, temp, file, stage, section>>

\* What has been done in part or in full and has no record under its key is refused: the
\* window is taken, the revision has moved or the anomaly has its action.
Refuse(s) ==
  /\ stage = "idle" /\ s \in data["entities"] /\ s \notin data["records"]
  /\ s \notin Registrations
  /\ Answer(s, "refused")
  /\ UNCHANGED <<data, before, temp, file, stage, section>>

\* cloneSnapshotLocked: the copy owes nothing to later writes.
Copy == Encode(data)

Change(s) ==
  /\ stage = "idle" /\ s \notin data["entities"] /\ Callable(s)
  /\ PartsOf(s) \subseteq {p \in Parts : data[p] # Nil}
  /\ before' = Copy
  /\ data' = Write(data, s, PartsOf(s))
  /\ stage' = "changed" /\ section' = s
  /\ Answer(s, "pending")
  /\ UNCHANGED <<temp, file>>

\* Writing to a nil map panics: the handler ends with the entity written, the deferred
\* unlock releases the lock and the server drops the connection.
Panic(s) ==
  /\ stage = "idle" /\ s \notin data["entities"] /\ Callable(s)
  /\ "idempotency" \in PartsOf(s) /\ data["idempotency"] = Nil
  /\ before' = Copy
  /\ data' = Write(data, s, {"entities"})
  /\ section' = s
  /\ Answer(s, "dropped")
  /\ UNCHANGED <<temp, file, stage>>

WriteTemp ==
  /\ stage = "changed"
  /\ temp' = Encode(data) /\ stage' = "written"
  /\ UNCHANGED <<data, before, file, section, answers>>

RenameUnchecked ==  \* mutant: a failure to write the temporary file is not noticed
  /\ stage \in {"changed", "written"}
  /\ file' = temp /\ temp' = NoFile /\ stage' = "renamed"
  /\ UNCHANGED <<data, before, section, answers>>

RenameTemp ==
  /\ stage = "written"
  /\ file' = temp /\ temp' = NoFile /\ stage' = "renamed"
  /\ UNCHANGED <<data, before, section, answers>>

RollbackShared ==  \* mutant: the copy shares its maps with the data
  /\ data' = data /\ stage' = "idle"
  /\ Answer(section, "error")
  /\ UNCHANGED <<before, section, file>>

Rollback ==
  /\ data' = before /\ stage' = "idle"
  /\ Answer(section, "error")
  /\ UNCHANGED <<before, section, file>>

FailToWrite == stage = "changed" /\ Rollback /\ temp' \in {temp, Partial}
FailToRename == stage = "written" /\ Rollback /\ UNCHANGED temp

Succeed == /\ stage' = "idle" /\ Answer(section, "ok")
           /\ UNCHANGED <<data, before, temp, file, section>>

\* The line for the events log is written or not: nobody reads it, and a failure is ignored.
Log == stage = "renamed" /\ Succeed

(***************************************************************************)
(* The process.                                                            *)
(***************************************************************************)
Crash ==
  /\ stage # "down" /\ stage' = "down"
  /\ temp' \in IF stage = "changed" THEN {temp, Partial} ELSE {temp}
  /\ IF stage = "idle" THEN UNCHANGED answers ELSE Answer(section, "dropped")
  /\ UNCHANGED <<data, before, file, section>>

Load == IF file = NoFile THEN EmptySnapshot ELSE InitMaps(file)

StartAnew ==  \* mutant: a file that cannot be decoded counts as none
  /\ stage = "down" /\ stage' = "idle"
  /\ data' = IF file \in {NoFile, Partial} THEN EmptySnapshot ELSE InitMaps(file)
  /\ UNCHANGED <<before, temp, file, section, answers>>

\* A partial file cannot be decoded: New returns an error and the process ends.
Start ==
  /\ stage = "down" /\ stage' = "idle" /\ file # Partial
  /\ data' = Load
  /\ UNCHANGED <<before, temp, file, section, answers>>

Init ==
  /\ file = Earlier /\ temp = NoFile
  /\ data = Load /\ before = EmptySnapshot
  /\ stage = "idle" /\ section = CHOOSE s \in Sections : TRUE
  /\ answers = [s \in Sections |-> "none"]

Next ==
  \/ \E s \in Sections : Replay(s) \/ Refuse(s) \/ Change(s) \/ Panic(s)
  \/ WriteTemp \/ FailToWrite \/ RenameTemp \/ FailToRename \/ Log
  \/ Crash \/ Start

Spec == Init /\ [][Next]_vars

(***************************************************************************)
(* Properties.                                                             *)
(***************************************************************************)
\* The data, the copy and the files are snapshots; a process that runs never leaves the
\* snapshot itself in part, only the temporary file.
TypeOK ==
  /\ data \in Snapshots /\ before \in Snapshots
  /\ temp \in Snapshots \cup {NoFile, Partial} /\ file \in Snapshots \cup {NoFile, Partial}
  /\ file = Partial => stage = "down"
  /\ stage \in {"idle", "changed", "written", "renamed", "down"}
  /\ section \in Sections
  /\ answers \in [Sections -> {"none", "pending", "ok", "error", "refused", "dropped"}]

\* The parts of the data that hold a section are all it writes, or none.
Whole(d) == \A s \in Sections :
  {p \in Parts : s \in d[p]} \in {{}, PartsOf(s)}

\* No section is ever there in part, neither in the file nor in what the next caller reads.
NothingHalf ==
  /\ file \notin {NoFile, Partial} => Whole(file)
  /\ stage = "idle" => Whole(data)

\* Between sections the data in memory are what a restart would load: no caller is shown
\* what a crash would undo.
MemoryIsSaved == stage = "idle" => InitMaps(data) = Load

\* Whoever was told of success finds it in the file, in all its parts, even when the store
\* has just been created and whatever fails or stops afterwards.
AnsweredIsStored ==
  \A s \in Sections :
    answers[s] = "ok" => file # NoFile /\ \A p \in PartsOf(s) : s \in file[p]
=============================================================================
