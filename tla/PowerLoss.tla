------------------------------- MODULE PowerLoss -------------------------------
(***************************************************************************)
(* SnapshotCommit on a machine that may lose power.  persistLocked syncs   *)
(* neither the temporary file nor the directory, so until the system has   *)
(* written its buffers back, the name may lead to any of the files renamed *)
(* since, in full or in part, or still to the old one.                     *)
(***************************************************************************)
EXTENDS SnapshotCommit

VARIABLES
  onDisk,   \* what the name may lead to after a loss of power
  flushed   \* the last snapshot of which there was no doubt

powerVars == <<data, before, temp, file, stage, section, answers, onDisk, flushed>>

WriteBack ==
  /\ file # Partial
  /\ onDisk' = {file} /\ flushed' = file
  /\ UNCHANGED vars

LosePower ==
  /\ stage' = "down"
  /\ \E f \in onDisk : /\ file' = f /\ onDisk' = {f}
                       /\ flushed' = IF f = Partial THEN flushed ELSE f
  /\ temp' \in {temp, Partial, NoFile}
  /\ IF stage \in {"idle", "down"} THEN UNCHANGED answers ELSE Answer(section, "dropped")
  /\ UNCHANGED <<data, before, section>>

\* A step of SnapshotCommit; a rename adds to what may be found.
CommitStep ==
  /\ Next
  /\ onDisk' = IF file' = file THEN onDisk ELSE onDisk \cup {file', Partial}
  /\ UNCHANGED flushed

PowerInit == Init /\ onDisk = {file} /\ flushed = file

PowerNext == CommitStep \/ WriteBack \/ LosePower

PowerSpec == PowerInit /\ [][PowerNext]_powerVars

(***************************************************************************)
(* Properties.                                                             *)
(***************************************************************************)
Held(f) == IF f = NoFile THEN {} ELSE f["entities"]

\* Nothing is found in a snapshot left in part: New cannot decode it and returns an error,
\* and the rename has taken the place of the file that was there before.
Stored(f) == IF f = Partial THEN {} ELSE Held(f)
Settled == IF file = Partial THEN {} ELSE Held(flushed)

\* The store keeps the promise of DurableSections, whatever fails or stops on the way: a
\* loss of power takes back no more than what was renamed since the last writing back, or
\* all of it, and all only if something was renamed since.
Promise == INSTANCE DurableSections WITH
  Earlier <- Held(Earlier), stored <- Stored(file), settled <- Settled,
  ruined <- file = Partial

KeepsPromise == Promise!Spec
=============================================================================
