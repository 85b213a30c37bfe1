----------------------------- MODULE AuditReaders -----------------------------
(***************************************************************************)
(* Requests that read one closed task at the same time, over AuditChain.   *)
(* VerifyAudit holds the read lock only, but empties audit.Events and      *)
(* fills it again in the array it shares with the stored summary; the      *)
(* answer is encoded from that array after the lock is released, as is the *)
(* answer to the request that closed the task.  ReadWorkflowSnapshot       *)
(* copies the stored summaries under the read lock.                        *)
(*                                                                         *)
(* A string is two words, its data and its length, written and read one    *)
(* after the other: whoever sees one word of one string and one of another *)
(* reads memory that belongs to neither.                                   *)
(***************************************************************************)
EXTENDS AuditChain

CONSTANTS
  Verifiers,  \* requests for the audit of the task
  Viewers,    \* requests for a task or the list, and the one that closed the task
  Empty       \* the string without characters

ASSUME ReaderAssumption == Verifiers \cap Viewers = {}

VARIABLES
  names,  \* the shared array: position -> word -> the string it belongs to
  step,   \* request -> words it has passed
  got     \* request -> the words it has read

readerVars == <<trail, record, superseded, audit, file, up, intact, names, step, got>>

Words == {"data", "length"}
Total == 2 * Len(trail)

\* The position and the word that the k-th step deals with.
Position(k) == ((k - 1) \div 2) + 1
Word(k) == IF k % 2 = 1 THEN "data" ELSE "length"

\* The task is closed, and its file is as it was written.
Readable == Verifiable /\ file = intact

\* Request r takes its next step, over the k-th word of its first (0) or second (1) pass.
Steps(r, part, k) ==
  /\ Readable
  /\ k = step[r] + 1 - Total * part /\ k \in 1..Total
  /\ step' = [step EXCEPT ![r] = @ + 1]
  /\ UNCHANGED vars

ClearThenFill(r) ==  \* mutant: the array is cleared first
  \E k \in 1..(2 * MaxEvents) :
    /\ Steps(r, 0, k)
    /\ names' = [n \in DOMAIN names |->
                   IF n = Position(k) THEN [names[n] EXCEPT ![Word(k)] = trail[n].type]
                   ELSE IF k = 1 THEN [w \in Words |-> Empty] ELSE names[n]]
    /\ UNCHANGED got

\* VerifyAudit under the read lock.
Fill(r) ==
  \E k \in 1..(2 * MaxEvents) :
    /\ Steps(r, 0, k)
    /\ names' = [names EXCEPT ![Position(k)][Word(k)] = trail[Position(k)].type]
    /\ UNCHANGED got

ReadWord(r, part) ==
  \E k \in 1..(2 * MaxEvents) :
    /\ Steps(r, part, k)
    /\ got' = [got EXCEPT ![r] = Append(@, names[Position(k)][Word(k)])]
    /\ UNCHANGED names

\* The encoder, after the lock is released.
Encode(r) == ReadWord(r, 1)

\* The copy of all data for a view, or the answer to the closing.
CopyWord(r) == ReadWord(r, 0)

ForAll(x) == [r \in Verifiers \cup Viewers |-> x]

\* A closing, a start and a failed section each leave a new array.  What is under way on
\* the old one can no longer meet anybody, so it is not followed further.
ChainStep ==
  /\ Next
  /\ names' = IF audit' = NotClosed THEN <<>>
              ELSE [n \in DOMAIN trail' |-> [w \in Words |-> trail'[n].type]]
  /\ step' = ForAll(0) /\ got' = ForAll(<<>>)

ReadersInit == Init /\ names = <<>> /\ step = ForAll(0) /\ got = ForAll(<<>>)

ReadersNext == \/ ChainStep
               \/ \E r \in Verifiers : Fill(r) \/ Encode(r)
               \/ \E r \in Viewers : CopyWord(r)

ReadersSpec == ReadersInit /\ [][ReadersNext]_readerVars

(***************************************************************************)
(* Properties.                                                             *)
(***************************************************************************)
\* Nobody reads a torn name, or the name of another event, although requests write to the
\* array while others read it: each writes what is there already.
NamesAreWhole ==
  Readable =>
    \A r \in Verifiers \cup Viewers : \A k \in DOMAIN got[r] :
      got[r][k] = trail[Position(k)].type
=============================================================================
