--------------------------- MODULE DurableSections ---------------------------
(***************************************************************************)
(* What the store promises of its writing sections when it keeps its data  *)
(* in a directory: each one is stored as a whole or not at all, nothing    *)
(* stored is lost as long as the machine has power, and the answer tells   *)
(* which of the two it was.  Only a process that stops, or a connection    *)
(* that is dropped, leaves the caller in doubt.                            *)
(*                                                                         *)
(* A loss of power takes nothing when all that is stored has settled on    *)
(* the disk.  Otherwise it takes some of what has not settled, or it ruins *)
(* the store: then what had settled before is gone as well, and no process *)
(* works on it again.                                                      *)
(***************************************************************************)
CONSTANT Sections    \* the writing sections that callers ask for
CONSTANT Earlier     \* those stored before the first start

VARIABLES
  stored,    \* the sections whose effect the next start finds
  settled,   \* those among them that are on the disk for certain
  ruined,    \* does no start succeed any more?
  answers    \* section -> what its caller has been told

durable == <<stored, settled, ruined, answers>>

Answers == {"none", "pending", "ok", "error", "refused", "dropped"}

Tell(s, a) == answers' = [answers EXCEPT ![s] = a]

Ask(s) == s \notin stored /\ Tell(s, "pending") /\ UNCHANGED <<stored, settled, ruined>>

Store(s) ==
  /\ answers[s] = "pending" /\ s \notin stored
  /\ stored' = stored \cup {s}
  /\ UNCHANGED <<settled, ruined, answers>>

\* Done: now, or before (a replayed key), or before and not to be done again.
Confirm(s) ==
  /\ s \in stored /\ (Tell(s, "ok") \/ Tell(s, "refused"))
  /\ UNCHANGED <<stored, settled, ruined>>

Fail(s) == /\ answers[s] = "pending" /\ s \notin stored
           /\ Tell(s, "error") /\ UNCHANGED <<stored, settled, ruined>>

Lose(s) == answers[s] = "pending" /\ Tell(s, "dropped") /\ UNCHANGED <<stored, settled, ruined>>

Settle == settled' = stored /\ UNCHANGED <<stored, ruined, answers>>

\* Nobody is waiting any more, and what is found is on the disk.
PowerBack(T) ==
  /\ stored' = T /\ settled' = T
  /\ answers' = [s \in Sections |-> IF answers[s] = "pending" THEN "dropped" ELSE answers[s]]

LosePower ==
  \E T \in SUBSET stored : settled \subseteq T /\ PowerBack(T) /\ UNCHANGED ruined

\* Something was stored that has not settled: the loss may cost everything.
Ruin == settled # stored /\ PowerBack({}) /\ ruined' = TRUE

Init == /\ stored = Earlier /\ settled = Earlier /\ ruined = FALSE
        /\ answers = [s \in Sections |-> "none"]

Next == /\ ~ruined
        /\ \/ \E s \in Sections : Ask(s) \/ Store(s) \/ Confirm(s) \/ Fail(s) \/ Lose(s)
           \/ Settle \/ LosePower \/ Ruin

Spec == Init /\ [][Next]_durable
=============================================================================
