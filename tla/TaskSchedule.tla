----------------------------- MODULE TaskSchedule -----------------------------
(***************************************************************************)
(* What the store promises of the schedule: a task takes its window when   *)
(* it is booked, only if no open task holds one that conflicts with it,    *)
(* keeps it as it goes through its stages, none of which it ever goes back *)
(* to, and gives it up only by being closed after its review.              *)
(***************************************************************************)
CONSTANT Ids             \* of the tasks
CONSTANT Windows         \* what may be booked
CONSTANT Conflict(_, _)  \* do two windows conflict?

VARIABLES
  window,  \* task -> the window it was booked for
  stage    \* task -> its stage

schedule == <<window, stage>>

\* Where a task may go from each stage.  Only an action in the old combined form leads past
\* the review of single actions.
After == [pending_inspection |-> {"pending_action"},
          pending_action     |-> {"pending_review", "reviewed"},
          pending_review     |-> {"reviewed"},
          reviewed           |-> {"closed"},
          closed             |-> {}]

Open(t) == stage[t] # "closed"

Extended(f, t, v) == [u \in DOMAIN f \cup {t} |-> IF u = t THEN v ELSE f[u]]

Book(t, w) ==
  /\ t \notin DOMAIN window
  /\ \A u \in DOMAIN window : Open(u) => ~Conflict(w, window[u])
  /\ window' = Extended(window, t, w)
  /\ stage' = Extended(stage, t, "pending_inspection")

Proceed(t) ==
  /\ \E s \in After[stage[t]] : stage' = [stage EXCEPT ![t] = s]
  /\ UNCHANGED window

Init == window = <<>> /\ stage = <<>>

Next == \/ \E t \in Ids, w \in Windows : Book(t, w)
        \/ \E t \in DOMAIN stage : Proceed(t)

Spec == Init /\ [][Next]_schedule
=============================================================================
