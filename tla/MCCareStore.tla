---------------------------- MODULE MCCareStore -----------------------------
(* Finite instances of CareStore and CareProgress for TLC: plans, outcomes and draws. *)
EXTENDS CareProgress

CONSTANTS a1, a2, o1, o2

Plan(a, o, s, e) == [artifact |-> a, owner |-> o, start |-> s, end |-> e]

OnePlan == {Plan(a1, o1, 0, 2)}

\* Two plans that clash by the artifact, one that clashes with both by the owner,
\* and one that touches the first window at its end and clashes with nobody.
ClashingPlans == {Plan(a1, o1, 0, 2), Plan(a1, o2, 1, 3), Plan(a2, o1, 1, 3),
                  Plan(a1, o1, 2, 4)}

\* Nothing found, one anomaly, or two of which the first is the same.
GrowingOutcomes == {{}, {1}, {1, 2}}
OneOutcome == {Codes}

\* Unused ids are interchangeable: draw one.
DrawOne(S) == IF S = {} THEN {} ELSE {CHOOSE x \in S : TRUE}
=============================================================================
