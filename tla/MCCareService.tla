---------------------------- MODULE MCCareService ---------------------------
(* Finite instances of CareService for TLC. *)
EXTENDS CareService, TLC

CONSTANTS a1, o1

OnePlan == {[artifact |-> a1, owner |-> o1, start |-> 0, end |-> 2]}
CONSTANTS c1, c2
Ops == KeyedOps \cup {"decide", "approve", "close"}
\* One client runs the whole workflow, the other works on tasks it finds.
OwnerAndStaff == c1 :> Ops \ {"approve"} @@ c2 :> {"inspect", "submit", "decide", "approve"}
OwnerAndApprover == c1 :> Ops @@ c2 :> {"approve"}
Planning == [c \in Clients |-> {"create", "inspect", "recommend"}]

OneOutcome == {Codes}

\* A handler may draw any id, and the clients see one of those that are left.
All(S) == S
MintOne(S) == IF S = {} THEN {} ELSE {CHOOSE x \in S : TRUE}

\* Every digest a request of the instance can have.
Digests ==
  {<<"create", p>> : p \in Plans}
      \cup {<<"inspect", t, at, s, i>> : t \in TaskIds, at \in Dates, s \in Outcomes,
                                         i \in InspectionIds \cup {NoInspection}}
      \cup {<<"recommend", t, i, c, at>> : t \in TaskIds, i \in InspectionIds,
                                           c \in Codes, at \in Dates}
      \cup {<<"submit", a>> : a \in ActionIds}
=============================================================================
