---------------------------- MODULE MCAuditReaders ----------------------------
(* Finite instance of AuditChain and AuditReaders for TLC. *)
EXTENDS AuditReaders, TLC

\* Bytes that are no UTF-8 are written as an escape and read back as the replacement
\* character, which is written as itself from then on.
ThroughTheFile == [t \in Texts |-> IF t = "bytes" THEN "replacement" ELSE t]

\* Verifications of the task are all alike, and the run checks invariants only.
VerifiersAlike == Permutations(Verifiers)
=============================================================================
