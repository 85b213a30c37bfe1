--------------------------- MODULE MCSnapshotCommit ---------------------------
(* Finite instances of SnapshotCommit, on a machine that may lose power, for TLC. *)
EXTENDS PowerLoss

CONSTANT k0   \* a creation of an earlier life of the process

\* The snapshot of the first start.
UsedSnapshot == [p \in Parts |-> {k0}]
=============================================================================
