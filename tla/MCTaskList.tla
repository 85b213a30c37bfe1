------------------------------ MODULE MCTaskList ------------------------------
(* Finite instance of TaskList for TLC. *)
EXTENDS TaskList
=============================================================================
