-------------------------- MODULE MCTaskAssignment --------------------------
(* Small instances of TaskAssignment for TLC. *)
EXTENDS TaskAssignment
=============================================================================
