-------------------------- MODULE MCActivityStore --------------------------
(* Small instances of ActivityStore for TLC. *)
EXTENDS ActivityStore

Symmetry == Permutations(Servers) \cup Permutations(JobIds)
=============================================================================
