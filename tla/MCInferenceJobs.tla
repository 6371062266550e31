-------------------------- MODULE MCInferenceJobs --------------------------
(* Small instances of InferenceJobs for TLC. *)
EXTENDS InferenceJobs
=============================================================================
