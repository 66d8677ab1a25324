-------------------------- MODULE MCRunOrchestrator --------------------------
(* Instances of RunOrchestrator for TLC: the bounds are in the .cfg files. *)
EXTENDS RunOrchestrator
=============================================================================
