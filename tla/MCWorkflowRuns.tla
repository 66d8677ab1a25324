---------------------------- MODULE MCWorkflowRuns ----------------------------
(* Instances of WorkflowRuns for TLC: the sizes are in the .cfg files.     *)
EXTENDS WorkflowRuns
=============================================================================
