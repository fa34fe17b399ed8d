--------------------------- MODULE WorkflowRunMC ---------------------------
(***************************************************************************)
(* WorkflowRun on every acyclic workflow over the nodes of the .cfg.       *)
(***************************************************************************)
EXTENDS WorkflowRun, WorkflowGraphs
=============================================================================
