-------------------------- MODULE WorkflowEventsMC --------------------------
(***************************************************************************)
(* Small instance of WorkflowEvents: requests that overlap on workflows    *)
(* with a join.                                                            *)
(***************************************************************************)
EXTENDS WorkflowEvents, WorkflowGraphs

CONSTANTS x, y, z   \* the nodes

Joins == JoinDefinitions(x, y, z)
=============================================================================
