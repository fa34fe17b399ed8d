---------------------------- MODULE WorkflowTxnMC ----------------------------
(***************************************************************************)
(* Small instances of WorkflowTxn: two requests that overlap on workflows  *)
(* with a join, and requests one after the other on chains and joins.      *)
(***************************************************************************)
EXTENDS WorkflowTxn, WorkflowGraphs

CONSTANTS x, y, z   \* the nodes

Joins  == JoinDefinitions(x, y, z)
Shapes == ShapeDefinitions(x, y, z)
=============================================================================
