------------------------- MODULE WorkflowDocumentsMC -------------------------
(***************************************************************************)
(* Two requests, two documents that may swap places, one run and a         *)
(* template with two versions.                                             *)
(***************************************************************************)
EXTENDS WorkflowDocuments, TLC

CONSTANTS hello, g1, g2, bad, here, there

Builds == {(hello :> g1), (hello :> g2)}

PatchBodies == {<<here, None>>, <<there, g1>>, <<None, g2>>, <<None, bad>>}
=============================================================================
