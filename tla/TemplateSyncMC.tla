---------------------------- MODULE TemplateSyncMC ----------------------------
(***************************************************************************)
(* Two processes and builds that change one template, add one or drop one. *)
(***************************************************************************)
EXTENDS TemplateSync, TLC

CONSTANTS hello, statik,    \* slugs
          g1, g2            \* graphs

SlugOrder == <<hello, statik>>

Builds == {(hello :> g1), (hello :> g1) @@ (statik :> g1),
           (hello :> g2) @@ (statik :> g2), (statik :> g1)}
=============================================================================
