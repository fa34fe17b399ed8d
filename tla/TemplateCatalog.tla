--------------------------- MODULE TemplateCatalog ---------------------------
(***************************************************************************)
(* What the template catalog promises to those who create runs or          *)
(* documents from it: every template has the history of the graphs it was  *)
(* given, the last one is offered, and a release changes all its templates *)
(* at once.  TemplateSync implements it.                                   *)
(***************************************************************************)
EXTENDS Sequences, SequencesExt

CONSTANTS Slug,
          Releases   \* what a build of the program registers: graphs by slug

VARIABLE history

Init == history = [slug \in Slug |-> <<>>]

Extended(past, graph) ==
    IF past # <<>> /\ Last(past) = graph THEN past ELSE Append(past, graph)

\* Only templates whose graph differs from the one on offer get a new version.
Install(release) ==
    history' = [slug \in Slug |->
        IF slug \in DOMAIN release THEN Extended(history[slug], release[slug])
                                   ELSE history[slug]]

Next == \E release \in Releases : Install(release)

Spec == Init /\ [][Next]_history
=============================================================================
