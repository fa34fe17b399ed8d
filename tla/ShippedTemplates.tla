-------------------------- MODULE ShippedTemplates --------------------------
(***************************************************************************)
(* The three templates the build ships (workflow/templates) and the        *)
(* adapters it registers (workflow/adapters): the graphs, kinds and tools  *)
(* a run of them executes, and the two ways of editing the Origin graph    *)
(* in a workflow document that this project needs.  A template's record    *)
(* is also a definition in the sense of WorkflowExecutor, whose Node is    *)
(* here the template's own set of node keys.                               *)
(***************************************************************************)
EXTENDS Naturals, Sequences

\* bootstrap_workflow_adapters: the tools with a registered adapter.
RegisteredTools == {"verolas.origin.floor_parse", "verolas.origin.generator",
                    "verolas.statik_compile"}

\* params.tool, as _dispatch_ready_adapters and get_adapter look at it.
ToolStatus(tools, n) ==
    IF n \notin DOMAIN tools THEN "unset"
    ELSE IF tools[n] \in RegisteredTools THEN "registered" ELSE "unregistered"

\* Nodes that follow one another, and the edges between them.
KeysOf(keys) == {keys[i] : i \in 1..Len(keys)}
Path(keys) == {<<keys[i], keys[i + 1]>> : i \in 1..(Len(keys) - 1)}

\* Nodes that are not listed in kinds are manual.
Template(slug, nodes, edges, kinds, tools) ==
    [slug  |-> slug, nodes |-> nodes, edges |-> edges,
     kind  |-> [n \in nodes |-> IF n \in DOMAIN kinds THEN kinds[n] ELSE "manual"],
     tool  |-> [n \in nodes |-> ToolStatus(tools, n)]]

-----------------------------------------------------------------------------
HelloKeys == <<"upload_brief", "review", "done">>

HelloWorkflow ==
    Template("hello-workflow", KeysOf(HelloKeys), Path(HelloKeys),
             [review |-> "gate.review", done |-> "automated"], <<>>)

-----------------------------------------------------------------------------
Bemessung == {"bemessung_decken", "bemessung_stuetzen", "bemessung_fundamente"}

StatikBefore == <<"kickoff", "lastannahmen", "tragsystem_modell", "schnittgroessen">>

StatikAfter == <<"konstruktive_durchbildung", "statik_compile", "internal_review",
                 "pruefstatik", "bauvorlagen_pkg", "qes_signing", "bauamt_submission">>

StatikNodes == KeysOf(StatikBefore) \cup Bemessung \cup KeysOf(StatikAfter)

StatikEdges == Path(StatikBefore) \cup Path(StatikAfter)
               \cup {<<"schnittgroessen", b>> : b \in Bemessung}
               \cup {<<b, "konstruktive_durchbildung">> : b \in Bemessung}

StatikGenehmigungsplanung ==
    Template("de-statik-genehmigungsplanung", StatikNodes, StatikEdges,
             [lastannahmen |-> "automated", tragsystem_modell |-> "automated",
              schnittgroessen |-> "automated", bemessung_decken |-> "automated",
              bemessung_stuetzen |-> "automated", bemessung_fundamente |-> "automated",
              statik_compile |-> "automated", internal_review |-> "gate.review",
              pruefstatik |-> "gate.approve", bauvorlagen_pkg |-> "automated",
              qes_signing |-> "gate.signature", bauamt_submission |-> "submission"],
             [lastannahmen |-> "verolas.lastannahmen", tragsystem_modell |-> "dlubal.rfem",
              schnittgroessen |-> "dlubal.rfem.analysis",
              bemessung_decken |-> "verolas.bemessung.beton",
              bemessung_stuetzen |-> "verolas.bemessung.beton",
              bemessung_fundamente |-> "verolas.bemessung.fundament",
              statik_compile |-> "verolas.statik_compile",
              bauvorlagen_pkg |-> "verolas.bauvorlagen_assembler"])

-----------------------------------------------------------------------------
OriginKeys == <<"submit_brief", "upload_cad", "parameters", "floor_parse",
                "architectural_review", "roof_framing", "ai_options",
                "select_option", "detail_edit", "export_seal">>

OriginGraph(slug, extra) ==
    Template(slug, KeysOf(OriginKeys), Path(OriginKeys) \cup extra,
             [floor_parse |-> "automated", ai_options |-> "automated",
              select_option |-> "gate.approve"],
             [floor_parse |-> "verolas.origin.floor_parse",
              ai_options |-> "verolas.origin.generator"])

VerolasOrigin == OriginGraph("verolas-origin", {})

\* Forks of the shipped template whose author drew the edges along which the
\* adapters read: from the upload to the parser and from the review to the
\* generator, with and without one from the parameters.
ParserEdges == {<<"upload_cad", "floor_parse">>, <<"architectural_review", "ai_options">>}

RewiredOrigin == OriginGraph("rewired-origin", ParserEdges)

RewiredWithLoads ==
    OriginGraph("rewired-with-loads", ParserEdges \cup {<<"parameters", "ai_options">>})

ShippedTemplateSet == {HelloWorkflow, StatikGenehmigungsplanung, VerolasOrigin}
=============================================================================
