----------------------------- MODULE TemplateRun -----------------------------
(***************************************************************************)
(* One run of a shipped template or of a fork of it, with what the nodes   *)
(* hand to each other: the outputs users post, the adapters' inputs,       *)
(* outputs and artifacts in object storage, and the sealed package that    *)
(* the Origin export writes.  The rules of the executor are those of       *)
(* WorkflowExecutor; a request is one step here, and what goes on inside   *)
(* one or between two of them is the subject of WorkflowRun and            *)
(* WorkflowTxn.                                                            *)
(***************************************************************************)
EXTENDS ShippedTemplates, GridEngine

CONSTANTS Templates,          \* the templates a run may be created from
          Geometries,         \* reviewed geometries an engineer may post
          PostedLoads,        \* loads an engineer may post with the parameters
          Exporter,           \* calls of the export route
          None,
          AttemptLimit,       \* model bound: requests that call an adapter
          NotedOptions,       \* model bound: variants an engineer approves by name
          ExportedGeometries  \* model bound: exports are explored for these only

ASSUME BoundsAreNat == AttemptLimit \in Nat /\ ExportedGeometries \subseteq Geometries

VARIABLES template,  \* the definition the run is pinned to
          rows,      \* workflow_runs and workflow_run_nodes of the run, with outputs
          storage,   \* per artifact key, the request that wrote it last (0: none)
          attempt,   \* requests that called an adapter so far
          exporter,  \* per export call: what it does, what it read
          sealed     \* sealed.dxf, sealed.pdf and sealed.ifc: the export that wrote them

vars == <<template, rows, storage, attempt, exporter, sealed>>
exports == <<exporter, sealed>>

Exec(t) == INSTANCE WorkflowExecutor WITH Node <- t.nodes

\* The nodes whose adapters this module knows, by their keys in the templates.
AdapterNodes == {"floor_parse", "ai_options", "statik_compile"}

\* Templates are definitions that validate_definition accepts.
ASSUME TemplatesAreValid == \A t \in Templates :
    /\ IsFiniteSet(t.nodes)
    /\ t.edges \subseteq t.nodes \X t.nodes
    /\ t.kind \in [t.nodes -> Exec(t)!NodeKind]
    /\ t.tool \in [t.nodes -> Exec(t)!ToolRef]
    /\ Exec(t)!Acyclic(t)
    /\ \A n \in t.nodes : t.tool[n] = "registered" => n \in AdapterNodes

ASSUME InputsAreValid ==
    /\ Geometries \subseteq [width : Nat, depth : Nat, storeys : Nat, roof : BOOLEAN]
    /\ PostedLoads \subseteq [dead : Int, live : Int]
    /\ NotedOptions \subseteq {Variants[v].variant : v \in DOMAIN Variants}

Artifact == {"geometry.json", "floor.svg", "statik.pdf"}
SealedFile == {"dxf", "pdf", "ifc"}

\* What went wrong during a request: an adapter raises or reports an error
\* before it has stored anything, or at the second object it stores.
Fault == {"none", "early", "late"}

NotExporting == [pc |-> "idle", option |-> None, alone |-> TRUE]

Init == /\ template \in Templates
        /\ rows = [run |-> "absent", node |-> Exec(template)!InitialNodeStates(template),
                   emitted |-> {}, geometry |-> None, loads |-> None,
                   options |-> <<>>, parsed_by |-> 0, note |-> None]
        /\ storage = [a \in Artifact |-> 0]
        /\ attempt = 0
        /\ exporter = [e \in Exporter |-> NotExporting]
        /\ sealed = [f \in SealedFile |-> None]

-----------------------------------------------------------------------------
(* The adapters.  An adapter is given the outputs of the direct upstream   *)
(* nodes and nothing else.                                                 *)

\* Faulty: an adapter is given the outputs of every node of the run.
InputsOfAll(t, w, n) == w.emitted

Inputs(t, w, n) == Exec(t)!Upstream(t, n) \cap w.emitted

LoadsFor(t, w) == IF "parameters" \in Inputs(t, w, "ai_options") THEN w.loads ELSE DefaultLoads

\* The parser needs the upload, the generator a reviewed geometry with a floor.
ParserRefuses(t, w) == "upload_cad" \notin Inputs(t, w, "floor_parse")

GeneratorRefuses(t, w) ==
    \/ "architectural_review" \notin Inputs(t, w, "ai_options")
    \/ ~HasFloors(w.geometry)

Refuses(t, w, n) ==
    (n = "floor_parse" /\ ParserRefuses(t, w)) \/ (n = "ai_options" /\ GeneratorRefuses(t, w))

\* Faulty: an SVG that cannot be stored is logged and otherwise ignored.
AdapterFailsEarlyOnly(t, w, fault, n) == fault = "early" \/ Refuses(t, w, n)

\* The invocable nodes whose adapter fails.
AdapterFails(t, w, fault, n) == fault # "none" \/ Refuses(t, w, n)

\* The keys an adapter has put when it returns, whether it succeeded or not.
StoredBy(t, w, fault, n) ==
    CASE n = "floor_parse" /\ ~ParserRefuses(t, w) /\ fault = "none"
            -> {"geometry.json", "floor.svg"}
      [] n = "floor_parse" /\ ~ParserRefuses(t, w) /\ fault = "late"
            -> {"geometry.json"}
      [] n = "statik_compile" /\ fault = "none" -> {"statik.pdf"}
      [] OTHER -> {}

\* A request in progress: the rows as its transaction sees them, the keys it has
\* put so far, and whether the last iteration moved a node.
Working(r) == [rows |-> r, stored |-> {}, moved |-> TRUE]

Applied(t, node, batch) ==
    [n \in t.nodes |-> IF n \in DOMAIN batch THEN batch[n].new_status ELSE node[n]]

\* One iteration of _advance_until_blocked.
Iteration(t, w, fault) ==
    LET r      == w.rows
        called == Exec(t)!Invocable(t, r.node)
        failed == {n \in called : AdapterFails(t, r, fault, n)}
        done   == called \ failed
        batch  == Exec(t)!Dispatch(t, r.node, failed)
        mid    == Applied(t, r.node, batch)
        second == Exec(t)!Advance(t, mid)
    IN [stored |-> w.stored \cup UNION {StoredBy(t, r, fault, n) : n \in called},
        moved  |-> DOMAIN batch \cup DOMAIN second # {},
        rows   |-> [r EXCEPT
            !.node = Applied(t, mid, second),
            !.emitted = r.emitted \cup done,
            !.options = IF "ai_options" \in done
                        THEN GenerateOptions(r.geometry, LoadsFor(t, r)) ELSE r.options,
            !.parsed_by = IF "floor_parse" \in done THEN attempt + 1 ELSE r.parsed_by]]

\* The loop runs until an iteration moves nothing.  An automated node moves once
\* and makes others ready in the same or in the next iteration, so two iterations
\* for each of them are enough.
Enough(t) == 2 * Cardinality({n \in t.nodes : t.kind[n] = "automated"}) + 2

Again(t, w, fault) == IF w.moved THEN Iteration(t, w, fault) ELSE w

Iterations(t, r, fault) ==
    LET after[k \in 0..Enough(t)] ==
            IF k = 0 THEN Working(r) ELSE Again(t, after[k - 1], fault)
    IN after

\* _finalize_run_status comes after the loop.
Finalized(t, w) == [w EXCEPT !.rows.run = Exec(t)!ComputedRunStatus(w.rows.node)]

Settled(t, r, fault) == Finalized(t, Iterations(t, r, fault)[Enough(t)])

\* A request that drives the run.  It commits, or the server goes down before
\* it does: the rows are then as before, what it has put in storage is not.
Drive(r) ==
    \E fault \in Fault :
        LET w == Settled(template, r, fault)
            calls == w.stored # {}
        IN /\ calls => attempt < AttemptLimit
           /\ rows' \in {w.rows, rows}
           /\ storage' = [a \in Artifact |-> IF a \in w.stored THEN attempt + 1 ELSE storage[a]]
           /\ attempt' = IF calls THEN attempt + 1 ELSE attempt
           /\ UNCHANGED <<template, exports>>

-----------------------------------------------------------------------------
WithStatus(r, n, status) == [r EXCEPT !.node[n] = status]

CreateRun ==
    /\ rows.run = "absent"
    /\ Drive([rows EXCEPT !.run = "running"])

\* mark_manual_done: the outputs are whatever the user posts, an empty object
\* included; emits says that they hold what a later step reads.
MarkManualDone(n, emits) ==
    /\ rows.run # "absent"
    /\ Exec(template)!CanMarkDone(template, rows.node, n)
    /\ Drive([WithStatus(rows, n, "completed") EXCEPT
                 !.emitted = IF emits THEN @ \cup {n} ELSE @])

PostParameters(loads) ==
    /\ rows.run # "absent"
    /\ "parameters" \in template.nodes
    /\ Exec(template)!CanMarkDone(template, rows.node, "parameters")
    /\ Drive([WithStatus(rows, "parameters", "completed") EXCEPT
                 !.emitted = @ \cup {"parameters"}, !.loads = loads])

PostReviewedGeometry(geometry) ==
    /\ rows.run # "absent"
    /\ "architectural_review" \in template.nodes
    /\ Exec(template)!CanMarkDone(template, rows.node, "architectural_review")
    /\ Drive([WithStatus(rows, "architectural_review", "completed") EXCEPT
                 !.emitted = @ \cup {"architectural_review"}, !.geometry = geometry])

\* At select_option the note may name an option.
NotesAt(n) ==
    {None} \cup {v \in NotedOptions : n = "select_option" /\ rows.options # <<>>}

\* The note goes into the event of the approval; the transition has no outputs.
ApproveGate(n) ==
    /\ rows.run # "absent"
    /\ Exec(template)!CanDecide(template, rows.node, n)
    /\ \E note \in NotesAt(n) :
          Drive([WithStatus(rows, n, "completed") EXCEPT !.note = note])

\* Faulty: a rejected gate stays open.
RejectGateOpen(n) ==
    /\ rows.run # "absent"
    /\ Exec(template)!CanDecide(template, rows.node, n)
    /\ rows' = [WithStatus(rows, n, "paused") EXCEPT !.run = "running"]
    /\ UNCHANGED <<template, storage, attempt, exports>>

RejectGate(n) ==
    /\ rows.run # "absent"
    /\ Exec(template)!CanDecide(template, rows.node, n)
    /\ rows' = [WithStatus(rows, n, "failed") EXCEPT !.run = "failed"]
    /\ UNCHANGED <<template, storage, attempt, exports>>

CancelRun ==
    /\ rows.run # "absent"
    /\ rows' = [rows EXCEPT
                   !.run = "cancelled",
                   !.node = [n \in template.nodes |->
                                IF rows.node[n] \in Exec(template)!Terminal
                                THEN rows.node[n] ELSE "skipped"]]
    /\ UNCHANGED <<template, storage, attempt, exports>>

-----------------------------------------------------------------------------
(* export_origin_seal_package.                                             *)

Exporting(e) == exporter[e].pc \in {"dxf", "pdf", "ifc"}

\* What the route finds of the note in the outputs of select_option.
NoteInOutputs(r) == IF "select_option" \in r.emitted THEN r.note ELSE None

\* _pick_option_from_note: the option the note names, else the first.
PickedOption(r) ==
    IF r.options = <<>> THEN None
    ELSE IF NoteInOutputs(r) # None THEN NoteInOutputs(r)
    ELSE r.options[1].variant

\* The route looks at the reviewed geometry alone: neither at the status of the
\* run or of a gate, nor at an export that is under way.
ExportBegin(e) ==
    /\ exporter[e].pc = "idle"
    /\ rows.run # "absent"
    /\ "architectural_review" \in rows.emitted
    /\ rows.geometry \in ExportedGeometries
    /\ exporter' = [x \in Exporter |->
          IF x = e THEN [pc |-> "dxf", option |-> PickedOption(rows),
                         alone |-> ~\E y \in Exporter : Exporting(y)]
          ELSE IF Exporting(x) THEN [exporter[x] EXCEPT !.alone = FALSE] ELSE exporter[x]]
    /\ UNCHANGED <<template, rows, storage, attempt, sealed>>

AfterPut == [dxf |-> "pdf", pdf |-> "ifc", ifc |-> "done"]

\* Faulty: the package is complete without the IFC.
ExportPutTwo(e) ==
    /\ Exporting(e)
    /\ sealed' = [sealed EXCEPT ![exporter[e].pc] = e]
    /\ exporter' = [exporter EXCEPT ![e].pc = IF @ = "dxf" THEN "pdf" ELSE "done"]
    /\ UNCHANGED <<template, rows, storage, attempt>>

ExportPut(e) ==
    /\ Exporting(e)
    /\ sealed' = [sealed EXCEPT ![exporter[e].pc] = e]
    /\ exporter' = [exporter EXCEPT ![e].pc = AfterPut[exporter[e].pc]]
    /\ UNCHANGED <<template, rows, storage, attempt>>

\* Object storage fails or the server goes down: what was put stays.
ExportFail(e) ==
    /\ Exporting(e)
    /\ exporter' = [exporter EXCEPT ![e].pc = "failed"]
    /\ UNCHANGED <<template, rows, storage, attempt, sealed>>

UserStep ==
    \/ CreateRun
    \/ \E n \in template.nodes : MarkManualDone(n, FALSE)
    \/ \E n \in template.nodes \cap {"upload_cad"} : MarkManualDone(n, TRUE)
    \/ \E loads \in PostedLoads : PostParameters(loads)
    \/ \E geometry \in Geometries : PostReviewedGeometry(geometry)
    \/ \E n \in template.nodes : ApproveGate(n)
    \/ \E n \in template.nodes : RejectGate(n)
    \/ CancelRun

ExportStep == \E e \in Exporter : ExportBegin(e) \/ ExportPut(e) \/ ExportFail(e)

Next == UserStep \/ ExportStep

Spec == Init /\ [][Next]_vars

-----------------------------------------------------------------------------
Named == {Variants[v].variant : v \in DOMAIN Variants} \cup {None}

TypeOK ==
    /\ template \in Templates
    /\ rows.run \in Exec(template)!RunStatus \cup {"absent"}
    /\ rows.node \in [template.nodes -> Exec(template)!NodeStatus]
    /\ rows.emitted \subseteq template.nodes
    /\ rows.geometry \in Geometries \cup {None}
    /\ rows.loads \in PostedLoads \cup {None}
    /\ rows.options = <<>> \/ Len(rows.options) = 3
    /\ rows.parsed_by \in 0..AttemptLimit
    /\ rows.note \in Named
    /\ storage \in [Artifact -> 0..attempt]
    /\ attempt \in 0..AttemptLimit
    /\ exporter \in [Exporter -> [pc : {"idle", "dxf", "pdf", "ifc", "done", "failed"},
                                   option : Named, alone : BOOLEAN]]
    /\ sealed \in [SealedFile -> Exporter \cup {None}]

\* The kinds of the schema that no operation of the service completes.
Unserved == {"gate.signature", "external_wait", "branch.condition", "branch.iterate",
             "submission", "notification"}

\* What a running run of a shipped template waits for (schema.py:27): a node a
\* user can act on, a failed node nobody can retry, or a node of a kind that no
\* operation completes; and a run in which such a node exists never completes.
RunningRunsWait ==
    /\ rows.run = "running" =>
          \E n \in template.nodes :
              \/ Exec(template)!CanMarkDone(template, rows.node, n)
              \/ Exec(template)!CanDecide(template, rows.node, n)
              \/ rows.node[n] = "failed"
              \/ rows.node[n] = "ready" /\ template.kind[n] \in Unserved
    /\ rows.run = "completed" => \A n \in template.nodes : template.kind[n] \notin Unserved

\* The artifacts a committed node promises are all there and were all written by
\* the request that completed the node, although keys are fixed per run, the
\* objects are put before the commit, and a request that put some may have been
\* rolled back (runs.py:685).
ArtifactsOfOneAttempt ==
    /\ "floor_parse" \in rows.emitted =>
          /\ rows.parsed_by > 0
          /\ \A a \in {"geometry.json", "floor.svg"} : storage[a] = rows.parsed_by
    /\ "statik_compile" \in rows.emitted => storage["statik.pdf"] > 0

\* A package whose three files come from different exports is only ever the
\* work of an export that failed half way, is still writing, or overlapped with
\* another one (workflows.py:558): the keys are fixed and nothing locks them.
SealedPackageWhole ==
    (\E f, g \in SealedFile : sealed[f] # sealed[g]) =>
        \E e \in Exporter : exporter[e].pc = "failed" \/ Exporting(e) \/ ~exporter[e].alone

\* The adapters of Origin read upload_cad and architectural_review, and are
\* given the outputs of direct upstream nodes only (runs.py:658): floors are
\* parsed and options proposed only where the graph has those very edges, which
\* the shipped template has not.
OriginNeedsDirectEdges ==
    /\ "floor_parse" \in rows.emitted => <<"upload_cad", "floor_parse">> \in template.edges
    /\ rows.options # <<>> => <<"architectural_review", "ai_options">> \in template.edges
    /\ template = VerolasOrigin => rows.run # "completed" /\ rows.geometry = None

\* The bay of Optimized is never smaller than that of Balanced, nor that one
\* smaller than Conservative's, through the rounding and the two loops of
\* _cols_for_target; and no bay leaves the bounds of the engine (grid.py:307).
BayGridsOrdered ==
    \A i \in DOMAIN rows.options :
        LET bay == rows.options[i].bay
            cols == rows.options[i].cols
        IN /\ bay.x <= 10 * MaxBay /\ bay.y <= 10 * MaxBay
           /\ cols.x > 1 => bay.x >= 10 * MinBay
           /\ cols.y > 1 => bay.y >= 10 * MinBay
           /\ i > 1 => /\ bay.x <= rows.options[i - 1].bay.x
                       /\ bay.y <= rows.options[i - 1].bay.y

Overloaded(option, m) == m.demand > Capacity(option.system, m)

NothingPasses(option, m) ==
    Passing(SectionsFor(option.system, m.role), m.demand) = {}

\* An option has an overloaded member only where no section of the catalogue
\* would do, or where the "middle" strategy stepped up a rank; and the option
\* says so: in its caveats unless the ratio rounds to 1.000, and in its
\* distribution unless the share does to 0.000 (grid.py:513, 589 and 748).
OverloadsExplained ==
    \A i \in DOMAIN rows.options :
        LET option == rows.options[i] IN
        \A m \in option.members : Overloaded(option, m) =>
            /\ NothingPasses(option, m) \/ option.variant = "balanced"
            /\ Dcr(option.system, m) > 1000 => "overload" \in option.caveats
            /\ option.dcr.over_100 > 0 \/ 2000 * m.count <= Number(option.schedule)

\* "The engineer's `select_option` gate then picks one option_id, which flows into
\* `detail_edit` and `export_seal`" (origin_generator.py:24): an export that begins
\* after an option was approved by name is an export of that option.
ApprovedOptionSealed ==
    [][\A e \in Exporter :
          exporter[e].pc = "idle" /\ exporter'[e].pc = "dxf" /\ rows.note # None
             => exporter'[e].option = rows.note]_vars
=============================================================================
