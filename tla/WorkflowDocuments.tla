-------------------------- MODULE WorkflowDocuments --------------------------
(***************************************************************************)
(* The editable workflow documents of a project (workflow/documents.py)    *)
(* and the runs created from them or from a template (workflow/runs.py),   *)
(* by statements of overlapping READ COMMITTED transactions.  The catalog  *)
(* of templates is TemplateCatalog, which TemplateSync implements.         *)
(***************************************************************************)
EXTENDS Naturals, Sequences

CONSTANTS Request,      \* sessions, each serving one request at a time
          Document,     \* ids of document rows
          Run,          \* ids of run rows
          Place,        \* project, folder and name of a document
          Slug,         \* templates
          Releases,     \* what builds register: graphs by slug
          Graph,        \* definitions that fit the schema
          Valid,        \* those that validate_definition accepts
          Empty,        \* the definition without nodes
          None,         \* SQL's NULL, and a field a PATCH does not name
          Absent,       \* no row has this id yet
          Deleted,      \* the row of this id was deleted
          Patches,      \* places and graphs that PATCH requests name
          CatalogLimit  \* model bound: versions per template

Version == Slug \X (Nat \ {0})

DocumentRow == [place : Place, graph : Graph]

\* nodes stands for the run's node rows: the graph they were inserted for.
RunRow == [version : Version \cup {None}, document : Document \cup {None},
           snapshot : Graph \cup {None}, nodes : Graph]

\* NULL is no value, and the marks for a missing row are no rows.
ASSUME DocumentAssumptions ==
    /\ Valid \subseteq Graph
    /\ Empty \in Valid
    /\ None \notin Graph \cup Document \cup Run \cup Place
    /\ None \notin Version
    /\ {Absent, Deleted} \cap DocumentRow = {}
    /\ Absent \notin RunRow
    /\ \A release \in Releases :
          DOMAIN release \subseteq Slug /\ \A slug \in DOMAIN release :
              release[slug] \in Valid \ {Empty}
    /\ Patches \subseteq ((Place \cup {None}) \X (Graph \cup {None})) \ {<<None, None>>}
    /\ CatalogLimit \in Nat

VARIABLES history,    \* template versions by slug
          documents,  \* committed rows of workflow_documents, by id
          runs,       \* committed rows of workflow_runs, by id, with their nodes
          req         \* per session, its open transaction

vars == <<history, documents, runs, req>>

Catalog == INSTANCE TemplateCatalog

NoRequest == [op |-> "none", pc |-> "idle", id |-> None, document |-> None,
              version |-> None, place |-> None, graph |-> None]

Init == /\ Catalog!Init
        /\ documents = [d \in Document |-> Absent]
        /\ runs = [r \in Run |-> Absent]
        /\ req = [p \in Request |-> NoRequest]

-----------------------------------------------------------------------------
At(p, label) == req[p].pc = label
Op(p, ops) == req[p].op \in ops
SetReq(p, q) == req' = [req EXCEPT ![p] = q] /\ UNCHANGED <<history, documents, runs>>
Begin(p, q) == At(p, "idle") /\ SetReq(p, q)
End(p) == SetReq(p, NoRequest)

Live(d) == documents[d] \notin {Absent, Deleted}

Offered(slug) == history[slug] # <<>>
ActiveVersion(slug) == <<slug, Len(history[slug])>>
VersionGraph(v) == history[v[1]][v[2]]

\* Ids for new rows; the model has only so many.
FreshDocuments == {d \in Document : documents[d] = Absent /\ \A o \in Request : req[o].id # d}
FreshRuns == {r \in Run : runs[r] = Absent /\ \A o \in Request : req[o].id # r}

Or(value, default) == IF value = None THEN default ELSE value

\* Faulty: a PATCH writes every column, named or not.
NewRowOverwritten(p) == [place |-> req[p].place, graph |-> req[p].graph]

\* The document row that the request leaves behind.
NewRow(p) == IF Op(p, {"create"}) THEN [place |-> req[p].place, graph |-> req[p].graph]
             ELSE LET row == documents[req[p].document] IN
                  [place |-> Or(req[p].place, row.place), graph |-> Or(req[p].graph, row.graph)]

NewRun(p) == [version  |-> req[p].version,
              document |-> req[p].document,
              snapshot |-> IF req[p].document = None THEN None ELSE req[p].graph,
              nodes    |-> req[p].graph]

\* Faulty: the engine asks the root of the run for its graph of today.
RunGraphOfToday(run) ==
    IF run.version # None THEN VersionGraph(ActiveVersion(run.version[1]))
                          ELSE documents[run.document].graph

\* The graph the engine drives the run by: COALESCE(v.definition,
\* r.definition_snapshot) in _load_run_state.
RunGraph(run) == IF run.version # None THEN VersionGraph(run.version) ELSE run.snapshot

-----------------------------------------------------------------------------
(* Rows that a transaction holds until it ends, and who waits for them.    *)

\* Its UPDATE or DELETE has locked the row of d.
Writing(o, d) == /\ Op(o, {"update", "delete"}) /\ req[o].document = d
                 /\ req[o].pc \in {"reindex", "commit"}

\* The lock is one that foreign keys must wait for: the row goes away, or a
\* column of its unique constraint changes.
KeyWriting(o, d) == /\ Writing(o, d)
                    /\ Op(o, {"delete"}) \/ NewRow(o).place # documents[d].place

\* A run of d is inserted: its foreign key keeps the row of d from going away.
KeySharing(o, d) == Op(o, {"run"}) /\ At(o, "commit") /\ req[o].document = d

Others(p) == Request \ {p}

\* An entry for the place is in doubt until another transaction ends.
PlaceInDoubt(o, place) ==
    \/ \E d \in Document : Live(d) /\ documents[d].place = place /\ Writing(o, d)
    \/ Op(o, {"create", "update"}) /\ At(o, "commit") /\ NewRow(o).place = place

\* The unique constraint on (project_id, folder, name).
PlaceTaken(p, place) ==
    \E d \in Document \ {req[p].document} : Live(d) /\ documents[d].place = place

-----------------------------------------------------------------------------
(* Requests arrive, and read what they are asked to copy.                  *)

Create(p, place, graph) ==
    /\ FreshDocuments # {}
    /\ Begin(p, [NoRequest EXCEPT !.op = "create", !.pc = "write",
                                  !.id = CHOOSE d \in FreshDocuments : TRUE,
                                  !.place = place, !.graph = graph])

CreateBlankDocument(p, place) == Create(p, place, Empty)

CreateDocumentFromTemplate(p, place, slug) ==
    Offered(slug) /\ Create(p, place, VersionGraph(ActiveVersion(slug)))

\* A PATCH names a new place, a new graph, or both; the graph is validated.
UpdateDocument(p, d, place, graph) ==
    /\ Live(d)
    /\ graph \in Valid \cup {None}
    /\ Begin(p, [NoRequest EXCEPT !.op = "update", !.pc = "write", !.document = d,
                                  !.place = place, !.graph = graph])

DeleteDocument(p, d) ==
    /\ Live(d)
    /\ Begin(p, [NoRequest EXCEPT !.op = "delete", !.pc = "write", !.document = d])

StartRun(p, version, d, graph) ==
    /\ FreshRuns # {}
    /\ Begin(p, [NoRequest EXCEPT !.op = "run", !.pc = "write",
                                  !.id = CHOOSE r \in FreshRuns : TRUE,
                                  !.version = version, !.document = d, !.graph = graph])

CreateRun(p, slug) ==
    /\ Offered(slug)
    /\ StartRun(p, ActiveVersion(slug), None, VersionGraph(ActiveVersion(slug)))

CreateRunFromDocument(p, d) ==
    /\ Live(d)
    /\ documents[d].graph # Empty
    /\ StartRun(p, None, d, documents[d].graph)

-----------------------------------------------------------------------------
(* They write.                                                             *)

\* The new row has its index entry, or the place is taken and the request fails.
Placed(p, place) ==
    /\ \A o \in Others(p) : ~PlaceInDoubt(o, place)
    /\ IF PlaceTaken(p, place) THEN End(p) ELSE SetReq(p, [req[p] EXCEPT !.pc = "commit"])

InsertDocument(p) ==
    At(p, "write") /\ Op(p, {"create"}) /\ Placed(p, req[p].place)

\* The UPDATE finds no row, or locks it; the newest version of the row is written.
UpdateDocumentRow(p) ==
    LET d == req[p].document IN
    /\ At(p, "write") /\ Op(p, {"update"})
    /\ \A o \in Others(p) : ~Writing(o, d)
    /\ IF ~Live(d) THEN End(p)
       ELSE IF NewRow(p).place = documents[d].place
            THEN SetReq(p, [req[p] EXCEPT !.pc = "commit"])
            ELSE /\ \A o \in Others(p) : ~KeySharing(o, d)
                 /\ SetReq(p, [req[p] EXCEPT !.pc = "reindex"])

\* Faulty: the place is looked up among the committed rows.
MoveDocumentUnindexed(p) ==
    /\ At(p, "reindex")
    /\ IF PlaceTaken(p, req[p].place) THEN End(p)
                                      ELSE SetReq(p, [req[p] EXCEPT !.pc = "commit"])

MoveDocument(p) == At(p, "reindex") /\ Placed(p, req[p].place)

\* Faulty: a run need not have a root.
RootCheckLoose(run) == run.version = None \/ run.document = None

\* workflow_runs_root_check: rooted in a template or in a document.
RootCheck(run) == (run.version = None) # (run.document = None)

Detached(run) == [run EXCEPT !.document = None]
RunsOf(d) == {r \in Run : runs[r] # Absent /\ runs[r].document = d}

\* ON DELETE SET NULL, within the DELETE; the check may refuse it.
DeleteDocumentRow(p) ==
    LET d == req[p].document IN
    /\ At(p, "write") /\ Op(p, {"delete"})
    /\ \A o \in Others(p) : ~Writing(o, d) /\ ~KeySharing(o, d)
    /\ IF ~Live(d) THEN End(p)
       ELSE SetReq(p, [req[p] EXCEPT !.pc =
                IF \A r \in RunsOf(d) : RootCheck(Detached(runs[r]))
                THEN "commit" ELSE "refused"])

\* The run row, its nodes, and the first drive; the foreign key waits for a
\* delete of the document and fails after it.
InsertRun(p) ==
    /\ At(p, "write") /\ Op(p, {"run"})
    /\ \A o \in Others(p) : ~KeyWriting(o, req[p].document)
    /\ IF req[p].document # None /\ ~Live(req[p].document) THEN End(p)
       ELSE SetReq(p, [req[p] EXCEPT !.pc = "commit"])

Commit(p) ==
    /\ At(p, "commit")
    /\ documents' = CASE Op(p, {"create"}) -> [documents EXCEPT ![req[p].id] = NewRow(p)]
                      [] Op(p, {"update"}) -> [documents EXCEPT ![req[p].document] = NewRow(p)]
                      [] Op(p, {"delete"}) -> [documents EXCEPT ![req[p].document] = Deleted]
                      [] Op(p, {"run"})    -> documents
    /\ runs' = CASE Op(p, {"run"})    -> [runs EXCEPT ![req[p].id] = NewRun(p)]
                 [] Op(p, {"delete"}) -> [r \in Run |-> IF r \in RunsOf(req[p].document)
                                                        THEN Detached(runs[r]) ELSE runs[r]]
                 [] OTHER             -> runs
    /\ req' = [req EXCEPT ![p] = NoRequest]
    /\ UNCHANGED history

\* The request fails, by itself or because a statement was refused.
Rollback(p) == ~At(p, "idle") /\ End(p)

\* Another build of the program is rolled out.
Deploy ==
    \E release \in Releases :
        /\ \A slug \in DOMAIN release : Len(history[slug]) < CatalogLimit
        /\ Catalog!Install(release)
        /\ UNCHANGED <<documents, runs, req>>

\* Two requests that swap the places of two documents wait for each other;
\* PostgreSQL aborts one of them.
WaitsFor(p, o) == At(p, "reindex") /\ PlaceInDoubt(o, req[p].place)

\* Faulty: they are left alone.
NeverDeadlocked(p) == FALSE

Deadlocked(p) == \E D \in SUBSET Request :
                    p \in D /\ \A q \in D : \E o \in D \ {q} : WaitsFor(q, o)

AbortDeadlock(p) == Deadlocked(p) /\ Rollback(p)

Step(p) == \/ InsertDocument(p) \/ UpdateDocumentRow(p) \/ MoveDocument(p)
           \/ DeleteDocumentRow(p) \/ InsertRun(p) \/ Commit(p)
           \/ At(p, "refused") /\ Rollback(p)

Arrive(p) ==
    \/ \E place \in Place : CreateBlankDocument(p, place)
    \/ \E place \in Place, slug \in Slug : CreateDocumentFromTemplate(p, place, slug)
    \/ \E d \in Document, patch \in Patches : UpdateDocument(p, d, patch[1], patch[2])
    \/ \E d \in Document : DeleteDocument(p, d)
    \/ \E slug \in Slug : CreateRun(p, slug)
    \/ \E d \in Document : CreateRunFromDocument(p, d)

Next == \/ \E p \in Request : Arrive(p) \/ Step(p) \/ Rollback(p)
        \/ Deploy

Spec == Init /\ [][Next]_vars

\* A request that was started goes on; one that waits for a row gets it in the
\* end, and the deadlock detector aborts one of a cycle.
FairSpec == Spec /\ \A p \in Request : SF_vars(Step(p))
                 /\ WF_vars(\E o \in Request : AbortDeadlock(o))

-----------------------------------------------------------------------------
TypeOK ==
    /\ \A d \in Document : documents[d] \in DocumentRow \cup {Absent, Deleted}
    /\ \A r \in Run : runs[r] \in RunRow \cup {Absent}
    /\ \A p \in Request :
        /\ req[p].op \in {"none", "create", "update", "delete", "run"}
        /\ req[p].pc \in {"idle", "write", "reindex", "refused", "commit"}
        /\ req[p].id \in Document \cup Run \cup {None}
        /\ req[p].document \in Document \cup {None}
        /\ req[p].version \in Version \cup {None}
        /\ req[p].place \in Place \cup {None}
        /\ req[p].graph \in Graph \cup {None}

\* "Keeping run history immutable against later edits": whatever happens to its
\* document or template, the graph the engine reads for a run stays the one
\* whose nodes were inserted for it, which is valid and has nodes.
RunsExecuteTheirNodes ==
    \A r \in Run : runs[r] # Absent =>
        /\ RunGraph(runs[r]) = runs[r].nodes
        /\ runs[r].nodes \in Valid \ {Empty}

\* A run has a template or a document, never both, and it exists: deletes,
\* inserts and roll-outs at the same time leave no run without its origin.
RunsRooted ==
    \A r \in Run : runs[r] # Absent =>
        LET run == runs[r] IN
        \/ run.document = None /\ run.version # None
           /\ run.version[2] \in 1..Len(history[run.version[1]])
        \/ run.version = None /\ run.document # None /\ Live(run.document)

\* Documents of one project and folder have different names, also when they are
\* created and moved at the same time.
UniquePlaces ==
    \A d, e \in Document : Live(d) /\ Live(e) /\ d # e => documents[d].place # documents[e].place

\* Requests end, also those that swap the places of two documents.
RequestsEnd == \A p \in Request : ~At(p, "idle") ~> At(p, "idle")
=============================================================================
