# Verolas: a TLA+ model of the workflow engine and the services around it

Verolas is a multi-tenant web service for civil engineers: a FastAPI application
on PostgreSQL (`apps/api`), a Next.js client (`apps/web`), a daemon inside
customers' networks (`apps/bridge`) and shared libraries (`services`).  Its core
is a workflow engine: a *run* executes a graph of nodes, some of which a tool
completes and others a licensed engineer does or signs off.  Around it are the
services of an organisation: projects and files, connectors to the vendors'
clouds, and a bridge to programs in the customer's network.  This directory
models the engine with the templates and documents it runs and the structural
options its tools compute, and the services with the audit trail they share; it
checks them with TLC, and proves with TLAPS, for instances of any size, all the
safety that TLC finds true on small ones.

Paths below are relative to `src/`; `api/` stands for `apps/api/verolas_api/`.

## 1. Inventory

| Component | State | Operations | What is hard, what makes it correct |
|---|---|---|---|
| Workflow executor `api/workflow/executor.py`, `schema.py` | none (pure) | `compute_initial_node_states`, `advance`, `apply_manual_completion`, `apply_gate_decision`, `derive_run_status` | Batches computed from one snapshot enable the next batch; work only starts after its upstream nodes |
| Run service `api/workflow/runs.py` | `workflow_runs`, `workflow_run_nodes`, `workflow_run_events` | `create_run`, `create_run_from_document`, `mark_manual_done`, `submit_gate_decision`, `cancel_run`, the loop `_advance_until_blocked` | Requests overlap and lock nothing they read; run, nodes and events must agree; runs must not get stuck |
| Definitions, registry `api/workflow/schema.py`, `registry.py` | `_TEMPLATES` of the process | `register_template`, `validate_definition` | No cycles, entry nodes as declared |
| Template sync `api/workflow/sync.py`, function `app.upsert_global_workflow_template` | `workflow_templates`, `workflow_template_versions` | sync of all templates at start-up | Processes that start together, with old or new code; versions immutable, exactly one active |
| Documents `api/workflow/documents.py` | `workflow_documents` | create, fork, update, delete | Edits while runs exist; snapshots; unique names; the root constraint of runs |
| Workflow routes `api/routes/v1/workflows.py` | none | one request each | One transaction per request |
| Tenancy `api/dependencies/*`, `services/auth/verolas_auth/tenancy.py` | transaction-local settings | `db_org_conn`, `db_conn`, `public_conn`, `bridge_conn` | Row-level security sees nothing before the settings are made |
| Bridge API `api/routes/v1/bridges.py` and agent `apps/bridge` | `bridges`, `bridge_jobs`; the agent's claim | enrol, revoke, poll, result; tick, dispatch | Lost responses, late results, polls racing a revocation, a failed call that ends a tick |
| Connectors `api/routes/v1/connectors.py`, `connector_oauth.py`, `api/connectors.py` | `connector_installations`, `connector_bindings`, `connector_waitlist`, `connector_oauth_state` | install, uninstall, waitlist, bind, unbind, OAuth start and callback | One-shot state; failing exchanges; a binding made while its connector goes |
| SharePoint sync `api/sync/sharepoint.py`, `api/routes/v1/connector_sync.py` | `files`, delta cursor, object store | `trigger_sync`, `sync_sharepoint_binding` | Object store outside the transaction; two syncs at once; the cursor must not run ahead of the rows |
| Adapters and templates `api/workflow/adapters`, `api/workflow/templates` | objects under keys fixed per run | three adapters, the export of the sealed package | Objects are put before the commit; inputs come from direct upstream nodes only |
| Origin engine `api/workflow/origin` | none | `generate_options`; parsing, pricing, drawing | Rounding and loops over bounds; a ranked catalogue that is not ordered by strength |
| Audit trail `api/audit.py`, trigger `app.activity_log_chain` | `activity_log` | `record_activity`, last statement of most requests | Concurrent inserts draw one number; a refused insert must take its request with it |
| Projects, agent runs, library, files `api/routes/v1/projects.py`, `runs.py`, `library.py`, `project_files.py` | `projects`, `agent_runs`, `library_folders`, `files` | create, queue, upload, delete a folder | Unique names, cascades, and a trail that tells the same story |
| Organisations, onboarding, authentication, middleware, web client | their tables | mostly one statement per request | Not modelled, see section 8 |

Components interact through the database and by calls: a route opens a
transaction (`dependencies/org.py`), calls a service function, and the
transaction commits or rolls back when the request ends.  The run service calls
the pure executor and, for automated nodes, an adapter.  A request of the other
services writes its rows and then a row of the audit trail, in one transaction;
vendors and the object store are called in the middle of it.  There is no background
worker: a run only moves inside some user's request.  This is why stuck runs
matter: nothing wakes them up.

## 2. Modules

| Module | Models |
|---|---|
| `WorkflowExecutor` | the decision functions of `executor.py`, the dispatch decision of `runs.py`, and what the registry accepts, as operators over a definition and a status per node |
| `WorkflowRows` | the three tables for one run as a record, and what each statement of `runs.py` does to it |
| `WorkflowRun` | one run under requests that do not overlap; how it is seen as `RunLifecycle` |
| `RunLifecycle` | what a run promises to somebody who only reads it; the abstract specification of `WorkflowRun` |
| `WorkflowTxn` | the same requests interleaved statement by statement; how one session is seen as `WorkflowRun` |
| `WorkflowEvents` | `WorkflowTxn` with what `workflow_run_events` stores of the order of events: when the transaction began |
| `WorkflowGraphs` | the definitions of the small instances |
| `WorkflowRunMC`, `WorkflowTxnMC`, `WorkflowEventsMC` | instances |
| `TemplateCatalog` | what the template tables promise: a history of graphs per slug; the abstract specification of `TemplateSync` and the catalog that `WorkflowDocuments` forks from |
| `TemplateSync` | the sync of a starting process and `app.upsert_global_workflow_template`, by statements |
| `WorkflowDocuments` | documents, and runs created from them or from templates, by statements of overlapping requests |
| `TemplateSyncMC`, `WorkflowDocumentsMC` | instances |
| `ShippedTemplates` | the graphs, kinds and tools of the three templates in the build, the registered adapters, and two rewired forks of Origin |
| `GridEngine` | the grid engine with its section catalogues, as operators over integers |
| `TemplateRun`, `TemplateRunMC` | one run of such a template with its data flow, storage and exports; instance |
| `ActivityChain` | transactions of one organisation and the audit trail; extended by the services below |
| `OrgWorkspace` | projects, agent runs, library folders, files |
| `ConnectorCatalog`, `ConnectorInstalls` | the connector classes; installations, bindings, waitlist and OAuth state |
| `SharePointSync` | syncs of the bindings of `ConnectorInstalls` against a changing drive |
| `BridgeQueue` | a bridge, its jobs and its agent |
| `Platform`, `PlatformMC` | the services composed over one audit trail; instance |
| `WorkflowRunProofs`, `WorkflowTxnProofs`, `TemplateSyncProofs`, `WorkflowDocumentsProofs`, `TemplateRunProofs`, `PlatformProofs` | theorems about the module of that name; those about `WorkflowEvents` are in `WorkflowTxnProofs` |
| `OriginProofs` | theorems about the bay grid and the member design of `GridEngine` and the graph of the shipped Origin template |
| `InductionLemmas` | induction over the naturals in a form the provers can use |

How they fit together: `TemplateSync` implements `TemplateCatalog`; `WorkflowDocuments`
uses `TemplateCatalog` for roll-outs and shows that a run's graph is fixed when
it is created; `WorkflowRun` and `WorkflowTxn` take that fixed graph as
`definition` and model what happens to the run.  `TemplateRun` uses the operators
of `WorkflowExecutor` too and adds what the other two leave out, the outputs that
nodes hand on; in return a request is one step there.  `Platform` is separate from
the engine: the two share no rows.  Its initial state chooses a *scenario*, the
services that are used; a step of one service leaves the rows of the others alone,
so running all of them at once would only multiply states.  The sync scenario
composes two services, bindings that come and go while they are synced.

### State

`definition` is the pinned template version or the document snapshot; it never
changes during a run.  A definition is a set of edges with a kind and a tool per
node.  Params are abstracted to what the engine asks of them: no tool, a tool
nobody registered, or a registered one.

A row set (`Rows`) has the run's status, whether `completed_at` is set, status
and gate decision per node, and the event log, one for the run and one per node.
The logs are sequences in the order of the writes, which the tables do not keep.
Nothing is read off that order where requests do not overlap: a node becomes ready
before it gets its verdict.  Where they do, `WorkflowTxn` uses the logs as sets only,
and `WorkflowEvents` says what can be told from the table.  Node outputs, assignees,
timestamps and payloads are left out: no decision depends on them.

In `WorkflowRun`, `db` is what is committed, `work` what the open transaction
sees, `pc` where it is, and `iteration`, `dispatched` are local variables of
`_advance_until_blocked`.  `exhausted` is a history variable: some drive was cut
off by the loop's bound.

In `WorkflowTxn`, every session has a transaction with its uncommitted rows, the
rows it has locked, the batch it is applying and its local variables.  `View` is
what a SELECT returns: its own writes over what is committed at that moment
(READ COMMITTED, PostgreSQL's default, which the code does not change).  An
UPDATE waits while another transaction holds the row and then acts on the newest
version.  Batches are applied in any order, since the SELECT that feeds them has
no ORDER BY.

`WorkflowEvents` gives each transaction the time it began (`began`, PostgreSQL's
`now()`), which is the only thing that the committed events (`stored`, a set per node)
keep of their order.  `touched` and `contested` are history variables: when a node's
events were last committed, and which nodes were written by two transactions of
which one began before the other had committed.

`TemplateSync` keeps the committed rows of both tables (`templates`, `versions`),
and per process what its transaction inserted, locked, retired and minted.
Graphs stand for their hashes.  A process that is not syncing is `idle`; what it
serves is not part of this module.

`WorkflowDocuments` keeps `history` (the catalog), the rows of documents and of
runs, and one open transaction per session (`req`).  A `Place` stands for project,
folder and name, the unique key of a document.  `nodes` of a run is the graph for
which its node rows were inserted.  The locks are PostgreSQL's: an UPDATE of the
unique key or a DELETE of a document conflicts with the key-share lock of a new
run that refers to it, an UPDATE of the graph does not; an index entry of an open
transaction makes others wait.

`TemplateRun` keeps the row of the run with a status per node (`rows`), and of the
outputs what a later step reads: which nodes have emitted, the reviewed geometry,
the loads, the options and the note of the last approval.  `storage` says of each
artifact which request wrote it last, `sealed` which export wrote each file of the
package.  `exporter` is the export route's calls: where each is, which option it
read, and whether it was ever `alone`.

`GridEngine` keeps a footprint in decimetres, a bay in centimetres, loads in
hundredths of kN/m2 and forces in tenths of kN or kNm, each rounded down where the
code keeps a float.  A section is its rank.  Members are kept as groups of equal
ones (edge and interior beams of both directions, corner, edge and interior
columns) with their number, instead of one by one.

In `ActivityChain` a transaction in `open` has the rows it locks, the rows its
foreign keys share, and the number its audit row drew.  `Record` moves it to the
end of `open`, so that the first of those that drew one number stands in front:
the only one that may commit.  `log` is the committed trail, and its last number
its length.  Uncommitted writes are kept in the transaction and applied by the
service's commit action.

`BridgeQueue`'s `agent` is the daemon: where it is in its tick, what is left of
its claim, and the job it submits; `heard` of a request says whether the agent
still waits for the answer.  `SharePointSync`'s `drive` is the vendor's truth, with
the number of an item's last change; `vault` and `objects` are the row and the bytes
of an item under a binding, with the change they show.  `overtaken`, `overlapped`,
`completed` and `dropped` are history variables: no action reads them.

### Actions

| Action | Code |
|---|---|
| `CreateRun` | `create_run`, `create_run_from_document` up to the loop |
| `MarkManualDone(n)`, `SubmitGateDecision(n, d)` | guard in `executor.py`, then `_apply_transitions` |
| `CancelRun` (and `SkipNode`, `CancelRunRow`) | `cancel_run`, whose two UPDATEs are separate steps in `WorkflowTxn` |
| `DispatchReadyAdapters` | step 1 of an iteration, any subset of the adapters failing |
| `AdvancePass` | step 2 and the decision to iterate |
| `ApplyTransition` | one UPDATE of `_apply_transitions` with its event |
| `ComputeRunStatus`, `FinalizeRunStatus` | the SELECT and the UPDATE of `_finalize_run_status` |
| `Commit`, `Rollback` | the end of the transaction in `dependencies/org.py`; a rollback is possible at every point |
| `AbortDeadlock` | PostgreSQL's deadlock detector |

`WorkflowEvents`:

| Action | Code |
|---|---|
| `Begin` | `db_org_conn` opens the transaction and looks the membership up, before the run is read |
| `Execute` | any step of `WorkflowTxn` up to the commit |
| `CommitEvents`, `RollbackEvents` | the end of the transaction, with the rows `_emit_event` inserted (`Inserts`) or without |

`TemplateSync`:

| Action | Code |
|---|---|
| `Boot` | `lifespan` calls `sync_code_templates` |
| `FindTemplate`, `InsertTemplate`, `UpdateTemplate`, `CompareVersion`, `MintVersion` | the statements of `upsert_global_workflow_template`; `MintVersion` joins the last three, which touch only rows that the lock on the catalog row protects |
| `Commit`, `Rollback` | the end of the sync's transaction; a failed sync is logged and the process serves |

`WorkflowDocuments`:

| Action | Code |
|---|---|
| `CreateBlankDocument`, `CreateDocumentFromTemplate`, `InsertDocument` | the functions of that name and `_insert` |
| `UpdateDocument`, `UpdateDocumentRow`, `MoveDocument` | `update_document`: validation, the row, its entry in the unique index |
| `DeleteDocument`, `DeleteDocumentRow` | `delete_document` with ON DELETE SET NULL and the root check |
| `CreateRun`, `CreateRunFromDocument`, `InsertRun` | the SELECT of the graph, and the INSERT of run and nodes |
| `Deploy` | a step of `TemplateCatalog` |

`TemplateRun`:

| Action | Code |
|---|---|
| `CreateRun`, `MarkManualDone`, `PostParameters`, `PostReviewedGeometry`, `ApproveGate` | the functions of `runs.py` with the whole loop (`Settled`), adapters included; `Drive` lets them commit or roll back, in both cases with what they stored |
| `RejectGate`, `CancelRun` | the functions of that name |
| `ExportBegin`, `ExportPut`, `ExportFail` | `export_origin_seal_package`: what it reads, its three puts, and its end half way |

The services:

| Action | Code |
|---|---|
| `CreateProject`, `QueueRun`, `CreateFolder`, `DeleteFolder`, `UploadFolderFile`, `InitiateUpload` | the handlers up to the audit insert |
| `InstallConnector`, `UninstallConnector`, `WaitlistConnector`, `DeleteBinding` | the handlers; `CheckInstallation` and `InsertBinding` are the two statements of `create_binding` |
| `OAuthStart`, `OAuthCallback`, `VendorError`, `ExchangeCode`, `Expire` | the start; the DELETE of the state row, the vendor's refusal, the upsert; time passing |
| `TriggerSync`, `StoreItem`, `WriteItem`, `DeleteItem`, `WriteCursor` | reading the binding and the delta; download and put, then the row; the deletion; the UPDATE of the cursor |
| `DriveChange` | somebody edits the drive |
| `EnrollBridge`, `RevokeBridge`, `Poll`, `ClaimJobs`, `WriteResult` | the handlers of `bridges.py`; admission (`dependencies/bridge.py`) is in `Poll` and `SubmitResult`, before the statements |
| `SubmitResult`, `TickFails` | `_dispatch`; `run_forever` after an exception, or a restart |
| `EnqueueJob` | whoever inserts jobs: outside the repository |
| `Record`, `Commit...`, `Rollback` | `record_activity` with the trigger, the commit, and a failure at any point |

A request whose guard fails (unknown node, wrong kind, not ready, a 4xx) raises
before it writes and is not a step.

Operators whose comment begins with "Faulty" are not part of any specification.
Each is a plausible mistake in the definition that follows it; with the mistake
in place, TLC finds one of the properties violated.

## 3. Runs

| Run | Question | Instance |
|---|---|---|
| `workflow_run_all` | Is one run correct if requests do not overlap? | all acyclic graphs over 3 nodes (25) with all assignments of 6 roles (5400 definitions) |
| `txn_overlap` | What survives if they do? | 2 sessions, 6 definitions in which two nodes join |
| `replay_order` | "The final state of a run can be derived by replaying events." (`..._workflow_engine.py:16`) | violated |
| `txn_serial` | Are the two models of one code the same model? | 1 session, chain, join and fork with all roles; refinement |
| `template_sync` | Do processes that sync at once keep the catalog's promise? | 2 processes, up to 4 starts, 4 builds over 2 templates; refinement |
| `documents` | Do runs keep graph and origin, documents their names, under concurrent requests? | 2 sessions, 2 documents, 2 places, 1 run, 2 versions of a template |
| `rejected_gate` | "Today a rejected gate fails the whole run." (`runs.py:462`) | violated |
| `failed_stuck` | "Any node failed and no nodes still progressing -> FAILED" (`executor.py:237`) | violated |
| `lost_wakeup` | "Drive the run forward until it blocks on human input or completes." (`runs.py:546`) | violated |
| `template_run` | Do the shipped templates run, and what do their tools leave behind? | the 3 templates and 2 forks, 12 geometries, adapters that fail early or half way, 2 calling requests, 2 exports |
| `platform` | Do the rows of the services, their objects and the audit trail stay in step? | 5 scenarios, 2 transactions at a time, a trail of 4 rows; 2 bindings, 2 items and 2 changes of the drive; 2 jobs |
| `approved_option` | "The engineer's `select_option` gate then picks one option_id, which flows into `detail_edit` and `export_seal`." (`workflow/adapters/origin_generator.py:24`) | violated |

What holds for requests one after the other: nothing is left to the engine after
a request (`BlockedOnHumans`), work follows the edges (`UpstreamCompleted`), run
and nodes agree (`RunStatusMatchesNodes`), a run without failures always has
somebody to wait for (`NeverStranded`), node events replay to node rows
(`AuditLogReplays`), verdicts are final (`VerdictsAreFinal`), requests end
(`RequestsEnd`) after at most two rounds of the loop per node, which is far from the
code's bound (`PassesBounded`), and each commit is one step of `RunLifecycle`
(`ImplementsLifecycle`).

What holds when they overlap: committed events justify what was done
(`EventsAreJustified`), nobody leaves an automated node to somebody else
(`AutomatedNeverWaits`), and requests end although they wait for each other's rows
(`RequestsEnd`).  The stored events of a node still lead to its row unless two
overlapping requests wrote that very node (`UncontestedNodesReplay`, proved in
section 6).  Of the rest of the list above much is lost: verdicts are overwritten,
also against the order of their events (`replay_order`), a cancelled run can come
back, and a join can be left waiting for nobody (`lost_wakeup`).  With one session
that last property holds (`DrivenWhenAlone`, section 6).

What holds of templates and documents: a template offers exactly its newest
version, at every moment (`OneActiveVersion`); a committed sync installs a build
as a whole and changes nothing of the past (`ImplementsCatalog`); syncs never wait
in a circle, because all of them go through the templates in slug order
(`SyncsEnd`); a run's graph is the one its nodes were made for, whatever is
edited or rolled out (`RunsExecuteTheirNodes`); a run has exactly one origin,
which exists (`RunsRooted`); places are unique (`UniquePlaces`); requests end,
swaps of two names included (`RequestsEnd`).

What holds of the templates and tools: a running run waits for a person, for a
failed node, or for a kind of node that no operation completes, and with such a
node it never completes (`RunningRunsWait`); the artifacts of a completed node were
all written by the request that completed it, although a rolled-back request leaves
its objects behind (`ArtifactsOfOneAttempt`); the files of a package differ in
origin only after an export that failed, is still writing or overlapped another
(`SealedPackageWhole`); bays stay in bounds and in order (`BayGridsOrdered`); a
member is overloaded only if no section would do or the middle strategy stepped
away from one that did, and the option says so (`OverloadsExplained`).  The graph
decides what Origin's tools see (`OriginNeedsDirectEdges`): a run of the *shipped*
template never gets past `floor_parse`, because the upload is three nodes upstream
and an adapter is given its direct upstream nodes only.  A fork with an edge from
`upload_cad` to `floor_parse` and one from `architectural_review` to `ai_options`
works, with the default loads unless there is one from `parameters`, too.

What holds of the services: rows and trail tell the same story whatever fails
(`AuditMatchesRows`); a binding belongs to an installation in use unless its request
overlapped an uninstall (`BindingsNeedInstallation`); a consent installs at most
once (`OneInstallPerConsent`); what the cursor says was seen is in the vault, rows
and bytes, unless two syncs of a binding overlapped (`CursorSound`); a claimed job is
with the agent or was lost in one of the ways that are counted
(`InProgressAccounted`), and gets one verdict (`JobsGoForward`); a revocation holds once
the polls admitted before it are over (`RevocationHolds`).  The exceptions are part
of the properties because the code makes them possible: without them TLC finds the
race.

### Findings

1. `rejected_gate`.  The forced status is not remembered.  If another gate or
   manual node is ready, its completion finalizes the run again, computes
   running, and the failed run is alive, with `completed_at` set and no event.
2. `failed_stuck`.  A failed tool with nodes downstream leaves them pending.
   The status counts pending nodes as progressing, so the run shows as running
   until somebody cancels it.
3. `lost_wakeup`.  Two people complete the two upstream nodes of a join at the
   same time.  Each transaction sees the other's node still ready, neither
   promotes the join, and both commit.
4. `approved_option`.  The note of an approval goes into the event and nowhere
   else; the export looks for it in the outputs of `select_option`, finds none and
   takes the first option.  An engineer who approves Balanced seals Optimized.
5. `replay_order`.  Events carry the time their transaction began and no other
   order.  A decision on a gate is read, a cancel that began later skips the gate and
   commits, and the decision then overwrites the row.  By time the last event says
   skipped, the row says failed (or completed).

Two deviations are exceptions in properties that hold.  The middle strategy takes
the next heavier section, and in 45 of the 89 steps of the steel catalogue the
next heavier profile bends *less*, so a member of Balanced may be overloaded
although "each member gets the smallest catalogue section that passes"
(`workflow/origin/grid.py:16`); the option's caveats report it.  And Optimized and
Balanced may have one bay grid where footprints are small, which `grid.py:11` rules
out ("No collapse from rounding") and the comment at `grid.py:290` admits.

Two more are in the models without a property of their own.  A document that was ever
run cannot be deleted: ON DELETE SET NULL would leave its runs without a root, which
`workflow_runs_root_check` refuses (`RootCheck` in `DeleteDocumentRow`), although "Runs
already created from it remain (snapshotted)" (`routes/v1/workflows.py:325`).  And
"The trigger takes a row lock on the per-org tail row to serialize concurrent inserts"
(`..._projects_workspace_activity_log.py:27`), but the SELECT that takes the lock has
found the row before it waits: the insert that waited draws the number that the
other has committed, and fails on the unique index with its whole request.

`dependencies/bridge.py:88` looks a bridge up before the organisation is set, in a
table with forced row-level security: as written, no bridge is ever admitted.
`BridgeQueue` has the constant `Admits` for it, TRUE in the run, to say what holds
where the database role is allowed to read the table.

## 4. Bounds

* Three nodes: enough for a join, a fork, a chain, and a node that is
  independent of a failed one.  All acyclic graphs over them are checked.
* Roles: one per way in which the engine treats a node.  `gate.review` and
  `gate.approve` are treated alike, and so are all kinds without an operation.
* `LoopLimit` is 1024 as in the code.  Three nodes need at most 7 iterations, so
  no run reaches it, and neither does a workflow of fewer than 512 nodes
  (`LoopBoundSuffices`); the other theorems hold for every limit.
* `RunLogLimit`: cancel has no guard and can be sent for ever; it is not sent
  once that many run events exist.  4 allows a cancelled run to be cancelled
  again, also after it failed or was revived.
* `txn_overlap` has 2 sessions and 2 run events: two overlapping requests suffice
  for every anomaly found, and a cancel can overlap a decision or another
  cancel.  Its joins have a gate, a second person's node and a person, a tool or
  a placeholder behind them.
* `replay_order`: `RequestLimit` 3 is one transaction that creates the run and two
  that overlap.

* `template_sync`: two processes suffice for every race between two syncs;
  `BootLimit` 4 lets both start twice.  The builds add a template, change both and
  drop one.
* `documents`: two documents and two places are the least for a conflict and for a
  swap.  Ids are not reused, so the number of documents and runs ever created is
  bounded by `Document` and `Run`; one run suffices because no constraint relates
  runs.  `Patches` has a move, an edit, both at once, and an invalid graph.
  `CatalogLimit` 2 gives a version that is replaced.

* `template_run`: `AttemptLimit` 2 requests that store something, so that one can
  fail or roll back and the next succeed; a rejected or cancelled run ends sooner.
  Two exporters, explored for one of the geometries (`ExportedGeometries`): which
  geometry is exported changes nothing but the option.  The footprints are ties of
  the rounding (12.5 m), multiples of the largest bay (24 m), a bay smaller than the
  smallest (3 m), one that no beam spans (41.1 m), one and six storeys, and
  geometries with a roof only and with nothing.  `NotedOptions`: one option that is
  not the first.  Notes are free text in the code; one that names no option counts
  as none.
* `platform`: two transactions suffice for a race over one row, and for both sides
  of every overlap that the properties except.  `LogLimit` 4 is make, use, remove and
  make again.  `MaxChanges` 2 lets an item change after it was seen, or be deleted.
  `ClaimLimit` is 1 instead of 10, so that two jobs need two claims.  The classes
  are one that is installed by OAuth and synced and one that needs no credentials.

## 5. Fairness

`WorkflowRun`: weak fairness of the steps of an open request.  A server executes
a request it has started, and an adapter returns.  No user's action is fair:
nobody has to send a request, and a rollback need not happen.

`WorkflowTxn`: strong fairness of each session's steps, because a step that waits
for a row is enabled only now and then while other requests come and go, and
PostgreSQL serves those who wait for a row in a queue; weak fairness of the
deadlock detector, which runs after `deadlock_timeout`.

`TemplateSync`: strong fairness of each process's statements for the same reason,
and no deadlock detector: `SyncsEnd` shows that none is needed.
`WorkflowDocuments`: as in `WorkflowTxn`, with the detector.

`TemplateRun` and `Platform` state safety only: their requests are single steps, or end
by a failure that is always possible, and nothing of what they wait for (users,
vendors, agents) is fair.

Liveness is only about requests and syncs.  That a run completes is up to its users.

CHECK_DEADLOCK is FALSE in every configuration: a run that is over and has used
up its cancel bound accepts no request, and processes and ids are used up.

## 6. Proofs

Every state module has a module of theorems, which state for every value of the
constants what the runs check on small instances.  The assumptions are those that
the modules themselves make of their constants (named `ASSUME`s, which TLC evaluates
in every run); where a theorem needs one more, it is said below.  In all of them
the properties speak of committed rows, and are not inductive: what a request may
commit depends on what it read and did before.  So each inductive invariant `IInv`
has three parts:

* what is committed;
* what each *open* request, at each point, may rely on: what it has checked is
  still true, and what it has still to write is right;
* what keeps two open requests apart: locks, entries of a unique index.

The first is lost without the second, and the second without the third, since a
commit of one request must not take away what another relies on.  Each `IInv` was
checked by TLC on the run's instance before it was proved.

### `WorkflowRunProofs`: one run, one request at a time

All sets of nodes, sets of definitions and loop bounds.  `NeverStrandedThm` assumes
in addition that the definitions are acyclic, which `_validate_graph` enforces, and
`LoopBoundSuffices` that there are finitely many nodes.
`IInv` says of the rows of the open request

* `RowsInv`: nodes, decisions, events and the run's status agree, except that
  the run's status may lag behind;
* `Settled`, the rest of that agreement, of committed rows, and of working rows
  at the commit;
* `Extends(db, work)`: the open request has taken no committed verdict back;
* `RequestInv`: what is known at each point of the request.  The one that matters
  is that at `finalize` nothing is left to drive unless the bound was hit, which
  follows from two facts established in different steps: no adapter was
  dispatched, and the advance pass that followed was empty.

A batch of transitions is `LegalBatch` if it moves only live nodes and only in
ways the events describe.  One lemma says that legal batches keep `RowsInv`
(`LegalStep`, from `LegalNodes` and `LegalLog`), and one lemma for each source of
batches says it is legal.  Each action then has a lemma, and `Inductive` combines
them.  The two action properties follow from `Extends` and the fact that only
`Commit` writes `db`.  `NeverStrandedThm` takes the set of pending nodes: by
acyclicity it has a member without pending upstream nodes, which `BlockedOnHumans`
would have promoted if all of them had passed.

`LoopBoundSuffices` counts the moves that nodes have left (`Left`, two for a pending
node and one for a ready one).  `BudgetInv` says that they and the rounds a drive has
made come to no more than two per node; a round that is counted has used a move.
`CancelledIsFinalThm` says of the run row what `VerdictsAreFinalThm` says of nodes.

`ImplementsLifecycleThm`: the committed rows implement `RunLifecycle`.  One `Commit` is one
abstract step, and which one depends on what the request did since it began, which
the rows alone do not tell.  `IntentInv` adds it: the request is still driving, has
rejected a gate or is cancelling, and in each case which nodes it may have `Decided`
and which status it is going to write.  A commit then is a creation, a drive, a
rejection or a cancellation of the life cycle; all other steps leave `db` alone.

### `WorkflowTxnProofs`: the same with requests that overlap

Any number of sessions, any finite set of nodes (`TxnAssumptions`): `TypeOK`,
`EventsAreJustified`, `AutomatedNeverWaits`, and of `WorkflowEvents`
`UncontestedNodesReplay`.

What a transaction sees changes under it whenever another commits, and so `IInv`
cannot say what it sees is what it saw.  It says what survives: in everybody's view the last
event written for a node is the one of its row (`OpenSound`), since status and event
are written under one lock; events are never lost, neither by a commit nor from
anybody's view (`LogsIn`), so that an event that justified a step when the batch was
computed still does when the batch is written (`QueueSound`), and a status
computed from events still follows from them when the run is updated
(`StatusSound`).  `LoopSound` carries `AutomatedNeverWaits`: the automated nodes that
a transaction made ready are work for its own loop.  It holds only while no drive
was cut off by the bound, which is the exception the property makes.  Nothing
stronger about a node's *status* is inductive, and `lost_wakeup` shows why.

`EventTimesReplay` is about the table instead of the order of the writes.  For a node
that is not contested the two agree: whoever wrote last also began last, and what one
transaction wrote of a node is a row of steps each of which continues the one
before it (`Continues`, `Unfinished` in the invariant), so a verdict is the last of them.
It is the part of the migration's promise that `replay_order` leaves standing.
TLC confirms it on that run's instance with four transactions (135,143 states); no
configuration repeats that.

Two theorems assume that there is one session (`Session = {s}`), which is the
case that `WorkflowRun` is about:

* `SerialRequests`: `WorkflowTxn` implements `WorkflowRun`.  The mapping takes a batch
  as applied as soon as it is computed: `Meant` is what the open transaction sees once
  it has written the rest of its batch, `Label` the point at which it then is.  So a
  step that computes a batch is the step of `WorkflowRun`, and each of the UPDATEs that
  follow a stutter; this needs that transitions of different nodes commute with the
  batch, and that what is left to write is of nodes not yet written (`Orderly`).  With
  it the theorems of `WorkflowRunProofs` are about the statements that the code
  executes when requests do not overlap.
* `DrivenWhenAlone`: `DrivenUntilBlocked`, which two sessions violate (`lost_wakeup`).
  `Settled` says that no node is left to be promoted in what is committed nor, once
  the loop has ended, in what the request is going to commit.  Together with the
  violation it says that the overlap, and nothing else in the loop, loses the run.
  TLC confirms it on `txn_serial`'s instance; no configuration repeats that.

### `TemplateSyncProofs`: processes that sync at once

Any number of processes, builds and starts (`SyncAssumptions`): `TypeOK`,
`OneActiveVersion`, and the refinement `ImplementsCatalog`: `TemplateSync` implements
`TemplateCatalog`.  `CatalogSound` says that the versions of a template are numbered
without gaps and that the last is active; `SyncSound` says what an open sync has
dealt with and that what it minted is exactly what its build has new, numbered next
to what is committed *now*.  The latter survives other syncs' commits because
`Apart` keeps two syncs from holding one template's row.  For the refinement, a
commit is one installation of a whole release and every other step a stutter.

### `WorkflowDocumentsProofs`: documents and runs

Any number of sessions, documents, places, runs and releases
(`DocumentAssumptions`): `TypeOK`, `RunsExecuteTheirNodes`, `RunsRooted`, `UniquePlaces`;
`UsesCatalog` shows that the module's `Deploy` is all that happens to the catalog.
`RequestsSound` says that a run about to be inserted has the graph of a version or
document that exists, and that a document about to be deleted has no run without
another root; `Exclusive`, that nobody deletes a document that a new run refers to
(the key-share lock), and `PlacesReserved`, that the entry which a transaction has in
the unique index belongs to no other row, committed or not.

### `OriginProofs`, `TemplateRunProofs`: the shipped templates

`BayBounds`: the bay of a side of *any* length is at most 12 m, and at least 3.5 m
unless there is only one; `BaysShrink`: a denser target never gives a wider bay,
rounding half to even included.  `OverloadsShown` is about the members that are designed
for such a grid, under posted loads of any size, negative ones included: the code
coerces them to numbers and does not check them (grid.py:791).  Its lemmas are in
three groups:

* *sums*: the schedule is a set of groups with a number of members each, added up
  by a fold over the set.  `NumberOfUnion`, `NumberWithout` and `ScheduleCounts` state of
  it what one expects of a sum; they come from `SubsetInduction` and `SumExists`, that
  the recursion a fold stands for has a solution whatever element it takes first;
* *searches*: a section is picked by a fold over a ranked catalogue.  `PickInCatalogue`
  and `PickCarries` say that the pick is a section of the catalogue and carries the
  demand if any section does, except where the "middle" strategy steps up one rank;
* *ratios*: the worst ratio is that of a member (`WorstIsWorst`), and the caveats and the
  distribution follow from it up to their rounding.

The rest is about every finite set of acyclic templates whose registered tools are
the three adapters (`TemplatesAreValid`), every geometry, all integer loads
(`InputsAreValid`), and any number of requests and exports: `TypeOK`, `RunningRunsWait`,
`ArtifactsOfOneAttempt`, `SealedPackageWhole`, `OriginNeedsDirectEdges`, `BayGridsOrdered`,
`OverloadsExplained`.

A request is one step of `TemplateRun`, with the whole loop of the run service in it.
So the difficulty is in the step: `LoopInvariant` says that what every iteration
keeps, the loop keeps, and `LoopQuiet` that the iterations which the model allows
suffice: of any two iterations that find something to do, one ends an automated
node, and there are only so many of them (`Left`).
`ArtifactsOfOneAttempt` is inductive because requests do not overlap in this module:
then a completed adapter is not called again, and later requests cannot overwrite its
objects.  With the shipped templates overlapping requests do not change that, but it is
not so in general: of a fork with the parser behind a join, which two overlapping
requests left waiting (`lost_wakeup`), two further requests that overlap could both
promote the parser and call it.  `SealedPackageWhole` needs what an export that has
always been alone has put so far.

### `PlatformProofs`: the services

Any number of requests, rows, tokens, bindings, items, jobs and changes of the
drive: `TypeOK`, `AuditMatchesRows`, `BindingsNeedInstallation`, `OneInstallPerConsent`,
`CursorSound`, `InProgressAccounted`, and the action properties `JobsGoForward` and
`RevocationHolds`.  `IInv` has the three parts above for each service of the scenario
and says that the others are at rest:

* `BridgeRequests`: the jobs a request is about to claim or cancel are queued and
  locked by it, the job it finishes is in progress and with nobody else, and an
  answer that is still heard is one the agent waits for;
* `WorkspaceRequests`: the folder that is being used exists and is shared, the name
  that is being taken is free and locked;
* `ConnectorRequests`: the class that a binding is made for is in use, or the
  binding is known to be overtaken; a consent being completed has its token locked
  and has installed nothing;
* `SyncSound`: for a sync with its binding to itself, every item that changed between
  the cursor and the delta link is skipped, still to do or handled, unless it has
  changed again after the link; so that writing the cursor is right however long
  after the delta it happens;
* `ChainInv`: no audit row outgrows the trail.

Requests are a sequence in the model, so `Orderly` states what holds of each member
and of each two; a lemma each for appending, changing and removing a member keeps
it.

### `InductionLemmas`

The library's induction theorems take an operator as a parameter, which the
installed provers cannot instantiate.  Over *sets* the same can be said: a
non-empty set of naturals has a least element (`LeastNat`, from the library's
well-foundedness of `<`), up to a bound a greatest one, a set with 0 and successors
has all naturals (`SetInduction`), and a function has an iteration
(`IterationExists`).  With them the proofs unfold the loop of `TemplateRun` and walk
along sequences.

### Model-checked only

* Liveness (`RequestsEnd`, `SyncsEnd`): TLAPS has no fairness and no ENABLED here.
* That a theorem of `WorkflowRunProofs` holds of one session of `WorkflowTxn` follows
  from `SerialRequests` on paper; the prover cannot cite a temporal theorem of an
  instantiated module, so it is stated only for the refinement itself.
* That a drive never leaves a node behind when requests *do* overlap is false, and its
  exact extent (which overlaps lose a run) is stated nowhere.
* What `expect: violation` runs show: counterexamples need no proof.

None of the modules declares a RECURSIVE operator, which would take the SMT backend
from every proof about it.

## 7. Plan

1. *(done)* Executor, rows, serial runs, life cycle, proofs; overlapping
   requests and the refinement between the two.
2. *(done)* `TemplateSync`, `TemplateCatalog`, `WorkflowDocuments`.
3. *(done)* `ShippedTemplates`, `GridEngine`, `TemplateRun`: data flow, storage and
   exports of the shipped templates.
4. *(done)* `ActivityChain` and on top of it `OrgWorkspace`, `ConnectorInstalls`,
   `SharePointSync`, `BridgeQueue`, composed in `Platform`.
5. *(done)* Theorems: the safety of every state module and the refinements
   `TemplateSync => TemplateCatalog`, `WorkflowRun => RunLifecycle` and, with one
   session, `WorkflowTxn => WorkflowRun`.
6. *(done)* The member design of the grid engine: `OverloadsExplained`.
7. *(left)* `Registry`: Kahn's algorithm as a loop against `Acyclic`; `Tenancy`: the settings
   of a transaction and what row-level security lets it see.

## 8. Not modelled

* A document's description, provenance columns and its project apart from the
  name; a run's project, which `create_run_from_document` takes from the URL.
* Catalog metadata (name, description, jurisdiction), which every sync overwrites.
* Of the origin engine prices, carbon and material take-off, the quality checks,
  the parsers of DXF and IFC and the drawings of the export: tables, floating-point
  geometry and file formats, without a state.  The words that a language model adds
  to the options change no number.  In `WorkflowRun` and `WorkflowTxn` adapters succeed
  or fail; their data is `TemplateRun`'s.
* Floats: `GridEngine` rounds down to its units, so a member within a unit of a
  limit may be on the other side of it than in the code.
* Row-level security and the settings it reads: every module is about one
  organisation.  The hashes of the audit trail.
* Files that a sync must not take (empty, too large, without a link): the model has
  them, but no claim is made of what the vault holds for them afterwards.
* The order in which the run's own events, or events of different nodes, were written:
  the tables do not keep it, and `WorkflowEvents` asks for nodes one by one.
* The races that a property excepts: a binding made while its connector goes
  (`BindingsNeedInstallation`), a poll admitted before a revocation (`RevocationHolds`),
  lost claims (`InProgressAccounted`), two syncs of a binding (`CursorSound`), a failed or
  a second export (`SealedPackageWhole`), the step of the middle strategy
  (`OverloadsExplained`).  They are in the models, no document or comment promises that
  they do not happen, and the properties say that there is no other exception.
* What cancelling a finished run should do: the code allows it, and so does
  `RunLifecycle`.
* Response and commit: FastAPI sends the response before the transaction's
  dependency is closed; a client may see a result that is rolled back.
* Onboarding: one call of a database function.  The route calls
  `app.onboard_account` with nine arguments (onboarding.py:123); the migrations
  define the function with seven (2026_05_24_0800, line 82).
* The organisation's own row; the listing routes; authentication;
  metrics and request headers; the web client; infrastructure.
