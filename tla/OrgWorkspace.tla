---------------------------- MODULE OrgWorkspace -----------------------------
(***************************************************************************)
(* Projects, queued agent runs, library folders and files of one           *)
(* organisation (routes/v1/projects.py, runs.py, library.py,               *)
(* project_files.py).  Every request checks what it needs, writes one row  *)
(* and records it.  A file row is written when its upload is presigned and *)
(* stays `uploading`: nothing in the repository reports the upload back.   *)
(***************************************************************************)
EXTENDS ActivityChain

CONSTANTS Projects, AgentRuns, Folders, Files,  \* ids a request may draw
          FolderNames, AgentIds

ASSUME MarksAreNoIds ==
  {"absent", "deleted", "homeless"} \cap (Projects \cup Folders \cup FolderNames) = {}

VARIABLES projects,     \* rows of projects
          runs,         \* agent_runs: run id -> its project, or "absent"
          folders,      \* library_folders: id -> name, "absent", "deleted"
          files         \* files: id -> its folder or project, "absent", or
                        \* "homeless" when its folder was deleted

workspaceVars == <<projects, runs, folders, files>>

(* agents.py: the catalogue an agent run is checked against.               *)
AgentCatalog ==
  {"structural-calc", "fea-runner", "code-compliance-reviewer",
   "reinforcement-drafter", "formwork-planner", "geotech-report-author",
   "permit-pack-assembler", "qto-generator", "cost-estimator",
   "hoai-fee-calculator", "carbon-reporter", "drawing-standards-advisor",
   "calc-sanity-advisor"}

WorkspaceInit ==
  /\ projects = {}
  /\ runs = [r \in AgentRuns |-> "absent"]
  /\ folders = [f \in Folders |-> "absent"]
  /\ files = [x \in Files |-> "absent"]

Request(action, on, place, locks, shares) ==
  [action |-> action, on |-> on, place |-> place, ready |-> TRUE,
   locks |-> locks, shares |-> shares, seq |-> 0]

(* Ids are drawn at random: no two requests share one.                     *)
Unused(id) == \A k \in DOMAIN open : open[k].on # id

Live(f) == folders[f] \in FolderNames
Named(n) == {f \in Folders : folders[f] = n}

CreateProject(p) ==
  /\ p \notin projects /\ Unused(p)
  /\ Begin(Request("project.create", p, p, {}, {}))

(* An unknown agent is a 400; the project is checked by the foreign key.   *)
QueueRun(r, p, agent) ==
  /\ agent \in AgentCatalog
  /\ runs[r] = "absent" /\ Unused(r)
  /\ p \in projects
  /\ Begin(Request("agent.run.queued", r, p, {}, {<<"project", p>>}))

(* A taken name is a 409; an INSERT of a name that another open request    *)
(* inserts or deletes waits for it.                                        *)
CreateFolder(f, n) ==
  /\ folders[f] = "absent" /\ Unused(f)
  /\ Named(n) = {}
  /\ Begin(Request("library.folder.created", f, n, {<<"name", n>>}, {}))

DeleteFolder(f) ==
  /\ Live(f)
  /\ Begin(Request("library.folder.deleted", f, folders[f],
                   {<<"folder", f>>, <<"name", folders[f]>>}, {}))

UploadFolderFile(x, f) ==
  /\ files[x] = "absent" /\ Unused(x)
  /\ Live(f)
  /\ Begin(Request("library.file.uploaded", x, f, {}, {<<"folder", f>>}))

InitiateUpload(x, p) ==
  /\ files[x] = "absent" /\ Unused(x)
  /\ p \in projects
  /\ Begin(Request("file.upload.initiated", x, p, {}, {<<"project", p>>}))

(* Faulty: the files keep pointing at the folder's tombstone.              *)
DetachedAndDeleted(f) ==
  [x \in Files |-> IF files[x] = f THEN "deleted" ELSE files[x]]

(* ON DELETE SET NULL: the files of a deleted folder stay, without a home. *)
Detached(f) ==
  [x \in Files |-> IF files[x] = f THEN "homeless" ELSE files[x]]

CommitWorkspace(i) ==
  LET r == open[i] IN
  /\ Commit(i, r.place)
  /\ CASE r.action = "project.create" ->
            projects' = projects \cup {r.on} /\ UNCHANGED <<runs, folders, files>>
       [] r.action = "agent.run.queued" ->
            runs' = [runs EXCEPT ![r.on] = r.place] /\ UNCHANGED <<projects, folders, files>>
       [] r.action = "library.folder.created" ->
            folders' = [folders EXCEPT ![r.on] = r.place] /\ UNCHANGED <<projects, runs, files>>
       [] r.action = "library.folder.deleted" ->
            /\ folders' = [folders EXCEPT ![r.on] = "deleted"]
            /\ files' = Detached(r.on)
            /\ UNCHANGED <<projects, runs>>
       [] r.action \in {"library.file.uploaded", "file.upload.initiated"} ->
            files' = [files EXCEPT ![r.on] = r.place] /\ UNCHANGED <<projects, runs, folders>>

WorkspaceRequest ==
  \/ \E p \in Projects : CreateProject(p)
  \/ \E r \in AgentRuns, p \in Projects, a \in AgentIds : QueueRun(r, p, a)
  \/ \E f \in Folders, n \in FolderNames : CreateFolder(f, n)
  \/ \E f \in Folders : DeleteFolder(f)
  \/ \E x \in Files, f \in Folders : UploadFolderFile(x, f)
  \/ \E x \in Files, p \in Projects : InitiateUpload(x, p)

(* The audit trail tells what the rows are.                                *)
WorkspaceAudited ==
  /\ \A p \in Projects : p \in projects <=> Logged("project.create", p)
  /\ \A r \in AgentRuns : runs[r] # "absent" <=> Logged("agent.run.queued", r)
  /\ \A f \in Folders :
       /\ folders[f] # "absent" <=> Logged("library.folder.created", f)
       /\ folders[f] = "deleted" <=> Logged("library.folder.deleted", f)
  /\ \A x \in Files, f \in Folders :
       (\E k \in Entries("library.file.uploaded", x) : log[k].detail = f)
         => files[x] = IF Logged("library.folder.deleted", f) THEN "homeless" ELSE f
  /\ \A n \in FolderNames, f, g \in Folders :
       folders[f] = n /\ folders[g] = n => f = g
=============================================================================
