------------------------------ MODULE Platform -------------------------------
(***************************************************************************)
(* The services of one organisation over one audit trail.  They share no   *)
(* other rows, except that the sync works for the bindings of the          *)
(* connectors; so the initial state chooses a scenario, the services that  *)
(* are busy, and the others rest.                                          *)
(***************************************************************************)
EXTENDS OrgWorkspace, SharePointSync, BridgeQueue

CONSTANT Scenarios      \* a subset of {"workspace", "waitlist", "connectors",
                        \* "sync", "bridge"}

VARIABLE scenario       \* which services are used in this behaviour

vars == <<log, open, scenario, workspaceVars, connectorVars, syncVars, bridgeVars>>

(* The sync scenario starts after a SharePoint installation was completed  *)
(* and its library bound.                                                  *)
Synced == "ms-sharepoint"
ASSUME ScenariosAreKnown ==
  /\ Scenarios \subseteq {"workspace", "waitlist", "connectors", "sync", "bridge"}
  /\ "sync" \in Scenarios => Synced \in Classes /\ LogLimit >= 2

Entry(action, on) == [action |-> action, on |-> on, detail |-> Synced]

Init ==
  /\ scenario \in Scenarios
  /\ open = <<>>
  /\ WorkspaceInit
  /\ SyncInit
  /\ BridgeInit
  /\ \/ /\ scenario # "sync" /\ log = <<>>
        /\ ConnectorsInit
     \/ /\ scenario = "sync"
        /\ \E b \in Bindings, t \in Tokens :
             /\ log = <<Entry("connector.oauth.completed", t), Entry("connector.bound", b)>>
             /\ bindings = [x \in Bindings |-> IF x = b THEN Synced ELSE "absent"]
             /\ tokens = [x \in Tokens |-> IF x = t THEN [state |-> "gone", class |-> Synced]
                                           ELSE [state |-> "unused", class |-> "none"]]
             /\ completed = [x \in Tokens |-> IF x = t THEN 1 ELSE 0]
        /\ installs = [c \in Classes |-> IF c = Synced
                                         THEN [status |-> "installed", creds |-> TRUE]
                                         ELSE [status |-> "absent", creds |-> FALSE]]
        /\ waitlist = {} /\ overtaken = {}

Rests(v) == UNCHANGED v

Waitlist ==
  /\ scenario = "waitlist"
  /\ InstallStep \/ WaitlistStep
  /\ Rests(<<scenario, workspaceVars, syncVars, bridgeVars>>)

Workspace ==
  /\ scenario = "workspace"
  /\ \/ WorkspaceRequest /\ UNCHANGED <<log, workspaceVars>>
     \/ \E i \in DOMAIN open : CommitWorkspace(i)
  /\ Rests(<<scenario, connectorVars, syncVars, bridgeVars>>)

Connect ==
  /\ scenario = "connectors"
  /\ InstallStep \/ BindingStep \/ OAuthStep
  /\ Rests(<<scenario, workspaceVars, syncVars, bridgeVars>>)

Sync ==
  /\ scenario = "sync"
  /\ \/ SyncStep /\ UNCHANGED connectorVars
     \/ BindingStep /\ UNCHANGED syncVars
  /\ Rests(<<scenario, workspaceVars, bridgeVars>>)

Bridge ==
  /\ scenario = "bridge"
  /\ BridgeStep
  /\ Rests(<<scenario, workspaceVars, connectorVars, syncVars>>)

RecordActivity ==
  /\ \E i \in DOMAIN open : Record(i)
  /\ Rests(<<log, scenario, workspaceVars, connectorVars, syncVars, bridgeVars>>)

RequestFails ==
  /\ \E i \in DOMAIN open : Rollback(i)
  /\ Rests(<<scenario, workspaceVars, connectorVars, syncVars, bridgeVars>>)

Next == Workspace \/ Waitlist \/ Connect \/ Sync \/ Bridge \/ RecordActivity \/ RequestFails

Spec == Init /\ [][Next]_vars

-----------------------------------------------------------------------------

(* Rows, requests and the agent keep their shapes; a request that waits    *)
(* for its commit has a number that was once the next one.                 *)
TypeOK ==
  /\ Len(log) <= LogLimit /\ Len(open) <= MaxOpen
  /\ \A k \in DOMAIN open : open[k].seq \in 0..(Len(log) + 1)
  /\ projects \subseteq Projects
  /\ runs \in [AgentRuns -> Projects \cup {"absent"}]
  /\ folders \in [Folders -> FolderNames \cup {"absent", "deleted"}]
  /\ files \in [Files -> Folders \cup Projects \cup {"absent", "homeless"}]
  /\ \A c \in Classes : /\ installs[c].status \in {"absent", "pending", "installed", "uninstalled"}
                        /\ installs[c].creds \in BOOLEAN
  /\ bindings \in [Bindings -> Classes \cup {"absent", "removed"}]
  /\ cursor \in [Bindings -> 0..MaxChanges]
  /\ bridge \in BridgeStatus
  /\ jobs \in [Jobs -> JobStatus]
  /\ agent.batch \subseteq Jobs /\ agent.job \in Jobs \cup {0}
  /\ agent.pc \in {"idle", "polling", "running", "submitting"}

(* The audit trail and the rows tell the same story: a request whose audit *)
(* row is refused, or that fails anywhere, leaves no trace in either, and  *)
(* what committed can be read off the trail (audit.py, every record_activity *)
(* call, and the cascades of the foreign keys).                            *)
AuditMatchesRows == WorkspaceAudited /\ ConnectorsAudited /\ BridgeAudited

(* A binding belongs to an installation in use, unless its request and an  *)
(* uninstall of the class overlapped (connectors.py:316-347 and 180-199).  *)
BindingsNeedInstallation ==
  \A b \in Bindings : bindings[b] \in Classes /\ b \notin overtaken
    => installs[bindings[b]].status \in {"installed", "pending"}

(* A state token completes at most one installation, and is gone then,     *)
(* however often and however concurrently the vendor's redirect is         *)
(* followed (connector_oauth.py:175-188).                                  *)
OneInstallPerConsent ==
  \A t \in Tokens : completed[t] <= 1 /\ (completed[t] = 1 => tokens[t].state = "gone")

(* What the cursor of a binding says it has seen is in the vault, rows and *)
(* bytes, although syncs fail half-way and the drive changes under them;   *)
(* unless two syncs of the binding overlapped.                             *)
CursorSound ==
  \A b \in Bindings, x \in Items :
    bindings[b] \in Classes /\ b \notin overlapped /\ drive[x].at <= cursor[b] =>
      CASE drive[x].kind = "file" -> /\ vault[<<b, x>>] = [status |-> "ready", at |-> drive[x].at]
                                     /\ objects[<<b, x>>] = drive[x].at
        [] drive[x].kind = "absent" -> vault[<<b, x>>].status # "ready"
        [] drive[x].kind = "skipped" -> TRUE

(* No claimed job is forgotten unnoticed: it is with the agent, or its     *)
(* claim was lost on the way or given up by the agent (bridges.py:230-245, *)
(* runner.py:38-45).                                                       *)
InProgressAccounted ==
  With("in_progress") \subseteq agent.batch \cup {agent.job} \cup dropped

(* A job is claimed once and gets one verdict: it never goes back, and a   *)
(* late result of a claim that was given up overwrites nothing, although   *)
(* submit_result does not look at the status (bridges.py:270-279).         *)
Later(s) ==
  CASE s = "absent" -> {"queued"}
    [] s = "queued" -> {"in_progress", "cancelled"}
    [] s = "in_progress" -> Final
    [] s \in Final -> {}
JobsGoForward ==
  [][\A j \in Jobs : jobs'[j] = jobs[j] \/ jobs'[j] \in Later(jobs[j])]_vars

(* Once a bridge is revoked and the polls admitted before are over, it     *)
(* stays revoked and nothing more is claimed (bridges.py:196 and           *)
(* dependencies/bridge.py:103): only a poll in flight undoes a revocation. *)
RevokedAndQuiet == bridge = "revoked" /\ \A k \in DOMAIN open : open[k].action # "poll"
RevocationHolds == [][RevokedAndQuiet => RevokedAndQuiet']_vars
=============================================================================
