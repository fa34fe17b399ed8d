-------------------------- MODULE ConnectorInstalls --------------------------
(***************************************************************************)
(* Connector installations of one organisation, the bindings of their      *)
(* instances to projects, the waitlist, and the OAuth dance that completes *)
(* an installation (routes/v1/connectors.py, connector_oauth.py).          *)
(*                                                                         *)
(* POST /bindings reads the installation without a lock and inserts the    *)
(* binding later; DELETE /installations marks the row and removes the      *)
(* bindings its DELETE can see.  The callback deletes the one-shot state   *)
(* row first and writes the installation in the same transaction, after it *)
(* has exchanged the code with the vendor.                                 *)
(***************************************************************************)
EXTENDS ActivityChain

CONSTANTS Classes,      \* the classes that occur, by id
          Bindings,     \* ids a binding may draw
          Tokens        \* state tokens that may be minted

VARIABLES installs,     \* class -> [status, creds]; one row per class
          bindings,     \* id -> class, "absent" or "removed"
          waitlist,     \* classes asked for
          tokens,       \* connector_oauth_state: token -> [state, class]
          overtaken,    \* history: bindings whose request overlapped with an
                        \* uninstall of their class
          completed     \* history: token -> committed installations from it

connectorVars == <<installs, bindings, waitlist, tokens, overtaken, completed>>

Catalog == INSTANCE ConnectorCatalog

ASSUME ClassesAreKnown == \A c \in Classes : Catalog!Known(c)

ConnectorsInit ==
  /\ installs = [c \in Classes |-> [status |-> "absent", creds |-> FALSE]]
  /\ bindings = [b \in Bindings |-> "absent"]
  /\ waitlist = {}
  /\ tokens = [t \in Tokens |-> [state |-> "unused", class |-> "none"]]
  /\ overtaken = {}
  /\ completed = [t \in Tokens |-> 0]

ConnectorRequest(action, on, class, ready, locks, shares) ==
  [action |-> action, on |-> on, class |-> class, gone |-> {}, ready |-> ready,
   locks |-> locks, shares |-> shares, seq |-> 0]

Row(c) == <<"install", c>>
Bound(c) == {b \in Bindings : bindings[b] = c}

InstallConnector(c) ==
  /\ Catalog!Known(c) /\ ~Catalog!WaitlistOnly(c)
  /\ Begin(ConnectorRequest("connector.installed", c, c, TRUE, {Row(c)}, {}))

(* UPDATE, then DELETE of the bindings that have been committed.           *)
UninstallConnector(c) ==
  /\ installs[c].status # "absent"
  /\ Begin([ConnectorRequest("connector.uninstalled", c, c, TRUE,
                             {Row(c)} \cup {<<"binding", b>> : b \in Bound(c)}, {})
            EXCEPT !.gone = Bound(c)])

WaitlistConnector(c) ==
  /\ Catalog!Known(c)
  /\ Begin(ConnectorRequest("connector.waitlist.requested", c, c, TRUE,
                            {<<"waitlist", c>>}, {}))

(* The check of POST /bindings, without a lock.                            *)
CheckInstallation(b, c) ==
  /\ bindings[b] = "absent" /\ \A k \in DOMAIN open : open[k].on # b
  /\ installs[c].status \in {"installed", "pending"}
  /\ Begin(ConnectorRequest("connector.bound", b, c, FALSE, {}, {}))

InsertBinding(i) ==
  /\ open[i].action = "connector.bound" /\ ~open[i].ready
  /\ Continue(i, [open[i] EXCEPT !.ready = TRUE])

DeleteBinding(b) ==
  /\ bindings[b] \in Classes
  /\ Begin(ConnectorRequest("connector.unbound", b, bindings[b], TRUE,
                            {<<"binding", b>>}, {}))

(* POST /oauth/start inserts one row, unaudited.                           *)
OAuthStart(t, c) ==
  /\ Catalog!MayStartOAuth(c)
  /\ tokens[t].state = "unused"
  /\ tokens' = [tokens EXCEPT ![t] = [state |-> "open", class |-> c]]
  /\ UNCHANGED <<log, open, installs, bindings, waitlist, overtaken, completed>>

Expire(t) ==
  /\ tokens[t].state = "open"
  /\ tokens' = [tokens EXCEPT ![t].state = "expired"]
  /\ UNCHANGED <<log, open, installs, bindings, waitlist, overtaken, completed>>

(* The callback takes the state row; an expired one is refused and, with   *)
(* the rollback, kept.                                                     *)
OAuthCallback(t) ==
  /\ tokens[t].state = "open"
  /\ Begin(ConnectorRequest("connector.oauth.completed", t, tokens[t].class, FALSE,
                            {<<"token", t>>}, {}))

(* The vendor reports an error: the row is deleted and nothing installed.  *)
VendorError(i) ==
  /\ open[i].action = "connector.oauth.completed" /\ ~open[i].ready
  /\ tokens' = [tokens EXCEPT ![open[i].on].state = "gone"]
  /\ CommitUnaudited(i)
  /\ UNCHANGED <<installs, bindings, waitlist, overtaken, completed>>

(* The code was exchanged: upsert of the installation.                     *)
ExchangeCode(i) ==
  /\ open[i].action = "connector.oauth.completed" /\ ~open[i].ready
  /\ Continue(i, [open[i] EXCEPT !.ready = TRUE, !.locks = @ \cup {Row(open[i].class)}])

(* Faulty: ON CONFLICT DO NOTHING.                                         *)
UpsertedOnce(c) == IF installs[c].status = "absent" THEN Catalog!InstallStatus(c)
                   ELSE installs[c].status

(* INSERT ... ON CONFLICT (org_id, class_id) DO UPDATE.                    *)
Upserted(c) == Catalog!InstallStatus(c)

(* Faulty: SELECT instead of DELETE ... RETURNING.                         *)
TokenAfterPeek(t) == tokens[t].state

(* The state row that the callback deletes.                                *)
TokenAfter(t) == "gone"

(* Faulty: the bindings are left to a cascade that no DELETE triggers.     *)
RemovedNothing(i) == {}

(* The bindings that the uninstall's DELETE found.                         *)
Removed(i) == open[i].gone

(* Bindings of the class that are being made while it is uninstalled.      *)
Overlapping(i) ==
  {open[k].on : k \in {k \in DOMAIN open \ {i} :
     open[k].action = "connector.bound" /\ open[k].class = open[i].class}}

CommitInstall(i) ==
  /\ open[i].action = "connector.installed"
  /\ Commit(i, open[i].class)
  /\ installs' = [installs EXCEPT ![open[i].class].status = Upserted(open[i].class)]
  /\ UNCHANGED <<bindings, waitlist, tokens, overtaken, completed>>

CommitUninstall(i) ==
  /\ open[i].action = "connector.uninstalled"
  /\ Commit(i, open[i].class)
  /\ installs' = [installs EXCEPT ![open[i].class].status = "uninstalled"]
  /\ bindings' = [b \in Bindings |-> IF b \in Removed(i) THEN "removed" ELSE bindings[b]]
  /\ overtaken' = overtaken \cup Overlapping(i)
  /\ UNCHANGED <<waitlist, tokens, completed>>

CommitWaitlist(i) ==
  /\ open[i].action = "connector.waitlist.requested"
  /\ Commit(i, open[i].class)
  /\ waitlist' = waitlist \cup {open[i].class}
  /\ UNCHANGED <<installs, bindings, tokens, overtaken, completed>>

CommitBinding(i) ==
  /\ open[i].action = "connector.bound"
  /\ Commit(i, open[i].class)
  /\ bindings' = [bindings EXCEPT ![open[i].on] = open[i].class]
  /\ overtaken' = IF \E k \in DOMAIN open : /\ open[k].action = "connector.uninstalled"
                                            /\ open[k].class = open[i].class
                  THEN overtaken \cup {open[i].on} ELSE overtaken
  /\ UNCHANGED <<installs, waitlist, tokens, completed>>

CommitUnbind(i) ==
  /\ open[i].action = "connector.unbound"
  /\ Commit(i, open[i].class)
  /\ bindings' = [bindings EXCEPT ![open[i].on] = "removed"]
  /\ UNCHANGED <<installs, waitlist, tokens, overtaken, completed>>

CommitOAuth(i) ==
  /\ open[i].action = "connector.oauth.completed"
  /\ Commit(i, open[i].class)
  /\ installs' = [installs EXCEPT ![open[i].class] = [status |-> "installed", creds |-> TRUE]]
  /\ tokens' = [tokens EXCEPT ![open[i].on].state = TokenAfter(open[i].on)]
  /\ completed' = [completed EXCEPT ![open[i].on] = @ + 1]
  /\ UNCHANGED <<bindings, waitlist, overtaken>>

BindingStep ==
  \/ \E b \in Bindings, c \in Classes : CheckInstallation(b, c) /\ UNCHANGED <<log, connectorVars>>
  \/ \E b \in Bindings : DeleteBinding(b) /\ UNCHANGED <<log, connectorVars>>
  \/ \E i \in DOMAIN open : InsertBinding(i) /\ UNCHANGED <<log, connectorVars>>
  \/ \E i \in DOMAIN open : CommitBinding(i) \/ CommitUnbind(i)

InstallStep ==
  \/ \E c \in Classes : /\ \/ InstallConnector(c)
                           \/ UninstallConnector(c)
                        /\ UNCHANGED <<log, connectorVars>>
  \/ \E i \in DOMAIN open : CommitInstall(i) \/ CommitUninstall(i)

WaitlistStep ==
  \/ \E c \in Classes : WaitlistConnector(c) /\ UNCHANGED <<log, connectorVars>>
  \/ \E i \in DOMAIN open : CommitWaitlist(i)

OAuthStep ==
  \/ \E t \in Tokens, c \in Classes : OAuthStart(t, c)
  \/ \E t \in Tokens : Expire(t)
  \/ \E t \in Tokens : OAuthCallback(t) /\ UNCHANGED <<log, connectorVars>>
  \/ \E i \in DOMAIN open : ExchangeCode(i) /\ UNCHANGED <<log, connectorVars>>
  \/ \E i \in DOMAIN open : VendorError(i) \/ CommitOAuth(i)

(* The last audit row about an installation tells its status.              *)
InstallActions == {"connector.installed", "connector.uninstalled", "connector.oauth.completed"}
LastInstall(c) ==
  LET K == {k \in DOMAIN log : log[k].action \in InstallActions /\ log[k].detail = c}
  IN  IF K = {} THEN "none" ELSE log[CHOOSE k \in K : \A j \in K : j <= k].action
ConnectorsAudited ==
  /\ \A c \in Classes :
       installs[c].status = CASE LastInstall(c) = "none" -> "absent"
                              [] LastInstall(c) = "connector.installed" -> Catalog!InstallStatus(c)
                              [] LastInstall(c) = "connector.uninstalled" -> "uninstalled"
                              [] LastInstall(c) = "connector.oauth.completed" -> "installed"
  /\ \A b \in Bindings : bindings[b] # "absent" <=> Logged("connector.bound", b)
  /\ \A c \in Classes : c \in waitlist <=> Logged("connector.waitlist.requested", c)
=============================================================================
