-------------------------- MODULE ConnectorCatalog ---------------------------
(***************************************************************************)
(* The connector classes the release ships (connectors.py), with what the  *)
(* operations distinguish: the tier and how a class authenticates; and the *)
(* OAuth recipes (connector_oauth.py).                                     *)
(***************************************************************************)
Class(tier, auth, ids) == {[id |-> i, tier |-> tier, auth |-> auth] : i \in ids}

CadAndAnalysis ==
  Class("A", "oauth2_pkce", {"autodesk-aps"}) \cup
  Class("B", "vendor_sdk", {"allplan"}) \cup
  Class("B", "on_prem_agent", {"rhino"}) \cup
  Class("C", "on_prem_agent",
        {"tekla", "dlubal-rfem", "sofistik", "csi-suite", "staad", "idea-statica",
         "plaxis"})

Documents ==
  Class("A", "oauth2_pkce",
        {"ms-sharepoint", "ms-onedrive", "box", "dropbox", "egnyte"}) \cup
  Class("B", "vendor_sdk", {"newforma"}) \cup
  Class("C", "on_prem_agent", {"bentley-projectwise"})

OfficeAndSite ==
  Class("A", "oauth2_pkce",
        {"procore", "ms-excel", "google-sheets", "ms-teams", "slack", "ms-outlook",
         "gmail", "google-drive"}) \cup
  Class("B", "oauth2_pkce", {"bluebeam-studio"})

SigningAndInternal ==
  Class("A", "oauth2_pkce", {"docusign", "adobe-sign"}) \cup
  Class("C", "on_prem_agent", {"d-trust-qes"}) \cup
  Class("internal", "internal", {"verolas-library"})

Connectors == CadAndAnalysis \cup Documents \cup OfficeAndSite \cup SigningAndInternal

Known(c) == \E s \in Connectors : s.id = c
Spec(c) == CHOOSE s \in Connectors : s.id = c

(* Tier C on-prem classes cannot be installed, only asked for.             *)
WaitlistOnly(c) == Spec(c).tier = "C" /\ Spec(c).auth = "on_prem_agent"

(* What POST /installations makes of a class: credentials come later.      *)
InstallStatus(c) == IF Spec(c).auth = "internal" THEN "installed" ELSE "pending"

(* The classes with a recipe: every one that authenticates by OAuth.       *)
OAuthConfigs ==
  {"autodesk-aps", "ms-sharepoint", "ms-onedrive", "ms-teams", "ms-outlook",
   "ms-excel", "google-drive", "google-sheets", "gmail", "slack", "box",
   "dropbox", "egnyte", "docusign", "adobe-sign", "procore", "bluebeam-studio"}

MayStartOAuth(c) == Spec(c).auth = "oauth2_pkce" /\ c \in OAuthConfigs

(* sync/dispatch.py: the classes with a sync engine.                       *)
SyncEngines == {"ms-sharepoint"}
=============================================================================
