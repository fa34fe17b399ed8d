---------------------------- MODULE TemplateSync ----------------------------
(***************************************************************************)
(* The template sync of workflow/sync.py: every API process, when it       *)
(* starts, writes the templates its build registers to the database, in    *)
(* one transaction that calls upsert_global_workflow_template once per     *)
(* template.  Processes start together, with the same build or during the  *)
(* roll-out of another.                                                    *)
(***************************************************************************)
EXTENDS Naturals, FiniteSetsExt, SequencesExt

CONSTANTS Process,    \* API processes
          Slugs,      \* all slugs, in the order of sorted()
          Releases,   \* what builds register: graphs (their hashes) by slug
          BootLimit   \* model bound: how often processes start

Slug == ToSet(Slugs)
Graph == UNION {Range(release) : release \in Releases}

ASSUME SyncAssumptions ==
    /\ Slugs \in Seq(Slug) /\ IsInjective(Slugs)
    /\ \A release \in Releases : DOMAIN release \subseteq Slug /\ DOMAIN release # {}
    /\ BootLimit \in Nat

VARIABLES templates,   \* committed rows of workflow_templates, by slug
          versions,    \* committed rows of workflow_template_versions
          sync,        \* per process, its open transaction
          boots

vars == <<templates, versions, sync, boots>>

Version == [slug : Slug, number : Nat \ {0}, graph : Graph, active : BOOLEAN]

NoSync == [pc |-> "idle", release |-> <<>>,
           queue |-> <<>>,     \* slugs still to upsert
           inserted |-> {},    \* template rows inserted by this transaction
           locked |-> {},      \* template rows updated, and thereby locked
           retired |-> {},     \* version rows no longer active
           minted |-> {}]      \* version rows inserted

Init == /\ templates = {}
        /\ versions = {}
        /\ sync = [p \in Process |-> NoSync]
        /\ boots = 0

-----------------------------------------------------------------------------
At(p, label) == sync[p].pc = label
SetSync(p, t) == sync' = [sync EXCEPT ![p] = t] /\ UNCHANGED <<templates, versions, boots>>

\* What the statements of process p see: what is committed, and its own writes.
TemplatesSeen(p) == templates \cup sync[p].inserted

Retire(rows, retired) ==
    (rows \ retired) \cup {[v EXCEPT !.active = FALSE] : v \in retired}

VersionsSeen(p) == Retire(versions, sync[p].retired) \cup sync[p].minted

Active(rows, slug) == {v \in rows : v.slug = slug /\ v.active}

Numbers(rows, slug) == {v.number : v \in {w \in rows : w.slug = slug}}

\* Faulty: the highest number is taken again.
LastNumber(rows, slug) == Max({0} \cup Numbers(rows, slug))

NextNumber(rows, slug) == 1 + Max({0} \cup Numbers(rows, slug))

\* The template is done; the transaction ends after the last one.
Upserted(t) == [t EXCEPT !.queue = Tail(@),
                         !.pc = IF Len(t.queue) = 1 THEN "commit" ELSE "find"]

Precedes(a, b) == \E i, j \in DOMAIN Slugs : i < j /\ Slugs[i] = a /\ Slugs[j] = b

\* Faulty: templates in the order in which the build happens to import them.
ImportOrder(release) == SetToSeqs(DOMAIN release)

\* registered_templates: in slug order.
SyncOrder(release) ==
    {queue \in SetToSeqs(DOMAIN release) :
        \A i, j \in DOMAIN queue : i < j => Precedes(queue[i], queue[j])}

-----------------------------------------------------------------------------
(* A process starts; app.upsert_global_workflow_template, by statements.   *)

Boot(p, release) ==
    /\ At(p, "idle")
    /\ boots < BootLimit
    /\ boots' = boots + 1
    /\ \E queue \in SyncOrder(release) :
          sync' = [sync EXCEPT ![p] = [NoSync EXCEPT
                      !.pc = "find", !.release = release, !.queue = queue]]
    /\ UNCHANGED <<templates, versions>>

FindTemplate(p) ==
    LET slug == Head(sync[p].queue) IN
    /\ At(p, "find")
    /\ SetSync(p, [sync[p] EXCEPT !.pc = IF slug \in TemplatesSeen(p) THEN "update"
                                                                       ELSE "insert"])

\* The unique index on global slugs makes the INSERT wait for another one of
\* the same slug, and fail if that one was committed.  A failure rolls back all
\* templates; the process starts to serve nevertheless (main.py, lifespan).
InsertTemplate(p) ==
    LET slug == Head(sync[p].queue) IN
    /\ At(p, "insert")
    /\ \A o \in Process \ {p} : slug \notin sync[o].inserted
    /\ SetSync(p, IF slug \in templates THEN NoSync
                  ELSE [sync[p] EXCEPT !.pc = "compare", !.inserted = @ \cup {slug}])

\* Faulty: the catalog row is only written when its metadata changed.
UpdateTemplateIfChanged(p) ==
    /\ At(p, "update")
    /\ SetSync(p, [sync[p] EXCEPT !.pc = "compare"])

\* Whatever the metadata, the UPDATE locks the row until the transaction ends.
UpdateTemplate(p) ==
    LET slug == Head(sync[p].queue) IN
    /\ At(p, "update")
    /\ \A o \in Process \ {p} : slug \notin sync[o].locked
    /\ SetSync(p, [sync[p] EXCEPT !.pc = "compare", !.locked = @ \cup {slug}])

CompareVersion(p) ==
    LET t == sync[p]
        slug == Head(t.queue)
        active == Active(VersionsSeen(p), slug)
        same == \E v \in active : /\ \A w \in active : w.number <= v.number
                                  /\ v.graph = t.release[slug]
    IN
    /\ At(p, "compare")
    /\ SetSync(p, IF same THEN Upserted(t) ELSE [t EXCEPT !.pc = "mint"])

\* Faulty: the prior versions stay active.
MintVersionKeepingOld(p) ==
    LET t == sync[p]
        slug == Head(t.queue)
    IN
    /\ At(p, "mint")
    /\ SetSync(p, [Upserted(t) EXCEPT
            !.minted = @ \cup {[slug |-> slug, number |-> NextNumber(VersionsSeen(p), slug),
                                graph |-> t.release[slug], active |-> TRUE]}])

\* Retire the active versions and insert the next one.  These statements touch
\* no row that another process can touch before this transaction ends.
MintVersion(p) ==
    LET t == sync[p]
        slug == Head(t.queue)
    IN
    /\ At(p, "mint")
    /\ \A o \in Process \ {p} : \A v \in sync[o].minted : v.slug # slug
    /\ SetSync(p, [Upserted(t) EXCEPT
            !.retired = @ \cup Active(versions, slug),
            !.minted = @ \cup {[slug |-> slug, number |-> NextNumber(VersionsSeen(p), slug),
                                graph |-> t.release[slug], active |-> TRUE]}])

Commit(p) ==
    /\ At(p, "commit")
    /\ templates' = TemplatesSeen(p)
    /\ versions' = VersionsSeen(p)
    /\ sync' = [sync EXCEPT ![p] = NoSync]
    /\ UNCHANGED boots

\* The process is stopped, or the sync fails and the exception is logged.
Rollback(p) == ~At(p, "idle") /\ SetSync(p, NoSync)

Step(p) == \/ FindTemplate(p) \/ InsertTemplate(p) \/ UpdateTemplate(p)
           \/ CompareVersion(p) \/ MintVersion(p) \/ Commit(p)

Next == \E p \in Process : \/ \E release \in Releases : Boot(p, release)
                           \/ Step(p)
                           \/ Rollback(p)

Spec == Init /\ [][Next]_vars

\* A sync that was started goes on; a statement that waits for a row gets it in
\* the end.
FairSpec == Spec /\ \A p \in Process : SF_vars(Step(p))

-----------------------------------------------------------------------------
TypeOK ==
    /\ templates \subseteq Slug
    /\ versions \subseteq Version
    /\ boots \in 0..BootLimit
    /\ \A p \in Process :
        /\ sync[p].pc \in {"idle", "find", "insert", "update", "compare", "mint", "commit"}
        /\ sync[p].queue \in Seq(Slug)
        /\ sync[p].inserted \cup sync[p].locked \subseteq Slug
        /\ sync[p].retired \cup sync[p].minted \subseteq Version

\* What _resolve_template_by_slug (LIMIT 1, no order) and list_templates rely
\* on: at every moment each template offers exactly one version, its newest,
\* and versions are numbered without gaps.
OneActiveVersion ==
    \A slug \in templates :
        LET mine == {v \in versions : v.slug = slug} IN
        /\ Numbers(versions, slug) = 1..Cardinality(mine)
        /\ {v.number : v \in Active(versions, slug)} = {Cardinality(mine)}

\* The graphs of a template, by version number.
HistoryOf(rows, slug) ==
    LET mine == {v \in rows : v.slug = slug} IN
    [n \in 1..Cardinality(mine) |-> (CHOOSE v \in mine : v.number = n).graph]

Catalog == INSTANCE TemplateCatalog WITH
    history <- [slug \in Slug |-> HistoryOf(versions, slug)]

\* Every committed sync installs one build completely, mints versions only for
\* the templates whose graph changed, and never touches an old version, however
\* many processes start at once.
ImplementsCatalog == Catalog!Spec

\* Processes that sync at the same time wait for each other's rows, never in a
\* circle: every process gets to serve.
SyncsEnd == \A p \in Process : ~At(p, "idle") ~> At(p, "idle")
=============================================================================
