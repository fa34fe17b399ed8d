---------------------------- MODULE PlatformProofs -----------------------------
(***************************************************************************)
(* Proofs about Platform: what holds of the services of one organisation   *)
(* for any number of requests, rows, jobs, bindings and changes of a drive.*)
(*                                                                         *)
(* The inductive invariant has one part per service: what its rows and the *)
(* audit trail say of each other, what every open request may rely on, and *)
(* what keeps two open requests apart.  The first is lost without the      *)
(* other two: a commit writes what was checked when the request began.     *)
(***************************************************************************)
EXTENDS Platform, SequenceTheorems, InductionLemmas

(* A sequence of members of R of which any two, in either order, are in A. *)
Orderly(s, R, A) ==
  /\ s \in Seq(R)
  /\ \A k, l \in DOMAIN s : k # l => <<s[k], s[l]>> \in A

-----------------------------------------------------------------------------
(* The bridge.                                                             *)
JobLock(j) == <<"job", j>>

BridgeForm ==
  [action : {"bridge.enrolled", "bridge.revoked", "poll", "bridge.job.completed"},
   on : Jobs \cup {TheBridge}, jobs : SUBSET Jobs,
   verdict : {"none", "completed", "failed"}, heard : BOOLEAN, ready : BOOLEAN,
   locks : SUBSET ({BridgeRow} \cup {JobLock(j) : j \in Jobs}), shares : {{}}, seq : Nat]

(* What a request relies on: the jobs it is about to claim or cancel are   *)
(* queued, the job it finishes is in progress and with nobody else, and    *)
(* the agent waits for the answer it still hears.                          *)
BridgeRequests(status, job, ag) ==
  {r \in BridgeForm :
    /\ r.action = "bridge.enrolled" <=> status = "absent"
    /\ \A j \in r.jobs : job[j] = "queued" /\ JobLock(j) \in r.locks
    /\ r.jobs # {} => r.action \in {"poll", "bridge.revoked"}
    /\ r.heard /\ r.action = "poll" => ag.pc = "polling"
    /\ r.action # "bridge.job.completed" => r.on = TheBridge
    /\ r.action = "bridge.job.completed" =>
         /\ r.on \in Jobs /\ job[r.on] = "in_progress" /\ r.on \notin ag.batch
         /\ r.verdict \in {"completed", "failed"}
         /\ r.heard => ag.pc = "submitting" /\ ag.job = r.on}

BridgeApart ==
  {p \in BridgeForm \X BridgeForm :
    /\ p[1].jobs \cap p[2].jobs = {}
    /\ p[1].action = p[2].action =>
         /\ p[1].action # "bridge.enrolled"
         /\ p[1].action = "bridge.job.completed" => p[1].on # p[2].on
         /\ p[1].action = "poll" => ~(p[1].heard /\ p[2].heard)}

AgentForm ==
  [pc : {"idle", "polling", "running", "submitting"}, batch : SUBSET Jobs, job : Jobs \cup {0}]

(* The agent has claimed what it works on, and nothing when it has not.    *)
AgentSound(job, ag) ==
  /\ ag \in AgentForm
  /\ \A j \in ag.batch : job[j] = "in_progress"
  /\ ag.pc \in {"idle", "polling"} => ag.batch = {} /\ ag.job = 0
  /\ ag.pc = "running" => ag.job = 0

BridgeEntries ==
  [action : {"bridge.enrolled", "bridge.revoked", "bridge.job.completed"},
   on : Jobs \cup {TheBridge}, detail : {TheBridge, "completed", "failed"}]

ResultsAreVerdicts(trail) ==
  \A k \in DOMAIN trail :
    trail[k].action = "bridge.job.completed" => trail[k].detail \in {"completed", "failed"}

BridgeInv ==
  /\ bridge \in BridgeStatus /\ jobs \in [Jobs -> JobStatus]
  /\ AgentSound(jobs, agent)
  /\ InProgressAccounted
  /\ log \in Seq(BridgeEntries) /\ ResultsAreVerdicts(log) /\ BridgeAudited
  /\ Orderly(open, BridgeRequests(bridge, jobs, agent), BridgeApart)

-----------------------------------------------------------------------------
(* The workspace.                                                          *)
Ids == Projects \cup AgentRuns \cup Folders \cup Files
Places == Projects \cup Folders \cup FolderNames

WorkspaceActions ==
  {"project.create", "agent.run.queued", "library.folder.created",
   "library.folder.deleted", "library.file.uploaded", "file.upload.initiated"}

WorkspaceForm ==
  [action : WorkspaceActions, on : Ids, place : Places, ready : {TRUE},
   locks : SUBSET ({"name", "folder"} \X (Folders \cup FolderNames)),
   shares : SUBSET ({"project", "folder"} \X (Projects \cup Folders)), seq : Nat]

(* What was checked when the request began still holds: locks and foreign  *)
(* keys keep a folder that is used, and a name that is taken.              *)
WorkspaceRequests(proj, run, dir, file) ==
  {r \in WorkspaceForm :
    /\ r.action = "project.create" => r.on \in Projects
    /\ r.action = "agent.run.queued" =>
         r.on \in AgentRuns /\ r.place \in Projects /\ run[r.on] = "absent"
    /\ r.action = "library.folder.created" =>
         /\ r.on \in Folders /\ r.place \in FolderNames /\ dir[r.on] = "absent"
         /\ \A g \in Folders : dir[g] # r.place
         /\ <<"name", r.place>> \in r.locks
    /\ r.action = "library.folder.deleted" =>
         /\ r.on \in Folders /\ dir[r.on] \in FolderNames
         /\ <<"folder", r.on>> \in r.locks /\ <<"name", dir[r.on]>> \in r.locks
    /\ r.action = "library.file.uploaded" =>
         /\ r.on \in Files /\ r.place \in Folders /\ file[r.on] = "absent"
         /\ dir[r.place] \in FolderNames /\ <<"folder", r.place>> \in r.shares
    /\ r.action = "file.upload.initiated" =>
         r.on \in Files /\ r.place \in Projects /\ file[r.on] = "absent"}

WorkspaceApart ==
  {p \in WorkspaceForm \X WorkspaceForm :
    /\ p[1].locks \cap (p[2].locks \cup p[2].shares) = {}
    /\ p[1].action # "library.folder.deleted" /\ p[2].action # "library.folder.deleted"
         => p[1].on # p[2].on}

WorkspaceEntries == [action : WorkspaceActions, on : Ids, detail : Places]

WorkspaceInv ==
  /\ projects \subseteq Projects
  /\ runs \in [AgentRuns -> Projects \cup {"absent"}]
  /\ folders \in [Folders -> FolderNames \cup {"absent", "deleted"}]
  /\ files \in [Files -> Folders \cup Projects \cup {"absent", "homeless"}]
  /\ log \in Seq(WorkspaceEntries) /\ WorkspaceAudited
  /\ Orderly(open, WorkspaceRequests(projects, runs, folders, files), WorkspaceApart)

-----------------------------------------------------------------------------
(* The connectors.                                                         *)
ConnectorLocks ==
  ({"install", "waitlist"} \X Classes) \cup ({"binding"} \X Bindings) \cup ({"token"} \X Tokens)

ConnectorActions ==
  {"connector.installed", "connector.uninstalled", "connector.waitlist.requested",
   "connector.bound", "connector.unbound", "connector.oauth.completed"}

ConnectorForm ==
  [action : ConnectorActions, on : Classes \cup Bindings \cup Tokens, class : Classes,
   gone : SUBSET Bindings, ready : BOOLEAN, locks : SUBSET ConnectorLocks,
   shares : {{}}, seq : Nat]

VaultRow == [status : {"none", "ready", "deleted"}, at : 0..MaxChanges]
Change == [item : Items, kind : {"absent", "file"}, at : 0..MaxChanges]
SyncForm ==
  [action : {"connector.sync.completed"}, on : Bindings, class : Classes,
   link : 0..MaxChanges, todo : SUBSET Change,
   stored : SUBSET [item : Change, known : BOOLEAN], rows : [Items -> VaultRow],
   ready : BOOLEAN, locks : SUBSET (({"file"} \X Bindings \X Items) \cup ({"config"} \X Bindings)),
   shares : SUBSET ({"binding"} \X Bindings), seq : Nat]

InUse == {"installed", "pending"}

ConnectorRequests(inst, bound, late, token, done) ==
  {r \in ConnectorForm :
    /\ r.action = "connector.bound" =>
         /\ r.on \in Bindings /\ bound[r.on] = "absent"
         /\ r.on \in late \/ inst[r.class].status \in InUse
    /\ r.action = "connector.unbound" => r.on \in Bindings /\ bound[r.on] # "absent"
    /\ r.action = "connector.waitlist.requested" => r.on = r.class
    /\ r.action = "connector.uninstalled" =>
         /\ \A b \in r.gone : bound[b] # "absent"
         /\ \A b \in Bindings : bound[b] = r.class => b \in r.gone \cup late
    /\ r.action = "connector.oauth.completed" =>
         /\ r.on \in Tokens /\ token[r.on].state \in {"open", "expired"} /\ done[r.on] = 0
         /\ <<"token", r.on>> \in r.locks}

(* No two requests make one binding or use one token.                      *)
ConnectorApart ==
  {p \in (ConnectorForm \cup SyncForm) \X (ConnectorForm \cup SyncForm) :
    p[1].action = p[2].action
    /\ p[1].action \in {"connector.bound", "connector.oauth.completed"} => p[1].on # p[2].on}

ConnectorEntries ==
  [action : ConnectorActions \cup {"connector.sync.completed"},
   on : Classes \cup Bindings \cup Tokens, detail : Classes]

InstallRow == [status : {"absent", "pending", "installed", "uninstalled"}, creds : BOOLEAN]
TokenRow == [state : {"unused", "open", "expired", "gone"}, class : Classes \cup {"none"}]

TokensSound(token, done) ==
  /\ token \in [Tokens -> TokenRow] /\ done \in [Tokens -> {0, 1}]
  /\ \A t \in Tokens : /\ token[t].state # "gone" => done[t] = 0
                       /\ token[t].state = "open" => token[t].class \in Classes

ConnectorInv ==
  /\ installs \in [Classes -> InstallRow]
  /\ bindings \in [Bindings -> Classes \cup {"absent", "removed"}]
  /\ TokensSound(tokens, completed)
  /\ BindingsNeedInstallation
  /\ log \in Seq(ConnectorEntries) /\ ConnectorsAudited
  /\ Orderly(open, SyncForm \cup ConnectorRequests(installs, bindings, overtaken, tokens, completed),
             ConnectorApart)

-----------------------------------------------------------------------------
(* The sync.                                                               *)
DriveSound(disk, count) ==
  /\ count \in 0..MaxChanges
  /\ disk \in [Items -> [kind : {"absent", "file", "skipped"}, at : 0..count]]
  /\ \A x \in Items : disk[x].at = 0 => disk[x].kind = "absent"

(* Item x has been dealt with by sync r up to its delta link.              *)
Handled(disk, rowOf, bytes, r, x) ==
  /\ disk[x].kind = "file" => /\ r.rows[x] = [status |-> "ready", at |-> disk[x].at]
                              /\ bytes[<<r.on, x>>] = disk[x].at
  /\ disk[x].kind = "absent" => IF r.rows[x] # NoRow THEN r.rows[x].status = "deleted"
                                ELSE rowOf[<<r.on, x>>].status # "ready"

(* An open sync of a binding that nobody removed or syncs as well: what it *)
(* has still to do, is doing and has done are items that changed after the *)
(* cursor; those that have not changed since are handled or still to do.   *)
SyncSound(disk, seen, rowOf, bytes, r) ==
  /\ \A d \in r.todo :
       /\ seen[r.on] < d.at /\ d.at <= disk[d.item].at
       /\ disk[d.item].at > r.link \/ (disk[d.item].at = d.at /\ disk[d.item].kind = d.kind)
       /\ r.rows[d.item] = NoRow
       /\ \A e \in r.todo : e.item = d.item => e = d
  /\ \A x \in Items : r.rows[x] # NoRow => seen[r.on] < disk[x].at
  /\ \A s \in r.stored :
       /\ s.item \in r.todo /\ s.item.kind = "file"
       /\ bytes[<<r.on, s.item.item>>] = disk[s.item.item].at
            \/ disk[s.item.item].at > r.link
  /\ r.ready => r.todo = {}
  /\ \A x \in Items : seen[r.on] < disk[x].at /\ disk[x].at <= r.link =>
       \/ disk[x].kind = "skipped"
       \/ \E d \in r.todo : d.item = x
       \/ Handled(disk, rowOf, bytes, r, x)

SyncRequests(bound, twice, disk, count, seen, rowOf, bytes) ==
  {r \in SyncForm :
    /\ bound[r.on] # "absent" /\ r.link <= count
    /\ r.seq # 0 => r.ready
    /\ bound[r.on] \in Classes /\ r.on \notin twice => SyncSound(disk, seen, rowOf, bytes, r)}

(* A binding with two open syncs is known as such.                         *)
SyncApart(twice) ==
  {p \in (ConnectorForm \cup SyncForm) \X (ConnectorForm \cup SyncForm) :
    p[1].action = "connector.sync.completed" /\ p[2].action = "connector.sync.completed"
    /\ p[1].on = p[2].on => p[1].on \in twice}

SyncInv ==
  /\ DriveSound(drive, changes)
  /\ cursor \in [Bindings -> 0..changes]
  /\ vault \in [Keys -> VaultRow] /\ objects \in [Keys -> 0..MaxChanges]
  /\ overlapped \subseteq Bindings
  /\ \A b \in Bindings, x \in Items :
       bindings[b] = "absent" => cursor[b] = 0 /\ vault[<<b, x>>] = NoRow
  /\ CursorSound
  /\ Orderly(open,
       ConnectorForm \cup SyncRequests(bindings, overlapped, drive, changes, cursor, vault, objects),
       SyncApart(overlapped))

-----------------------------------------------------------------------------
ChainInv ==
  /\ Len(log) <= LogLimit /\ Len(open) <= MaxOpen
  /\ \A k \in DOMAIN open : open[k].seq \in 0..(Len(log) + 1) /\ open[k].seq <= LogLimit

ConnectorScenarios == {"waitlist", "connectors", "sync"}

IInv ==
  /\ scenario \in Scenarios /\ ChainInv
  /\ IF scenario = "bridge" THEN BridgeInv ELSE BridgeInit
  /\ IF scenario = "workspace" THEN WorkspaceInv ELSE WorkspaceInit
  /\ IF scenario \in ConnectorScenarios THEN ConnectorInv ELSE ConnectorsInit
  /\ IF scenario = "sync" THEN SyncInv ELSE SyncInit

-----------------------------------------------------------------------------
(* Sequences of requests.                                                  *)
Skip(i, m) == IF m < i THEN m ELSE m + 1

(* RemoveAt keeps the other members, each in a place of its own.           *)
LEMMA RemoveAtFacts ==
  ASSUME NEW R, NEW Q, NEW s \in Seq(Q), NEW i \in DOMAIN s,
         \A k \in DOMAIN s \ {i} : s[k] \in R
  PROVE  /\ RemoveAt(s, i) \in Seq(R)
         /\ Len(RemoveAt(s, i)) = Len(s) - 1
         /\ \A m \in 1..(Len(s) - 1) : /\ Skip(i, m) \in DOMAIN s \ {i}
                                       /\ RemoveAt(s, i)[m] = s[Skip(i, m)]
<1> DEFINE n == Len(s)  a == SubSeq(s, 1, i - 1)  b == SubSeq(s, i + 1, n)
<1>1. n \in Nat /\ DOMAIN s = 1..n /\ i \in 1..n
  BY LenProperties
<1>2. /\ a \in Seq(R) /\ Len(a) = i - 1
      /\ \A k \in 1..(i - 1) : a[k] = s[k]
  <2>1. \A k \in 1..(i - 1) : s[k] \in R
    BY <1>1
  <2>2. /\ a \in Seq(R) /\ Len(a) = IF 1 <= i - 1 THEN (i - 1) - 1 + 1 ELSE 0
        /\ \A k \in 1..((i - 1) - 1 + 1) : a[k] = s[1 + k - 1]
    <3>1. 1 \in Int /\ i - 1 \in Int
      BY <1>1
    <3> HIDE DEF n
    <3>2. QED
      BY <2>1, <3>1, SubSeqProperties
  <2>3. QED
    BY <1>1, <2>2
<1>3. /\ b \in Seq(R) /\ Len(b) = n - i
      /\ \A k \in 1..(n - i) : b[k] = s[i + k]
  <2>1. \A k \in (i + 1)..n : s[k] \in R
    BY <1>1
  <2>2. /\ b \in Seq(R) /\ Len(b) = IF i + 1 <= n THEN n - (i + 1) + 1 ELSE 0
        /\ \A k \in 1..(n - (i + 1) + 1) : b[k] = s[i + 1 + k - 1]
    <3>1. n \in Int /\ i + 1 \in Int
      BY <1>1
    <3> HIDE DEF n
    <3>2. QED
      BY <2>1, <3>1, SubSeqProperties
  <2>3. QED
    BY <1>1, <2>2
<1>4. RemoveAt(s, i) = a \o b
  BY DEF RemoveAt
<1> HIDE DEF a, b, n
<1>5. /\ a \o b \in Seq(R) /\ Len(a \o b) = n - 1
      /\ \A m \in 1..(n - 1) : (a \o b)[m] = IF m <= i - 1 THEN a[m] ELSE b[m - (i - 1)]
  <2>1. /\ a \o b \in Seq(R) /\ Len(a \o b) = Len(a) + Len(b)
        /\ \A m \in 1..(Len(a) + Len(b)) :
              (a \o b)[m] = IF m <= Len(a) THEN a[m] ELSE b[m - Len(a)]
    BY <1>2, <1>3, ConcatProperties
  <2>2. Len(a) + Len(b) = n - 1
    BY <1>1, <1>2, <1>3
  <2>3. QED
    BY <1>2, <2>1, <2>2
<1>6. ASSUME NEW m \in 1..(n - 1)
      PROVE  Skip(i, m) \in DOMAIN s \ {i} /\ (a \o b)[m] = s[Skip(i, m)]
  <2>1. CASE m <= i - 1
    BY <1>1, <1>2, <1>5, <2>1 DEF Skip
  <2>2. CASE ~(m <= i - 1)
    <3>1. m - (i - 1) \in 1..(n - i) /\ i + (m - (i - 1)) = m + 1
      BY <1>1, <2>2
    <3>2. (a \o b)[m] = s[m + 1]
      BY <1>3, <1>5, <2>2, <3>1
    <3>3. Skip(i, m) = m + 1 /\ m + 1 \in DOMAIN s \ {i}
      BY <1>1, <2>2 DEF Skip
    <3>4. QED
      BY <3>2, <3>3
  <2>3. QED
    BY <2>1, <2>2
<1>7. QED
  BY <1>4, <1>5, <1>6 DEF n

OrderlyBut(s, i, R, A) ==
  /\ \A k \in DOMAIN s \ {i} : s[k] \in R
  /\ \A k, l \in DOMAIN s \ {i} : k # l => <<s[k], s[l]>> \in A

(* Request r goes with all members of s, the i-th excepted.                *)
Joins(s, i, r, A) ==
  \A k \in DOMAIN s \ {i} : <<s[k], r>> \in A /\ <<r, s[k]>> \in A

LEMMA OrderlyRemoved ==
  ASSUME NEW Q, NEW R, NEW A, NEW s \in Seq(Q), NEW i \in DOMAIN s, OrderlyBut(s, i, R, A)
  PROVE  Orderly(RemoveAt(s, i), R, A)
<1> DEFINE t == RemoveAt(s, i)
<1>1. /\ t \in Seq(R) /\ Len(t) = Len(s) - 1
      /\ \A m \in 1..(Len(s) - 1) : Skip(i, m) \in DOMAIN s \ {i} /\ t[m] = s[Skip(i, m)]
  BY RemoveAtFacts DEF OrderlyBut
<1> HIDE DEF t
<1>2. DOMAIN t = 1..(Len(s) - 1) /\ Len(s) \in Nat /\ i \in Nat
  BY <1>1, LenProperties
<1>3. ASSUME NEW k \in DOMAIN t, NEW l \in DOMAIN t, k # l  PROVE <<t[k], t[l]>> \in A
  <2>1. Skip(i, k) # Skip(i, l)
    BY <1>2, <1>3 DEF Skip
  <2>2. QED
    BY <1>1, <1>2, <2>1 DEF OrderlyBut
<1>4. QED
  BY <1>1, <1>3 DEF Orderly, t

LEMMA OrderlyAppended ==
  ASSUME NEW R, NEW A, NEW s, Orderly(s, R, A), NEW r \in R, Joins(s, 0, r, A)
  PROVE  Orderly(Append(s, r), R, A)
<1> DEFINE t == Append(s, r)  n == Len(s)
<1>1. s \in Seq(R) /\ n \in Nat /\ DOMAIN s = 1..n
  BY LenProperties DEF Orderly
<1>2. /\ t \in Seq(R) /\ DOMAIN t = 1..(n + 1)
      /\ \A k \in 1..n : t[k] = s[k]
      /\ t[n + 1] = r
  BY <1>1, AppendProperties, LenProperties
<1> HIDE DEF t, n
<1>3. ASSUME NEW k \in DOMAIN t, NEW l \in DOMAIN t, k # l  PROVE <<t[k], t[l]>> \in A
  <2>1. CASE k \in 1..n /\ l \in 1..n
    BY <1>1, <1>2, <1>3, <2>1 DEF Orderly
  <2>0. \A m \in 1..n : <<s[m], r>> \in A /\ <<r, s[m]>> \in A
    <3>1. \A m \in 1..n : m \in DOMAIN s \ {0}
      BY <1>1
    <3>2. QED
      BY <3>1 DEF Joins
  <2>2. CASE k \in 1..n /\ l = n + 1
    BY <1>2, <2>0, <2>2
  <2>3. CASE k = n + 1 /\ l \in 1..n
    BY <1>2, <2>0, <2>3
  <2>4. QED
    BY <1>1, <1>2, <1>3, <2>1, <2>2, <2>3
<1>4. QED
  BY <1>2, <1>3 DEF Orderly, t

LEMMA OrderlyReplaced ==
  ASSUME NEW Q, NEW R, NEW A, NEW s \in Seq(Q), NEW i \in DOMAIN s, OrderlyBut(s, i, R, A),
         NEW r \in R, Joins(s, i, r, A)
  PROVE  Orderly([s EXCEPT ![i] = r], R, A)
<1> DEFINE t == [s EXCEPT ![i] = r]
<1>1. /\ DOMAIN t = DOMAIN s /\ t[i] = r
      /\ \A k \in DOMAIN s \ {i} : t[k] = s[k]
  OBVIOUS
<1>2. t \in Seq(R)
  <2>1. Len(s) \in Nat /\ DOMAIN s = 1..Len(s) /\ t = [k \in 1..Len(s) |-> t[k]]
    BY LenProperties
  <2>2. \A k \in 1..Len(s) : t[k] \in R
    BY <1>1, <2>1 DEF OrderlyBut
  <2> HIDE DEF t
  <2>3. QED
    BY <2>1, <2>2
<1> HIDE DEF t
<1>3. ASSUME NEW k \in DOMAIN t, NEW l \in DOMAIN t, k # l  PROVE <<t[k], t[l]>> \in A
  <2>1. CASE k = i
    BY <1>1, <1>3, <2>1 DEF Joins
  <2>2. CASE l = i
    BY <1>1, <1>3, <2>2 DEF Joins
  <2>3. CASE k # i /\ l # i
    BY <1>1, <1>3, <2>3 DEF OrderlyBut
  <2>4. QED
    BY <2>1, <2>2, <2>3
<1>4. QED
  BY <1>2, <1>3 DEF Orderly, t

LEMMA OrderlyMoved ==
  ASSUME NEW Q, NEW R, NEW A, NEW s \in Seq(Q), NEW i \in DOMAIN s, OrderlyBut(s, i, R, A),
         NEW r \in R, Joins(s, i, r, A)
  PROVE  Orderly(Append(RemoveAt(s, i), r), R, A)
<1> DEFINE t == RemoveAt(s, i)
<1>1. Orderly(t, R, A)
  BY OrderlyRemoved
<1>2. /\ t \in Seq(R) /\ Len(t) = Len(s) - 1
      /\ \A m \in 1..(Len(s) - 1) : Skip(i, m) \in DOMAIN s \ {i} /\ t[m] = s[Skip(i, m)]
  BY RemoveAtFacts DEF OrderlyBut
<1> HIDE DEF t
<1>3. Joins(t, 0, r, A)
  BY <1>2, LenProperties DEF Joins
<1>4. Orderly(Append(t, r), R, A)
  BY <1>1, <1>3, OrderlyAppended
<1>5. QED
  BY <1>4 DEF t

-----------------------------------------------------------------------------
(* The audit trail and the open requests, whatever they are about.         *)
Numbered(r) == r.seq \in 0..(Len(log) + 1) /\ r.seq <= LogLimit

LEMMA ChainFields ==
  ASSUME ChainInv, NEW P, NEW Q, log \in Seq(P), open \in Seq(Q)
  PROVE  /\ Len(log) \in Nat /\ Len(log) <= LogLimit /\ DOMAIN log = 1..Len(log)
         /\ Len(open) \in Nat /\ Len(open) <= MaxOpen /\ DOMAIN open = 1..Len(open)
         /\ \A k \in DOMAIN open : Numbered(open[k])
         /\ MaxOpen \in Nat /\ LogLimit \in Nat
BY LenProperties, ChainBounds DEF ChainInv, Numbered

LEMMA ChainRemoved ==
  ASSUME ChainInv, NEW P, NEW Q, log \in Seq(P), open \in Seq(Q), NEW i \in DOMAIN open,
         open' = RemoveAt(open, i), NEW added \in {0, 1}, Len(log') = Len(log) + added,
         Len(log') <= LogLimit
  PROVE  ChainInv'
<1>1. /\ Len(open') = Len(open) - 1 /\ open' \in Seq(Q)
      /\ \A m \in 1..(Len(open) - 1) : /\ Skip(i, m) \in DOMAIN open
                                       /\ open'[m] = open[Skip(i, m)]
  <2>1. \A k \in DOMAIN open \ {i} : open[k] \in Q
    BY LenProperties
  <2>2. QED
    BY <2>1, RemoveAtFacts
<1>2. \A m \in DOMAIN open' : Numbered(open'[m])
  BY <1>1, ChainFields, LenProperties
<1>3. \A m \in DOMAIN open' : open'[m].seq \in 0..(Len(log') + 1) /\ open'[m].seq <= LogLimit
  BY <1>2, ChainFields DEF Numbered
<1>4. Len(open') <= MaxOpen
  BY <1>1, ChainFields
<1>5. QED
  BY <1>3, <1>4 DEF ChainInv

LEMMA ChainBegin ==
  ASSUME ChainInv, NEW P, NEW Q, log \in Seq(P), open \in Seq(Q), NEW r, Begin(r), r.seq = 0,
         log' = log
  PROVE  ChainInv'
<1>1. /\ Len(open') = Len(open) + 1 /\ DOMAIN open' = 1..(Len(open) + 1)
      /\ \A k \in 1..Len(open) : open'[k] = open[k]
      /\ open'[Len(open) + 1] = r
  <2>1. open \in Seq(Q \cup {r}) /\ r \in Q \cup {r}
    OBVIOUS
  <2>2. QED
    BY <2>1, AppendProperties, LenProperties DEF Begin
<1>2. ASSUME NEW k \in DOMAIN open'
      PROVE  open'[k].seq \in 0..(Len(log') + 1) /\ open'[k].seq <= LogLimit
  BY <1>1, ChainFields DEF Numbered
<1>3. Len(open') <= MaxOpen
  BY <1>1, ChainFields DEF Begin
<1>4. QED
  BY <1>2, <1>3, ChainFields DEF ChainInv

LEMMA ChainContinue ==
  ASSUME ChainInv, NEW P, NEW Q, log \in Seq(P), open \in Seq(Q), NEW i \in DOMAIN open, NEW r,
         Continue(i, r), r.seq = open[i].seq, log' = log
  PROVE  ChainInv'
<1>1. /\ DOMAIN open' = DOMAIN open /\ open'[i] = r
      /\ \A k \in DOMAIN open \ {i} : open'[k] = open[k]
  BY DEF Continue
<1>2. Len(open') = Len(open)
  <2>1. open \in Seq(Q \cup {r}) /\ r \in Q \cup {r} /\ i \in 1..Len(open)
    BY LenProperties
  <2>2. QED
    BY <2>1, ExceptSeq DEF Continue
<1>3. ASSUME NEW k \in DOMAIN open'
      PROVE  open'[k].seq \in 0..(Len(log') + 1) /\ open'[k].seq <= LogLimit
  BY <1>1, ChainFields DEF Numbered
<1>4. QED
  BY <1>2, <1>3, ChainFields DEF ChainInv

LEMMA ChainRecord ==
  ASSUME ChainInv, NEW P, NEW Q, log \in Seq(P), open \in Seq(Q), NEW i \in DOMAIN open,
         Record(i), log' = log, "seq" \in DOMAIN open[i]
  PROVE  ChainInv'
<1> DEFINE t == RemoveAt(open, i)  r == [open[i] EXCEPT !.seq = Len(log) + 1]
<1>1. /\ Len(t) = Len(open) - 1 /\ t \in Seq(Q)
      /\ \A m \in 1..(Len(open) - 1) : Skip(i, m) \in DOMAIN open /\ t[m] = open[Skip(i, m)]
  <2>1. \A k \in DOMAIN open \ {i} : open[k] \in Q
    BY LenProperties
  <2>2. QED
    BY <2>1, RemoveAtFacts
<1>2. r.seq = Len(log) + 1
  OBVIOUS
<1>3. open' = Append(t, r) /\ Len(log) < LogLimit
  BY DEF Record
<1> HIDE DEF t, r
<1>4. /\ Len(open') = Len(open) /\ DOMAIN open' = 1..Len(open)
      /\ \A k \in 1..(Len(open) - 1) : open'[k] = t[k]
      /\ open'[Len(open)] = r
  <2>1. t \in Seq(Q \cup {r}) /\ r \in Q \cup {r}
    BY <1>1
  <2>2. /\ Len(Append(t, r)) = Len(t) + 1
        /\ \A k \in 1..Len(t) : Append(t, r)[k] = t[k]
        /\ Append(t, r)[Len(t) + 1] = r
        /\ DOMAIN Append(t, r) = 1..(Len(t) + 1)
    BY <2>1, AppendProperties, LenProperties
  <2>3. Len(t) + 1 = Len(open)
    BY <1>1, LenProperties
  <2>4. QED
    BY <1>1, <1>3, <2>2, <2>3
<1>5. ASSUME NEW k \in DOMAIN open'
      PROVE  open'[k].seq \in 0..(Len(log') + 1) /\ open'[k].seq <= LogLimit
  <2>1. CASE k = Len(open)
    BY <1>2, <1>3, <1>4, <2>1, ChainFields
  <2>2. CASE k \in 1..(Len(open) - 1)
    BY <1>1, <1>4, <2>2, ChainFields DEF Numbered
  <2>3. QED
    BY <1>4, <2>1, <2>2, ChainFields
<1>6. QED
  BY <1>4, <1>5, ChainFields DEF ChainInv

LastOf(K) == CHOOSE k \in K : \A l \in K : l <= k

LEMMA LastOfFacts ==
  ASSUME NEW n \in Nat, NEW K, K \subseteq 1..n, K # {}
  PROVE  LastOf(K) \in K /\ \A l \in K : l <= LastOf(K)
<1>1. \E k \in K : \A l \in K : l <= k
  <2>1. K \subseteq 0..n
    OBVIOUS
  <2>2. QED
    BY <2>1, GreatestNat
<1>2. QED
  BY <1>1 DEF LastOf

LEMMA LastOfNew ==
  ASSUME NEW n \in Nat, NEW K, K \subseteq 1..n
  PROVE  LastOf(K \cup {n + 1}) = n + 1
<1>1. /\ LastOf(K \cup {n + 1}) \in K \cup {n + 1}
      /\ \A l \in K \cup {n + 1} : l <= LastOf(K \cup {n + 1})
  <2>1. K \cup {n + 1} \subseteq 1..(n + 1) /\ n + 1 \in Nat
    OBVIOUS
  <2>2. QED
    BY <2>1, LastOfFacts
<1> DEFINE last == LastOf(K \cup {n + 1})
<1> HIDE DEF last
<1>2. n + 1 <= last
  BY <1>1 DEF last
<1>3. last \in 1..(n + 1)
  <2>1. last \in K \/ last = n + 1
    BY <1>1 DEF last
  <2>2. last \in 1..n \/ last = n + 1
    BY <2>1
  <2>3. QED
    BY <2>2
<1>4. last = n + 1
  BY <1>2, <1>3
<1>5. QED
  BY <1>4 DEF last

(* What a committed audited request adds to the trail.                     *)
LEMMA CommitLogs ==
  ASSUME ChainInv, NEW P, NEW Q, log \in Seq(P), open \in Seq(Q), NEW i \in DOMAIN open,
         NEW detail, Commit(i, detail)
  PROVE  /\ Len(log') = Len(log) + 1 /\ Len(log') <= LogLimit /\ Len(log) \in Nat
         /\ DOMAIN log = 1..Len(log) /\ DOMAIN log' = 1..(Len(log) + 1)
         /\ \A k \in 1..Len(log) : log'[k] = log[k]
         /\ log'[Len(log) + 1] = [action |-> open[i].action, on |-> open[i].on, detail |-> detail]
         /\ open' = RemoveAt(open, i) /\ ChainInv'
<1> DEFINE e == [action |-> open[i].action, on |-> open[i].on, detail |-> detail]
<1>1. log' = Append(log, e) /\ open' = RemoveAt(open, i) /\ open[i].seq = Len(log) + 1
  BY DEF Commit, MayCommit
<1>2. log \in Seq(P \cup {e}) /\ e \in P \cup {e}
  OBVIOUS
<1> HIDE DEF e
<1>3. /\ Len(log') = Len(log) + 1 /\ DOMAIN log' = 1..(Len(log) + 1)
      /\ \A k \in 1..Len(log) : log'[k] = log[k]
      /\ log'[Len(log) + 1] = e
  BY <1>1, <1>2, AppendProperties, LenProperties
<1>4. Len(log) + 1 <= LogLimit
  BY <1>1, ChainFields DEF Numbered
<1>5. ChainInv'
  BY <1>1, <1>3, <1>4, ChainRemoved
<1>6. QED
  BY <1>1, <1>3, <1>4, <1>5, ChainFields DEF e

LEMMA LogSeq ==
  ASSUME NEW P, log \in Seq(P), NEW i, NEW detail, Commit(i, detail),
         [action |-> open[i].action, on |-> open[i].on, detail |-> detail] \in P
  PROVE  log' \in Seq(P)
BY AppendProperties DEF Commit

LEMMA EntriesGrow ==
  ASSUME ChainInv, NEW P, NEW Q, log \in Seq(P), open \in Seq(Q), NEW i \in DOMAIN open,
         NEW detail, Commit(i, detail), NEW action, NEW on
  PROVE  /\ Entries(action, on) \subseteq 1..Len(log)
         /\ Entries(action, on)' =
              Entries(action, on) \cup (IF open[i].action = action /\ open[i].on = on
                                        THEN {Len(log) + 1} ELSE {})
         /\ Logged(action, on)' <=>
              Logged(action, on) \/ (open[i].action = action /\ open[i].on = on)
<1>0. /\ DOMAIN log = 1..Len(log) /\ DOMAIN log' = 1..(Len(log) + 1)
      /\ \A k \in 1..Len(log) : log'[k] = log[k]
      /\ log'[Len(log) + 1] = [action |-> open[i].action, on |-> open[i].on, detail |-> detail]
      /\ Len(log) \in Nat
  BY CommitLogs
<1>1. Entries(action, on) \subseteq 1..Len(log)
  BY <1>0 DEF Entries
<1>2. \A k \in 1..Len(log) : k \in Entries(action, on)' <=> k \in Entries(action, on)
  BY <1>0 DEF Entries
<1>3. Len(log) + 1 \in Entries(action, on)' <=> open[i].action = action /\ open[i].on = on
  BY <1>0 DEF Entries
<1>4. Entries(action, on)' \subseteq 1..(Len(log) + 1)
  BY <1>0 DEF Entries
<1>5. Len(log) \in Nat
  BY <1>0
<1>6. Entries(action, on)' =
              Entries(action, on) \cup (IF open[i].action = action /\ open[i].on = on
                                        THEN {Len(log) + 1} ELSE {})
  BY <1>1, <1>2, <1>3, <1>4, <1>5
<1>7. QED
  BY <1>1, <1>6 DEF Logged

(* The detail of the last entry about a resource.                          *)
LastDetail(action, on) == log[LastOf(Entries(action, on))].detail

LEMMA DetailLogged ==
  ASSUME ChainInv, NEW P, NEW Q, log \in Seq(P), open \in Seq(Q), NEW i \in DOMAIN open,
         NEW detail, Commit(i, detail), NEW action, NEW on
  PROVE  IF open[i].action = action /\ open[i].on = on
         THEN LastDetail(action, on)' = detail /\ Entries(action, on)' # {}
         ELSE /\ Entries(action, on)' = Entries(action, on)
              /\ Entries(action, on) # {} => LastDetail(action, on)' = LastDetail(action, on)
<1> DEFINE K == Entries(action, on)  n == Len(log)
<1>0. /\ \A k \in 1..n : log'[k] = log[k]
      /\ log'[n + 1] = [action |-> open[i].action, on |-> open[i].on, detail |-> detail]
      /\ n \in Nat
  BY CommitLogs
<1>1. /\ K \subseteq 1..n /\ n \in Nat
      /\ K' = K \cup (IF open[i].action = action /\ open[i].on = on THEN {n + 1} ELSE {})
  BY <1>0, EntriesGrow
<1>2. CASE open[i].action = action /\ open[i].on = on
  <2>1. K' = K \cup {n + 1}
    BY <1>1, <1>2
  <2> HIDE DEF K, n
  <2>2. LastOf(K') = n + 1
    BY <1>1, <2>1, LastOfNew
  <2>3. log'[n + 1].detail = detail
    BY <1>0 DEF n
  <2>4. QED
    BY <1>2, <2>1, <2>2, <2>3 DEF LastDetail, K
<1>3. CASE ~(open[i].action = action /\ open[i].on = on)
  <2>1. K' = K
    BY <1>1, <1>3
  <2>2. ASSUME K # {}  PROVE log'[LastOf(K)] = log[LastOf(K)]
    <3>1. LastOf(K) \in 1..n
      BY <1>1, <2>2, LastOfFacts
    <3>2. QED
      BY <1>0, <3>1
  <2>3. QED
    BY <1>3, <2>1, <2>2 DEF LastDetail
<1>4. QED
  BY <1>2, <1>3

LEMMA OrderlyFacts ==
  ASSUME NEW s, NEW R, NEW A, Orderly(s, R, A)
  PROVE  /\ s \in Seq(R) /\ Len(s) \in Nat /\ DOMAIN s = 1..Len(s)
         /\ \A k \in DOMAIN s : s[k] \in R
         /\ \A k, l \in DOMAIN s : k # l => <<s[k], s[l]>> \in A
BY LenProperties DEF Orderly

LEMMA OthersStay ==
  ASSUME NEW s, NEW Q, NEW A, Orderly(s, Q, A), NEW i, NEW R,
         \A k \in DOMAIN s \ {i} : s[k] \in R
  PROVE  OrderlyBut(s, i, R, A)
BY DEF Orderly, OrderlyBut

LEMMA OrderlyStays ==
  ASSUME NEW s, NEW Q, NEW A, Orderly(s, Q, A), NEW R, \A k \in DOMAIN s : s[k] \in R
  PROVE  Orderly(s, R, A)
<1>1. Len(s) \in Nat /\ DOMAIN s = 1..Len(s) /\ s = [k \in 1..Len(s) |-> s[k]]
  BY LenProperties DEF Orderly
<1>2. s \in Seq(R)
  BY <1>1
<1>3. QED
  BY <1>2 DEF Orderly

-----------------------------------------------------------------------------
(* The bridge: every step of it, and the two ways a request may go on      *)
(* without one, keeps its part of the invariant.                           *)
BridgeState == BridgeRequests(bridge, jobs, agent)

LEMMA BridgeShape ==
  ASSUME BridgeInv
  PROVE  /\ bridge \in BridgeStatus /\ jobs \in [Jobs -> JobStatus] /\ AgentSound(jobs, agent)
         /\ log \in Seq(BridgeEntries) /\ open \in Seq(BridgeState)
         /\ Orderly(open, BridgeState, BridgeApart)
         /\ \A k \in DOMAIN open : open[k] \in BridgeState /\ open[k] \in BridgeForm
         /\ \A k, l \in DOMAIN open : k # l => <<open[k], open[l]>> \in BridgeApart
<1>1. Orderly(open, BridgeState, BridgeApart)
  BY DEF BridgeInv, BridgeState
<1>2. \A k \in DOMAIN open : open[k] \in BridgeState
  BY <1>1, OrderlyFacts
<1>3. \A k \in DOMAIN open : open[k] \in BridgeForm
  BY <1>2 DEF BridgeState, BridgeRequests
<1>4. QED
  BY <1>1, <1>2, <1>3, OrderlyFacts DEF BridgeInv

(* A request that looks the same to the others.                            *)
Resembles(q, r) ==
  q.jobs = r.jobs /\ q.action = r.action /\ q.on = r.on /\ (q.heard => r.heard)

LEMMA ResemblesApart ==
  ASSUME NEW p \in BridgeForm, NEW q \in BridgeForm, NEW r \in BridgeForm, Resembles(q, r)
  PROVE  /\ <<p, r>> \in BridgeApart => <<p, q>> \in BridgeApart
         /\ <<r, p>> \in BridgeApart => <<q, p>> \in BridgeApart
BY DEF Resembles, BridgeApart, BridgeForm

LEMMA BridgeSameJoins ==
  ASSUME BridgeInv, NEW i \in DOMAIN open, NEW q \in BridgeForm, Resembles(q, open[i])
  PROVE  Joins(open, i, q, BridgeApart)
<1> SUFFICES ASSUME NEW k \in DOMAIN open \ {i}
             PROVE  <<open[k], q>> \in BridgeApart /\ <<q, open[k]>> \in BridgeApart
  BY DEF Joins
<1>1. /\ open[k] \in BridgeForm /\ open[i] \in BridgeForm
      /\ <<open[k], open[i]>> \in BridgeApart /\ <<open[i], open[k]>> \in BridgeApart
  BY BridgeShape
<1>2. QED
  BY <1>1, ResemblesApart

Quiet == \A k \in DOMAIN open : open[k].action # "poll"

LEMMA QuietRemoved ==
  ASSUME BridgeInv, NEW i \in DOMAIN open, open' = RemoveAt(open, i), Quiet
  PROVE  Quiet'
<1>1. /\ \A k \in DOMAIN open \ {i} : open[k] \in BridgeState
      /\ open \in Seq(BridgeState)
  BY BridgeShape
<1>2. /\ Len(open') = Len(open) - 1 /\ open' \in Seq(BridgeState)
      /\ \A m \in 1..(Len(open) - 1) : /\ Skip(i, m) \in DOMAIN open \ {i}
                                       /\ open'[m] = open[Skip(i, m)]
  BY <1>1, RemoveAtFacts
<1>3. DOMAIN open' = 1..(Len(open) - 1)
  BY <1>2, LenProperties
<1>4. QED
  BY <1>2, <1>3 DEF Quiet

LEMMA QuietAppended ==
  ASSUME NEW s, NEW R, s \in Seq(R), \A k \in DOMAIN s : s[k].action # "poll",
         NEW r, r.action # "poll", open' = Append(s, r)
  PROVE  Quiet'
<1>1. s \in Seq(R \cup {r}) /\ r \in R \cup {r}
  OBVIOUS
<1>2. /\ DOMAIN s = 1..Len(s) /\ DOMAIN open' = 1..(Len(s) + 1) /\ Len(s) \in Nat
      /\ \A k \in 1..Len(s) : open'[k] = s[k]
      /\ open'[Len(s) + 1] = r
  BY <1>1, AppendProperties, LenProperties
<1>3. \A k \in 1..(Len(s) + 1) : k \in 1..Len(s) \/ k = Len(s) + 1
  BY <1>2
<1>4. QED
  BY <1>2, <1>3 DEF Quiet

Forward == \A j \in Jobs : jobs'[j] = jobs[j] \/ jobs'[j] \in Later(jobs[j])

BridgeGoes == /\ BridgeInv' /\ ChainInv' /\ Forward
              /\ bridge = "revoked" /\ Quiet => bridge' = "revoked" /\ Quiet'

LEMMA VerdictIs ==
  ASSUME NEW j \in Jobs
  PROVE  /\ LastVerdict(j) = IF Entries("bridge.job.completed", j) = {} THEN "none"
                            ELSE LastDetail("bridge.job.completed", j)
         /\ LastVerdict(j)' = IF Entries("bridge.job.completed", j)' = {} THEN "none"
                             ELSE LastDetail("bridge.job.completed", j)'
<1>1. LastVerdict(j) = IF Entries("bridge.job.completed", j) = {} THEN "none"
                       ELSE LastDetail("bridge.job.completed", j)
  BY Zenon DEF LastVerdict, LastDetail, LastOf
<1>2. LastVerdict(j)' = IF Entries("bridge.job.completed", j)' = {} THEN "none"
                        ELSE LastDetail("bridge.job.completed", j)'
  BY Zenon DEF LastVerdict, LastDetail, LastOf
<1>3. QED
  BY <1>1, <1>2

LEMMA TrailStays ==
  ASSUME UNCHANGED log
  PROVE  /\ \A action, on : Entries(action, on)' = Entries(action, on)
         /\ \A action, on : Logged(action, on)' = Logged(action, on)
         /\ \A action, on : LastDetail(action, on)' = LastDetail(action, on)
         /\ \A j \in Jobs : LastVerdict(j)' = LastVerdict(j)
<1>1. \A action, on : Entries(action, on)' = Entries(action, on)
  BY Zenon DEF Entries
<1>2. \A action, on : LastDetail(action, on)' = LastDetail(action, on)
  BY <1>1, Zenon DEF LastDetail
<1>3. \A action, on : Logged(action, on)' = Logged(action, on)
  BY <1>1, Zenon DEF Logged
<1>4. \A j \in Jobs : LastVerdict(j)' = LastVerdict(j)
  BY <1>1, <1>2, VerdictIs
<1>5. QED
  BY <1>1, <1>2, <1>3, <1>4

LEMMA BridgeKept ==
  ASSUME BridgeInv, UNCHANGED <<log, bridgeVars>>, Orderly(open', BridgeState, BridgeApart)
  PROVE  BridgeInv'
<1>1. UNCHANGED <<log, bridge, jobs, agent, dropped>>
  BY DEF bridgeVars
<1>2. BridgeAudited'
  BY <1>1, TrailStays DEF BridgeInv, BridgeAudited
<1>3. InProgressAccounted'
  BY <1>1 DEF BridgeInv, InProgressAccounted, With
<1>4. Orderly(open', BridgeRequests(bridge', jobs', agent'), BridgeApart)
  BY <1>1 DEF BridgeState
<1>5. QED
  BY <1>1, <1>2, <1>3, <1>4 DEF BridgeInv

LEMMA BridgeRecord ==
  ASSUME BridgeInv, ChainInv, NEW i \in DOMAIN open, Record(i), UNCHANGED <<log, bridgeVars>>
  PROVE  BridgeGoes
<1> DEFINE r == [open[i] EXCEPT !.seq = Len(log) + 1]
<1>1. open[i] \in BridgeState /\ open[i] \in BridgeForm /\ open \in Seq(BridgeState)
      /\ Orderly(open, BridgeState, BridgeApart) /\ log \in Seq(BridgeEntries)
  BY BridgeShape
<1>2. Len(log) + 1 \in Nat
  BY <1>1, LenProperties
<1>3. r \in BridgeForm /\ r.locks = open[i].locks /\ Resembles(r, open[i])
      /\ r.verdict = open[i].verdict
  BY <1>1, <1>2 DEF BridgeForm, Resembles
<1>4. open' = Append(RemoveAt(open, i), r)
  BY DEF Record
<1> HIDE DEF r
<1>5. r \in BridgeState
  BY <1>1, <1>3 DEF BridgeState, BridgeRequests, Resembles
<1>6. Joins(open, i, r, BridgeApart)
  BY <1>3, BridgeSameJoins
<1>7. OrderlyBut(open, i, BridgeState, BridgeApart)
  BY <1>1, BridgeShape, OthersStay
<1>8. Orderly(open', BridgeState, BridgeApart)
  BY <1>1, <1>4, <1>5, <1>6, <1>7, OrderlyMoved
<1>9. ChainInv'
  <2>1. "seq" \in DOMAIN open[i]
    BY <1>1 DEF BridgeForm
  <2>2. QED
    BY <1>1, <2>1, ChainRecord
<1>10. Quiet => Quiet'
  <2> SUFFICES ASSUME Quiet  PROVE Quiet'
    OBVIOUS
  <2> DEFINE t == RemoveAt(open, i)
  <2>1. /\ Len(t) = Len(open) - 1 /\ t \in Seq(BridgeState)
        /\ \A m \in 1..(Len(open) - 1) : /\ Skip(i, m) \in DOMAIN open \ {i}
                                         /\ t[m] = open[Skip(i, m)]
    BY <1>1, BridgeShape, RemoveAtFacts
  <2> HIDE DEF t
  <2>2. \A m \in DOMAIN t : t[m].action # "poll"
    BY <2>1, LenProperties DEF Quiet
  <2>3. r.action # "poll"
    BY <1>3 DEF Quiet, Resembles
  <2>4. open' = Append(t, r)
    BY <1>4 DEF t
  <2>5. QED
    BY <2>1, <2>2, <2>3, <2>4, QuietAppended
<1>11. BridgeInv'
  BY <1>8, BridgeKept
<1>12. QED
  BY <1>9, <1>10, <1>11 DEF BridgeGoes, Forward, bridgeVars

LEMMA BridgeRollback ==
  ASSUME BridgeInv, ChainInv, NEW i \in DOMAIN open, Rollback(i), UNCHANGED bridgeVars
  PROVE  BridgeGoes
<1>1. open' = RemoveAt(open, i) /\ log' = log
  BY DEF Rollback
<1>2. Orderly(open, BridgeState, BridgeApart) /\ open \in Seq(BridgeState)
      /\ log \in Seq(BridgeEntries)
  BY BridgeShape
<1>3. OrderlyBut(open, i, BridgeState, BridgeApart)
  BY <1>2, BridgeShape, OthersStay
<1>4. Orderly(open', BridgeState, BridgeApart)
  BY <1>1, <1>2, <1>3, OrderlyRemoved
<1>5. ChainInv'
  <2>1. Len(log') = Len(log) + 0 /\ Len(log') <= LogLimit
    BY <1>1, <1>2, ChainFields
  <2>2. QED
    BY <1>1, <1>2, <2>1, ChainRemoved
<1>6. QED
  BY <1>1, <1>4, <1>5, BridgeKept, QuietRemoved DEF BridgeGoes, Forward, bridgeVars

(* A new request, of which the others need not know.                       *)
LEMMA BridgeBegins ==
  ASSUME BridgeInv, ChainInv, NEW r, Begin(r), r.seq = 0, UNCHANGED <<log, bridge, jobs, dropped>>,
         AgentSound(jobs, agent'),
         agent.batch \cup {agent.job} \subseteq agent'.batch \cup {agent'.job} \cup {0},
         \A k \in DOMAIN open : open[k] \in BridgeRequests(bridge, jobs, agent'),
         r \in BridgeRequests(bridge, jobs, agent'),
         Joins(open, 0, r, BridgeApart),
         r.action = "poll" => bridge # "revoked"
  PROVE  BridgeGoes
<1> DEFINE R == BridgeRequests(bridge, jobs, agent')
<1>1. open \in Seq(BridgeState) /\ Orderly(open, BridgeState, BridgeApart)
      /\ log \in Seq(BridgeEntries) /\ open' = Append(open, r)
  BY BridgeShape DEF Begin
<1>2. Orderly(open', R, BridgeApart)
  <2> HIDE DEF R
  <2>1. \A k \in DOMAIN open : open[k] \in R
    BY DEF R
  <2>2. Orderly(open, R, BridgeApart)
    BY <1>1, <2>1, OrderlyStays
  <2>3. r \in R
    BY DEF R
  <2>4. QED
    BY <1>1, <2>2, <2>3, OrderlyAppended
<1>3. ChainInv'
  BY <1>1, ChainBegin
<1>4. BridgeAudited'
  BY TrailStays DEF BridgeInv, BridgeAudited
<1>5. InProgressAccounted'
  <2>1. 0 \notin With("in_progress")
    BY DEF With, Jobs
  <2>2. With("in_progress")' = With("in_progress")
    BY DEF With
  <2>3. QED
    BY <2>1, <2>2 DEF BridgeInv, InProgressAccounted
<1>6. BridgeInv'
  <2>1. Orderly(open', BridgeRequests(bridge', jobs', agent'), BridgeApart)
    BY <1>2
  <2>2. QED
    BY <1>4, <1>5, <2>1 DEF BridgeInv
<1>7. bridge = "revoked" /\ Quiet => Quiet'
  BY <1>1, QuietAppended DEF Quiet
<1>8. QED
  BY <1>3, <1>6, <1>7 DEF BridgeGoes, Forward

(* The locks of a new request keep its jobs from those of the others.      *)
LEMMA FreeJobs ==
  ASSUME BridgeInv, NEW others, others \subseteq DOMAIN open, NEW locks, NEW shares,
         Free(locks, shares, others), NEW mine, \A j \in mine : JobLock(j) \in locks
  PROVE  \A k \in others : open[k].jobs \cap mine = {}
<1> SUFFICES ASSUME NEW k \in others, NEW j \in open[k].jobs, j \in mine  PROVE FALSE
  OBVIOUS
<1>1. JobLock(j) \in open[k].locks
  BY BridgeShape DEF BridgeState, BridgeRequests
<1>2. QED
  BY <1>1 DEF Free

LEMMA EnrollBridgeGoes == ASSUME BridgeInv, ChainInv, EnrollBridge  PROVE BridgeGoes
<1> DEFINE r == BridgeRequest("bridge.enrolled", TheBridge, TRUE, {})
<1>1. bridge = "absent" /\ Begin(r) /\ UNCHANGED <<log, bridge, jobs, agent, dropped>>
      /\ \A k \in DOMAIN open : open[k].action # "bridge.enrolled"
  BY DEF EnrollBridge, bridgeVars, Is
<1>2. r.seq = 0 /\ r.action = "bridge.enrolled" /\ r.jobs = {} /\ r.on = TheBridge
  BY DEF BridgeRequest
<1>3. r \in BridgeRequests(bridge, jobs, agent')
  BY <1>1 DEF BridgeRequest, BridgeRequests, BridgeForm
<1>4. \A k \in DOMAIN open : open[k] \in BridgeRequests(bridge, jobs, agent')
  BY <1>1, BridgeShape DEF BridgeState
<1> HIDE DEF r
<1>5. Joins(open, 0, r, BridgeApart)
  <2>1. \A k \in DOMAIN open : FALSE
    BY <1>1, BridgeShape DEF BridgeState, BridgeRequests
  <2>2. QED
    BY <2>1 DEF Joins
<1>6. AgentSound(jobs, agent')
  BY <1>1, BridgeShape
<1>7. QED
  BY <1>1, <1>2, <1>3, <1>4, <1>5, <1>6, BridgeBegins

LEMMA RevokeBridgeGoes == ASSUME BridgeInv, ChainInv, RevokeBridge  PROVE BridgeGoes
<1> DEFINE locks == {BridgeRow} \cup {JobLock(j) : j \in Cancels}
           r == [BridgeRequest("bridge.revoked", TheBridge, TRUE, locks) EXCEPT !.jobs = Cancels]
<1>1. bridge # "absent" /\ Begin(r) /\ UNCHANGED <<log, bridge, jobs, agent, dropped>>
  BY DEF RevokeBridge, bridgeVars, JobLock
<1>2. /\ r.seq = 0 /\ r.action = "bridge.revoked" /\ r.jobs = Cancels /\ r.locks = locks
      /\ r.shares = {} /\ r.on = TheBridge
  BY DEF BridgeRequest
<1>3. Cancels \subseteq Jobs /\ \A j \in Cancels : jobs[j] = "queued"
  BY DEF Cancels, With
<1>4. r \in BridgeForm
  BY <1>3 DEF BridgeRequest, BridgeForm
<1> HIDE DEF r
<1>5. r \in BridgeRequests(bridge, jobs, agent')
  BY <1>1, <1>2, <1>3, <1>4 DEF BridgeRequests
<1>6. \A k \in DOMAIN open : open[k] \in BridgeRequests(bridge, jobs, agent')
  BY <1>1, BridgeShape DEF BridgeState
<1>7. Joins(open, 0, r, BridgeApart)
  <2>1. Free(locks, {}, DOMAIN open)
    BY <1>1, <1>2 DEF Begin
  <2>2. \A j \in Cancels : JobLock(j) \in locks
    OBVIOUS
  <2> HIDE DEF locks
  <2>3. \A k \in DOMAIN open : open[k].jobs \cap Cancels = {}
    BY <2>1, <2>2, FreeJobs
  <2>4. QED
    BY <1>2, <1>4, <2>3, BridgeShape DEF Joins, BridgeApart
<1>8. AgentSound(jobs, agent')
  BY <1>1, BridgeShape
<1>9. QED
  BY <1>1, <1>2, <1>5, <1>6, <1>7, <1>8, BridgeBegins

LEMMA PollGoes == ASSUME BridgeInv, ChainInv, Poll  PROVE BridgeGoes
<1> DEFINE r == BridgeRequest("poll", TheBridge, FALSE, {})
<1>1. /\ agent.pc = "idle" /\ bridge \notin {"absent", "revoked"} /\ Begin(r)
      /\ agent' = [agent EXCEPT !.pc = "polling"]
      /\ UNCHANGED <<log, bridge, jobs, dropped>>
  BY DEF Poll, Admitted
<1>2. /\ r.seq = 0 /\ r.action = "poll" /\ r.jobs = {} /\ r \in BridgeForm
      /\ r.on = TheBridge
  BY DEF BridgeRequest, BridgeForm
<1> HIDE DEF r
<1>3. /\ agent'.pc = "polling" /\ agent'.batch = agent.batch /\ agent'.job = agent.job
      /\ AgentSound(jobs, agent')
  BY <1>1, BridgeShape DEF AgentSound, AgentForm
<1>4. r \in BridgeRequests(bridge, jobs, agent')
  BY <1>1, <1>2, <1>3 DEF BridgeRequests
<1>5. ASSUME NEW k \in DOMAIN open
      PROVE  /\ open[k] \in BridgeRequests(bridge, jobs, agent')
             /\ open[k].action = "poll" => ~open[k].heard
  BY <1>1, <1>3, BridgeShape DEF BridgeState, BridgeRequests
<1>6. Joins(open, 0, r, BridgeApart)
  BY <1>2, <1>5, BridgeShape DEF Joins, BridgeApart
<1>7. QED
  BY <1>1, <1>2, <1>3, <1>4, <1>5, <1>6, BridgeBegins

LEMMA SubmitResultGoes ==
  ASSUME BridgeInv, ChainInv, NEW j \in Jobs, NEW v \in {"completed", "failed"}, SubmitResult(j, v)
  PROVE  BridgeGoes
<1> DEFINE r == [BridgeRequest("bridge.job.completed", j, FALSE, {}) EXCEPT !.verdict = v]
<1>1. /\ agent.pc = "running" /\ j \in agent.batch /\ bridge \notin {"absent", "revoked"} /\ Begin(r)
      /\ agent' = [agent EXCEPT !.pc = "submitting", !.job = j, !.batch = @ \ {j}]
      /\ UNCHANGED <<log, bridge, jobs, dropped>>
  BY DEF SubmitResult, Admitted
<1>2. /\ r.seq = 0 /\ r.action = "bridge.job.completed" /\ r.jobs = {} /\ r.on = j
      /\ r.verdict = v /\ r \in BridgeForm
  BY DEF BridgeRequest, BridgeForm
<1> HIDE DEF r
<1>3. /\ agent'.pc = "submitting" /\ agent'.batch = agent.batch \ {j} /\ agent'.job = j
      /\ AgentSound(jobs, agent')
      /\ jobs[j] = "in_progress" /\ agent.job = 0
  BY <1>1, BridgeShape DEF AgentSound, AgentForm
<1>4. r \in BridgeRequests(bridge, jobs, agent')
  BY <1>1, <1>2, <1>3 DEF BridgeRequests
<1>5. ASSUME NEW k \in DOMAIN open
      PROVE  /\ open[k] \in BridgeRequests(bridge, jobs, agent')
             /\ open[k].action = "bridge.job.completed" => open[k].on # j
  BY <1>1, <1>3, BridgeShape DEF BridgeState, BridgeRequests
<1>6. Joins(open, 0, r, BridgeApart)
  BY <1>2, <1>5, BridgeShape DEF Joins, BridgeApart
<1>7. agent.batch \cup {agent.job} \subseteq agent'.batch \cup {agent'.job} \cup {0}
  BY <1>3
<1>8. QED
  BY <1>1, <1>2, <1>3, <1>4, <1>5, <1>6, <1>7, BridgeBegins

(* Jobs that get a status without a result never had one.                  *)
LEMMA UnresolvedJob ==
  ASSUME BridgeInv, NEW j \in Jobs, jobs[j] \in {"absent", "queued", "in_progress"}
  PROVE  LastVerdict(j) = "none"
<1> SUFFICES ASSUME LastVerdict(j) # "none"  PROVE FALSE
  OBVIOUS
<1> DEFINE K == Entries("bridge.job.completed", j)
<1>1. K # {} /\ LastVerdict(j) = LastDetail("bridge.job.completed", j)
  BY VerdictIs
<1>2. K \subseteq 1..Len(log) /\ Len(log) \in Nat
  BY BridgeShape, LenProperties DEF Entries
<1>3. LastOf(K) \in K
  <2> HIDE DEF K
  <2>1. QED
    BY <1>1, <1>2, LastOfFacts
<1>4. LastVerdict(j) \in {"completed", "failed"}
  <2>1. log[LastOf(K)].detail \in {"completed", "failed"}
    BY <1>3 DEF Entries, BridgeInv, ResultsAreVerdicts
  <2>2. QED
    BY <1>1, <2>1 DEF LastDetail
<1>5. jobs[j] = LastVerdict(j)
  BY DEF BridgeInv, BridgeAudited
<1>6. QED
  BY <1>4, <1>5

LEMMA LaterIs ==
  /\ Later("absent") = {"queued"}
  /\ Later("queued") = {"in_progress", "cancelled"}
  /\ Later("in_progress") = Final
BY DEF Later, Final

LEMMA EnqueueJobGoes == ASSUME BridgeInv, ChainInv, EnqueueJob  PROVE BridgeGoes
<1> DEFINE new == OldestFirst(With("absent"), 1)
<1>1. /\ jobs' = [j \in Jobs |-> IF j \in new THEN "queued" ELSE jobs[j]]
      /\ UNCHANGED <<log, open, bridge, agent, dropped>>
  BY DEF EnqueueJob
<1>2. new \subseteq Jobs /\ \A j \in new : jobs[j] = "absent"
  BY DEF OldestFirst, With
<1> HIDE DEF new
<1>3. \A j \in Jobs : IF j \in new THEN jobs[j] = "absent" /\ jobs'[j] = "queued"
                      ELSE jobs'[j] = jobs[j]
  BY <1>1, <1>2
<1>4. jobs' \in [Jobs -> JobStatus]
  BY <1>1, BridgeShape DEF JobStatus
<1>5. AgentSound(jobs', agent')
  BY <1>1, <1>3, BridgeShape DEF AgentSound, AgentForm
<1>6. Orderly(open', BridgeRequests(bridge', jobs', agent'), BridgeApart)
  <2>1. \A k \in DOMAIN open : open[k] \in BridgeRequests(bridge', jobs', agent')
    <3> SUFFICES ASSUME NEW k \in DOMAIN open
                 PROVE  open[k] \in BridgeRequests(bridge', jobs', agent')
      OBVIOUS
    <3>1. open[k] \in BridgeState /\ open[k] \in BridgeForm
      BY BridgeShape
    <3>2. open[k].jobs \subseteq Jobs
      BY <3>1 DEF BridgeForm
    <3>3. \A j \in open[k].jobs : jobs'[j] = "queued" /\ JobLock(j) \in open[k].locks
      BY <1>3, <3>1, <3>2 DEF BridgeState, BridgeRequests
    <3>4. open[k].action = "bridge.job.completed" =>
            open[k].on \in Jobs /\ jobs'[open[k].on] = "in_progress"
      BY <1>3, <3>1 DEF BridgeState, BridgeRequests
    <3>5. QED
      BY <1>1, <3>1, <3>3, <3>4 DEF BridgeState, BridgeRequests
  <2>2. QED
    BY <1>1, <2>1, BridgeShape, OrderlyStays
<1>7. InProgressAccounted'
  <2>1. With("in_progress")' = With("in_progress")
    BY <1>3 DEF With
  <2>2. QED
    BY <1>1, <2>1 DEF BridgeInv, InProgressAccounted
<1>8. BridgeAudited'
  <2>1. ASSUME NEW j \in Jobs
        PROVE  IF LastVerdict(j)' = "none"
               THEN jobs'[j] \in Final => jobs'[j] = "cancelled" /\ Logged("bridge.revoked", TheBridge)'
               ELSE jobs'[j] = LastVerdict(j)'
    <3>1. CASE j \in new
      BY <1>1, <1>3, <3>1, UnresolvedJob, TrailStays DEF Final
    <3>2. CASE j \notin new
      BY <1>1, <1>3, <3>2, TrailStays DEF BridgeInv, BridgeAudited
    <3>3. QED
      BY <3>1, <3>2
  <2>2. QED
    BY <1>1, <2>1, TrailStays DEF BridgeInv, BridgeAudited
<1>9. BridgeInv'
  BY <1>1, <1>4, <1>5, <1>6, <1>7, <1>8 DEF BridgeInv
<1>10. Forward
  BY <1>3, LaterIs DEF Forward
<1>11. QED
  BY <1>1, <1>9, <1>10 DEF BridgeGoes, ChainInv, Quiet

(* Requests nobody waits for any more.                                     *)
LEMMA TickFailsGoes == ASSUME BridgeInv, ChainInv, TickFails  PROVE BridgeGoes
<1> DEFINE unheard(r) == IF r.action \in {"poll", "bridge.job.completed"}
                         THEN [r EXCEPT !.heard = FALSE] ELSE r
           R == BridgeRequests(bridge, jobs, Idle)
<1>1. /\ agent.pc # "idle" /\ agent' = Idle /\ dropped' = dropped \cup Abandoned
      /\ open' = [k \in DOMAIN open |-> unheard(open[k])]
      /\ UNCHANGED <<log, bridge, jobs>>
  BY DEF TickFails
<1>2. ASSUME NEW k \in DOMAIN open
      PROVE  /\ open'[k] = unheard(open[k]) /\ open'[k] \in BridgeForm
             /\ Resembles(open'[k], open[k]) /\ open'[k].seq = open[k].seq
             /\ open'[k].action = open[k].action
             /\ open'[k] \in R
  <2>1. open[k] \in BridgeState /\ open[k] \in BridgeForm
    BY BridgeShape
  <2>2. open'[k] = unheard(open[k])
    BY <1>1
  <2>3. /\ unheard(open[k]) \in BridgeForm /\ Resembles(unheard(open[k]), open[k])
        /\ unheard(open[k]).locks = open[k].locks /\ unheard(open[k]).verdict = open[k].verdict
        /\ unheard(open[k]).seq = open[k].seq
        /\ unheard(open[k]).action \in {"poll", "bridge.job.completed"} => ~unheard(open[k]).heard
    BY <2>1 DEF BridgeForm, Resembles
  <2> DEFINE q == unheard(open[k])
  <2> HIDE DEF unheard
  <2>4. q \in R
    BY <2>1, <2>3 DEF BridgeState, BridgeRequests, Resembles, Idle
  <2>5. QED
    BY <2>2, <2>3, <2>4 DEF Resembles
<1> HIDE DEF unheard, R
<1>3. DOMAIN open' = DOMAIN open /\ Len(open) \in Nat /\ DOMAIN open = 1..Len(open)
  BY <1>1, BridgeShape, LenProperties
<1>4. open' \in Seq(R) /\ Len(open') = Len(open)
  <2>1. open' = [k \in 1..Len(open) |-> open'[k]]
    BY <1>1, <1>3
  <2>2. \A k \in 1..Len(open) : open'[k] \in R
    BY <1>2, <1>3
  <2>3. open' \in Seq(R)
    BY <1>3, <2>1, <2>2
  <2>4. QED
    BY <1>3, <2>3, LenProperties
<1>5. Orderly(open', R, BridgeApart)
  <2>1. ASSUME NEW k \in DOMAIN open, NEW l \in DOMAIN open, k # l
        PROVE  <<open'[k], open'[l]>> \in BridgeApart
    <3>1. <<open[k], open[l]>> \in BridgeApart /\ open[k] \in BridgeForm /\ open[l] \in BridgeForm
      BY <2>1, BridgeShape
    <3>2. <<open[k], open'[l]>> \in BridgeApart
      BY <1>2, <3>1, ResemblesApart
    <3>3. QED
      BY <1>2, <3>1, <3>2, ResemblesApart
  <2>2. QED
    BY <1>3, <1>4, <2>1 DEF Orderly
<1>6. AgentSound(jobs', agent')
  BY <1>1 DEF AgentSound, AgentForm, Idle
<1>7. InProgressAccounted'
  <2>1. With("in_progress")' = With("in_progress") /\ 0 \notin With("in_progress")
    BY <1>1 DEF With, Jobs
  <2>2. agent.batch \cup {agent.job} \subseteq Abandoned \cup {0}
    BY <1>1, BridgeShape DEF AgentSound, AgentForm, Abandoned
  <2>3. QED
    BY <1>1, <2>1, <2>2 DEF BridgeInv, InProgressAccounted
<1>8. BridgeAudited'
  BY <1>1, TrailStays DEF BridgeInv, BridgeAudited
<1>9. ChainInv'
  <2>1. \A k \in DOMAIN open : Numbered(open[k])
    BY BridgeShape, ChainFields
  <2>2. QED
    BY <1>1, <1>2, <1>3, <1>4, <2>1 DEF ChainInv, Numbered
<1>10. BridgeInv'
  <2>1. Orderly(open', BridgeRequests(bridge', jobs', agent'), BridgeApart)
    BY <1>1, <1>5 DEF R
  <2>2. QED
    BY <1>1, <1>6, <1>7, <1>8, <2>1 DEF BridgeInv
<1>11. QED
  BY <1>1, <1>2, <1>3, <1>9, <1>10 DEF BridgeGoes, Forward, Quiet

(* A later statement of request i.                                         *)
LEMMA BridgeContinues ==
  ASSUME BridgeInv, ChainInv, NEW i \in DOMAIN open, NEW r, Continue(i, r),
         r.seq = open[i].seq, r.action = open[i].action, r \in BridgeState,
         Joins(open, i, r, BridgeApart), UNCHANGED <<log, bridgeVars>>
  PROVE  BridgeGoes
<1>1. open \in Seq(BridgeState) /\ Orderly(open, BridgeState, BridgeApart)
      /\ log \in Seq(BridgeEntries) /\ open' = [open EXCEPT ![i] = r]
  BY BridgeShape DEF Continue
<1>2. OrderlyBut(open, i, BridgeState, BridgeApart)
  BY <1>1, BridgeShape, OthersStay
<1>3. Orderly(open', BridgeState, BridgeApart)
  BY <1>1, <1>2, OrderlyReplaced
<1>4. ChainInv'
  BY <1>1, ChainContinue
<1>5. Quiet => Quiet'
  BY <1>1 DEF Quiet
<1>6. QED
  BY <1>3, <1>4, <1>5, BridgeKept DEF BridgeGoes, Forward, bridgeVars

LEMMA ClaimJobsGoes ==
  ASSUME BridgeInv, ChainInv, NEW i \in DOMAIN open, ClaimJobs(i)
  PROVE  BridgeGoes
<1> DEFINE C == OldestFirst(With("queued"), ClaimLimit)
           locks == {BridgeRow} \cup {JobLock(j) : j \in C}
           r == [open[i] EXCEPT !.ready = TRUE, !.jobs = C, !.locks = locks]
<1>1. open[i].action = "poll" /\ Continue(i, r) /\ UNCHANGED <<log, bridgeVars>>
  BY DEF ClaimJobs, Is, JobLock
<1>2. C \subseteq Jobs /\ \A j \in C : jobs[j] = "queued"
  BY DEF OldestFirst, With
<1>3. \A j \in C : JobLock(j) \in locks
  OBVIOUS
<1>4. locks \subseteq {BridgeRow} \cup {JobLock(j) : j \in Jobs}
  BY <1>2
<1> HIDE DEF C, locks
<1>5. open[i] \in BridgeState /\ open[i] \in BridgeForm
  BY BridgeShape
<1>6. /\ r \in BridgeForm /\ r.jobs = C /\ r.locks = locks /\ r.action = "poll"
      /\ r.heard = open[i].heard /\ r.seq = open[i].seq /\ r.shares = {} /\ r.on = open[i].on
  BY <1>1, <1>2, <1>4, <1>5 DEF BridgeForm
<1> HIDE DEF r
<1>7. r \in BridgeState
  BY <1>1, <1>2, <1>3, <1>5, <1>6 DEF BridgeState, BridgeRequests
<1>8. Joins(open, i, r, BridgeApart)
  <2>1. Free(locks, {}, DOMAIN open \ {i})
    BY <1>1, <1>6 DEF Continue
  <2>2. \A k \in DOMAIN open \ {i} : open[k].jobs \cap C = {}
    BY <1>3, <2>1, FreeJobs
  <2> SUFFICES ASSUME NEW k \in DOMAIN open \ {i}
               PROVE  <<open[k], r>> \in BridgeApart /\ <<r, open[k]>> \in BridgeApart
    BY DEF Joins
  <2>3. /\ open[k] \in BridgeForm /\ <<open[k], open[i]>> \in BridgeApart
        /\ <<open[i], open[k]>> \in BridgeApart
    BY BridgeShape
  <2>4. open[k].action = "poll" => ~(open[k].heard /\ r.heard)
    BY <1>1, <1>6, <2>3 DEF BridgeApart
  <2>5. QED
    BY <1>6, <2>2, <2>3, <2>4 DEF BridgeApart
<1>9. QED
  BY <1>1, <1>6, <1>7, <1>8, BridgeContinues

LEMMA WriteResultGoes ==
  ASSUME BridgeInv, ChainInv, NEW i \in DOMAIN open, WriteResult(i)
  PROVE  BridgeGoes
<1> DEFINE r == [open[i] EXCEPT !.ready = TRUE, !.locks = {JobLock(open[i].on)}]
<1>1. open[i].action = "bridge.job.completed" /\ Continue(i, r) /\ UNCHANGED <<log, bridgeVars>>
  BY DEF WriteResult, Is, JobLock
<1>2. open[i] \in BridgeState /\ open[i] \in BridgeForm
  BY BridgeShape
<1>3. open[i].on \in Jobs /\ open[i].jobs = {}
  BY <1>1, <1>2 DEF BridgeState, BridgeRequests
<1>4. /\ r \in BridgeForm /\ r.verdict = open[i].verdict /\ r.seq = open[i].seq
      /\ Resembles(r, open[i]) /\ r.heard = open[i].heard
  BY <1>2, <1>3 DEF BridgeForm, Resembles
<1> HIDE DEF r
<1>5. r \in BridgeState
  BY <1>2, <1>3, <1>4 DEF BridgeState, BridgeRequests, Resembles
<1>6. Joins(open, i, r, BridgeApart)
  BY <1>4, BridgeSameJoins
<1>7. QED
  BY <1>1, <1>4, <1>5, <1>6, BridgeContinues DEF Resembles

LEMMA BridgeLeaves ==
  ASSUME BridgeInv, NEW i \in DOMAIN open, open' = RemoveAt(open, i),
         \A k \in DOMAIN open \ {i} : open[k] \in BridgeRequests(bridge', jobs', agent')
  PROVE  /\ Orderly(open', BridgeRequests(bridge', jobs', agent'), BridgeApart)
         /\ Quiet => Quiet'
<1> DEFINE R == BridgeRequests(bridge', jobs', agent')
<1> HIDE DEF R
<1>1. Orderly(open, BridgeState, BridgeApart) /\ open \in Seq(BridgeState)
  BY BridgeShape
<1>2. OrderlyBut(open, i, R, BridgeApart)
  BY <1>1, OthersStay DEF R
<1>3. Orderly(open', R, BridgeApart)
  BY <1>1, <1>2, OrderlyRemoved
<1>4. QED
  BY <1>3, QuietRemoved DEF R

LEMMA BridgeLogged ==
  ASSUME BridgeInv, ChainInv, NEW i \in DOMAIN open, NEW detail, Commit(i, detail),
         open[i].action # "poll",
         detail \in {TheBridge, "completed", "failed"},
         open[i].action = "bridge.job.completed" => detail \in {"completed", "failed"}
  PROVE  /\ log' \in Seq(BridgeEntries) /\ ResultsAreVerdicts(log') /\ ChainInv'
         /\ open' = RemoveAt(open, i)
         /\ \A action, on : Logged(action, on)' <=>
              Logged(action, on) \/ (open[i].action = action /\ open[i].on = on)
         /\ \A j \in Jobs :
              LastVerdict(j)' = IF open[i].action = "bridge.job.completed" /\ open[i].on = j
                                THEN detail ELSE LastVerdict(j)
<1>1. /\ log \in Seq(BridgeEntries) /\ open \in Seq(BridgeState) /\ open[i] \in BridgeForm
  BY BridgeShape
<1> DEFINE e == [action |-> open[i].action, on |-> open[i].on, detail |-> detail]
<1>2. e \in BridgeEntries
  BY <1>1 DEF BridgeForm, BridgeEntries
<1>3. log' \in Seq(BridgeEntries)
  BY <1>1, <1>2, LogSeq
<1>4. /\ Len(log) \in Nat /\ DOMAIN log = 1..Len(log) /\ DOMAIN log' = 1..(Len(log) + 1)
      /\ \A k \in 1..Len(log) : log'[k] = log[k]
      /\ log'[Len(log) + 1] = e
      /\ open' = RemoveAt(open, i) /\ ChainInv'
  BY <1>1, CommitLogs
<1>5. ResultsAreVerdicts(log')
  <2>1. e.action = "bridge.job.completed" => e.detail \in {"completed", "failed"}
    OBVIOUS
  <2> HIDE DEF e
  <2>2. ASSUME NEW k \in DOMAIN log', log'[k].action = "bridge.job.completed"
        PROVE  log'[k].detail \in {"completed", "failed"}
    <3>1. CASE k \in 1..Len(log)
      BY <1>4, <2>2, <3>1 DEF BridgeInv, ResultsAreVerdicts
    <3>2. CASE k = Len(log) + 1
      BY <1>4, <2>1, <2>2, <3>2
    <3>3. QED
      BY <1>4, <3>1, <3>2
  <2>3. QED
    BY <2>2 DEF ResultsAreVerdicts
<1>6. ASSUME NEW action, NEW on
      PROVE  Logged(action, on)' <=>
               Logged(action, on) \/ (open[i].action = action /\ open[i].on = on)
  BY <1>1, EntriesGrow
<1>7. ASSUME NEW j \in Jobs
      PROVE  LastVerdict(j)' = IF open[i].action = "bridge.job.completed" /\ open[i].on = j
                                THEN detail ELSE LastVerdict(j)
  <2>1. IF open[i].action = "bridge.job.completed" /\ open[i].on = j
        THEN LastDetail("bridge.job.completed", j)' = detail
             /\ Entries("bridge.job.completed", j)' # {}
        ELSE /\ Entries("bridge.job.completed", j)' = Entries("bridge.job.completed", j)
             /\ Entries("bridge.job.completed", j) # {} =>
                  LastDetail("bridge.job.completed", j)' = LastDetail("bridge.job.completed", j)
    BY <1>1, DetailLogged
  <2>2. QED
    BY <2>1, VerdictIs
<1>8. QED
  BY <1>3, <1>4, <1>5, <1>6, <1>7

LEMMA CommitEnrollGoes ==
  ASSUME BridgeInv, ChainInv, NEW i \in DOMAIN open, CommitEnroll(i)
  PROVE  BridgeGoes
<1>1. /\ open[i].action = "bridge.enrolled" /\ Commit(i, TheBridge)
      /\ bridge' = "pending" /\ UNCHANGED <<jobs, agent, dropped>>
  BY DEF CommitEnroll, Is
<1>2. open[i] \in BridgeState /\ open[i] \in BridgeForm /\ bridge = "absent"
  BY <1>1, BridgeShape DEF BridgeState, BridgeRequests
<1>3. /\ log' \in Seq(BridgeEntries) /\ ResultsAreVerdicts(log') /\ ChainInv'
      /\ open' = RemoveAt(open, i)
      /\ \A action, on : Logged(action, on)' <=>
              Logged(action, on) \/ (open[i].action = action /\ open[i].on = on)
      /\ \A j \in Jobs : LastVerdict(j)' = LastVerdict(j)
  BY <1>1, BridgeLogged
<1>4. DOMAIN open \ {i} = {}
  <2> SUFFICES ASSUME NEW k \in DOMAIN open \ {i}  PROVE FALSE
    OBVIOUS
  <2>1. open[k] \in BridgeState /\ <<open[k], open[i]>> \in BridgeApart
    BY BridgeShape
  <2>2. open[k].action = "bridge.enrolled"
    BY <1>2, <2>1 DEF BridgeState, BridgeRequests
  <2>3. QED
    BY <1>1, <2>1, <2>2 DEF BridgeApart
<1>5. /\ Orderly(open', BridgeRequests(bridge', jobs', agent'), BridgeApart)
      /\ Quiet => Quiet'
  BY <1>3, <1>4, BridgeLeaves
<1>6. open[i].on = TheBridge
  BY <1>1, <1>2 DEF BridgeState, BridgeRequests
<1>7. BridgeAudited'
  BY <1>1, <1>2, <1>3, <1>6 DEF BridgeInv, BridgeAudited
<1>8. InProgressAccounted'
  BY <1>1 DEF BridgeInv, InProgressAccounted, With
<1>9. BridgeInv'
  BY <1>1, <1>2, <1>3, <1>5, <1>7, <1>8, BridgeShape DEF BridgeInv, BridgeStatus
<1>10. QED
  BY <1>1, <1>2, <1>3, <1>9 DEF BridgeGoes, Forward

(* The jobs of a request are its own.                                      *)
LEMMA OwnJobs ==
  ASSUME BridgeInv, NEW i \in DOMAIN open, NEW k \in DOMAIN open \ {i}
  PROVE  open[k].jobs \cap open[i].jobs = {}
BY BridgeShape DEF BridgeApart

LEMMA CommitRevokeGoes ==
  ASSUME BridgeInv, ChainInv, NEW i \in DOMAIN open, CommitRevoke(i)
  PROVE  BridgeGoes
<1> DEFINE C == open[i].jobs
<1>1. /\ open[i].action = "bridge.revoked" /\ Commit(i, TheBridge)
      /\ bridge' = "revoked" /\ UNCHANGED <<agent, dropped>>
      /\ jobs' = [j \in Jobs |-> IF j \in C THEN "cancelled" ELSE jobs[j]]
  BY DEF CommitRevoke, Is
<1>2. /\ open[i] \in BridgeState /\ open[i] \in BridgeForm /\ bridge # "absent"
      /\ C \subseteq Jobs /\ open[i].on = TheBridge
      /\ \A j \in C : jobs[j] = "queued"
  BY <1>1, BridgeShape DEF BridgeState, BridgeRequests, BridgeForm
<1>3. /\ log' \in Seq(BridgeEntries) /\ ResultsAreVerdicts(log') /\ ChainInv'
      /\ open' = RemoveAt(open, i)
      /\ \A action, on : Logged(action, on)' <=>
              Logged(action, on) \/ (open[i].action = action /\ open[i].on = on)
      /\ \A j \in Jobs : LastVerdict(j)' = LastVerdict(j)
  BY <1>1, BridgeLogged
<1>4. \A k \in DOMAIN open \ {i} : open[k].jobs \cap C = {}
  BY OwnJobs
<1> HIDE DEF C
<1>5. \A j \in Jobs : IF j \in C THEN jobs[j] = "queued" /\ jobs'[j] = "cancelled"
                      ELSE jobs'[j] = jobs[j]
  BY <1>1, <1>2
<1>6. ASSUME NEW k \in DOMAIN open \ {i}
      PROVE  open[k] \in BridgeRequests(bridge', jobs', agent')
  <2>1. open[k] \in BridgeState /\ open[k] \in BridgeForm /\ open[k].jobs \subseteq Jobs
    BY BridgeShape DEF BridgeForm
  <2>2. \A j \in open[k].jobs : jobs'[j] = "queued" /\ JobLock(j) \in open[k].locks
    BY <1>4, <1>5, <2>1 DEF BridgeState, BridgeRequests
  <2>3. open[k].action = "bridge.job.completed" =>
          open[k].on \in Jobs /\ jobs'[open[k].on] = "in_progress"
    BY <1>5, <2>1 DEF BridgeState, BridgeRequests
  <2>4. QED
    BY <1>1, <1>2, <2>1, <2>2, <2>3 DEF BridgeState, BridgeRequests
<1>7. /\ Orderly(open', BridgeRequests(bridge', jobs', agent'), BridgeApart)
      /\ Quiet => Quiet'
  BY <1>3, <1>6, BridgeLeaves
<1>8. BridgeAudited'
  <2>1. ASSUME NEW j \in Jobs
        PROVE  IF LastVerdict(j)' = "none"
               THEN jobs'[j] \in Final => jobs'[j] = "cancelled" /\ Logged("bridge.revoked", TheBridge)'
               ELSE jobs'[j] = LastVerdict(j)'
    <3>1. CASE j \in C
      BY <1>1, <1>2, <1>3, <1>5, <3>1, UnresolvedJob
    <3>2. CASE j \notin C
      BY <1>3, <1>5, <3>2 DEF BridgeInv, BridgeAudited
    <3>3. QED
      BY <3>1, <3>2
  <2>2. QED
    BY <1>1, <1>2, <1>3, <2>1 DEF BridgeInv, BridgeAudited
<1>9. InProgressAccounted'
  <2>1. With("in_progress")' = With("in_progress")
    BY <1>5 DEF With
  <2>2. QED
    BY <1>1, <2>1 DEF BridgeInv, InProgressAccounted
<1>10. AgentSound(jobs', agent') /\ jobs' \in [Jobs -> JobStatus]
  <2>1. jobs' \in [Jobs -> JobStatus]
    BY <1>1, BridgeShape DEF JobStatus, Final
  <2>2. QED
    BY <1>1, <1>5, <2>1, BridgeShape DEF AgentSound, AgentForm
<1>11. BridgeInv'
  BY <1>1, <1>3, <1>7, <1>8, <1>9, <1>10 DEF BridgeInv, BridgeStatus
<1>12. Forward
  BY <1>5, LaterIs DEF Forward
<1>13. QED
  BY <1>1, <1>3, <1>7, <1>11, <1>12 DEF BridgeGoes

LEMMA CommitPollGoes ==
  ASSUME BridgeInv, ChainInv, NEW i \in DOMAIN open, CommitPoll(i)
  PROVE  BridgeGoes
<1> DEFINE C == open[i].jobs
<1>1. /\ open[i].action = "poll" /\ open' = RemoveAt(open, i) /\ UNCHANGED log
      /\ bridge' = "active"
      /\ jobs' = [j \in Jobs |-> IF j \in C THEN "in_progress" ELSE jobs[j]]
      /\ \/ /\ open[i].heard /\ UNCHANGED dropped
            /\ agent' = IF C = {} THEN Idle ELSE [pc |-> "running", batch |-> C, job |-> 0]
         \/ /\ dropped' = dropped \cup C
            /\ agent' = IF open[i].heard THEN Idle ELSE agent
  BY DEF CommitPoll, CommitUnaudited, Is, Claimed
<1>2. /\ open[i] \in BridgeState /\ open[i] \in BridgeForm /\ bridge # "absent"
      /\ C \subseteq Jobs /\ \A j \in C : jobs[j] = "queued"
  BY <1>1, BridgeShape DEF BridgeState, BridgeRequests, BridgeForm
<1>3. open[i].heard => agent.pc = "polling" /\ agent.batch = {} /\ agent.job = 0
  BY <1>1, <1>2, BridgeShape DEF BridgeState, BridgeRequests, AgentSound
<1>4. \A k \in DOMAIN open \ {i} : open[k].jobs \cap C = {}
  BY OwnJobs
<1> HIDE DEF C
<1>5. \A j \in Jobs : IF j \in C THEN jobs[j] = "queued" /\ jobs'[j] = "in_progress"
                      ELSE jobs'[j] = jobs[j]
  BY <1>1, <1>2
<1>6. \/ agent' = agent /\ ~open[i].heard /\ dropped' = dropped \cup C
      \/ agent' = Idle /\ open[i].heard /\ C \subseteq dropped' /\ dropped \subseteq dropped'
      \/ agent' = [pc |-> "running", batch |-> C, job |-> 0] /\ open[i].heard /\ dropped' = dropped
  BY <1>1, <1>2 DEF BridgeForm
<1>7. ASSUME NEW k \in DOMAIN open \ {i}
      PROVE  open[k] \in BridgeRequests(bridge', jobs', agent')
  <2>1. open[k] \in BridgeState /\ open[k] \in BridgeForm /\ open[k].jobs \subseteq Jobs
    BY BridgeShape DEF BridgeForm
  <2>2. \A j \in open[k].jobs : jobs'[j] = "queued" /\ JobLock(j) \in open[k].locks
    BY <1>4, <1>5, <2>1 DEF BridgeState, BridgeRequests
  <2>3. open[k].action = "bridge.job.completed" =>
          open[k].on \in Jobs /\ jobs'[open[k].on] = "in_progress" /\ open[k].on \notin C
    BY <1>5, <2>1 DEF BridgeState, BridgeRequests
  <2>4. <<open[k], open[i]>> \in BridgeApart
    BY BridgeShape
  <2>5. open[i].heard /\ open[k].heard =>
          open[k].action # "poll" /\ open[k].action # "bridge.job.completed"
    BY <1>1, <1>3, <2>1, <2>4 DEF BridgeApart, BridgeState, BridgeRequests
  <2>6. open[k].action = "bridge.job.completed" => open[k].on \notin agent'.batch
    BY <1>6, <2>1, <2>3 DEF Idle, BridgeState, BridgeRequests
  <2>7. open[k].heard /\ open[k].action \in {"poll", "bridge.job.completed"} => agent' = agent
    BY <1>6, <2>5
  <2>8. QED
    BY <1>1, <1>2, <2>1, <2>2, <2>3, <2>6, <2>7 DEF BridgeState, BridgeRequests
<1>8. Orderly(open', BridgeRequests(bridge', jobs', agent'), BridgeApart)
  BY <1>1, <1>7, BridgeLeaves
<1>9. BridgeAudited'
  <2>1. ASSUME NEW j \in Jobs
        PROVE  IF LastVerdict(j)' = "none"
               THEN jobs'[j] \in Final => jobs'[j] = "cancelled" /\ Logged("bridge.revoked", TheBridge)'
               ELSE jobs'[j] = LastVerdict(j)'
    <3>1. CASE j \in C
      BY <1>1, <1>2, <1>5, <3>1, UnresolvedJob, TrailStays DEF Final
    <3>2. CASE j \notin C
      BY <1>1, <1>5, <3>2, TrailStays DEF BridgeInv, BridgeAudited
    <3>3. QED
      BY <3>1, <3>2
  <2>2. QED
    BY <1>1, <1>2, <2>1, TrailStays DEF BridgeInv, BridgeAudited
<1>10. InProgressAccounted'
  <2>1. With("in_progress")' = With("in_progress") \cup C
    BY <1>2, <1>5 DEF With
  <2>2. With("in_progress") \subseteq agent.batch \cup {agent.job} \cup dropped
    BY DEF BridgeInv, InProgressAccounted
  <2>3. open[i].heard => With("in_progress") \subseteq dropped
    <3>1. 0 \notin With("in_progress")
      BY DEF With, Jobs
    <3>2. QED
      BY <1>3, <2>2, <3>1
  <2>4. With("in_progress")' \subseteq agent'.batch \cup {agent'.job} \cup dropped'
    BY <1>6, <2>1, <2>2, <2>3
  <2>5. QED
    BY <2>4 DEF InProgressAccounted
<1>11. AgentSound(jobs', agent')
  <2>1. AgentSound(jobs', agent)
    BY <1>5, BridgeShape DEF AgentSound, AgentForm
  <2>2. AgentSound(jobs', Idle)
    BY DEF AgentSound, AgentForm, Idle
  <2>3. AgentSound(jobs', [pc |-> "running", batch |-> C, job |-> 0])
    BY <1>2, <1>5 DEF AgentSound, AgentForm
  <2>4. QED
    BY <1>6, <2>1, <2>2, <2>3
<1>12. jobs' \in [Jobs -> JobStatus]
  BY <1>1, BridgeShape DEF JobStatus
<1>13. log' \in Seq(BridgeEntries) /\ ResultsAreVerdicts(log')
  BY <1>1 DEF BridgeInv
<1>14. BridgeInv'
  BY <1>1, <1>8, <1>9, <1>10, <1>11, <1>12, <1>13 DEF BridgeInv, BridgeStatus
<1>15. ChainInv'
  <2>1. log \in Seq(BridgeEntries) /\ open \in Seq(BridgeState)
    BY BridgeShape
  <2>2. Len(log') = Len(log) + 0 /\ Len(log') <= LogLimit
    BY <1>1, <2>1, ChainFields
  <2>3. QED
    BY <1>1, <2>1, <2>2, ChainRemoved
<1>16. Forward
  BY <1>5, LaterIs DEF Forward
<1>17. ~Quiet
  BY <1>1 DEF Quiet
<1>18. QED
  BY <1>14, <1>15, <1>16, <1>17 DEF BridgeGoes

LEMMA CommitResultGoes ==
  ASSUME BridgeInv, ChainInv, NEW i \in DOMAIN open, CommitResult(i)
  PROVE  BridgeGoes
<1> DEFINE n == open[i].on  v == open[i].verdict
<1>1. /\ open[i].action = "bridge.job.completed" /\ Commit(i, v)
      /\ jobs' = [jobs EXCEPT ![n] = v]
      /\ IF open[i].heard
         THEN agent' = IF agent.batch = {} THEN Idle ELSE [agent EXCEPT !.pc = "running", !.job = 0]
         ELSE agent' = agent
      /\ UNCHANGED <<bridge, dropped>>
  BY DEF CommitResult, Is, Answered
<1>2. /\ open[i] \in BridgeState /\ open[i] \in BridgeForm /\ bridge # "absent"
      /\ n \in Jobs /\ jobs[n] = "in_progress" /\ n \notin agent.batch
      /\ v \in {"completed", "failed"}
      /\ open[i].heard => agent.pc = "submitting" /\ agent.job = n
  BY <1>1, BridgeShape DEF BridgeState, BridgeRequests
<1>3. /\ log' \in Seq(BridgeEntries) /\ ResultsAreVerdicts(log') /\ ChainInv'
      /\ open' = RemoveAt(open, i)
      /\ \A action, on : Logged(action, on)' <=>
              Logged(action, on) \/ (open[i].action = action /\ open[i].on = on)
      /\ \A j \in Jobs : LastVerdict(j)' = IF j = n THEN v ELSE LastVerdict(j)
  BY <1>1, <1>2, BridgeLogged
<1>4. /\ jobs' \in [Jobs -> JobStatus] /\ jobs'[n] = v
      /\ \A j \in Jobs \ {n} : jobs'[j] = jobs[j]
  BY <1>1, <1>2, BridgeShape DEF JobStatus, Final
<1>5. \/ agent' = agent /\ ~open[i].heard
      \/ /\ open[i].heard /\ agent'.batch = agent.batch /\ agent' \in AgentForm
         /\ agent'.job = 0 /\ agent'.pc \in {"idle", "running"}
         /\ agent'.pc = "idle" => agent.batch = {}
  <2>1. agent \in AgentForm /\ open[i].heard \in BOOLEAN
    BY <1>2, BridgeShape DEF AgentSound, BridgeForm
  <2>2. CASE ~open[i].heard
    BY <1>1, <2>1, <2>2
  <2>3. CASE open[i].heard /\ agent.batch = {}
    BY <1>1, <2>1, <2>3 DEF AgentForm, Idle
  <2>4. CASE open[i].heard /\ agent.batch # {}
    <3>1. agent' = [agent EXCEPT !.pc = "running", !.job = 0]
      BY <1>1, <2>4
    <3>2. QED
      BY <2>1, <2>4, <3>1 DEF AgentForm
  <2>5. QED
    BY <2>1, <2>2, <2>3, <2>4
<1>6. ASSUME NEW k \in DOMAIN open \ {i}
      PROVE  open[k] \in BridgeRequests(bridge', jobs', agent')
  <2>1. open[k] \in BridgeState /\ open[k] \in BridgeForm /\ open[k].jobs \subseteq Jobs
        /\ <<open[k], open[i]>> \in BridgeApart
    BY BridgeShape DEF BridgeForm
  <2>2. n \notin open[k].jobs
    BY <1>2, <2>1 DEF BridgeState, BridgeRequests
  <2>3. \A j \in open[k].jobs : jobs'[j] = "queued" /\ JobLock(j) \in open[k].locks
    BY <1>4, <2>1, <2>2 DEF BridgeState, BridgeRequests
  <2>4. open[k].action = "bridge.job.completed" =>
          /\ open[k].on \in Jobs /\ jobs'[open[k].on] = "in_progress" /\ open[k].on # n
          /\ open[k].on \notin agent'.batch
    BY <1>1, <1>2, <1>4, <1>5, <2>1 DEF BridgeState, BridgeRequests, BridgeApart
  <2>5. open[k].heard /\ open[k].action \in {"poll", "bridge.job.completed"} => agent' = agent
    BY <1>2, <1>5, <2>1, <2>4 DEF BridgeState, BridgeRequests
  <2>6. QED
    BY <1>1, <2>1, <2>3, <2>4, <2>5 DEF BridgeState, BridgeRequests
<1>7. /\ Orderly(open', BridgeRequests(bridge', jobs', agent'), BridgeApart)
      /\ Quiet => Quiet'
  BY <1>3, <1>6, BridgeLeaves
<1> HIDE DEF n, v
<1>8. BridgeAudited'
  <2>1. ASSUME NEW j \in Jobs
        PROVE  IF LastVerdict(j)' = "none"
               THEN jobs'[j] \in Final => jobs'[j] = "cancelled" /\ Logged("bridge.revoked", TheBridge)'
               ELSE jobs'[j] = LastVerdict(j)'
    <3>1. CASE j = n
      BY <1>2, <1>3, <1>4, <3>1
    <3>2. CASE j # n
      BY <1>3, <1>4, <3>2 DEF BridgeInv, BridgeAudited
    <3>3. QED
      BY <3>1, <3>2
  <2>2. QED
    BY <1>1, <1>3, <2>1 DEF BridgeInv, BridgeAudited
<1>9. InProgressAccounted'
  <2>1. With("in_progress")' = With("in_progress") \ {n}
    BY <1>2, <1>4 DEF With
  <2>2. QED
    BY <1>1, <1>2, <1>5, <2>1 DEF BridgeInv, InProgressAccounted
<1>10. AgentSound(jobs', agent')
  <2>1. agent'.batch = agent.batch /\ agent'.batch \subseteq Jobs
    BY <1>5, BridgeShape DEF AgentSound, AgentForm
  <2>2. \A j \in agent'.batch : jobs'[j] = "in_progress"
    BY <1>2, <1>4, <2>1, BridgeShape DEF AgentSound
  <2>3. QED
    BY <1>5, <2>2, BridgeShape DEF AgentSound
<1>11. BridgeInv'
  BY <1>1, <1>3, <1>4, <1>7, <1>8, <1>9, <1>10, BridgeShape DEF BridgeInv
<1>12. Forward
  BY <1>2, <1>4, LaterIs DEF Forward, Final
<1>13. QED
  BY <1>1, <1>3, <1>7, <1>11, <1>12 DEF BridgeGoes

LEMMA BridgeStepGoes == ASSUME BridgeInv, ChainInv, BridgeStep  PROVE BridgeGoes
BY EnrollBridgeGoes, EnqueueJobGoes, RevokeBridgeGoes, PollGoes, SubmitResultGoes, TickFailsGoes,
   ClaimJobsGoes, CommitPollGoes, WriteResultGoes, CommitResultGoes, CommitEnrollGoes,
   CommitRevokeGoes
DEF BridgeStep

-----------------------------------------------------------------------------
(* What every service needs of a request that begins, goes on or ends.     *)
LEMMA Leaves ==
  ASSUME NEW Q, NEW R, NEW A, Orderly(open, Q, A), NEW i \in DOMAIN open,
         open' = RemoveAt(open, i), \A k \in DOMAIN open \ {i} : open[k] \in R
  PROVE  Orderly(open', R, A)
<1>1. open \in Seq(Q) /\ OrderlyBut(open, i, R, A)
  BY OthersStay DEF Orderly
<1>2. QED
  BY <1>1, OrderlyRemoved

LEMMA TrailGrows ==
  ASSUME ChainInv, NEW P, NEW Q, log \in Seq(P), open \in Seq(Q), NEW i \in DOMAIN open,
         NEW detail, Commit(i, detail)
  PROVE  \A action, on : Logged(action, on)' <=>
           Logged(action, on) \/ (open[i].action = action /\ open[i].on = on)
BY EntriesGrow

(* The trail has an entry with this detail.                                *)
Noted(action, on, detail) == \E k \in Entries(action, on) : log[k].detail = detail

LEMMA NotedGrows ==
  ASSUME ChainInv, NEW P, NEW Q, log \in Seq(P), open \in Seq(Q), NEW i \in DOMAIN open,
         NEW detail, Commit(i, detail)
  PROVE  \A action, on, d : Noted(action, on, d)' <=>
           \/ Noted(action, on, d)
           \/ open[i].action = action /\ open[i].on = on /\ detail = d
<1> SUFFICES ASSUME NEW action, NEW on, NEW d
             PROVE  Noted(action, on, d)' <=>
                      \/ Noted(action, on, d)
                      \/ open[i].action = action /\ open[i].on = on /\ detail = d
  OBVIOUS
<1> DEFINE n == Len(log)
<1>1. /\ n \in Nat /\ \A k \in 1..n : log'[k] = log[k]
      /\ log'[n + 1].detail = detail
  <2>1. /\ n \in Nat /\ \A k \in 1..n : log'[k] = log[k]
        /\ log'[n + 1] = [action |-> open[i].action, on |-> open[i].on, detail |-> detail]
    BY CommitLogs
  <2>2. QED
    BY <2>1
<1>2. /\ Entries(action, on) \subseteq 1..n
      /\ Entries(action, on)' =
           Entries(action, on) \cup (IF open[i].action = action /\ open[i].on = on
                                     THEN {n + 1} ELSE {})
  BY EntriesGrow
<1> HIDE DEF n
<1>3. CASE open[i].action = action /\ open[i].on = on
  <2>1. Entries(action, on)' = Entries(action, on) \cup {n + 1}
    BY <1>2, <1>3
  <2>2. QED
    BY <1>1, <1>2, <1>3, <2>1 DEF Noted
<1>4. CASE ~(open[i].action = action /\ open[i].on = on)
  <2>1. Entries(action, on)' = Entries(action, on)
    BY <1>2, <1>4
  <2>2. QED
    BY <1>1, <1>2, <1>4, <2>1 DEF Noted
<1>5. QED
  BY <1>3, <1>4

LEMMA NotedStays ==
  ASSUME UNCHANGED log
  PROVE  \A action, on, d : Noted(action, on, d)' <=> Noted(action, on, d)
BY TrailStays DEF Noted

-----------------------------------------------------------------------------
(* The workspace.                                                          *)
WorkspaceState == WorkspaceRequests(projects, runs, folders, files)

LEMMA WorkspaceShape ==
  ASSUME WorkspaceInv
  PROVE  /\ log \in Seq(WorkspaceEntries) /\ open \in Seq(WorkspaceState)
         /\ Orderly(open, WorkspaceState, WorkspaceApart)
         /\ \A k \in DOMAIN open : open[k] \in WorkspaceState /\ open[k] \in WorkspaceForm
         /\ \A k, l \in DOMAIN open : k # l => <<open[k], open[l]>> \in WorkspaceApart
<1>1. Orderly(open, WorkspaceState, WorkspaceApart)
  BY DEF WorkspaceInv, WorkspaceState
<1>2. \A k \in DOMAIN open : open[k] \in WorkspaceState
  BY <1>1, OrderlyFacts
<1>3. \A k \in DOMAIN open : open[k] \in WorkspaceForm
  BY <1>2 DEF WorkspaceState, WorkspaceRequests
<1>4. QED
  BY <1>1, <1>2, <1>3, OrderlyFacts DEF WorkspaceInv

LEMMA WorkspaceKept ==
  ASSUME WorkspaceInv, UNCHANGED <<log, workspaceVars>>,
         Orderly(open', WorkspaceState, WorkspaceApart)
  PROVE  WorkspaceInv'
<1>1. UNCHANGED <<log, projects, runs, folders, files>>
  BY DEF workspaceVars
<1>2. WorkspaceAudited'
  <2>1. \A action, on : Logged(action, on)' = Logged(action, on)
    BY <1>1, TrailStays
  <2>2. \A x \in Files, f \in Folders : Noted("library.file.uploaded", x, f)'
                                        <=> Noted("library.file.uploaded", x, f)
    BY <1>1, NotedStays
  <2>3. QED
    BY <1>1, <2>1, <2>2 DEF WorkspaceInv, WorkspaceAudited, Noted
<1>3. Orderly(open', WorkspaceRequests(projects', runs', folders', files'), WorkspaceApart)
  BY <1>1 DEF WorkspaceState
<1>4. QED
  BY <1>1, <1>2, <1>3 DEF WorkspaceInv

WorkspaceGoes == WorkspaceInv' /\ ChainInv'

LEMMA WorkspaceRecord ==
  ASSUME WorkspaceInv, ChainInv, NEW i \in DOMAIN open, Record(i), UNCHANGED <<log, workspaceVars>>
  PROVE  WorkspaceGoes
<1> DEFINE r == [open[i] EXCEPT !.seq = Len(log) + 1]
<1>1. open[i] \in WorkspaceState /\ open[i] \in WorkspaceForm /\ open \in Seq(WorkspaceState)
      /\ Orderly(open, WorkspaceState, WorkspaceApart) /\ log \in Seq(WorkspaceEntries)
  BY WorkspaceShape
<1>2. Len(log) + 1 \in Nat
  BY <1>1, LenProperties
<1>3. /\ r \in WorkspaceForm /\ r.locks = open[i].locks /\ r.shares = open[i].shares
      /\ r.action = open[i].action /\ r.on = open[i].on /\ r.place = open[i].place
  BY <1>1, <1>2 DEF WorkspaceForm
<1>4. open' = Append(RemoveAt(open, i), r)
  BY DEF Record
<1> HIDE DEF r
<1>5. r \in WorkspaceState
  BY <1>1, <1>3 DEF WorkspaceState, WorkspaceRequests
<1>6. Joins(open, i, r, WorkspaceApart)
  <2> SUFFICES ASSUME NEW k \in DOMAIN open \ {i}
               PROVE  <<open[k], r>> \in WorkspaceApart /\ <<r, open[k]>> \in WorkspaceApart
    BY DEF Joins
  <2>1. /\ open[k] \in WorkspaceForm /\ <<open[k], open[i]>> \in WorkspaceApart
        /\ <<open[i], open[k]>> \in WorkspaceApart
    BY WorkspaceShape
  <2>2. QED
    BY <1>3, <2>1 DEF WorkspaceApart
<1>7. OrderlyBut(open, i, WorkspaceState, WorkspaceApart)
  BY <1>1, WorkspaceShape, OthersStay
<1>8. Orderly(open', WorkspaceState, WorkspaceApart)
  BY <1>1, <1>4, <1>5, <1>6, <1>7, OrderlyMoved
<1>9. ChainInv'
  <2>1. "seq" \in DOMAIN open[i]
    BY <1>1 DEF WorkspaceForm
  <2>2. QED
    BY <1>1, <2>1, ChainRecord
<1>10. QED
  BY <1>8, <1>9, WorkspaceKept DEF WorkspaceGoes

LEMMA WorkspaceRollback ==
  ASSUME WorkspaceInv, ChainInv, NEW i \in DOMAIN open, Rollback(i), UNCHANGED workspaceVars
  PROVE  WorkspaceGoes
<1>1. open' = RemoveAt(open, i) /\ log' = log
  BY DEF Rollback
<1>2. Orderly(open, WorkspaceState, WorkspaceApart) /\ open \in Seq(WorkspaceState)
      /\ log \in Seq(WorkspaceEntries)
  BY WorkspaceShape
<1>3. Orderly(open', WorkspaceState, WorkspaceApart)
  BY <1>1, <1>2, WorkspaceShape, Leaves
<1>4. ChainInv'
  <2>1. Len(log') = Len(log) + 0 /\ Len(log') <= LogLimit
    BY <1>1, <1>2, ChainFields
  <2>2. QED
    BY <1>1, <1>2, <2>1, ChainRemoved
<1>5. QED
  BY <1>1, <1>3, <1>4, WorkspaceKept DEF WorkspaceGoes

(* A new request that waits for what the others hold.                      *)
LEMMA WorkspaceBegins ==
  ASSUME WorkspaceInv, ChainInv, NEW r \in WorkspaceState, Begin(r), r.seq = 0,
         UNCHANGED <<log, workspaceVars>>,
         r.action = "library.folder.deleted" \/ Unused(r.on)
  PROVE  WorkspaceGoes
<1>1. /\ Orderly(open, WorkspaceState, WorkspaceApart) /\ open \in Seq(WorkspaceState)
      /\ log \in Seq(WorkspaceEntries) /\ open' = Append(open, r)
      /\ r \in WorkspaceForm
  BY WorkspaceShape DEF Begin, WorkspaceState, WorkspaceRequests
<1>2. Joins(open, 0, r, WorkspaceApart)
  <2> SUFFICES ASSUME NEW k \in DOMAIN open
               PROVE  <<open[k], r>> \in WorkspaceApart /\ <<r, open[k]>> \in WorkspaceApart
    BY DEF Joins
  <2>1. /\ r.locks \cap (open[k].locks \cup open[k].shares) = {}
        /\ r.shares \cap open[k].locks = {}
    BY DEF Begin, Free
  <2>2. r.action # "library.folder.deleted" => open[k].on # r.on
    BY DEF Unused
  <2>3. QED
    BY <1>1, <2>1, <2>2, WorkspaceShape DEF WorkspaceApart
<1>3. Orderly(open', WorkspaceState, WorkspaceApart)
  BY <1>1, <1>2, OrderlyAppended
<1>4. ChainInv'
  BY <1>1, ChainBegin
<1>5. QED
  BY <1>3, <1>4, WorkspaceKept DEF WorkspaceGoes

LEMMA WorkspaceRequestGoes ==
  ASSUME WorkspaceInv, ChainInv, WorkspaceRequest, UNCHANGED <<log, workspaceVars>>
  PROVE  WorkspaceGoes
<1>1. ASSUME NEW p \in Projects, CreateProject(p)  PROVE WorkspaceGoes
  <2> DEFINE r == Request("project.create", p, p, {}, {})
  <2>1. r \in WorkspaceState /\ r.seq = 0 /\ r.on = p
    BY DEF Request, WorkspaceState, WorkspaceRequests, WorkspaceForm, WorkspaceActions, Ids, Places
  <2> HIDE DEF r
  <2>2. QED
    BY <1>1, <2>1, WorkspaceBegins DEF CreateProject, r
<1>2. ASSUME NEW x \in AgentRuns, NEW p \in Projects, NEW a \in AgentIds, QueueRun(x, p, a)
      PROVE  WorkspaceGoes
  <2> DEFINE r == Request("agent.run.queued", x, p, {}, {<<"project", p>>})
  <2>1. r \in WorkspaceState /\ r.seq = 0 /\ r.on = x
    BY <1>2 DEF QueueRun, Request, WorkspaceState, WorkspaceRequests, WorkspaceForm,
                WorkspaceActions, Ids, Places
  <2> HIDE DEF r
  <2>2. QED
    BY <1>2, <2>1, WorkspaceBegins DEF QueueRun, r
<1>3. ASSUME NEW f \in Folders, NEW n \in FolderNames, CreateFolder(f, n)  PROVE WorkspaceGoes
  <2> DEFINE r == Request("library.folder.created", f, n, {<<"name", n>>}, {})
  <2>1. r \in WorkspaceState /\ r.seq = 0 /\ r.on = f
    BY <1>3 DEF CreateFolder, Named, Request, WorkspaceState, WorkspaceRequests, WorkspaceForm,
                WorkspaceActions, Ids, Places
  <2> HIDE DEF r
  <2>2. QED
    BY <1>3, <2>1, WorkspaceBegins DEF CreateFolder, r
<1>4. ASSUME NEW f \in Folders, DeleteFolder(f)  PROVE WorkspaceGoes
  <2> DEFINE r == Request("library.folder.deleted", f, folders[f],
                          {<<"folder", f>>, <<"name", folders[f]>>}, {})
  <2>1. /\ r \in WorkspaceState /\ r.seq = 0 /\ r.on = f
        /\ r.action = "library.folder.deleted"
    BY <1>4 DEF DeleteFolder, Live, Request, WorkspaceState, WorkspaceRequests, WorkspaceForm,
                WorkspaceActions, Ids, Places
  <2> HIDE DEF r
  <2>2. QED
    BY <1>4, <2>1, WorkspaceBegins DEF DeleteFolder, r
<1>5. ASSUME NEW x \in Files, NEW f \in Folders, UploadFolderFile(x, f)  PROVE WorkspaceGoes
  <2> DEFINE r == Request("library.file.uploaded", x, f, {}, {<<"folder", f>>})
  <2>1. r \in WorkspaceState /\ r.seq = 0 /\ r.on = x
    BY <1>5 DEF UploadFolderFile, Live, Request, WorkspaceState, WorkspaceRequests, WorkspaceForm,
                WorkspaceActions, Ids, Places
  <2> HIDE DEF r
  <2>2. QED
    BY <1>5, <2>1, WorkspaceBegins DEF UploadFolderFile, r
<1>6. ASSUME NEW x \in Files, NEW p \in Projects, InitiateUpload(x, p)  PROVE WorkspaceGoes
  <2> DEFINE r == Request("file.upload.initiated", x, p, {}, {<<"project", p>>})
  <2>1. r \in WorkspaceState /\ r.seq = 0 /\ r.on = x
    BY <1>6 DEF InitiateUpload, Request, WorkspaceState, WorkspaceRequests, WorkspaceForm,
                WorkspaceActions, Ids, Places
  <2> HIDE DEF r
  <2>2. QED
    BY <1>6, <2>1, WorkspaceBegins DEF InitiateUpload, r
<1>7. QED
  BY <1>1, <1>2, <1>3, <1>4, <1>5, <1>6 DEF WorkspaceRequest

(* What a committed request adds to the trail, and to the rest when the    *)
(* others can go on.                                                       *)
LEMMA WorkspaceLogged ==
  ASSUME WorkspaceInv, ChainInv, NEW i \in DOMAIN open, Commit(i, open[i].place)
  PROVE  /\ log' \in Seq(WorkspaceEntries) /\ ChainInv' /\ open' = RemoveAt(open, i)
         /\ open[i] \in WorkspaceForm
         /\ \A action, on : Logged(action, on)' <=>
              Logged(action, on) \/ (open[i].action = action /\ open[i].on = on)
         /\ \A action, on, d : Noted(action, on, d)' <=>
              \/ Noted(action, on, d)
              \/ open[i].action = action /\ open[i].on = on /\ open[i].place = d
<1>1. log \in Seq(WorkspaceEntries) /\ open \in Seq(WorkspaceState) /\ open[i] \in WorkspaceForm
  BY WorkspaceShape
<1>2. [action |-> open[i].action, on |-> open[i].on, detail |-> open[i].place] \in WorkspaceEntries
  BY <1>1 DEF WorkspaceForm, WorkspaceEntries
<1>3. log' \in Seq(WorkspaceEntries)
  BY <1>1, <1>2, LogSeq
<1>4. ChainInv' /\ open' = RemoveAt(open, i)
  BY <1>1, CommitLogs
<1>5. \A action, on : Logged(action, on)' <=>
        Logged(action, on) \/ (open[i].action = action /\ open[i].on = on)
  BY <1>1, TrailGrows
<1>6. \A action, on, d : Noted(action, on, d)' <=>
        \/ Noted(action, on, d)
        \/ open[i].action = action /\ open[i].on = on /\ open[i].place = d
  BY <1>1, NotedGrows
<1>7. QED
  BY <1>1, <1>3, <1>4, <1>5, <1>6

FilesAudited(file) ==
  \A x \in Files, f \in Folders : Noted("library.file.uploaded", x, f)
    => file[x] = IF Logged("library.folder.deleted", f) THEN "homeless" ELSE f
FoldersAudited(dir) ==
  \A f \in Folders : /\ dir[f] # "absent" <=> Logged("library.folder.created", f)
                     /\ dir[f] = "deleted" <=> Logged("library.folder.deleted", f)
NamesUnique(dir) ==
  \A n \in FolderNames, f, g \in Folders : dir[f] = n /\ dir[g] = n => f = g

LEMMA WorkspaceParts ==
  ASSUME WorkspaceInv
  PROVE  /\ projects \subseteq Projects
         /\ runs \in [AgentRuns -> Projects \cup {"absent"}]
         /\ folders \in [Folders -> FolderNames \cup {"absent", "deleted"}]
         /\ files \in [Files -> Folders \cup Projects \cup {"absent", "homeless"}]
         /\ \A p \in Projects : p \in projects <=> Logged("project.create", p)
         /\ \A r \in AgentRuns : runs[r] # "absent" <=> Logged("agent.run.queued", r)
         /\ FoldersAudited(folders) /\ FilesAudited(files) /\ NamesUnique(folders)
BY DEF WorkspaceInv, WorkspaceAudited, FoldersAudited, FilesAudited, NamesUnique, Noted

LEMMA WorkspaceCommits ==
  ASSUME WorkspaceInv, ChainInv, NEW i \in DOMAIN open, Commit(i, open[i].place),
         projects' \subseteq Projects,
         runs' \in [AgentRuns -> Projects \cup {"absent"}],
         folders' \in [Folders -> FolderNames \cup {"absent", "deleted"}],
         files' \in [Files -> Folders \cup Projects \cup {"absent", "homeless"}],
         \A p \in Projects : p \in projects' <=> Logged("project.create", p)',
         \A r \in AgentRuns : runs'[r] # "absent" <=> Logged("agent.run.queued", r)',
         FoldersAudited(folders)', FilesAudited(files)', NamesUnique(folders'),
         \A k \in DOMAIN open \ {i} :
           open[k] \in WorkspaceRequests(projects', runs', folders', files')
  PROVE  WorkspaceGoes
<1>1. Orderly(open, WorkspaceState, WorkspaceApart)
  BY WorkspaceShape
<1>2. Orderly(open', WorkspaceRequests(projects', runs', folders', files'), WorkspaceApart)
  <2> DEFINE R == WorkspaceRequests(projects', runs', folders', files')
  <2>1. \A k \in DOMAIN open \ {i} : open[k] \in R
    OBVIOUS
  <2>2. open' = RemoveAt(open, i)
    BY WorkspaceLogged
  <2> HIDE DEF R
  <2>3. Orderly(open', R, WorkspaceApart)
    BY <1>1, <2>1, <2>2, Leaves
  <2>4. QED
    BY <2>3 DEF R
<1>3. WorkspaceAudited'
  BY DEF WorkspaceAudited, FoldersAudited, FilesAudited, NamesUnique, Noted
<1>4. QED
  BY <1>2, <1>3, WorkspaceLogged DEF WorkspaceGoes, WorkspaceInv

(* Another open request has an id and locks of its own.                    *)
LEMMA WorkspaceOther ==
  ASSUME WorkspaceInv, NEW i \in DOMAIN open, NEW k \in DOMAIN open \ {i}
  PROVE  /\ open[k] \in WorkspaceState /\ open[k] \in WorkspaceForm
         /\ open[i].locks \cap (open[k].locks \cup open[k].shares) = {}
         /\ open[i].action # "library.folder.deleted" /\ open[k].action # "library.folder.deleted"
              => open[i].on # open[k].on
BY WorkspaceShape DEF WorkspaceApart

LEMMA CommitProjectGoes ==
  ASSUME WorkspaceInv, ChainInv, NEW i \in DOMAIN open, CommitWorkspace(i),
         open[i].action = "project.create"
  PROVE  WorkspaceGoes
<1>1. /\ Commit(i, open[i].place) /\ projects' = projects \cup {open[i].on}
      /\ UNCHANGED <<runs, folders, files>>
  BY DEF CommitWorkspace
<1>2. open[i].on \in Projects
  BY WorkspaceShape DEF WorkspaceState, WorkspaceRequests
<1>3. \A k \in DOMAIN open \ {i} :
        open[k] \in WorkspaceRequests(projects', runs', folders', files')
  BY <1>1, WorkspaceShape DEF WorkspaceState, WorkspaceRequests
<1>4. /\ projects' \subseteq Projects
      /\ \A p \in Projects : p \in projects' <=> Logged("project.create", p)'
      /\ \A r \in AgentRuns : runs'[r] # "absent" <=> Logged("agent.run.queued", r)'
      /\ FoldersAudited(folders)'
  BY <1>1, <1>2, WorkspaceParts, WorkspaceLogged DEF FoldersAudited
<1>5. FilesAudited(files)'
  BY <1>1, WorkspaceParts, WorkspaceLogged DEF FilesAudited
<1>6. QED
  BY <1>1, <1>3, <1>4, <1>5, WorkspaceParts, WorkspaceCommits

LEMMA CommitRunGoes ==
  ASSUME WorkspaceInv, ChainInv, NEW i \in DOMAIN open, CommitWorkspace(i),
         open[i].action = "agent.run.queued"
  PROVE  WorkspaceGoes
<1>1. /\ Commit(i, open[i].place) /\ runs' = [runs EXCEPT ![open[i].on] = open[i].place]
      /\ UNCHANGED <<projects, folders, files>>
  BY DEF CommitWorkspace
<1>2. open[i].on \in AgentRuns /\ open[i].place \in Projects /\ open[i].place # "absent"
  BY WorkspaceShape, MarksAreNoIds DEF WorkspaceState, WorkspaceRequests
<1>3. ASSUME NEW k \in DOMAIN open \ {i}
      PROVE  open[k] \in WorkspaceRequests(projects', runs', folders', files')
  <2>1. /\ open[k] \in WorkspaceState /\ open[k] \in WorkspaceForm
        /\ open[k].action = "agent.run.queued" => open[k].on # open[i].on
    BY WorkspaceOther
  <2>2. QED
    BY <1>1, <2>1, WorkspaceParts DEF WorkspaceState, WorkspaceRequests
<1>4. /\ runs' \in [AgentRuns -> Projects \cup {"absent"}]
      /\ \A r \in AgentRuns : runs'[r] # "absent" <=> Logged("agent.run.queued", r)'
  BY <1>1, <1>2, WorkspaceParts, WorkspaceLogged
<1>5. /\ \A p \in Projects : p \in projects' <=> Logged("project.create", p)'
      /\ FoldersAudited(folders)'
  BY <1>1, WorkspaceParts, WorkspaceLogged DEF FoldersAudited
<1>6. FilesAudited(files)'
  BY <1>1, WorkspaceParts, WorkspaceLogged DEF FilesAudited
<1>7. QED
  BY <1>1, <1>3, <1>4, <1>5, <1>6, WorkspaceParts, WorkspaceCommits

LEMMA CommitFolderGoes ==
  ASSUME WorkspaceInv, ChainInv, NEW i \in DOMAIN open, CommitWorkspace(i),
         open[i].action = "library.folder.created"
  PROVE  WorkspaceGoes
<1> DEFINE f == open[i].on  n == open[i].place
<1>1. /\ Commit(i, n) /\ folders' = [folders EXCEPT ![f] = n]
      /\ UNCHANGED <<projects, runs, files>>
  BY DEF CommitWorkspace
<1>2. /\ f \in Folders /\ n \in FolderNames /\ folders[f] = "absent"
      /\ \A g \in Folders : folders[g] # n
      /\ <<"name", n>> \in open[i].locks
      /\ n \notin {"absent", "deleted"}
  BY WorkspaceShape, MarksAreNoIds DEF WorkspaceState, WorkspaceRequests
<1>3. ASSUME NEW k \in DOMAIN open \ {i}
      PROVE  open[k] \in WorkspaceRequests(projects', runs', folders', files')
  <2>1. /\ open[k] \in WorkspaceState /\ open[k] \in WorkspaceForm
        /\ <<"name", n>> \notin open[k].locks
        /\ open[k].action = "library.folder.created" => open[k].on # f
    BY <1>2, WorkspaceOther
  <2>2. \A g \in Folders : folders'[g] = IF g = f THEN n ELSE folders[g]
    BY <1>1, WorkspaceParts
  <2>3. folders[f] \notin FolderNames
    BY <1>2, MarksAreNoIds
  <2> HIDE DEF f, n
  <2>4. open[k].action = "library.folder.created" => open[k].place # n
    BY <2>1 DEF WorkspaceState, WorkspaceRequests
  <2>5. QED
    BY <1>1, <1>2, <2>1, <2>2, <2>3, <2>4, WorkspaceParts DEF WorkspaceState, WorkspaceRequests
<1>4. folders' \in [Folders -> FolderNames \cup {"absent", "deleted"}]
  BY <1>1, <1>2, WorkspaceParts
<1>5. FoldersAudited(folders)'
  BY <1>1, <1>2, WorkspaceParts, WorkspaceLogged DEF FoldersAudited
<1>6. NamesUnique(folders')
  BY <1>1, <1>2, WorkspaceParts DEF NamesUnique
<1>7. /\ \A p \in Projects : p \in projects' <=> Logged("project.create", p)'
      /\ \A r \in AgentRuns : runs'[r] # "absent" <=> Logged("agent.run.queued", r)'
  BY <1>1, WorkspaceParts, WorkspaceLogged
<1>8. FilesAudited(files)'
  BY <1>1, WorkspaceParts, WorkspaceLogged DEF FilesAudited
<1>9. QED
  BY <1>1, <1>3, <1>4, <1>5, <1>6, <1>7, <1>8, WorkspaceParts, WorkspaceCommits

LEMMA CommitFolderDeletedGoes ==
  ASSUME WorkspaceInv, ChainInv, NEW i \in DOMAIN open, CommitWorkspace(i),
         open[i].action = "library.folder.deleted"
  PROVE  WorkspaceGoes
<1> DEFINE f == open[i].on
<1>1. /\ Commit(i, open[i].place) /\ folders' = [folders EXCEPT ![f] = "deleted"]
      /\ files' = [x \in Files |-> IF files[x] = f THEN "homeless" ELSE files[x]]
      /\ UNCHANGED <<projects, runs>>
  BY DEF CommitWorkspace, Detached
<1>2. /\ f \in Folders /\ folders[f] \in FolderNames /\ f \notin {"absent", "homeless"}
      /\ <<"folder", f>> \in open[i].locks
      /\ folders[f] \notin {"absent", "deleted"}
      /\ \A m \in FolderNames : m # "deleted"
  BY WorkspaceShape, MarksAreNoIds DEF WorkspaceState, WorkspaceRequests
<1>3. ASSUME NEW k \in DOMAIN open \ {i}
      PROVE  open[k] \in WorkspaceRequests(projects', runs', folders', files')
  <2>1. /\ open[k] \in WorkspaceState /\ open[k] \in WorkspaceForm
        /\ <<"folder", f>> \notin open[k].locks /\ <<"folder", f>> \notin open[k].shares
    BY <1>2, WorkspaceOther
  <2>2. \A g \in Folders : folders'[g] = IF g = f THEN "deleted" ELSE folders[g]
    BY <1>1, WorkspaceParts
  <2>3. \A x \in Files : files[x] = "absent" => files'[x] = "absent"
    BY <1>1, <1>2
  <2> HIDE DEF f
  <2>4. /\ open[k].action = "library.folder.deleted" => open[k].on # f
        /\ open[k].action = "library.file.uploaded" => open[k].place # f
    BY <2>1 DEF WorkspaceState, WorkspaceRequests
  <2>5. QED
    BY <1>1, <1>2, <2>1, <2>2, <2>3, <2>4, WorkspaceParts DEF WorkspaceState, WorkspaceRequests
<1>4. folders' \in [Folders -> FolderNames \cup {"absent", "deleted"}]
      /\ files' \in [Files -> Folders \cup Projects \cup {"absent", "homeless"}]
  BY <1>1, <1>2, WorkspaceParts
<1>5. FoldersAudited(folders)'
  BY <1>1, <1>2, WorkspaceParts, WorkspaceLogged DEF FoldersAudited
<1>6. NamesUnique(folders')
  BY <1>1, <1>2, WorkspaceParts DEF NamesUnique
<1>7. /\ \A p \in Projects : p \in projects' <=> Logged("project.create", p)'
      /\ \A r \in AgentRuns : runs'[r] # "absent" <=> Logged("agent.run.queued", r)'
  BY <1>1, WorkspaceParts, WorkspaceLogged
<1>8. FilesAudited(files)'
  <2> SUFFICES ASSUME NEW x \in Files, NEW g \in Folders, Noted("library.file.uploaded", x, g)'
               PROVE  files'[x] = IF Logged("library.folder.deleted", g)' THEN "homeless" ELSE g
    BY DEF FilesAudited
  <2>1. Noted("library.file.uploaded", x, g)
    BY <1>1, WorkspaceLogged
  <2>2. files[x] = IF Logged("library.folder.deleted", g) THEN "homeless" ELSE g
    BY <2>1, WorkspaceParts DEF FilesAudited
  <2>3. Logged("library.folder.deleted", g)' <=> Logged("library.folder.deleted", g) \/ g = f
    BY <1>1, WorkspaceLogged
  <2>4. ~Logged("library.folder.deleted", f)
    BY <1>2, WorkspaceParts DEF FoldersAudited
  <2>5. QED
    BY <1>1, <1>2, <2>2, <2>3, <2>4
<1>9. QED
  BY <1>1, <1>3, <1>4, <1>5, <1>6, <1>7, <1>8, WorkspaceParts, WorkspaceCommits

LEMMA CommitFileGoes ==
  ASSUME WorkspaceInv, ChainInv, NEW i \in DOMAIN open, CommitWorkspace(i),
         open[i].action \in {"library.file.uploaded", "file.upload.initiated"}
  PROVE  WorkspaceGoes
<1> DEFINE x == open[i].on  f == open[i].place
<1>1. /\ Commit(i, f) /\ files' = [files EXCEPT ![x] = f]
      /\ UNCHANGED <<projects, runs, folders>>
  BY DEF CommitWorkspace
<1>2. /\ x \in Files /\ f \in Projects \cup Folders /\ files[x] = "absent"
      /\ open[i].action = "library.file.uploaded" => f \in Folders /\ folders[f] \in FolderNames
  BY WorkspaceShape DEF WorkspaceState, WorkspaceRequests
<1>3. ASSUME NEW k \in DOMAIN open \ {i}
      PROVE  open[k] \in WorkspaceRequests(projects', runs', folders', files')
  <2>1. /\ open[k] \in WorkspaceState /\ open[k] \in WorkspaceForm
        /\ open[k].action \in {"library.file.uploaded", "file.upload.initiated"} => open[k].on # x
    BY WorkspaceOther
  <2>2. \A y \in Files : y # x => files'[y] = files[y]
    BY <1>1, WorkspaceParts
  <2>3. QED
    BY <1>1, <2>1, <2>2 DEF WorkspaceState, WorkspaceRequests
<1>4. files' \in [Files -> Folders \cup Projects \cup {"absent", "homeless"}]
  BY <1>1, <1>2, WorkspaceParts
<1>5. /\ \A p \in Projects : p \in projects' <=> Logged("project.create", p)'
      /\ \A r \in AgentRuns : runs'[r] # "absent" <=> Logged("agent.run.queued", r)'
      /\ FoldersAudited(folders)'
  BY <1>1, WorkspaceParts, WorkspaceLogged DEF FoldersAudited
<1>6. FilesAudited(files)'
  <2> SUFFICES ASSUME NEW y \in Files, NEW g \in Folders, Noted("library.file.uploaded", y, g)'
               PROVE  files'[y] = IF Logged("library.folder.deleted", g)' THEN "homeless" ELSE g
    BY DEF FilesAudited
  <2>1. Logged("library.folder.deleted", g)' <=> Logged("library.folder.deleted", g)
    BY <1>1, WorkspaceLogged
  <2>2. CASE Noted("library.file.uploaded", y, g)
    <3>1. files[y] = IF Logged("library.folder.deleted", g) THEN "homeless" ELSE g
      BY <2>2, WorkspaceParts DEF FilesAudited
    <3>2. y # x
      BY <1>2, <3>1, MarksAreNoIds
    <3>3. QED
      BY <1>1, <2>1, <3>1, <3>2, WorkspaceParts
  <2>3. CASE ~Noted("library.file.uploaded", y, g)
    <3>1. open[i].action = "library.file.uploaded" /\ y = x /\ g = f
      BY <1>1, <2>3, WorkspaceLogged
    <3>2. ~Logged("library.folder.deleted", f)
      <4>1. f \in Folders /\ folders[f] # "deleted"
        BY <1>2, <3>1, MarksAreNoIds
      <4>2. QED
        BY <4>1, WorkspaceParts DEF FoldersAudited
    <3>3. QED
      BY <1>1, <1>2, <2>1, <3>1, <3>2, WorkspaceParts
  <2>4. QED
    BY <2>2, <2>3
<1>7. QED
  BY <1>1, <1>3, <1>4, <1>5, <1>6, WorkspaceParts, WorkspaceCommits

LEMMA CommitWorkspaceGoes ==
  ASSUME WorkspaceInv, ChainInv, NEW i \in DOMAIN open, CommitWorkspace(i)
  PROVE  WorkspaceGoes
<1>1. open[i].action \in WorkspaceActions
  BY WorkspaceShape DEF WorkspaceForm
<1>2. QED
  BY <1>1, CommitProjectGoes, CommitRunGoes, CommitFolderGoes, CommitFolderDeletedGoes,
     CommitFileGoes DEF WorkspaceActions

-----------------------------------------------------------------------------
(* The connectors.                                                         *)
ConnectorState == SyncForm \cup ConnectorRequests(installs, bindings, overtaken, tokens, completed)

LEMMA ClassMarks ==
  /\ \A c \in Classes : c \notin {"absent", "removed", "none"}
  /\ \A c : Catalog!InstallStatus(c) \in {"installed", "pending"}
<1>1. ASSUME NEW c \in Classes, c \in {"absent", "removed", "none"}  PROVE FALSE
  <2>1. PICK s \in Catalog!Connectors : s.id = c
    BY ClassesAreKnown DEF Catalog!Known
  <2>2. CASE s \in Catalog!CadAndAnalysis
    BY <1>1, <2>1, <2>2 DEF Catalog!CadAndAnalysis, Catalog!Class
  <2>3. CASE s \in Catalog!Documents
    BY <1>1, <2>1, <2>3 DEF Catalog!Documents, Catalog!Class
  <2>4. CASE s \in Catalog!OfficeAndSite
    BY <1>1, <2>1, <2>4 DEF Catalog!OfficeAndSite, Catalog!Class
  <2>5. CASE s \in Catalog!SigningAndInternal
    BY <1>1, <2>1, <2>5 DEF Catalog!SigningAndInternal, Catalog!Class
  <2>6. QED
    BY <2>1, <2>2, <2>3, <2>4, <2>5 DEF Catalog!Connectors
<1>2. \A c : Catalog!InstallStatus(c) \in {"installed", "pending"}
  BY DEF Catalog!InstallStatus
<1>3. QED
  BY <1>1, <1>2

LEMMA ConnectorShape ==
  ASSUME ConnectorInv
  PROVE  /\ log \in Seq(ConnectorEntries) /\ open \in Seq(ConnectorState)
         /\ Orderly(open, ConnectorState, ConnectorApart)
         /\ \A k \in DOMAIN open : open[k] \in ConnectorState
         /\ \A k \in DOMAIN open : open[k] \in ConnectorForm \cup SyncForm
         /\ \A k \in DOMAIN open : open[k].action # "connector.sync.completed" =>
              open[k] \in ConnectorRequests(installs, bindings, overtaken, tokens, completed)
              /\ open[k] \in ConnectorForm
         /\ \A k, l \in DOMAIN open : k # l => <<open[k], open[l]>> \in ConnectorApart
<1>1. Orderly(open, ConnectorState, ConnectorApart)
  BY DEF ConnectorInv, ConnectorState
<1>2. \A k \in DOMAIN open : open[k] \in ConnectorState
  BY <1>1, OrderlyFacts
<1>3. \A k \in DOMAIN open : open[k] \in ConnectorForm \cup SyncForm
  BY <1>2 DEF ConnectorState, ConnectorRequests
<1>4. ASSUME NEW k \in DOMAIN open, open[k].action # "connector.sync.completed"
      PROVE  open[k] \in ConnectorRequests(installs, bindings, overtaken, tokens, completed)
             /\ open[k] \in ConnectorForm
  <2>1. open[k] \notin SyncForm
    BY <1>4 DEF SyncForm
  <2>2. QED
    BY <1>2, <2>1 DEF ConnectorState, ConnectorRequests
<1>5. QED
  BY <1>1, <1>2, <1>3, <1>4, OrderlyFacts DEF ConnectorInv

(* A sync is no request about connectors.                                  *)
LEMMA SyncIsApart ==
  /\ \A r \in SyncForm : r.action = "connector.sync.completed"
  /\ \A r \in ConnectorForm : r.action \in ConnectorActions /\ r.action # "connector.sync.completed"
BY DEF SyncForm, ConnectorForm, ConnectorActions

StatusAudited(inst) ==
  \A c \in Classes :
    inst[c].status = CASE LastInstall(c) = "none" -> "absent"
                       [] LastInstall(c) = "connector.installed" -> Catalog!InstallStatus(c)
                       [] LastInstall(c) = "connector.uninstalled" -> "uninstalled"
                       [] LastInstall(c) = "connector.oauth.completed" -> "installed"

BoundInUse(inst, bound, late) ==
  \A b \in Bindings : bound[b] \in Classes /\ b \notin late => inst[bound[b]].status \in InUse

(* The entries about the installation of a class.                          *)
InstallEntries(c) == {k \in DOMAIN log : log[k].action \in InstallActions /\ log[k].detail = c}

LEMMA LastInstallIs ==
  ASSUME NEW c
  PROVE  /\ LastInstall(c) = IF InstallEntries(c) = {} THEN "none"
                             ELSE log[LastOf(InstallEntries(c))].action
         /\ LastInstall(c)' = IF InstallEntries(c)' = {} THEN "none"
                              ELSE log'[LastOf(InstallEntries(c)')].action
<1>1. LastInstall(c) = IF InstallEntries(c) = {} THEN "none"
                       ELSE log[LastOf(InstallEntries(c))].action
  BY Zenon DEF LastInstall, InstallEntries, LastOf
<1>2. LastInstall(c)' = IF InstallEntries(c)' = {} THEN "none"
                        ELSE log'[LastOf(InstallEntries(c)')].action
  BY Zenon DEF LastInstall, InstallEntries, LastOf
<1>3. QED
  BY <1>1, <1>2

LEMMA LastInstallStays ==
  ASSUME UNCHANGED log
  PROVE  \A c : LastInstall(c)' = LastInstall(c)
<1> SUFFICES ASSUME NEW c  PROVE LastInstall(c)' = LastInstall(c)
  OBVIOUS
<1>1. InstallEntries(c)' = InstallEntries(c)
  BY Zenon DEF InstallEntries
<1>2. QED
  BY <1>1, LastInstallIs

LEMMA LastInstallGrows ==
  ASSUME ChainInv, NEW P, NEW Q, log \in Seq(P), open \in Seq(Q), NEW i \in DOMAIN open,
         NEW detail, Commit(i, detail), NEW c
  PROVE  LastInstall(c)' = IF open[i].action \in InstallActions /\ detail = c
                           THEN open[i].action ELSE LastInstall(c)
<1> DEFINE K == InstallEntries(c)  n == Len(log)
<1>0. /\ \A k \in 1..n : log'[k] = log[k]
      /\ log'[n + 1] = [action |-> open[i].action, on |-> open[i].on, detail |-> detail]
      /\ n \in Nat /\ DOMAIN log = 1..n /\ DOMAIN log' = 1..(n + 1)
  BY CommitLogs
<1>1. K \subseteq 1..n /\ \A k \in 1..n : k \in K' <=> k \in K
  BY <1>0 DEF InstallEntries
<1>2. n + 1 \in K' <=> open[i].action \in InstallActions /\ detail = c
  BY <1>0 DEF InstallEntries
<1>3. K' \subseteq 1..(n + 1)
  BY <1>0 DEF InstallEntries
<1>6. n \in Nat
  BY <1>0
<1> HIDE DEF K, n
<1>4. CASE open[i].action \in InstallActions /\ detail = c
  <2>1. K' = K \cup {n + 1}
    <3>1. n + 1 \in K'
      BY <1>2, <1>4
    <3>2. \A k \in K' : k \in K \cup {n + 1}
      <4> SUFFICES ASSUME NEW k \in K', k # n + 1  PROVE k \in K
        OBVIOUS
      <4>1. k \in 1..n
        BY <1>3, <1>6
      <4>2. QED
        BY <1>1, <4>1
    <3>3. QED
      BY <1>1, <3>1, <3>2
  <2>2. LastOf(K') = n + 1
    BY <1>1, <1>6, <2>1, LastOfNew
  <2>3. log'[n + 1].action = open[i].action
    BY <1>0
  <2>4. QED
    BY <1>4, <2>1, <2>2, <2>3, LastInstallIs DEF K
<1>5. CASE ~(open[i].action \in InstallActions /\ detail = c)
  <2>1. K' = K
    <3>1. n + 1 \notin K'
      BY <1>2, <1>5
    <3>2. \A k \in K' : k \in K
      <4> SUFFICES ASSUME NEW k \in K'  PROVE k \in K
        OBVIOUS
      <4>1. k \in 1..n
        BY <1>3, <1>6, <3>1
      <4>2. QED
        BY <1>1, <4>1
    <3>3. QED
      BY <1>1, <3>2
  <2>2. ASSUME K # {}  PROVE log'[LastOf(K)] = log[LastOf(K)]
    <3>1. LastOf(K) \in 1..n
      BY <1>1, <1>6, <2>2, LastOfFacts
    <3>2. QED
      BY <1>0, <3>1
  <2>3. QED
    BY <1>5, <2>1, <2>2, LastInstallIs DEF K
<1>7. QED
  BY <1>4, <1>5

LEMMA ConnectorParts ==
  ASSUME ConnectorInv
  PROVE  /\ installs \in [Classes -> InstallRow]
         /\ bindings \in [Bindings -> Classes \cup {"absent", "removed"}]
         /\ TokensSound(tokens, completed)
         /\ BoundInUse(installs, bindings, overtaken) /\ StatusAudited(installs)
         /\ \A b \in Bindings : bindings[b] # "absent" <=> Logged("connector.bound", b)
         /\ \A c \in Classes : c \in waitlist <=> Logged("connector.waitlist.requested", c)
BY DEF ConnectorInv, ConnectorsAudited, StatusAudited, BoundInUse, BindingsNeedInstallation, InUse

ConnectorGoes == ConnectorInv' /\ ChainInv'

(* The parts again, after a step.                                          *)
LEMMA ConnectorWhole ==
  ASSUME installs' \in [Classes -> InstallRow],
         bindings' \in [Bindings -> Classes \cup {"absent", "removed"}],
         TokensSound(tokens', completed'),
         BoundInUse(installs', bindings', overtaken'), StatusAudited(installs)',
         \A b \in Bindings : bindings'[b] # "absent" <=> Logged("connector.bound", b)',
         \A c \in Classes : c \in waitlist' <=> Logged("connector.waitlist.requested", c)',
         log' \in Seq(ConnectorEntries),
         Orderly(open', SyncForm \cup
                        ConnectorRequests(installs', bindings', overtaken', tokens', completed'),
                 ConnectorApart)
  PROVE  ConnectorInv'
<1>1. ConnectorsAudited'
  BY DEF ConnectorsAudited, StatusAudited
<1>2. BindingsNeedInstallation'
  BY DEF BoundInUse, BindingsNeedInstallation, InUse
<1>3. QED
  BY <1>1, <1>2 DEF ConnectorInv

LEMMA ConnectorKept ==
  ASSUME ConnectorInv, UNCHANGED <<log, connectorVars>>,
         Orderly(open', ConnectorState, ConnectorApart)
  PROVE  ConnectorInv'
<1>1. UNCHANGED <<log, installs, bindings, waitlist, tokens, overtaken, completed>>
  BY DEF connectorVars
<1>2. StatusAudited(installs)'
  BY <1>1, ConnectorParts, LastInstallStays DEF StatusAudited
<1>3. \A action, on : Logged(action, on)' = Logged(action, on)
  BY <1>1, TrailStays
<1>4. Orderly(open', SyncForm \cup
              ConnectorRequests(installs', bindings', overtaken', tokens', completed'),
              ConnectorApart)
  BY <1>1 DEF ConnectorState
<1>5. log' \in Seq(ConnectorEntries)
  BY <1>1, ConnectorShape
<1>6. QED
  BY <1>1, <1>2, <1>3, <1>4, <1>5, ConnectorParts, ConnectorWhole

(* Requests of which the others see the same.                              *)
Alike(q, r) == q.action = r.action /\ q.on = r.on

LEMMA AlikeJoins ==
  ASSUME ConnectorInv, NEW i \in DOMAIN open, NEW q \in ConnectorForm \cup SyncForm,
         Alike(q, open[i])
  PROVE  Joins(open, i, q, ConnectorApart)
<1> SUFFICES ASSUME NEW k \in DOMAIN open \ {i}
             PROVE  <<open[k], q>> \in ConnectorApart /\ <<q, open[k]>> \in ConnectorApart
  BY DEF Joins
<1>1. /\ open[k] \in ConnectorForm \cup SyncForm
      /\ <<open[k], open[i]>> \in ConnectorApart /\ <<open[i], open[k]>> \in ConnectorApart
  BY ConnectorShape
<1>2. QED
  BY <1>1 DEF Alike, ConnectorApart

LEMMA ConnectorRecord ==
  ASSUME ConnectorInv, ChainInv, NEW i \in DOMAIN open, Record(i), UNCHANGED <<log, connectorVars>>
  PROVE  ConnectorGoes
<1> DEFINE r == [open[i] EXCEPT !.seq = Len(log) + 1]
<1>1. open[i] \in ConnectorState /\ open[i] \in ConnectorForm \cup SyncForm
      /\ open \in Seq(ConnectorState)
      /\ Orderly(open, ConnectorState, ConnectorApart) /\ log \in Seq(ConnectorEntries)
  BY ConnectorShape
<1>2. Len(log) + 1 \in Nat
  BY <1>1, LenProperties
<1>3. Alike(r, open[i]) /\ r \in ConnectorState /\ "seq" \in DOMAIN open[i]
  <2>1. CASE open[i] \in SyncForm
    BY <1>2, <2>1 DEF SyncForm, ConnectorState, Alike
  <2>2. CASE open[i] \in ConnectorRequests(installs, bindings, overtaken, tokens, completed)
    <3>1. /\ r \in ConnectorForm /\ r.action = open[i].action /\ r.on = open[i].on
          /\ r.class = open[i].class /\ r.gone = open[i].gone /\ r.locks = open[i].locks
          /\ "seq" \in DOMAIN open[i]
      BY <1>2, <2>2 DEF ConnectorForm, ConnectorRequests
    <3> HIDE DEF r
    <3>2. r \in ConnectorRequests(installs, bindings, overtaken, tokens, completed)
      BY <2>2, <3>1 DEF ConnectorRequests
    <3>3. QED
      BY <3>1, <3>2 DEF ConnectorState, Alike
  <2>3. QED
    BY <1>1, <2>1, <2>2 DEF ConnectorState
<1>4. open' = Append(RemoveAt(open, i), r)
  BY DEF Record
<1> HIDE DEF r
<1>5. r \in ConnectorForm \cup SyncForm
  BY <1>3 DEF ConnectorState, ConnectorRequests
<1>6. Joins(open, i, r, ConnectorApart)
  BY <1>3, <1>5, AlikeJoins
<1>7. OrderlyBut(open, i, ConnectorState, ConnectorApart)
  BY <1>1, ConnectorShape, OthersStay
<1>8. Orderly(open', ConnectorState, ConnectorApart)
  BY <1>1, <1>3, <1>4, <1>6, <1>7, OrderlyMoved
<1>9. ChainInv'
  BY <1>1, <1>3, ChainRecord
<1>10. QED
  BY <1>8, <1>9, ConnectorKept DEF ConnectorGoes

LEMMA ConnectorRollback ==
  ASSUME ConnectorInv, ChainInv, NEW i \in DOMAIN open, Rollback(i), UNCHANGED connectorVars
  PROVE  ConnectorGoes
<1>1. open' = RemoveAt(open, i) /\ log' = log
  BY DEF Rollback
<1>2. Orderly(open, ConnectorState, ConnectorApart) /\ open \in Seq(ConnectorState)
      /\ log \in Seq(ConnectorEntries)
  BY ConnectorShape
<1>3. Orderly(open', ConnectorState, ConnectorApart)
  BY <1>1, <1>2, ConnectorShape, Leaves
<1>4. ChainInv'
  <2>1. Len(log') = Len(log) + 0 /\ Len(log') <= LogLimit
    BY <1>1, <1>2, ChainFields
  <2>2. QED
    BY <1>1, <1>2, <2>1, ChainRemoved
<1>5. QED
  BY <1>1, <1>3, <1>4, ConnectorKept DEF ConnectorGoes

LEMMA ConnectorBegins ==
  ASSUME ConnectorInv, ChainInv, NEW r \in ConnectorState, Begin(r), r.seq = 0,
         UNCHANGED <<log, connectorVars>>,
         r.action \in {"connector.bound", "connector.oauth.completed"} =>
           \A k \in DOMAIN open : open[k].action = r.action => open[k].on # r.on
  PROVE  ConnectorGoes
<1>1. /\ Orderly(open, ConnectorState, ConnectorApart) /\ open \in Seq(ConnectorState)
      /\ log \in Seq(ConnectorEntries) /\ open' = Append(open, r)
      /\ r \in ConnectorForm \cup SyncForm
  BY ConnectorShape DEF Begin, ConnectorState, ConnectorRequests
<1>2. Joins(open, 0, r, ConnectorApart)
  <2> SUFFICES ASSUME NEW k \in DOMAIN open
               PROVE  <<open[k], r>> \in ConnectorApart /\ <<r, open[k]>> \in ConnectorApart
    BY DEF Joins
  <2>1. open[k] \in ConnectorForm \cup SyncForm
    BY ConnectorShape
  <2>2. QED
    BY <1>1, <2>1 DEF ConnectorApart
<1>3. Orderly(open', ConnectorState, ConnectorApart)
  BY <1>1, <1>2, OrderlyAppended
<1>4. ChainInv'
  BY <1>1, ChainBegin
<1>5. QED
  BY <1>3, <1>4, ConnectorKept DEF ConnectorGoes

LEMMA ConnectorContinues ==
  ASSUME ConnectorInv, ChainInv, NEW i \in DOMAIN open, NEW r \in ConnectorState, Continue(i, r),
         r.seq = open[i].seq, Alike(r, open[i]), UNCHANGED <<log, connectorVars>>
  PROVE  ConnectorGoes
<1>1. /\ Orderly(open, ConnectorState, ConnectorApart) /\ open \in Seq(ConnectorState)
      /\ log \in Seq(ConnectorEntries) /\ open' = [open EXCEPT ![i] = r]
      /\ r \in ConnectorForm \cup SyncForm
  BY ConnectorShape DEF Continue, ConnectorState, ConnectorRequests
<1>2. Joins(open, i, r, ConnectorApart)
  BY <1>1, AlikeJoins
<1>3. OrderlyBut(open, i, ConnectorState, ConnectorApart)
  BY <1>1, ConnectorShape, OthersStay
<1>4. Orderly(open', ConnectorState, ConnectorApart)
  BY <1>1, <1>2, <1>3, OrderlyReplaced
<1>5. ChainInv'
  BY <1>1, ChainContinue
<1>6. QED
  BY <1>4, <1>5, ConnectorKept DEF ConnectorGoes

LEMMA InstallBegins ==
  ASSUME ConnectorInv, ChainInv, NEW c \in Classes, UNCHANGED <<log, connectorVars>>,
         InstallConnector(c) \/ UninstallConnector(c) \/ WaitlistConnector(c)
  PROVE  ConnectorGoes
<1>1. CASE InstallConnector(c)
  <2> DEFINE r == ConnectorRequest("connector.installed", c, c, TRUE, {Row(c)}, {})
  <2>1. r \in ConnectorState /\ r.seq = 0 /\ r.action = "connector.installed"
    BY DEF ConnectorRequest, ConnectorState, ConnectorRequests, ConnectorForm, ConnectorActions,
           ConnectorLocks, Row
  <2> HIDE DEF r
  <2>2. QED
    BY <1>1, <2>1, ConnectorBegins DEF InstallConnector, r
<1>2. CASE UninstallConnector(c)
  <2> DEFINE locks == {Row(c)} \cup {<<"binding", b>> : b \in Bound(c)}
             r == [ConnectorRequest("connector.uninstalled", c, c, TRUE, locks, {})
                   EXCEPT !.gone = Bound(c)]
  <2>1. locks \subseteq ConnectorLocks /\ Bound(c) \subseteq Bindings
    BY DEF ConnectorLocks, Row, Bound
  <2>2. \A b \in Bindings : bindings[b] = c => bindings[b] # "absent" /\ b \in Bound(c)
    BY ClassMarks DEF Bound
  <2>3. Begin(r)
    BY <1>2 DEF UninstallConnector
  <2>4. \A b \in Bound(c) : bindings[b] # "absent"
    BY <2>2 DEF Bound
  <2> HIDE DEF locks
  <2>5. /\ r \in ConnectorForm /\ r.action = "connector.uninstalled" /\ r.class = c
        /\ r.gone = Bound(c) /\ r.seq = 0
    BY <2>1 DEF ConnectorRequest, ConnectorForm, ConnectorActions
  <2> HIDE DEF r
  <2>6. r \in ConnectorState
    BY <2>2, <2>4, <2>5 DEF ConnectorState, ConnectorRequests
  <2>7. QED
    BY <2>3, <2>5, <2>6, ConnectorBegins
<1>3. CASE WaitlistConnector(c)
  <2> DEFINE r == ConnectorRequest("connector.waitlist.requested", c, c, TRUE,
                                   {<<"waitlist", c>>}, {})
  <2>1. r \in ConnectorState /\ r.seq = 0 /\ r.action = "connector.waitlist.requested"
    BY DEF ConnectorRequest, ConnectorState, ConnectorRequests, ConnectorForm, ConnectorActions,
           ConnectorLocks
  <2> HIDE DEF r
  <2>2. QED
    BY <1>3, <2>1, ConnectorBegins DEF WaitlistConnector, r
<1>4. QED
  BY <1>1, <1>2, <1>3

LEMMA BindingBegins ==
  ASSUME ConnectorInv, ChainInv, UNCHANGED <<log, connectorVars>>, NEW b \in Bindings,
         DeleteBinding(b) \/ \E c \in Classes : CheckInstallation(b, c)
  PROVE  ConnectorGoes
<1>1. CASE DeleteBinding(b)
  <2> DEFINE r == ConnectorRequest("connector.unbound", b, bindings[b], TRUE,
                                   {<<"binding", b>>}, {})
  <2>1. bindings[b] \in Classes /\ bindings[b] # "absent" /\ Begin(r)
    BY <1>1, ClassMarks DEF DeleteBinding
  <2>2. r \in ConnectorState /\ r.seq = 0 /\ r.action = "connector.unbound"
    BY <2>1 DEF ConnectorRequest, ConnectorState, ConnectorRequests, ConnectorForm,
                ConnectorActions, ConnectorLocks
  <2> HIDE DEF r
  <2>3. QED
    BY <2>1, <2>2, ConnectorBegins
<1>2. ASSUME NEW c \in Classes, CheckInstallation(b, c)  PROVE ConnectorGoes
  <2> DEFINE r == ConnectorRequest("connector.bound", b, c, FALSE, {}, {})
  <2>1. /\ bindings[b] = "absent" /\ \A k \in DOMAIN open : open[k].on # b
        /\ installs[c].status \in InUse /\ Begin(r)
    BY <1>2 DEF CheckInstallation, InUse
  <2>2. r \in ConnectorState /\ r.seq = 0 /\ r.on = b
    BY <2>1 DEF ConnectorRequest, ConnectorState, ConnectorRequests, ConnectorForm,
                ConnectorActions, ConnectorLocks
  <2> HIDE DEF r
  <2>3. QED
    BY <2>1, <2>2, ConnectorBegins
<1>3. QED
  BY <1>1, <1>2

LEMMA OAuthCallbackGoes ==
  ASSUME ConnectorInv, ChainInv, UNCHANGED <<log, connectorVars>>, NEW t \in Tokens, OAuthCallback(t)
  PROVE  ConnectorGoes
<1> DEFINE r == ConnectorRequest("connector.oauth.completed", t, tokens[t].class, FALSE,
                                 {<<"token", t>>}, {})
<1>1. tokens[t].state = "open" /\ Begin(r)
  BY DEF OAuthCallback
<1>2. tokens[t].class \in Classes /\ completed[t] = 0
  BY <1>1, ConnectorParts DEF TokensSound
<1>3. /\ r \in ConnectorState /\ r.seq = 0 /\ r.on = t /\ r.locks = {<<"token", t>>}
      /\ r.action = "connector.oauth.completed"
  BY <1>1, <1>2 DEF ConnectorRequest, ConnectorState, ConnectorRequests, ConnectorForm,
                ConnectorActions, ConnectorLocks
<1> HIDE DEF r
<1>4. ASSUME NEW k \in DOMAIN open, open[k].action = "connector.oauth.completed"
      PROVE  open[k].on # t
  <2>1. <<"token", open[k].on>> \in open[k].locks
    BY <1>4, ConnectorShape DEF ConnectorRequests
  <2>2. <<"token", t>> \notin open[k].locks
    BY <1>1, <1>3 DEF Begin, Free
  <2>3. QED
    BY <2>1, <2>2
<1>5. QED
  BY <1>1, <1>3, <1>4, ConnectorBegins

LEMMA ConnectorStatementGoes ==
  ASSUME ConnectorInv, ChainInv, UNCHANGED <<log, connectorVars>>, NEW i \in DOMAIN open,
         InsertBinding(i) \/ ExchangeCode(i)
  PROVE  ConnectorGoes
<1> DEFINE q == [open[i] EXCEPT !.ready = TRUE]
           more == open[i].locks \cup {Row(open[i].class)}
           r == [open[i] EXCEPT !.ready = TRUE, !.locks = more]
<1>1. /\ open[i] \in ConnectorForm
      /\ open[i] \in ConnectorRequests(installs, bindings, overtaken, tokens, completed)
  BY ConnectorShape DEF InsertBinding, ExchangeCode
<1>2. CASE InsertBinding(i)
  <2>1. /\ q \in ConnectorForm /\ q.action = open[i].action /\ q.on = open[i].on
        /\ q.class = open[i].class /\ q.gone = open[i].gone /\ q.locks = open[i].locks
        /\ q.seq = open[i].seq
    BY <1>1 DEF ConnectorForm
  <2>2. Continue(i, q)
    BY <1>2 DEF InsertBinding
  <2> HIDE DEF q
  <2>3. q \in ConnectorState
    BY <1>1, <2>1 DEF ConnectorState, ConnectorRequests
  <2>4. QED
    BY <2>1, <2>2, <2>3, ConnectorContinues DEF Alike
<1>3. CASE ExchangeCode(i)
  <2>0. open[i].locks \subseteq more /\ more \subseteq ConnectorLocks
    <3>1. Row(open[i].class) \in ConnectorLocks /\ open[i].locks \subseteq ConnectorLocks
      BY <1>1 DEF ConnectorForm, ConnectorLocks, Row
    <3>2. QED
      BY <3>1
  <2>2. Continue(i, r)
    BY <1>3 DEF ExchangeCode
  <2> HIDE DEF more
  <2>1. /\ r \in ConnectorForm /\ r.action = open[i].action /\ r.on = open[i].on
        /\ r.class = open[i].class /\ r.gone = open[i].gone /\ open[i].locks \subseteq r.locks
        /\ r.seq = open[i].seq
    BY <1>1, <2>0 DEF ConnectorForm
  <2> HIDE DEF r
  <2>3. r \in ConnectorState
    BY <1>1, <2>1 DEF ConnectorState, ConnectorRequests
  <2>4. QED
    BY <2>1, <2>2, <2>3, ConnectorContinues DEF Alike
<1>4. QED
  BY <1>2, <1>3

(* The state tokens change, and who uses one keeps it.                     *)
LEMMA OAuthTokenGoes ==
  ASSUME ConnectorInv, ChainInv, NEW t \in Tokens,
         Expire(t) \/ \E c \in Classes : OAuthStart(t, c)
  PROVE  ConnectorGoes
<1>1. /\ UNCHANGED <<log, open, installs, bindings, waitlist, overtaken, completed>>
      /\ \A s \in Tokens \ {t} : tokens'[s] = tokens[s]
      /\ tokens' \in [Tokens -> TokenRow]
      /\ tokens'[t].state \in {"open", "expired"}
      /\ tokens[t].state \in {"open", "unused"}
      /\ tokens'[t].state = "open" => tokens'[t].class \in Classes
  <2>1. tokens \in [Tokens -> TokenRow]
    BY ConnectorParts DEF TokensSound
  <2>2. CASE Expire(t)
    BY <2>1, <2>2 DEF Expire, TokenRow
  <2>3. ASSUME NEW c \in Classes, OAuthStart(t, c)
        PROVE  /\ UNCHANGED <<log, open, installs, bindings, waitlist, overtaken, completed>>
               /\ tokens[t].state = "unused"
               /\ tokens' = [tokens EXCEPT ![t] = [state |-> "open", class |-> c]]
    BY <2>3 DEF OAuthStart
  <2>4. ASSUME NEW c \in Classes, OAuthStart(t, c)
        PROVE  /\ \A s \in Tokens \ {t} : tokens'[s] = tokens[s]
               /\ tokens' \in [Tokens -> TokenRow]
               /\ tokens'[t].state = "open" /\ tokens'[t].class = c
    BY <2>1, <2>3, <2>4 DEF TokenRow
  <2>5. CASE \E c \in Classes : OAuthStart(t, c)
    <3>1. PICK c \in Classes : OAuthStart(t, c)
      BY <2>5
    <3>2. /\ UNCHANGED <<log, open, installs, bindings, waitlist, overtaken, completed>>
          /\ tokens[t].state = "unused"
      BY <2>3, <3>1
    <3>3. /\ \A s \in Tokens \ {t} : tokens'[s] = tokens[s]
          /\ tokens' \in [Tokens -> TokenRow]
          /\ tokens'[t].state = "open" /\ tokens'[t].class = c
      BY <2>4, <3>1
    <3>4. QED
      BY <3>2, <3>3
  <2>6. QED
    BY <2>2, <2>5
<1>2. TokensSound(tokens', completed')
  BY <1>1, ConnectorParts DEF TokensSound
<1> DEFINE R == SyncForm \cup
                ConnectorRequests(installs', bindings', overtaken', tokens', completed')
<1>3. ASSUME NEW k \in DOMAIN open  PROVE open[k] \in R
  <2>1. open[k] \in ConnectorState
    BY ConnectorShape
  <2>2. CASE open[k] \in SyncForm
    BY <2>2
  <2>3. CASE open[k] \in ConnectorRequests(installs, bindings, overtaken, tokens, completed)
    <3>1. open[k].action = "connector.oauth.completed" =>
            open[k].on \in Tokens /\ tokens'[open[k].on].state \in {"open", "expired"}
      BY <1>1, <2>3 DEF ConnectorRequests
    <3>2. QED
      BY <1>1, <2>3, <3>1 DEF ConnectorRequests
  <2>4. QED
    BY <2>1, <2>2, <2>3 DEF ConnectorState
<1>4. Orderly(open', R, ConnectorApart)
  <2> HIDE DEF R
  <2>1. QED
    BY <1>1, <1>3, ConnectorShape, OrderlyStays
<1>5. /\ StatusAudited(installs)' /\ \A action, on : Logged(action, on)' = Logged(action, on)
  BY <1>1, ConnectorParts, LastInstallStays, TrailStays DEF StatusAudited
<1>6. ConnectorInv'
  BY <1>1, <1>2, <1>4, <1>5, ConnectorParts, ConnectorShape, ConnectorWhole
<1>7. QED
  BY <1>1, <1>6 DEF ConnectorGoes, ChainInv

LEMMA VendorErrorGoes ==
  ASSUME ConnectorInv, ChainInv, NEW i \in DOMAIN open, VendorError(i)
  PROVE  ConnectorGoes
<1> DEFINE t == open[i].on
<1>1. /\ open[i].action = "connector.oauth.completed" /\ open' = RemoveAt(open, i)
      /\ tokens' = [tokens EXCEPT ![t].state = "gone"]
      /\ UNCHANGED <<log, installs, bindings, waitlist, overtaken, completed>>
  BY DEF VendorError, CommitUnaudited
<1>2. t \in Tokens /\ tokens[t].state \in {"open", "expired"} /\ completed[t] = 0
  BY <1>1, ConnectorShape DEF ConnectorRequests
<1>3. /\ tokens' \in [Tokens -> TokenRow] /\ tokens'[t].state = "gone"
      /\ \A s \in Tokens \ {t} : tokens'[s] = tokens[s]
  BY <1>1, <1>2, ConnectorParts DEF TokensSound, TokenRow
<1>4. TokensSound(tokens', completed')
  BY <1>1, <1>3, ConnectorParts DEF TokensSound
<1> DEFINE R == SyncForm \cup
                ConnectorRequests(installs', bindings', overtaken', tokens', completed')
<1>5. ASSUME NEW k \in DOMAIN open \ {i}  PROVE open[k] \in R
  <2>1. open[k] \in ConnectorState /\ <<open[k], open[i]>> \in ConnectorApart
    BY ConnectorShape
  <2>2. CASE open[k] \in SyncForm
    BY <2>2
  <2>3. CASE open[k] \in ConnectorRequests(installs, bindings, overtaken, tokens, completed)
    <3>1. open[k].action = "connector.oauth.completed" => open[k].on # t
      BY <1>1, <2>1 DEF ConnectorApart
    <3>2. open[k].action = "connector.oauth.completed" =>
            open[k].on \in Tokens /\ tokens'[open[k].on].state \in {"open", "expired"}
      BY <1>3, <2>3, <3>1 DEF ConnectorRequests
    <3>3. QED
      BY <1>1, <2>3, <3>2 DEF ConnectorRequests
  <2>4. QED
    BY <2>1, <2>2, <2>3 DEF ConnectorState
<1>6. Orderly(open', R, ConnectorApart)
  <2> HIDE DEF R
  <2>1. QED
    BY <1>1, <1>5, ConnectorShape, Leaves
<1>7. /\ StatusAudited(installs)' /\ \A action, on : Logged(action, on)' = Logged(action, on)
  BY <1>1, ConnectorParts, LastInstallStays, TrailStays DEF StatusAudited
<1>8. ConnectorInv'
  BY <1>1, <1>4, <1>6, <1>7, ConnectorParts, ConnectorShape, ConnectorWhole
<1>9. ChainInv'
  <2>1. log \in Seq(ConnectorEntries) /\ open \in Seq(ConnectorState)
    BY ConnectorShape
  <2>2. Len(log') = Len(log) + 0 /\ Len(log') <= LogLimit
    BY <1>1, <2>1, ChainFields
  <2>3. QED
    BY <1>1, <2>1, <2>2, ChainRemoved
<1>10. QED
  BY <1>8, <1>9 DEF ConnectorGoes

LEMMA ConnectorLogged ==
  ASSUME ConnectorInv, ChainInv, NEW i \in DOMAIN open, Commit(i, open[i].class)
  PROVE  /\ log' \in Seq(ConnectorEntries) /\ ChainInv' /\ open' = RemoveAt(open, i)
         /\ open[i].class \in Classes
         /\ \A action, on : Logged(action, on)' <=>
              Logged(action, on) \/ (open[i].action = action /\ open[i].on = on)
         /\ \A c : LastInstall(c)' = IF open[i].action \in InstallActions /\ open[i].class = c
                                     THEN open[i].action ELSE LastInstall(c)
<1>1. /\ log \in Seq(ConnectorEntries) /\ open \in Seq(ConnectorState)
      /\ open[i] \in ConnectorForm \cup SyncForm
  BY ConnectorShape
<1>2. /\ open[i].class \in Classes
      /\ [action |-> open[i].action, on |-> open[i].on, detail |-> open[i].class]
           \in ConnectorEntries
  BY <1>1 DEF ConnectorForm, SyncForm, ConnectorEntries
<1>3. log' \in Seq(ConnectorEntries)
  BY <1>1, <1>2, LogSeq
<1>4. ChainInv' /\ open' = RemoveAt(open, i)
  BY <1>1, CommitLogs
<1>5. \A action, on : Logged(action, on)' <=>
        Logged(action, on) \/ (open[i].action = action /\ open[i].on = on)
  BY <1>1, TrailGrows
<1>6. \A c : LastInstall(c)' = IF open[i].action \in InstallActions /\ open[i].class = c
                               THEN open[i].action ELSE LastInstall(c)
  BY <1>1, LastInstallGrows
<1>7. QED
  BY <1>2, <1>3, <1>4, <1>5, <1>6

LEMMA ConnectorCommits ==
  ASSUME ConnectorInv, ChainInv, NEW i \in DOMAIN open, Commit(i, open[i].class),
         installs' \in [Classes -> InstallRow],
         bindings' \in [Bindings -> Classes \cup {"absent", "removed"}],
         TokensSound(tokens', completed'),
         BoundInUse(installs', bindings', overtaken'), StatusAudited(installs)',
         \A b \in Bindings : bindings'[b] # "absent" <=> Logged("connector.bound", b)',
         \A c \in Classes : c \in waitlist' <=> Logged("connector.waitlist.requested", c)',
         \A k \in DOMAIN open \ {i} :
           open[k] \in ConnectorRequests(installs, bindings, overtaken, tokens, completed) =>
             open[k] \in ConnectorRequests(installs', bindings', overtaken', tokens', completed')
  PROVE  ConnectorGoes
<1> DEFINE R == SyncForm \cup
                ConnectorRequests(installs', bindings', overtaken', tokens', completed')
<1>1. \A k \in DOMAIN open \ {i} : open[k] \in R
  BY ConnectorShape DEF ConnectorState
<1>2. open' = RemoveAt(open, i) /\ log' \in Seq(ConnectorEntries) /\ ChainInv'
  BY ConnectorLogged
<1>3. Orderly(open', R, ConnectorApart)
  <2> HIDE DEF R
  <2>1. QED
    BY <1>1, <1>2, ConnectorShape, Leaves
<1>4. QED
  BY <1>2, <1>3, ConnectorWhole DEF ConnectorGoes

StatusSaid(c, last) ==
  CASE last = "none" -> "absent"
    [] last = "connector.installed" -> Catalog!InstallStatus(c)
    [] last = "connector.uninstalled" -> "uninstalled"
    [] last = "connector.oauth.completed" -> "installed"

(* The commit of a request about one installation tells its new status.    *)
LEMMA StatusMoves ==
  ASSUME ConnectorInv, ChainInv, NEW i \in DOMAIN open, NEW d \in Classes, d = open[i].class,
         Commit(i, d), open[i].action \in InstallActions,
         installs'[d].status = StatusSaid(d, open[i].action),
         \A c \in Classes \ {d} : installs'[c] = installs[c]
  PROVE  StatusAudited(installs)'
<1>1. /\ StatusAudited(installs) <=> \A c \in Classes : installs[c].status = StatusSaid(c, LastInstall(c))
      /\ StatusAudited(installs)' <=>
           \A c \in Classes : installs'[c].status = StatusSaid(c, LastInstall(c)')
  BY Zenon DEF StatusAudited, StatusSaid
<1>2. \A c : LastInstall(c)' = IF d = c THEN open[i].action ELSE LastInstall(c)
  BY ConnectorLogged
<1>3. StatusAudited(installs)
  BY ConnectorParts
<1>4. \A c \in Classes : installs'[c].status = StatusSaid(c, LastInstall(c)')
  BY <1>1, <1>2, <1>3
<1>5. QED
  BY <1>1, <1>4

LEMMA CommitInstallGoes ==
  ASSUME ConnectorInv, ChainInv, NEW i \in DOMAIN open, CommitInstall(i)
  PROVE  ConnectorGoes
<1> DEFINE d == open[i].class
<1>1. /\ open[i].action = "connector.installed" /\ Commit(i, d)
      /\ installs' = [installs EXCEPT ![d].status = Catalog!InstallStatus(d)]
      /\ UNCHANGED <<bindings, waitlist, tokens, overtaken, completed>>
  BY DEF CommitInstall, Upserted
<1>2. d \in Classes /\ Catalog!InstallStatus(d) \in InUse
  BY <1>1, ConnectorLogged, ClassMarks DEF InUse
<1>3. /\ installs' \in [Classes -> InstallRow] /\ installs'[d].status = Catalog!InstallStatus(d)
      /\ \A c \in Classes \ {d} : installs'[c] = installs[c]
  BY <1>1, <1>2, ConnectorParts DEF InstallRow, InUse
<1>4. StatusAudited(installs)'
  <2>1. /\ installs'[d].status = StatusSaid(d, open[i].action)
        /\ open[i].action \in InstallActions
    BY <1>1, <1>3 DEF StatusSaid, InstallActions
  <2>2. QED
    BY <1>1, <1>2, <1>3, <2>1, StatusMoves
<1>5. /\ BoundInUse(installs', bindings', overtaken') /\ TokensSound(tokens', completed')
  BY <1>1, <1>2, <1>3, ConnectorParts DEF BoundInUse
<1>6. \A k \in DOMAIN open \ {i} :
        open[k] \in ConnectorRequests(installs, bindings, overtaken, tokens, completed) =>
          open[k] \in ConnectorRequests(installs', bindings', overtaken', tokens', completed')
  <2> SUFFICES ASSUME NEW k \in DOMAIN open \ {i},
                      open[k] \in ConnectorRequests(installs, bindings, overtaken, tokens, completed)
               PROVE  open[k] \in ConnectorRequests(installs', bindings', overtaken', tokens', completed')
    OBVIOUS
  <2>1. open[k].class \in Classes
    BY DEF ConnectorRequests, ConnectorForm
  <2>2. installs[open[k].class].status \in InUse => installs'[open[k].class].status \in InUse
    BY <1>2, <1>3, <2>1
  <2>3. QED
    BY <1>1, <2>2 DEF ConnectorRequests
<1>7. /\ \A b \in Bindings : bindings'[b] # "absent" <=> Logged("connector.bound", b)'
      /\ \A c \in Classes : c \in waitlist' <=> Logged("connector.waitlist.requested", c)'
  BY <1>1, ConnectorLogged, ConnectorParts
<1>8. QED
  BY <1>1, <1>3, <1>4, <1>5, <1>6, <1>7, ConnectorParts, ConnectorCommits

LEMMA CommitUninstallGoes ==
  ASSUME ConnectorInv, ChainInv, NEW i \in DOMAIN open, CommitUninstall(i)
  PROVE  ConnectorGoes
<1> DEFINE d == open[i].class  G == open[i].gone
<1>1. /\ open[i].action = "connector.uninstalled" /\ Commit(i, d)
      /\ installs' = [installs EXCEPT ![d].status = "uninstalled"]
      /\ bindings' = [b \in Bindings |-> IF b \in G THEN "removed" ELSE bindings[b]]
      /\ overtaken' = overtaken \cup Overlapping(i)
      /\ UNCHANGED <<waitlist, tokens, completed>>
  BY DEF CommitUninstall, Removed
<1>2. /\ d \in Classes /\ \A b \in G : bindings[b] # "absent"
      /\ \A b \in Bindings : bindings[b] = d => b \in G \cup overtaken
  BY <1>1, ConnectorLogged, ConnectorShape DEF ConnectorRequests
<1>3. /\ installs' \in [Classes -> InstallRow] /\ installs'[d].status = "uninstalled"
      /\ \A c \in Classes \ {d} : installs'[c] = installs[c]
  BY <1>1, <1>2, ConnectorParts DEF InstallRow
<1>4. /\ bindings' \in [Bindings -> Classes \cup {"absent", "removed"}]
      /\ \A b \in Bindings : bindings'[b] = IF b \in G THEN "removed" ELSE bindings[b]
  BY <1>1, ConnectorParts
<1> HIDE DEF G
<1>5. StatusAudited(installs)'
  <2>1. /\ installs'[d].status = StatusSaid(d, open[i].action)
        /\ open[i].action \in InstallActions
    BY <1>1, <1>3 DEF StatusSaid, InstallActions
  <2>2. QED
    BY <1>1, <1>2, <1>3, <2>1, StatusMoves
<1>6. BoundInUse(installs', bindings', overtaken')
  <2> SUFFICES ASSUME NEW b \in Bindings, bindings'[b] \in Classes, b \notin overtaken'
               PROVE  installs'[bindings'[b]].status \in InUse
    BY DEF BoundInUse
  <2>1. b \notin G /\ bindings'[b] = bindings[b]
    BY <1>4, ClassMarks
  <2>2. bindings[b] # d /\ b \notin overtaken
    BY <1>1, <1>2, <2>1
  <2>3. QED
    BY <1>3, <2>1, <2>2, ConnectorParts DEF BoundInUse
<1>7. \A k \in DOMAIN open \ {i} :
        open[k] \in ConnectorRequests(installs, bindings, overtaken, tokens, completed) =>
          open[k] \in ConnectorRequests(installs', bindings', overtaken', tokens', completed')
  <2> SUFFICES ASSUME NEW k \in DOMAIN open \ {i},
                      open[k] \in ConnectorRequests(installs, bindings, overtaken, tokens, completed)
               PROVE  open[k] \in ConnectorRequests(installs', bindings', overtaken', tokens', completed')
    OBVIOUS
  <2>1. open[k].class \in Classes /\ open[k].gone \subseteq Bindings /\ open[k] \in ConnectorForm
    BY DEF ConnectorRequests, ConnectorForm
  <2>2. \A b \in Bindings : /\ bindings[b] = "absent" => b \notin G /\ bindings'[b] = "absent"
                            /\ bindings[b] # "absent" => bindings'[b] # "absent"
    BY <1>2, <1>4
  <2>3. open[k].action = "connector.bound" =>
          /\ open[k].on \in Bindings /\ bindings'[open[k].on] = "absent"
          /\ open[k].on \in overtaken' \/ installs'[open[k].class].status \in InUse
    <3>1. CASE open[k].class = d
      <4>1. open[k].action = "connector.bound" => open[k].on \in Overlapping(i)
        BY <3>1 DEF Overlapping
      <4>2. QED
        BY <1>1, <2>2, <4>1 DEF ConnectorRequests
    <3>2. CASE open[k].class # d
      BY <1>1, <1>3, <2>1, <2>2, <3>2 DEF ConnectorRequests
    <3>3. QED
      BY <3>1, <3>2
  <2>4. open[k].action = "connector.uninstalled" =>
          /\ \A b \in open[k].gone : bindings'[b] # "absent"
          /\ \A b \in Bindings : bindings'[b] = open[k].class => b \in open[k].gone \cup overtaken'
    <3>1. \A b \in Bindings : bindings'[b] = open[k].class => bindings[b] = open[k].class
      BY <1>4, <2>1, ClassMarks
    <3>2. QED
      BY <1>1, <2>1, <2>2, <3>1 DEF ConnectorRequests
  <2>5. QED
    BY <1>1, <2>2, <2>3, <2>4 DEF ConnectorRequests
<1>8. /\ \A b \in Bindings : bindings'[b] # "absent" <=> Logged("connector.bound", b)'
      /\ \A c \in Classes : c \in waitlist' <=> Logged("connector.waitlist.requested", c)'
  BY <1>1, <1>2, <1>4, ConnectorLogged, ConnectorParts
<1>9. TokensSound(tokens', completed')
  BY <1>1, ConnectorParts
<1>10. QED
  BY <1>1, <1>3, <1>4, <1>5, <1>6, <1>7, <1>8, <1>9, ConnectorCommits

LEMMA CommitWaitlistGoes ==
  ASSUME ConnectorInv, ChainInv, NEW i \in DOMAIN open, CommitWaitlist(i)
  PROVE  ConnectorGoes
<1> DEFINE d == open[i].class
<1>1. /\ open[i].action = "connector.waitlist.requested" /\ Commit(i, d)
      /\ waitlist' = waitlist \cup {d}
      /\ UNCHANGED <<installs, bindings, tokens, overtaken, completed>>
  BY DEF CommitWaitlist
<1>2. open[i].on = d
  BY <1>1, ConnectorShape DEF ConnectorRequests
<1>3. StatusAudited(installs)'
  BY <1>1, ConnectorLogged, ConnectorParts DEF StatusAudited, InstallActions
<1>4. /\ \A b \in Bindings : bindings'[b] # "absent" <=> Logged("connector.bound", b)'
      /\ \A c \in Classes : c \in waitlist' <=> Logged("connector.waitlist.requested", c)'
  BY <1>1, <1>2, ConnectorLogged, ConnectorParts
<1>5. QED
  BY <1>1, <1>3, <1>4, ConnectorParts, ConnectorCommits

LEMMA CommitBindingGoes ==
  ASSUME ConnectorInv, ChainInv, NEW i \in DOMAIN open, CommitBinding(i)
  PROVE  ConnectorGoes
<1> DEFINE d == open[i].class  a == open[i].on
<1>1. /\ open[i].action = "connector.bound" /\ Commit(i, d)
      /\ bindings' = [bindings EXCEPT ![a] = d]
      /\ overtaken' = IF \E k \in DOMAIN open : /\ open[k].action = "connector.uninstalled"
                                                /\ open[k].class = d
                      THEN overtaken \cup {a} ELSE overtaken
      /\ UNCHANGED <<installs, waitlist, tokens, completed>>
  BY DEF CommitBinding
<1>2. /\ d \in Classes /\ a \in Bindings /\ bindings[a] = "absent" /\ d # "absent"
      /\ a \in overtaken \/ installs[d].status \in InUse
  BY <1>1, ConnectorLogged, ConnectorShape, ClassMarks DEF ConnectorRequests
<1>3. /\ bindings' \in [Bindings -> Classes \cup {"absent", "removed"}] /\ bindings'[a] = d
      /\ \A b \in Bindings \ {a} : bindings'[b] = bindings[b]
  BY <1>1, <1>2, ConnectorParts
<1>4. overtaken \subseteq overtaken'
  BY <1>1
<1>5. BoundInUse(installs', bindings', overtaken')
  <2> SUFFICES ASSUME NEW b \in Bindings, bindings'[b] \in Classes, b \notin overtaken'
               PROVE  installs'[bindings'[b]].status \in InUse
    BY DEF BoundInUse
  <2>1. CASE b = a
    BY <1>1, <1>2, <1>3, <1>4, <2>1
  <2>2. CASE b # a
    BY <1>1, <1>3, <1>4, <2>2, ConnectorParts DEF BoundInUse
  <2>3. QED
    BY <2>1, <2>2
<1>6. \A k \in DOMAIN open \ {i} :
        open[k] \in ConnectorRequests(installs, bindings, overtaken, tokens, completed) =>
          open[k] \in ConnectorRequests(installs', bindings', overtaken', tokens', completed')
  <2> SUFFICES ASSUME NEW k \in DOMAIN open \ {i},
                      open[k] \in ConnectorRequests(installs, bindings, overtaken, tokens, completed)
               PROVE  open[k] \in ConnectorRequests(installs', bindings', overtaken', tokens', completed')
    OBVIOUS
  <2>1. /\ open[k].gone \subseteq Bindings /\ <<open[k], open[i]>> \in ConnectorApart
        /\ open[k] \in ConnectorForm
    BY ConnectorShape DEF ConnectorRequests, ConnectorForm
  <2>2. open[k].action = "connector.bound" =>
          /\ open[k].on \in Bindings /\ bindings'[open[k].on] = "absent"
          /\ open[k].on \in overtaken' \/ installs'[open[k].class].status \in InUse
    BY <1>1, <1>3, <1>4, <2>1 DEF ConnectorRequests, ConnectorApart
  <2>3. \A b \in Bindings : bindings[b] # "absent" => bindings'[b] # "absent"
    BY <1>2, <1>3
  <2>4. open[k].action = "connector.uninstalled" =>
          /\ \A b \in open[k].gone : bindings'[b] # "absent"
          /\ \A b \in Bindings : bindings'[b] = open[k].class => b \in open[k].gone \cup overtaken'
    <3> SUFFICES ASSUME open[k].action = "connector.uninstalled"
                 PROVE  /\ \A b \in open[k].gone : bindings'[b] # "absent"
                        /\ \A b \in Bindings :
                             bindings'[b] = open[k].class => b \in open[k].gone \cup overtaken'
      OBVIOUS
    <3>1. open[k].class = d => a \in overtaken'
      BY <1>1
    <3>2. /\ \A b \in open[k].gone : bindings[b] # "absent"
          /\ \A b \in Bindings : bindings[b] = open[k].class => b \in open[k].gone \cup overtaken
      BY DEF ConnectorRequests
    <3>3. QED
      BY <1>3, <1>4, <2>1, <2>3, <3>1, <3>2
  <2>5. QED
    BY <1>1, <2>2, <2>3, <2>4 DEF ConnectorRequests
<1>7. StatusAudited(installs)'
  BY <1>1, ConnectorLogged, ConnectorParts DEF StatusAudited, InstallActions
<1>8. /\ \A b \in Bindings : bindings'[b] # "absent" <=> Logged("connector.bound", b)'
      /\ \A c \in Classes : c \in waitlist' <=> Logged("connector.waitlist.requested", c)'
  BY <1>1, <1>2, <1>3, ConnectorLogged, ConnectorParts
<1>9. TokensSound(tokens', completed')
  BY <1>1, ConnectorParts
<1>10. QED
  BY <1>1, <1>3, <1>5, <1>6, <1>7, <1>8, <1>9, ConnectorParts, ConnectorCommits

LEMMA CommitUnbindGoes ==
  ASSUME ConnectorInv, ChainInv, NEW i \in DOMAIN open, CommitUnbind(i)
  PROVE  ConnectorGoes
<1> DEFINE a == open[i].on
<1>1. /\ open[i].action = "connector.unbound" /\ Commit(i, open[i].class)
      /\ bindings' = [bindings EXCEPT ![a] = "removed"]
      /\ UNCHANGED <<installs, waitlist, tokens, overtaken, completed>>
  BY DEF CommitUnbind
<1>2. a \in Bindings /\ bindings[a] # "absent"
  BY <1>1, ConnectorShape DEF ConnectorRequests
<1>3. /\ bindings' \in [Bindings -> Classes \cup {"absent", "removed"}] /\ bindings'[a] = "removed"
      /\ \A b \in Bindings \ {a} : bindings'[b] = bindings[b]
  BY <1>1, <1>2, ConnectorParts
<1>4. BoundInUse(installs', bindings', overtaken')
  BY <1>1, <1>3, ConnectorParts, ClassMarks DEF BoundInUse
<1>5. \A k \in DOMAIN open \ {i} :
        open[k] \in ConnectorRequests(installs, bindings, overtaken, tokens, completed) =>
          open[k] \in ConnectorRequests(installs', bindings', overtaken', tokens', completed')
  <2> SUFFICES ASSUME NEW k \in DOMAIN open \ {i},
                      open[k] \in ConnectorRequests(installs, bindings, overtaken, tokens, completed)
               PROVE  open[k] \in ConnectorRequests(installs', bindings', overtaken', tokens', completed')
    OBVIOUS
  <2>1. open[k].gone \subseteq Bindings /\ open[k].class \in Classes
    BY DEF ConnectorRequests, ConnectorForm
  <2>2. \A b \in Bindings : /\ bindings[b] = "absent" <=> bindings'[b] = "absent"
                            /\ bindings'[b] = open[k].class => bindings[b] = open[k].class
    BY <1>2, <1>3, <2>1, ClassMarks
  <2>3. QED
    BY <1>1, <2>1, <2>2 DEF ConnectorRequests
<1>6. StatusAudited(installs)'
  BY <1>1, ConnectorLogged, ConnectorParts DEF StatusAudited, InstallActions
<1>7. /\ \A b \in Bindings : bindings'[b] # "absent" <=> Logged("connector.bound", b)'
      /\ \A c \in Classes : c \in waitlist' <=> Logged("connector.waitlist.requested", c)'
  BY <1>1, <1>2, <1>3, ConnectorLogged, ConnectorParts
<1>8. QED
  BY <1>1, <1>3, <1>4, <1>5, <1>6, <1>7, ConnectorParts, ConnectorCommits

LEMMA CommitOAuthGoes ==
  ASSUME ConnectorInv, ChainInv, NEW i \in DOMAIN open, CommitOAuth(i)
  PROVE  ConnectorGoes
<1> DEFINE d == open[i].class  t == open[i].on
<1>1. /\ open[i].action = "connector.oauth.completed" /\ Commit(i, d)
      /\ installs' = [installs EXCEPT ![d] = [status |-> "installed", creds |-> TRUE]]
      /\ tokens' = [tokens EXCEPT ![t].state = "gone"]
      /\ completed' = [completed EXCEPT ![t] = @ + 1]
      /\ UNCHANGED <<bindings, waitlist, overtaken>>
  BY DEF CommitOAuth, TokenAfter
<1>2. d \in Classes /\ t \in Tokens /\ completed[t] = 0
  BY <1>1, ConnectorLogged, ConnectorShape DEF ConnectorRequests
<1>3. /\ installs' \in [Classes -> InstallRow] /\ installs'[d].status = "installed"
      /\ \A c \in Classes \ {d} : installs'[c] = installs[c]
  BY <1>1, <1>2, ConnectorParts DEF InstallRow
<1>4. /\ tokens' \in [Tokens -> TokenRow] /\ tokens'[t].state = "gone"
      /\ \A s \in Tokens \ {t} : tokens'[s] = tokens[s] /\ completed'[s] = completed[s]
      /\ completed' \in [Tokens -> {0, 1}]
  BY <1>1, <1>2, ConnectorParts DEF TokensSound, TokenRow
<1>5. TokensSound(tokens', completed')
  BY <1>1, <1>4, ConnectorParts DEF TokensSound
<1>6. StatusAudited(installs)'
  <2>1. /\ installs'[d].status = StatusSaid(d, open[i].action)
        /\ open[i].action \in InstallActions
    BY <1>1, <1>3 DEF StatusSaid, InstallActions
  <2>2. QED
    BY <1>1, <1>2, <1>3, <2>1, StatusMoves
<1>7. BoundInUse(installs', bindings', overtaken')
  BY <1>1, <1>3, ConnectorParts DEF BoundInUse, InUse
<1>8. \A k \in DOMAIN open \ {i} :
        open[k] \in ConnectorRequests(installs, bindings, overtaken, tokens, completed) =>
          open[k] \in ConnectorRequests(installs', bindings', overtaken', tokens', completed')
  <2> SUFFICES ASSUME NEW k \in DOMAIN open \ {i},
                      open[k] \in ConnectorRequests(installs, bindings, overtaken, tokens, completed)
               PROVE  open[k] \in ConnectorRequests(installs', bindings', overtaken', tokens', completed')
    OBVIOUS
  <2>1. open[k].class \in Classes /\ <<open[k], open[i]>> \in ConnectorApart
    BY ConnectorShape DEF ConnectorRequests, ConnectorForm
  <2>2. installs[open[k].class].status \in InUse => installs'[open[k].class].status \in InUse
    BY <1>3, <2>1 DEF InUse
  <2>3. open[k].action = "connector.oauth.completed" =>
          /\ open[k].on \in Tokens /\ tokens'[open[k].on].state \in {"open", "expired"}
          /\ completed'[open[k].on] = 0
    BY <1>1, <1>4, <2>1 DEF ConnectorRequests, ConnectorApart
  <2>4. QED
    BY <1>1, <2>2, <2>3 DEF ConnectorRequests
<1>9. /\ \A b \in Bindings : bindings'[b] # "absent" <=> Logged("connector.bound", b)'
      /\ \A c \in Classes : c \in waitlist' <=> Logged("connector.waitlist.requested", c)'
  BY <1>1, ConnectorLogged, ConnectorParts
<1>10. QED
  BY <1>1, <1>3, <1>5, <1>6, <1>7, <1>8, <1>9, ConnectorParts, ConnectorCommits

(* A sync leaves the connectors alone.                                     *)
LEMMA ConnectorsBesideCommit ==
  ASSUME ConnectorInv, ChainInv, NEW i \in DOMAIN open,
         open[i].action = "connector.sync.completed", Commit(i, open[i].class),
         UNCHANGED connectorVars
  PROVE  ConnectorGoes
<1>1. UNCHANGED <<installs, bindings, waitlist, tokens, overtaken, completed>>
  BY DEF connectorVars
<1>2. StatusAudited(installs)'
  BY <1>1, ConnectorLogged, ConnectorParts DEF StatusAudited, InstallActions
<1>3. /\ \A b \in Bindings : bindings'[b] # "absent" <=> Logged("connector.bound", b)'
      /\ \A c \in Classes : c \in waitlist' <=> Logged("connector.waitlist.requested", c)'
  BY <1>1, ConnectorLogged, ConnectorParts
<1>4. QED
  BY <1>1, <1>2, <1>3, ConnectorParts, ConnectorCommits

LEMMA InstallStepGoes == ASSUME ConnectorInv, ChainInv, InstallStep  PROVE ConnectorGoes
BY InstallBegins, CommitInstallGoes, CommitUninstallGoes DEF InstallStep

LEMMA WaitlistStepGoes == ASSUME ConnectorInv, ChainInv, WaitlistStep  PROVE ConnectorGoes
BY InstallBegins, CommitWaitlistGoes DEF WaitlistStep

LEMMA BindingStepGoes == ASSUME ConnectorInv, ChainInv, BindingStep  PROVE ConnectorGoes
BY BindingBegins, ConnectorStatementGoes, CommitBindingGoes, CommitUnbindGoes DEF BindingStep

LEMMA OAuthStepGoes == ASSUME ConnectorInv, ChainInv, OAuthStep  PROVE ConnectorGoes
BY OAuthCallbackGoes, ConnectorStatementGoes, OAuthTokenGoes, VendorErrorGoes, CommitOAuthGoes
DEF OAuthStep

-----------------------------------------------------------------------------
(* The sync.                                                               *)
SyncState ==
  ConnectorForm \cup SyncRequests(bindings, overlapped, drive, changes, cursor, vault, objects)

(* What the cursors say they have seen is in the vault.                    *)
Mirrored(bound, twice, disk, seen, rowOf, bytes) ==
  \A b \in Bindings, x \in Items :
    bound[b] \in Classes /\ b \notin twice /\ disk[x].at <= seen[b] =>
      /\ disk[x].kind = "file" => /\ rowOf[<<b, x>>] = [status |-> "ready", at |-> disk[x].at]
                                  /\ bytes[<<b, x>>] = disk[x].at
      /\ disk[x].kind = "absent" => rowOf[<<b, x>>].status # "ready"

Untouched(bound, seen, rowOf) ==
  \A b \in Bindings, x \in Items : bound[b] = "absent" => seen[b] = 0 /\ rowOf[<<b, x>>] = NoRow

SettingSound(bound, twice, disk, count, seen, rowOf, bytes) ==
  /\ DriveSound(disk, count)
  /\ seen \in [Bindings -> 0..count]
  /\ rowOf \in [Keys -> VaultRow] /\ bytes \in [Keys -> 0..MaxChanges]
  /\ twice \subseteq Bindings
  /\ Untouched(bound, seen, rowOf)
  /\ Mirrored(bound, twice, disk, seen, rowOf, bytes)

LEMMA SyncShape ==
  ASSUME SyncInv
  PROVE  /\ SettingSound(bindings, overlapped, drive, changes, cursor, vault, objects)
         /\ Orderly(open, SyncState, SyncApart(overlapped)) /\ open \in Seq(SyncState)
         /\ \A k \in DOMAIN open : open[k] \in SyncState /\ open[k] \in ConnectorForm \cup SyncForm
         /\ \A k \in DOMAIN open : open[k].action = "connector.sync.completed" =>
              open[k] \in SyncForm /\ open[k] \in
                SyncRequests(bindings, overlapped, drive, changes, cursor, vault, objects)
         /\ \A k, l \in DOMAIN open : k # l => <<open[k], open[l]>> \in SyncApart(overlapped)
<1>1. Orderly(open, SyncState, SyncApart(overlapped))
  BY DEF SyncInv, SyncState
<1>2. \A k \in DOMAIN open : open[k] \in SyncState
  BY <1>1, OrderlyFacts
<1>3. \A k \in DOMAIN open : open[k] \in ConnectorForm \cup SyncForm
  BY <1>2 DEF SyncState, SyncRequests
<1>4. ASSUME NEW k \in DOMAIN open, open[k].action = "connector.sync.completed"
      PROVE  open[k] \in SyncForm /\ open[k] \in
               SyncRequests(bindings, overlapped, drive, changes, cursor, vault, objects)
  <2>1. open[k] \notin ConnectorForm
    BY <1>4, SyncIsApart
  <2>2. QED
    BY <1>2, <1>3, <2>1 DEF SyncState
<1>5. Mirrored(bindings, overlapped, drive, cursor, vault, objects)
  <2> SUFFICES ASSUME NEW b \in Bindings, NEW x \in Items, bindings[b] \in Classes,
                      b \notin overlapped, drive[x].at <= cursor[b]
               PROVE  /\ drive[x].kind = "file" =>
                           /\ vault[<<b, x>>] = [status |-> "ready", at |-> drive[x].at]
                           /\ objects[<<b, x>>] = drive[x].at
                      /\ drive[x].kind = "absent" => vault[<<b, x>>].status # "ready"
    BY DEF Mirrored
  <2>1. (CASE drive[x].kind = "file" -> /\ vault[<<b, x>>] = [status |-> "ready", at |-> drive[x].at]
                                        /\ objects[<<b, x>>] = drive[x].at
           [] drive[x].kind = "absent" -> vault[<<b, x>>].status # "ready"
           [] drive[x].kind = "skipped" -> TRUE)
    BY DEF SyncInv, CursorSound
  <2>2. QED
    BY <2>1
<1>6. SettingSound(bindings, overlapped, drive, changes, cursor, vault, objects)
  BY <1>5 DEF SettingSound, SyncInv, Untouched
<1>7. QED
  BY <1>1, <1>2, <1>3, <1>4, <1>6, OrderlyFacts

LEMMA SyncWhole ==
  ASSUME SettingSound(bindings', overlapped', drive', changes', cursor', vault', objects'),
         Orderly(open', ConnectorForm \cup SyncRequests(bindings', overlapped', drive', changes',
                                                        cursor', vault', objects'),
                 SyncApart(overlapped'))
  PROVE  SyncInv'
<1>1. CursorSound'
  <2> SUFFICES ASSUME NEW b \in Bindings, NEW x \in Items, bindings'[b] \in Classes,
                      b \notin overlapped', drive'[x].at <= cursor'[b]
               PROVE  CASE drive'[x].kind = "file" ->
                             /\ vault'[<<b, x>>] = [status |-> "ready", at |-> drive'[x].at]
                             /\ objects'[<<b, x>>] = drive'[x].at
                        [] drive'[x].kind = "absent" -> vault'[<<b, x>>].status # "ready"
                        [] drive'[x].kind = "skipped" -> TRUE
    BY DEF CursorSound
  <2>1. drive'[x].kind \in {"absent", "file", "skipped"}
    BY DEF SettingSound, DriveSound
  <2>2. /\ drive'[x].kind = "file" =>
             /\ vault'[<<b, x>>] = [status |-> "ready", at |-> drive'[x].at]
             /\ objects'[<<b, x>>] = drive'[x].at
        /\ drive'[x].kind = "absent" => vault'[<<b, x>>].status # "ready"
    BY DEF SettingSound, Mirrored
  <2>3. QED
    BY <2>1, <2>2
<1>2. QED
  BY <1>1 DEF SettingSound, SyncInv, Untouched

LEMMA SyncKept ==
  ASSUME SyncInv, UNCHANGED <<bindings, syncVars>>,
         Orderly(open', SyncState, SyncApart(overlapped))
  PROVE  SyncInv'
<1>1. UNCHANGED <<bindings, drive, changes, cursor, vault, objects, overlapped>>
  BY DEF syncVars
<1>2. Orderly(open', ConnectorForm \cup SyncRequests(bindings', overlapped', drive', changes',
                                                     cursor', vault', objects'),
              SyncApart(overlapped'))
  BY <1>1 DEF SyncState
<1>3. SettingSound(bindings', overlapped', drive', changes', cursor', vault', objects')
  BY <1>1, SyncShape
<1>4. QED
  BY <1>2, <1>3, SyncWhole

LEMMA SyncAlikeJoins ==
  ASSUME SyncInv, NEW i \in DOMAIN open, NEW q \in ConnectorForm \cup SyncForm, Alike(q, open[i])
  PROVE  Joins(open, i, q, SyncApart(overlapped))
<1> SUFFICES ASSUME NEW k \in DOMAIN open \ {i}
             PROVE  <<open[k], q>> \in SyncApart(overlapped) /\ <<q, open[k]>> \in SyncApart(overlapped)
  BY DEF Joins
<1>1. /\ open[k] \in ConnectorForm \cup SyncForm
      /\ <<open[k], open[i]>> \in SyncApart(overlapped)
      /\ <<open[i], open[k]>> \in SyncApart(overlapped)
  BY SyncShape
<1>2. QED
  BY <1>1 DEF Alike, SyncApart

(* Requests that have done the same.                                       *)
SameWork(q, r) ==
  /\ r.action = q.action /\ r.on = q.on /\ r.link = q.link /\ r.todo = q.todo
  /\ r.stored = q.stored /\ r.rows = q.rows /\ r.ready = q.ready

LEMMA SoundSame ==
  ASSUME NEW disk, NEW seen, NEW rowOf, NEW bytes, NEW q, NEW r, SameWork(q, r),
         SyncSound(disk, seen, rowOf, bytes, q)
  PROVE  SyncSound(disk, seen, rowOf, bytes, r)
<1> DEFINE on == q.on  link == q.link  todo == q.todo  stored == q.stored  rows == q.rows
<1>1. /\ r.on = on /\ r.link = link /\ r.todo = todo /\ r.stored = stored
      /\ r.rows = rows /\ r.ready = q.ready
  BY DEF SameWork
<1>2. \A x : Handled(disk, rowOf, bytes, r, x) <=> Handled(disk, rowOf, bytes, q, x)
  BY <1>1 DEF Handled
<1>3. \A d \in todo :
        /\ seen[on] < d.at /\ d.at <= disk[d.item].at
        /\ disk[d.item].at > link \/ (disk[d.item].at = d.at /\ disk[d.item].kind = d.kind)
        /\ rows[d.item] = NoRow
        /\ \A e \in todo : e.item = d.item => e = d
  BY Zenon DEF SyncSound
<1>4. /\ \A x \in Items : rows[x] # NoRow => seen[on] < disk[x].at
      /\ \A s \in stored :
           /\ s.item \in todo /\ s.item.kind = "file"
           /\ bytes[<<on, s.item.item>>] = disk[s.item.item].at
                \/ disk[s.item.item].at > link
      /\ q.ready => todo = {}
  BY Zenon DEF SyncSound
<1>5. \A x \in Items : seen[on] < disk[x].at /\ disk[x].at <= link =>
       \/ disk[x].kind = "skipped"
       \/ \E d \in todo : d.item = x
       \/ Handled(disk, rowOf, bytes, q, x)
  BY Zenon DEF SyncSound
<1> HIDE DEF on, link, todo, stored, rows
<1>6. QED
  BY <1>1, <1>2, <1>3, <1>4, <1>5, Zenon DEF SyncSound

LEMMA SyncRecord ==
  ASSUME SyncInv, NEW i \in DOMAIN open, Len(log) \in Nat, Record(i), UNCHANGED <<bindings, syncVars>>
  PROVE  SyncInv'
<1> DEFINE r == [open[i] EXCEPT !.seq = Len(log) + 1]
<1>1. open[i] \in SyncState /\ open[i] \in ConnectorForm \cup SyncForm
      /\ open \in Seq(SyncState) /\ Orderly(open, SyncState, SyncApart(overlapped))
  BY SyncShape
<1>2. Len(log) + 1 \in Nat /\ open[i].ready
  BY DEF Record
<1>3. Alike(r, open[i]) /\ r \in SyncState /\ r \in ConnectorForm \cup SyncForm
  <2>1. CASE open[i] \in ConnectorForm
    BY <1>2, <2>1 DEF ConnectorForm, SyncState, Alike
  <2>2. CASE open[i] \in SyncRequests(bindings, overlapped, drive, changes, cursor, vault, objects)
    <3>1. r \in SyncForm /\ SameWork(open[i], r)
      BY <1>2, <2>2 DEF SyncForm, SyncRequests, SameWork
    <3> HIDE DEF r
    <3>2. SyncSound(drive, cursor, vault, objects, open[i])
            => SyncSound(drive, cursor, vault, objects, r)
      BY <3>1, SoundSame
    <3>3. r \in SyncRequests(bindings, overlapped, drive, changes, cursor, vault, objects)
      BY <1>2, <2>2, <3>1, <3>2 DEF SyncRequests, SameWork
    <3>4. QED
      BY <3>1, <3>3 DEF SyncState, Alike, SameWork
  <2>3. QED
    BY <1>1, <2>1, <2>2 DEF SyncState
<1>4. open' = Append(RemoveAt(open, i), r)
  BY DEF Record
<1> HIDE DEF r
<1>5. Joins(open, i, r, SyncApart(overlapped))
  BY <1>3, SyncAlikeJoins
<1>6. OrderlyBut(open, i, SyncState, SyncApart(overlapped))
  BY <1>1, SyncShape, OthersStay
<1>7. Orderly(open', SyncState, SyncApart(overlapped))
  BY <1>1, <1>3, <1>4, <1>5, <1>6, OrderlyMoved
<1>8. QED
  BY <1>7, SyncKept

LEMMA SyncRollback ==
  ASSUME SyncInv, NEW i \in DOMAIN open, Rollback(i), UNCHANGED <<bindings, syncVars>>
  PROVE  SyncInv'
<1>1. Orderly(open', SyncState, SyncApart(overlapped))
  BY SyncShape, Leaves DEF Rollback
<1>2. QED
  BY <1>1, SyncKept

LEMMA SyncContinues ==
  ASSUME SyncInv, NEW i \in DOMAIN open, NEW r \in SyncState, Continue(i, r), Alike(r, open[i]),
         UNCHANGED <<bindings, syncVars>>
  PROVE  SyncInv'
<1>1. /\ Orderly(open, SyncState, SyncApart(overlapped)) /\ open \in Seq(SyncState)
      /\ open' = [open EXCEPT ![i] = r] /\ r \in ConnectorForm \cup SyncForm
  BY SyncShape DEF Continue, SyncState, SyncRequests
<1>2. Joins(open, i, r, SyncApart(overlapped))
  BY <1>1, SyncAlikeJoins
<1>3. OrderlyBut(open, i, SyncState, SyncApart(overlapped))
  BY <1>1, SyncShape, OthersStay
<1>4. Orderly(open', SyncState, SyncApart(overlapped))
  BY <1>1, <1>2, <1>3, OrderlyReplaced
<1>5. QED
  BY <1>4, SyncKept

(* Two syncs or none: a binding may be changed by other requests.          *)
BindingsMove ==
  \A b \in Bindings : /\ bindings'[b] = "absent" => bindings[b] = "absent"
                      /\ bindings[b] # "absent" => bindings'[b] # "absent"
                      /\ bindings'[b] \in Classes => bindings[b] \in Classes \cup {"absent"}

LEMMA SyncBesideBindings ==
  ASSUME SyncInv, ConnectorInv, NEW i \in DOMAIN open, open' = RemoveAt(open, i), BindingsMove,
         UNCHANGED syncVars
  PROVE  SyncInv'
<1>1. UNCHANGED <<drive, changes, cursor, vault, objects, overlapped>>
  BY DEF syncVars
<1> DEFINE R == ConnectorForm \cup SyncRequests(bindings', overlapped, drive, changes,
                                                cursor, vault, objects)
<1>2. ASSUME NEW k \in DOMAIN open  PROVE open[k] \in R
  <2>1. open[k] \in SyncState
    BY SyncShape
  <2>2. CASE open[k] \in SyncRequests(bindings, overlapped, drive, changes, cursor, vault, objects)
    <3>1. open[k].on \in Bindings
      BY <2>2 DEF SyncRequests, SyncForm
    <3>2. QED
      BY <2>2, <3>1 DEF SyncRequests, BindingsMove
  <2>3. QED
    BY <2>1, <2>2 DEF SyncState
<1>3. Orderly(open', R, SyncApart(overlapped))
  <2> HIDE DEF R
  <2>1. QED
    BY <1>2, SyncShape, Leaves
<1>4. SettingSound(bindings', overlapped, drive, changes, cursor, vault, objects)
  <2>0. SettingSound(bindings, overlapped, drive, changes, cursor, vault, objects)
    BY SyncShape
  <2>1. Untouched(bindings', cursor, vault)
    BY <2>0 DEF SettingSound, Untouched, BindingsMove
  <2>2. Mirrored(bindings', overlapped, drive, cursor, vault, objects)
    <3> SUFFICES ASSUME NEW b \in Bindings, NEW x \in Items, bindings'[b] \in Classes,
                        b \notin overlapped, drive[x].at <= cursor[b]
                 PROVE  /\ drive[x].kind = "file" =>
                             /\ vault[<<b, x>>] = [status |-> "ready", at |-> drive[x].at]
                             /\ objects[<<b, x>>] = drive[x].at
                        /\ drive[x].kind = "absent" => vault[<<b, x>>].status # "ready"
      BY DEF Mirrored
    <3>1. CASE bindings[b] \in Classes
      BY <2>0, <3>1 DEF SettingSound, Mirrored
    <3>2. CASE bindings[b] = "absent"
      <4>1. cursor[b] = 0 /\ vault[<<b, x>>] = NoRow
        BY <2>0, <3>2 DEF SettingSound, Untouched
      <4>2. drive[x].at = 0 /\ drive[x].kind = "absent"
        BY <2>0, <4>1 DEF SettingSound, DriveSound
      <4>3. QED
        BY <4>1, <4>2 DEF NoRow
    <3>3. QED
      BY <3>1, <3>2 DEF BindingsMove
  <2>3. QED
    BY <2>0, <2>1, <2>2 DEF SettingSound
<1>5. QED
  <2>1. SettingSound(bindings', overlapped', drive', changes', cursor', vault', objects')
    BY <1>1, <1>4
  <2>2. Orderly(open', ConnectorForm \cup SyncRequests(bindings', overlapped', drive', changes',
                                                       cursor', vault', objects'),
                SyncApart(overlapped'))
    BY <1>1, <1>3
  <2>3. QED
    BY <2>1, <2>2, SyncWhole

LEMMA SyncBesideBegins ==
  ASSUME SyncInv, NEW r \in ConnectorForm, Begin(r), UNCHANGED <<bindings, syncVars>>
  PROVE  SyncInv'
<1>1. /\ Orderly(open, SyncState, SyncApart(overlapped)) /\ open' = Append(open, r)
      /\ r \in SyncState
  BY SyncShape DEF Begin, SyncState
<1>2. Joins(open, 0, r, SyncApart(overlapped))
  BY SyncShape, SyncIsApart DEF Joins, SyncApart
<1>3. Orderly(open', SyncState, SyncApart(overlapped))
  BY <1>1, <1>2, OrderlyAppended
<1>4. QED
  BY <1>3, SyncKept

LEMMA SyncBesideBindingStep ==
  ASSUME SyncInv, ConnectorInv, BindingStep, UNCHANGED syncVars
  PROVE  SyncInv'
<1>1. ASSUME NEW b \in Bindings, NEW c \in Classes, CheckInstallation(b, c), UNCHANGED connectorVars
      PROVE  SyncInv'
  <2> DEFINE r == ConnectorRequest("connector.bound", b, c, FALSE, {}, {})
  <2>1. r \in ConnectorForm
    BY DEF ConnectorRequest, ConnectorForm, ConnectorActions, ConnectorLocks
  <2>2. Begin(r) /\ UNCHANGED bindings
    BY <1>1 DEF CheckInstallation, connectorVars
  <2> HIDE DEF r
  <2>3. QED
    BY <2>1, <2>2, SyncBesideBegins
<1>2. ASSUME NEW b \in Bindings, DeleteBinding(b), UNCHANGED connectorVars
      PROVE  SyncInv'
  <2> DEFINE r == ConnectorRequest("connector.unbound", b, bindings[b], TRUE,
                                   {<<"binding", b>>}, {})
  <2>1. Begin(r) /\ UNCHANGED bindings /\ bindings[b] \in Classes
    BY <1>2 DEF DeleteBinding, connectorVars
  <2>2. r \in ConnectorForm
    BY <2>1 DEF ConnectorRequest, ConnectorForm, ConnectorActions, ConnectorLocks
  <2> HIDE DEF r
  <2>3. QED
    BY <2>1, <2>2, SyncBesideBegins
<1>3. ASSUME NEW i \in DOMAIN open, InsertBinding(i), UNCHANGED connectorVars  PROVE SyncInv'
  <2> DEFINE r == [open[i] EXCEPT !.ready = TRUE]
  <2>1. Continue(i, r) /\ UNCHANGED bindings /\ open[i] \in ConnectorForm
    BY <1>3, ConnectorShape DEF InsertBinding, connectorVars
  <2>2. r \in ConnectorForm /\ Alike(r, open[i])
    BY <2>1 DEF ConnectorForm, Alike
  <2> HIDE DEF r
  <2>3. QED
    BY <2>1, <2>2, SyncContinues DEF SyncState
<1>4. ASSUME NEW i \in DOMAIN open, CommitBinding(i)  PROVE SyncInv'
  <2>1. /\ open' = RemoveAt(open, i) /\ open[i].action = "connector.bound"
        /\ bindings' = [bindings EXCEPT ![open[i].on] = open[i].class]
    BY <1>4 DEF CommitBinding, Commit
  <2>2. /\ open[i].on \in Bindings /\ bindings[open[i].on] = "absent" /\ open[i].class \in Classes
    BY <2>1, ConnectorShape DEF ConnectorRequests, ConnectorForm
  <2>3. BindingsMove
    BY <2>1, <2>2, ConnectorParts, ClassMarks DEF BindingsMove
  <2>4. QED
    BY <2>1, <2>3, SyncBesideBindings
<1>5. ASSUME NEW i \in DOMAIN open, CommitUnbind(i)  PROVE SyncInv'
  <2>1. /\ open' = RemoveAt(open, i) /\ bindings' = [bindings EXCEPT ![open[i].on] = "removed"]
    BY <1>5 DEF CommitUnbind, Commit
  <2>2. BindingsMove
    BY <2>1, ConnectorParts, ClassMarks DEF BindingsMove
  <2>3. QED
    BY <2>1, <2>2, SyncBesideBindings
<1>6. QED
  BY <1>1, <1>2, <1>3, <1>4, <1>5 DEF BindingStep

SyncGoes == SyncInv' /\ ConnectorGoes
SyncNow == SyncRequests(bindings, overlapped, drive, changes, cursor, vault, objects)

LEMMA DriveChangeGoes ==
  ASSUME SyncInv, ConnectorInv, ChainInv, NEW x \in Items, NEW kind \in {"absent", "file", "skipped"},
         DriveChange(x, kind), UNCHANGED connectorVars
  PROVE  SyncGoes
<1>1. /\ changes < MaxChanges /\ changes' = changes + 1
      /\ drive' = [drive EXCEPT ![x] = [kind |-> kind, at |-> changes + 1]]
      /\ UNCHANGED <<log, open, cursor, vault, objects, overlapped>>
      /\ UNCHANGED bindings
  BY DEF DriveChange, connectorVars
<1>2. /\ SettingSound(bindings, overlapped, drive, changes, cursor, vault, objects)
      /\ changes \in 0..MaxChanges /\ MaxChanges \in Nat
      /\ drive \in [Items -> [kind : {"absent", "file", "skipped"}, at : 0..changes]]
  BY SyncShape, ChangeBound DEF SettingSound, DriveSound
<1>3. /\ drive'[x].kind = kind /\ drive'[x].at = changes + 1
      /\ \A y \in Items \ {x} : drive'[y] = drive[y]
      /\ drive' \in [Items -> [kind : {"absent", "file", "skipped"}, at : 0..(changes + 1)]]
      /\ \A y \in Items : drive[y].at \in 0..changes
  <2>1. [kind |-> kind, at |-> changes + 1]
          \in [kind : {"absent", "file", "skipped"}, at : 0..(changes + 1)]
    BY <1>2
  <2>2. \A y \in Items : drive[y] \in [kind : {"absent", "file", "skipped"}, at : 0..(changes + 1)]
    BY <1>2
  <2>3. QED
    BY <1>1, <1>2, <2>1, <2>2
<1>4. \A b \in Bindings : cursor[b] \in 0..changes
  BY <1>2 DEF SettingSound
<1>5. SettingSound(bindings', overlapped', drive', changes', cursor', vault', objects')
  <2>1. DriveSound(drive', changes')
    <3>1. \A y \in Items : drive'[y].at = 0 => drive'[y].kind = "absent"
      BY <1>2, <1>3 DEF SettingSound, DriveSound
    <3>2. changes' \in 0..MaxChanges
      BY <1>1, <1>2
    <3>3. QED
      BY <1>1, <1>3, <3>1, <3>2 DEF DriveSound
  <2>2. cursor' \in [Bindings -> 0..changes']
    BY <1>1, <1>2 DEF SettingSound
  <2>3. \A b \in Bindings, y \in Items : drive'[y].at <= cursor[b] => y # x
    BY <1>2, <1>3, <1>4
  <2>4. Mirrored(bindings', overlapped', drive', cursor', vault', objects')
    BY <1>1, <1>2, <1>3, <2>3 DEF SettingSound, Mirrored
  <2>5. QED
    BY <1>1, <1>2, <2>1, <2>2, <2>4 DEF SettingSound
<1> DEFINE R == ConnectorForm \cup SyncRequests(bindings', overlapped', drive', changes',
                                                cursor', vault', objects')
<1>6. ASSUME NEW r \in SyncNow  PROVE r \in R
  <2>1. /\ r \in SyncForm /\ r.on \in Bindings /\ r.link \in 0..changes /\ bindings[r.on] # "absent"
        /\ r.seq # 0 => r.ready
    BY <1>2 DEF SyncNow, SyncRequests, SyncForm
  <2>2. ASSUME bindings[r.on] \in Classes, r.on \notin overlapped
        PROVE  SyncSound(drive', cursor', vault', objects', r)
    <3>1. SyncSound(drive, cursor, vault, objects, r)
      BY <2>2 DEF SyncNow, SyncRequests
    <3>2. ASSUME NEW d \in r.todo
          PROVE  /\ cursor[r.on] < d.at /\ d.at <= drive'[d.item].at
                 /\ drive'[d.item].at > r.link
                      \/ (drive'[d.item].at = d.at /\ drive'[d.item].kind = d.kind)
                 /\ r.rows[d.item] = NoRow
                 /\ \A e \in r.todo : e.item = d.item => e = d
      <4>1. d.item \in Items /\ d.at \in Int
        BY <2>1 DEF SyncForm, Change
      <4>2. CASE d.item = x
        <5>1. d.at <= drive[x].at
          BY <3>1, <4>2 DEF SyncSound
        <5>2. d.at <= changes + 1
          BY <1>2, <1>3, <4>1, <5>1
        <5>3. changes + 1 > r.link
          BY <1>2, <2>1
        <5>4. QED
          BY <1>3, <3>1, <4>2, <5>2, <5>3 DEF SyncSound
      <4>3. CASE d.item # x
        BY <1>3, <3>1, <4>1, <4>3 DEF SyncSound
      <4>4. QED
        BY <4>2, <4>3
    <3>3. ASSUME NEW y \in Items, r.rows[y] # NoRow  PROVE cursor[r.on] < drive'[y].at
      <4>1. cursor[r.on] < drive[y].at
        BY <3>1, <3>3 DEF SyncSound
      <4>2. QED
        BY <1>2, <1>3, <1>4, <2>1, <4>1
    <3>4. ASSUME NEW s \in r.stored
          PROVE  /\ s.item \in r.todo /\ s.item.kind = "file"
                 /\ objects[<<r.on, s.item.item>>] = drive'[s.item.item].at
                      \/ drive'[s.item.item].at > r.link
      <4>1. /\ s.item \in r.todo /\ s.item.kind = "file" /\ s.item.item \in Items
            /\ objects[<<r.on, s.item.item>>] = drive[s.item.item].at
                      \/ drive[s.item.item].at > r.link
        BY <2>1, <3>1 DEF SyncSound, SyncForm, Change
      <4>2. changes + 1 > r.link
        BY <1>2, <2>1
      <4>3. QED
        BY <1>3, <4>1, <4>2
    <3>5. ASSUME NEW y \in Items, cursor[r.on] < drive'[y].at, drive'[y].at <= r.link
          PROVE  \/ drive'[y].kind = "skipped"
                 \/ \E d \in r.todo : d.item = y
                 \/ Handled(drive', vault, objects, r, y)
      <4>1. y # x
        BY <1>2, <1>3, <2>1, <3>5
      <4>2. drive'[y] = drive[y]
        BY <1>3, <4>1
      <4>3. \/ drive[y].kind = "skipped"
            \/ \E d \in r.todo : d.item = y
            \/ Handled(drive, vault, objects, r, y)
        BY <3>1, <3>5, <4>2 DEF SyncSound
      <4>4. QED
        BY <4>2, <4>3 DEF Handled
    <3>6. r.ready => r.todo = {}
      BY <3>1 DEF SyncSound
    <3>7. SyncSound(drive', cursor, vault, objects, r)
      BY <3>2, <3>3, <3>4, <3>5, <3>6 DEF SyncSound
    <3>8. QED
      BY <1>1, <3>7
  <2>3. r.link <= changes'
    BY <1>1, <1>2, <2>1
  <2>4. QED
    BY <1>1, <2>1, <2>2, <2>3 DEF SyncRequests
<1>7. Orderly(open', R, SyncApart(overlapped'))
  <2>1. \A k \in DOMAIN open : open[k] \in R
    BY <1>6, SyncShape DEF SyncState, SyncNow
  <2> HIDE DEF R
  <2>2. QED
    BY <1>1, <2>1, SyncShape, OrderlyStays
<1>8. SyncInv'
  BY <1>5, <1>7, SyncWhole
<1>9. ConnectorGoes
  <2>1. Orderly(open', ConnectorState, ConnectorApart)
    BY <1>1, ConnectorShape
  <2>2. ChainInv'
    BY <1>1 DEF ChainInv
  <2>3. QED
    BY <1>1, <2>1, <2>2, ConnectorKept DEF ConnectorGoes
<1>10. QED
  BY <1>8, <1>9 DEF SyncGoes

LEMMA TriggerSyncGoes ==
  ASSUME SyncInv, ConnectorInv, ChainInv, NEW b \in Bindings, TriggerSync(b), UNCHANGED connectorVars
  PROVE  SyncGoes
<1> DEFINE r == [action |-> "connector.sync.completed", on |-> b, class |-> bindings[b],
                 link |-> changes, todo |-> Delta(cursor[b]), stored |-> {},
                 rows |-> [x \in Items |-> NoRow],
                 ready |-> FALSE, locks |-> {}, shares |-> {}, seq |-> 0]
<1>1. /\ bindings[b] \in Catalog!SyncEngines /\ Begin(r)
      /\ overlapped' = IF Syncing(b) = {} THEN overlapped ELSE overlapped \cup {b}
      /\ UNCHANGED <<log, drive, changes, cursor, vault, objects>>
      /\ UNCHANGED bindings
  BY DEF TriggerSync, connectorVars
<1>2. bindings[b] \in Classes /\ bindings[b] # "absent"
  BY <1>1, ConnectorParts DEF Catalog!SyncEngines
<1>3. /\ SettingSound(bindings, overlapped, drive, changes, cursor, vault, objects)
      /\ changes \in 0..MaxChanges /\ MaxChanges \in Nat
      /\ drive \in [Items -> [kind : {"absent", "file", "skipped"}, at : 0..changes]]
  BY SyncShape, ChangeBound DEF SettingSound, DriveSound
<1>4. /\ Delta(cursor[b]) \subseteq Change
      /\ \A d \in Delta(cursor[b]) :
           /\ d.item \in Items /\ cursor[b] < d.at
           /\ d.at = drive[d.item].at /\ d.kind = drive[d.item].kind
           /\ \A e \in Delta(cursor[b]) : e.item = d.item => e = d
      /\ \A x \in Items : drive[x].at > cursor[b] =>
           drive[x].kind = "skipped" \/ \E d \in Delta(cursor[b]) : d.item = x
  <2>1. \A x \in Items : drive[x].kind # "skipped" =>
          [item |-> x, kind |-> drive[x].kind, at |-> drive[x].at] \in Change
    BY <1>3 DEF Change
  <2>2. cursor[b] \in Int /\ \A x \in Items : drive[x].at \in Int
    BY <1>3 DEF SettingSound
  <2>3. Delta(cursor[b]) \subseteq Change
    BY <2>1 DEF Delta
  <2>4. \A d \in Delta(cursor[b]) :
           /\ d.item \in Items /\ cursor[b] < d.at
           /\ d.at = drive[d.item].at /\ d.kind = drive[d.item].kind
           /\ \A e \in Delta(cursor[b]) : e.item = d.item => e = d
    BY <2>2 DEF Delta
  <2>5. \A x \in Items : drive[x].at > cursor[b] =>
           drive[x].kind = "skipped" \/ \E d \in Delta(cursor[b]) : d.item = x
    <3> SUFFICES ASSUME NEW x \in Items, drive[x].at > cursor[b], drive[x].kind # "skipped"
                 PROVE  \E d \in Delta(cursor[b]) : d.item = x
      OBVIOUS
    <3> DEFINE c == [item |-> x, kind |-> drive[x].kind, at |-> drive[x].at]
    <3>1. c \in Delta(cursor[b])
      BY DEF Delta
    <3>2. c.item = x
      OBVIOUS
    <3> HIDE DEF c
    <3>3. QED
      BY <3>1, <3>2
  <2>6. QED
    BY <2>3, <2>4, <2>5
<1>5. r \in SyncForm
  <2>1. [x \in Items |-> NoRow] \in [Items -> VaultRow]
    BY <1>3 DEF NoRow, VaultRow
  <2>2. QED
    BY <1>2, <1>3, <1>4, <2>1 DEF SyncForm
<1>6. /\ r.on = b /\ r.action = "connector.sync.completed" /\ r.seq = 0 /\ r.link = changes
      /\ r.todo = Delta(cursor[b]) /\ r.stored = {} /\ ~r.ready
      /\ \A x \in Items : r.rows[x] = NoRow
  OBVIOUS
<1> HIDE DEF r
<1>7. SyncSound(drive, cursor, vault, objects, r)
  <2>1. \A d \in r.todo : d.at <= drive[d.item].at
    <3>1. \A x \in Items : drive[x].at \in Int
      BY <1>3
    <3>2. QED
      BY <1>4, <1>6, <3>1
  <2>2. QED
    BY <1>4, <1>6, <2>1 DEF SyncSound
<1>8. changes <= changes
  BY <1>3
<1> DEFINE R == ConnectorForm \cup SyncRequests(bindings', overlapped', drive', changes',
                                                cursor', vault', objects')
<1>9. r \in R
  BY <1>1, <1>2, <1>5, <1>6, <1>7, <1>8 DEF SyncRequests
<1>10. \A k \in DOMAIN open : open[k] \in R
  BY <1>1, SyncShape DEF SyncRequests, SyncState
<1>11. Orderly(open, R, SyncApart(overlapped'))
  <2>1. \A p \in SyncApart(overlapped) : p \in SyncApart(overlapped')
    BY <1>1 DEF SyncApart
  <2> HIDE DEF R
  <2>2. Orderly(open, R, SyncApart(overlapped))
    BY <1>10, SyncShape, OrderlyStays
  <2>3. QED
    BY <2>1, <2>2 DEF Orderly
<1>12. Joins(open, 0, r, SyncApart(overlapped'))
  <2> SUFFICES ASSUME NEW k \in DOMAIN open
               PROVE  <<open[k], r>> \in SyncApart(overlapped') /\ <<r, open[k]>> \in SyncApart(overlapped')
    BY DEF Joins
  <2>1. open[k].action = "connector.sync.completed" /\ open[k].on = b => b \in overlapped'
    BY <1>1 DEF Syncing
  <2>2. QED
    BY <1>5, <1>6, <2>1, SyncShape DEF SyncApart
<1>13. Orderly(open', R, SyncApart(overlapped'))
  <2> HIDE DEF R
  <2>1. QED
    BY <1>1, <1>9, <1>11, <1>12, OrderlyAppended DEF Begin
<1>14. SettingSound(bindings', overlapped', drive', changes', cursor', vault', objects')
  BY <1>1, <1>3 DEF SettingSound, Mirrored
<1>15. SyncInv'
  BY <1>13, <1>14, SyncWhole
<1>16. ConnectorGoes
  BY <1>1, <1>5, <1>6, ConnectorBegins DEF ConnectorState
<1>17. QED
  BY <1>15, <1>16 DEF SyncGoes

LEMMA SyncRequestGoes ==
  ASSUME SyncInv, ConnectorInv, ChainInv, NEW i \in DOMAIN open, NEW r \in SyncNow,
         Continue(i, r), Alike(r, open[i]), r.seq = open[i].seq,
         UNCHANGED <<log, syncVars>>, UNCHANGED connectorVars
  PROVE  SyncGoes
<1>1. r \in SyncState /\ r \in ConnectorState
  BY DEF SyncState, ConnectorState, SyncNow, SyncRequests
<1>2. UNCHANGED <<bindings, syncVars>> /\ UNCHANGED <<log, connectorVars>>
  BY DEF connectorVars
<1>3. SyncInv'
  BY <1>1, <1>2, SyncContinues
<1>4. ConnectorGoes
  BY <1>1, <1>2, ConnectorContinues
<1>5. QED
  BY <1>3, <1>4 DEF SyncGoes

(* A sync that has written the row of a change.                            *)
RowAfter(q, d, status) ==
  [q EXCEPT !.todo = @ \ {d},
            !.stored = {},
            !.rows[d.item] = [status |-> status, at |-> d.at],
            !.locks = @ \cup {FileLock(q.on, d)},
            !.shares = @ \cup {<<"binding", q.on>>}]

RowIsWritten(r, q, d, status) ==
  /\ r \in SyncForm /\ Alike(r, q)
  /\ r.link = q.link /\ r.ready = q.ready /\ r.seq = q.seq
  /\ r.todo = q.todo \ {d} /\ r.stored = {}
  /\ \A x \in Items : r.rows[x] = IF x = d.item THEN [status |-> status, at |-> d.at] ELSE q.rows[x]

LEMMA RowAfterIs ==
  ASSUME NEW q \in SyncForm, NEW d \in Change, NEW status \in {"ready", "deleted"}
  PROVE  RowIsWritten(RowAfter(q, d, status), q, d, status)
<1> DEFINE row == [status |-> status, at |-> d.at]
           rows == [q.rows EXCEPT ![d.item] = row]
           locks == q.locks \cup {FileLock(q.on, d)}
           shares == q.shares \cup {<<"binding", q.on>>}
<1>1. /\ q.rows \in [Items -> VaultRow] /\ d.item \in Items /\ row \in VaultRow /\ q.on \in Bindings
      /\ q.todo \subseteq Change
  BY DEF SyncForm, Change, VaultRow
<1>2. rows \in [Items -> VaultRow] /\ \A x \in Items : rows[x] = IF x = d.item THEN row ELSE q.rows[x]
  BY <1>1
<1>3. /\ locks \subseteq ({"file"} \X Bindings \X Items) \cup ({"config"} \X Bindings)
      /\ shares \subseteq {"binding"} \X Bindings
  BY <1>1 DEF SyncForm, FileLock
<1>4. RowAfter(q, d, status) = [q EXCEPT !.todo = q.todo \ {d}, !.stored = {}, !.rows = rows,
                                         !.locks = locks, !.shares = shares]
  BY DEF RowAfter, SyncForm
<1> DEFINE todo == q.todo \ {d}
           r == [q EXCEPT !.todo = todo, !.stored = {}, !.rows = rows, !.locks = locks,
                          !.shares = shares]
<1>5. todo \subseteq Change
  BY <1>1
<1> HIDE DEF rows, locks, shares, todo
<1>6. r \in SyncForm
  BY <1>2, <1>3, <1>5 DEF SyncForm
<1>7. /\ r.action = q.action /\ r.on = q.on /\ r.link = q.link /\ r.ready = q.ready
      /\ r.seq = q.seq /\ r.todo = todo /\ r.stored = {} /\ r.rows = rows
  BY DEF SyncForm
<1> HIDE DEF r
<1>8. RowIsWritten(r, q, d, status)
  BY <1>2, <1>6, <1>7 DEF RowIsWritten, Alike, todo
<1>9. QED
  BY <1>4, <1>8 DEF r, todo

LEMMA SoundParts ==
  ASSUME NEW disk, NEW seen, NEW rowOf, NEW bytes, NEW q, SyncSound(disk, seen, rowOf, bytes, q)
  PROVE  /\ \A d \in q.todo :
              /\ seen[q.on] < d.at /\ d.at <= disk[d.item].at
              /\ disk[d.item].at > q.link \/ (disk[d.item].at = d.at /\ disk[d.item].kind = d.kind)
              /\ q.rows[d.item] = NoRow
              /\ \A e \in q.todo : e.item = d.item => e = d
         /\ \A x \in Items : q.rows[x] # NoRow => seen[q.on] < disk[x].at
         /\ \A s \in q.stored :
              /\ s.item \in q.todo /\ s.item.kind = "file"
              /\ bytes[<<q.on, s.item.item>>] = disk[s.item.item].at
                   \/ disk[s.item.item].at > q.link
         /\ q.ready => q.todo = {}
         /\ \A x \in Items : seen[q.on] < disk[x].at /\ disk[x].at <= q.link =>
              \/ disk[x].kind = "skipped"
              \/ \E d \in q.todo : d.item = x
              \/ Handled(disk, rowOf, bytes, q, x)
BY Zenon DEF SyncSound

LEMMA RowSound ==
  ASSUME SyncInv, NEW q \in SyncForm, SyncSound(drive, cursor, vault, objects, q),
         NEW d \in q.todo, NEW status \in {"ready", "deleted"},
         status = "ready" => \E s \in q.stored : s.item = d,
         status = "deleted" => d.kind = "absent"
  PROVE  SyncSound(drive, cursor, vault, objects, RowAfter(q, d, status))
<1> DEFINE r == RowAfter(q, d, status)  a == q.on  x0 == d.item
<1>1. d \in Change /\ x0 \in Items /\ q.todo \subseteq Change /\ q.link \in Int /\ d.at \in Int
  BY DEF SyncForm, Change
<1>2. /\ r.on = a /\ r.link = q.link /\ r.ready = q.ready
      /\ r.todo = q.todo \ {d} /\ r.stored = {}
      /\ \A x \in Items : r.rows[x] = IF x = x0 THEN [status |-> status, at |-> d.at] ELSE q.rows[x]
  <2>1. RowIsWritten(r, q, d, status)
    BY <1>1, RowAfterIs
  <2> HIDE DEF r
  <2>2. QED
    BY <2>1 DEF RowIsWritten, Alike
<1>3. /\ cursor[a] < d.at /\ d.at <= drive[x0].at
      /\ drive[x0].at > q.link \/ (drive[x0].at = d.at /\ drive[x0].kind = d.kind)
      /\ \A e \in q.todo : e.item = x0 => e = d
  BY SoundParts
<1>4. cursor[a] \in Int /\ \A x \in Items : drive[x].at \in Int
  BY SyncShape DEF SettingSound, DriveSound, SyncForm
<1> HIDE DEF r, a, x0
<1>5. ASSUME NEW e \in r.todo
      PROVE  /\ cursor[a] < e.at /\ e.at <= drive[e.item].at
             /\ drive[e.item].at > q.link \/ (drive[e.item].at = e.at /\ drive[e.item].kind = e.kind)
             /\ r.rows[e.item] = NoRow
             /\ \A f \in r.todo : f.item = e.item => f = e
  <2>1. e \in q.todo /\ e # d /\ e.item # x0 /\ e.item \in Items
    BY <1>1, <1>2, <1>3 DEF Change
  <2>2. r.rows[e.item] = q.rows[e.item]
    BY <1>2, <2>1
  <2>3. QED
    BY <1>2, <2>1, <2>2, SoundParts DEF a
<1>6. ASSUME NEW x \in Items, r.rows[x] # NoRow  PROVE cursor[a] < drive[x].at
  <2>1. CASE x = x0
    BY <1>1, <1>3, <1>4, <2>1
  <2>2. CASE x # x0
    BY <1>2, <1>6, <2>2, SoundParts DEF a
  <2>3. QED
    BY <2>1, <2>2
<1>7. r.ready => r.todo = {}
  BY <1>2, SoundParts
<1>8. ASSUME NEW x \in Items, cursor[a] < drive[x].at, drive[x].at <= q.link
      PROVE  \/ drive[x].kind = "skipped"
             \/ \E e \in r.todo : e.item = x
             \/ Handled(drive, vault, objects, r, x)
  <2>1. CASE x = x0
    <3>1. drive[x].at = d.at /\ drive[x].kind = d.kind
      BY <1>1, <1>3, <1>4, <1>8, <2>1
    <3>2. r.rows[x] = [status |-> status, at |-> d.at]
      BY <1>2, <2>1
    <3>3. CASE status = "ready"
      <4>1. PICK s \in q.stored : s.item = d
        BY <3>3
      <4>2. d.kind = "file" /\ (objects[<<a, x>>] = drive[x].at \/ drive[x].at > q.link)
        <5>1. /\ s.item.kind = "file"
              /\ objects[<<q.on, s.item.item>>] = drive[s.item.item].at
                   \/ drive[s.item.item].at > q.link
          BY SoundParts
        <5>2. QED
          BY <2>1, <4>1, <5>1 DEF a, x0
      <4>3. objects[<<a, x>>] = drive[x].at
        BY <1>1, <1>4, <1>8, <4>2
      <4>4. QED
        BY <1>2, <3>1, <3>2, <3>3, <4>2, <4>3 DEF Handled
    <3>4. CASE status = "deleted"
      BY <3>1, <3>2, <3>4 DEF Handled, NoRow
    <3>5. QED
      BY <3>3, <3>4
  <2>2. CASE x # x0
    <3>1. r.rows[x] = q.rows[x]
      BY <1>2, <2>2
    <3>2. \/ drive[x].kind = "skipped"
          \/ \E e \in q.todo : e.item = x
          \/ Handled(drive, vault, objects, q, x)
      BY <1>8, SoundParts DEF a
    <3>3. ASSUME NEW e \in q.todo, e.item = x  PROVE e \in r.todo
      BY <1>2, <2>2, <3>3 DEF x0
    <3>4. Handled(drive, vault, objects, q, x) => Handled(drive, vault, objects, r, x)
      BY <1>2, <3>1 DEF Handled, a
    <3>5. QED
      BY <3>2, <3>3, <3>4
  <2>3. QED
    BY <2>1, <2>2
<1>9. QED
  <2>1. SyncSound(drive, cursor, vault, objects, r)
    BY <1>2, <1>5, <1>6, <1>7, <1>8 DEF SyncSound
  <2>2. QED
    BY <2>1 DEF r

LEMMA WrittenGoes ==
  ASSUME SyncInv, ConnectorInv, ChainInv, NEW i \in DOMAIN open, NEW d,
         open[i].action = "connector.sync.completed", NEW status \in {"ready", "deleted"},
         d \in open[i].todo \/ \E s \in open[i].stored : s.item = d,
         status = "ready" => \E s \in open[i].stored : s.item = d,
         status = "deleted" => d.kind = "absent",
         RowWritten(i, d, status), UNCHANGED <<log, syncVars>>, UNCHANGED connectorVars
  PROVE  SyncGoes
<1> DEFINE q == open[i]  r == RowAfter(q, d, status)
<1>1. q \in SyncForm /\ q \in SyncNow
  BY SyncShape DEF SyncNow
<1>2. d \in Change
  BY <1>1 DEF SyncForm
<1>3. Continue(i, r)
  BY Zenon DEF RowWritten, RowAfter
<1>4. /\ r \in SyncForm /\ Alike(r, q) /\ r.link = q.link /\ r.ready = q.ready /\ r.seq = q.seq
  <2>1. RowIsWritten(r, q, d, status)
    BY <1>1, <1>2, RowAfterIs
  <2> HIDE DEF r
  <2>2. QED
    BY <2>1 DEF RowIsWritten
<1>5. ASSUME bindings[r.on] \in Classes, r.on \notin overlapped
      PROVE  SyncSound(drive, cursor, vault, objects, r)
  <2>1. SyncSound(drive, cursor, vault, objects, q)
    BY <1>1, <1>4, <1>5 DEF SyncNow, SyncRequests, Alike
  <2>2. d \in q.todo
    <3>1. \A s \in q.stored : s.item \in q.todo
      BY <2>1, SoundParts
    <3>2. QED
      BY <3>1
  <2>3. QED
    BY <1>1, <2>1, <2>2, RowSound
<1> HIDE DEF r
<1>6. r \in SyncNow
  BY <1>1, <1>4, <1>5 DEF SyncNow, SyncRequests, Alike
<1>7. QED
  BY <1>3, <1>4, <1>6, SyncRequestGoes

LEMMA DeleteItemGoes ==
  ASSUME SyncInv, ConnectorInv, ChainInv, NEW i \in DOMAIN open, NEW d, DeleteItem(i, d),
         UNCHANGED connectorVars
  PROVE  SyncGoes
<1> DEFINE q == open[i]  r == [q EXCEPT !.todo = @ \ {d}]
<1>1. /\ q.action = "connector.sync.completed" /\ ~q.ready /\ d \in q.todo /\ d.kind = "absent"
      /\ q.stored = {} /\ UNCHANGED <<log, syncVars>>
  BY DEF DeleteItem, Walking, Busy
<1>2. CASE vault[Key(i, d)].status = "ready" /\ bindings[q.on] # "removed"
  <2>1. RowWritten(i, d, "deleted")
    BY <1>2 DEF DeleteItem
  <2>2. QED
    BY <1>1, <2>1, WrittenGoes
<1>3. CASE ~(vault[Key(i, d)].status = "ready" /\ bindings[q.on] # "removed")
  <2>1. Continue(i, r)
    BY <1>3 DEF DeleteItem
  <2>2. q \in SyncForm /\ q \in SyncNow
    BY <1>1, SyncShape DEF SyncNow
  <2>3. /\ r \in SyncForm /\ Alike(r, q) /\ r.link = q.link /\ r.ready = q.ready /\ r.seq = q.seq
        /\ r.todo = q.todo \ {d} /\ r.stored = {} /\ r.rows = q.rows
    BY <1>1, <2>2 DEF SyncForm, Alike
  <2> HIDE DEF q, r
  <2>4. ASSUME bindings[q.on] \in Classes, q.on \notin overlapped
        PROVE  SyncSound(drive, cursor, vault, objects, r)
    <3>1. SyncSound(drive, cursor, vault, objects, q)
      BY <2>2, <2>4 DEF SyncNow, SyncRequests
    <3>2. vault[<<q.on, d.item>>].status # "ready"
      BY <1>3, <2>4, ClassMarks DEF Key, q
    <3>3. \A e \in r.todo :
            /\ cursor[r.on] < e.at /\ e.at <= drive[e.item].at
            /\ drive[e.item].at > r.link \/ (drive[e.item].at = e.at /\ drive[e.item].kind = e.kind)
            /\ r.rows[e.item] = NoRow
            /\ \A f \in r.todo : f.item = e.item => f = e
      BY <2>3, <3>1, SoundParts DEF Alike
    <3>4. /\ \A x \in Items : r.rows[x] # NoRow => cursor[r.on] < drive[x].at
          /\ r.ready => r.todo = {}
      BY <2>3, <3>1, SoundParts DEF Alike
    <3>5. ASSUME NEW x \in Items, cursor[r.on] < drive[x].at, drive[x].at <= r.link
          PROVE  \/ drive[x].kind = "skipped"
                 \/ \E e \in r.todo : e.item = x
                 \/ Handled(drive, vault, objects, r, x)
      <4>1. \/ drive[x].kind = "skipped"
            \/ \E e \in q.todo : e.item = x
            \/ Handled(drive, vault, objects, q, x)
        BY <2>3, <3>1, <3>5, SoundParts DEF Alike
      <4>2. CASE d.item = x
        <5>1. /\ q.rows[x] = NoRow
              /\ drive[x].at > q.link \/ drive[x].kind = d.kind
          BY <1>1, <3>1, <4>2, SoundParts DEF q
        <5>2. drive[x].kind = "absent"
          <6>1. drive[x].at \in Int /\ q.link \in Int
            BY <2>2, SyncShape DEF SettingSound, DriveSound, SyncForm
          <6>2. QED
            BY <1>1, <2>3, <3>5, <5>1, <6>1
        <5>3. QED
          BY <2>3, <3>2, <4>2, <5>1, <5>2 DEF Handled, Alike
      <4>3. CASE d.item # x
        <5>1. \A e \in q.todo : e.item = x => e \in r.todo
          BY <2>3, <4>3
        <5>2. Handled(drive, vault, objects, q, x) => Handled(drive, vault, objects, r, x)
          BY <2>3 DEF Handled, Alike
        <5>3. QED
          BY <4>1, <5>1, <5>2
      <4>4. QED
        BY <4>2, <4>3
    <3>6. QED
      BY <2>3, <3>3, <3>4, <3>5 DEF SyncSound
  <2>5. r \in SyncNow
    BY <2>2, <2>3, <2>4 DEF SyncNow, SyncRequests, Alike
  <2>6. QED
    BY <1>1, <2>1, <2>3, <2>5, SyncRequestGoes DEF q
<1>4. QED
  BY <1>2, <1>3

LEMMA WriteItemGoes ==
  ASSUME SyncInv, ConnectorInv, ChainInv, NEW i \in DOMAIN open, WriteItem(i),
         UNCHANGED connectorVars
  PROVE  SyncGoes
<1>1. /\ open[i].action = "connector.sync.completed" /\ UNCHANGED <<log, syncVars>>
  BY DEF WriteItem, Walking
<1>2. PICK s \in open[i].stored : RowWritten(i, s.item, "ready")
  BY DEF WriteItem
<1>3. QED
  BY <1>1, <1>2, WrittenGoes

LEMMA WriteCursorGoes ==
  ASSUME SyncInv, ConnectorInv, ChainInv, NEW i \in DOMAIN open, WriteCursor(i),
         UNCHANGED connectorVars
  PROVE  SyncGoes
<1> DEFINE q == open[i]  locks == q.locks \cup {<<"config", q.on>>}
           r == [q EXCEPT !.ready = TRUE, !.locks = locks]
<1>1. /\ q.action = "connector.sync.completed" /\ q.todo = {} /\ q.stored = {}
      /\ Continue(i, r) /\ UNCHANGED <<log, syncVars>>
  BY DEF WriteCursor, Walking, Busy
<1>2. q \in SyncForm /\ q \in SyncNow
  BY <1>1, SyncShape DEF SyncNow
<1>3. locks \subseteq ({"file"} \X Bindings \X Items) \cup ({"config"} \X Bindings)
  BY <1>2 DEF SyncForm
<1> HIDE DEF q, locks
<1>4. /\ r \in SyncForm /\ Alike(r, q) /\ r.link = q.link /\ r.ready /\ r.seq = q.seq
      /\ r.todo = {} /\ r.stored = {} /\ r.rows = q.rows
  BY <1>1, <1>2, <1>3 DEF SyncForm, Alike
<1> HIDE DEF r
<1>5. ASSUME bindings[q.on] \in Classes, q.on \notin overlapped
      PROVE  SyncSound(drive, cursor, vault, objects, r)
  <2>1. SyncSound(drive, cursor, vault, objects, q)
    BY <1>2, <1>5 DEF SyncNow, SyncRequests
  <2>2. \A x : Handled(drive, vault, objects, q, x) => Handled(drive, vault, objects, r, x)
    BY <1>4 DEF Handled, Alike
  <2>3. /\ \A x \in Items : r.rows[x] # NoRow => cursor[r.on] < drive[x].at
        /\ \A x \in Items : cursor[r.on] < drive[x].at /\ drive[x].at <= r.link =>
             drive[x].kind = "skipped" \/ Handled(drive, vault, objects, r, x)
    BY <1>1, <1>4, <2>1, <2>2, SoundParts DEF Alike
  <2>4. QED
    BY <1>4, <2>3 DEF SyncSound
<1>6. r \in SyncNow
  BY <1>2, <1>4, <1>5 DEF SyncNow, SyncRequests, Alike
<1>7. QED
  BY <1>1, <1>4, <1>6, SyncRequestGoes DEF q

(* What the syncs of the other bindings see is untouched.                  *)
LEMMA SoundElsewhere ==
  ASSUME NEW disk, NEW seen, NEW rowOf, NEW bytes, NEW seen2, NEW rowOf2, NEW bytes2,
         NEW q \in SyncForm, SyncSound(disk, seen, rowOf, bytes, q), seen2[q.on] = seen[q.on],
         \A x \in Items : rowOf2[<<q.on, x>>] = rowOf[<<q.on, x>>]
                          /\ bytes2[<<q.on, x>>] = bytes[<<q.on, x>>]
  PROVE  SyncSound(disk, seen2, rowOf2, bytes2, q)
<1>1. \A s \in q.stored : s.item.item \in Items
  BY DEF SyncForm, Change
<1>2. \A x \in Items : Handled(disk, rowOf, bytes, q, x) <=> Handled(disk, rowOf2, bytes2, q, x)
  BY DEF Handled
<1>3. /\ \A d \in q.todo :
           /\ seen2[q.on] < d.at /\ d.at <= disk[d.item].at
           /\ disk[d.item].at > q.link \/ (disk[d.item].at = d.at /\ disk[d.item].kind = d.kind)
           /\ q.rows[d.item] = NoRow
           /\ \A e \in q.todo : e.item = d.item => e = d
      /\ \A x \in Items : q.rows[x] # NoRow => seen2[q.on] < disk[x].at
      /\ q.ready => q.todo = {}
  BY SoundParts
<1>4. \A s \in q.stored :
        /\ s.item \in q.todo /\ s.item.kind = "file"
        /\ bytes2[<<q.on, s.item.item>>] = disk[s.item.item].at
             \/ disk[s.item.item].at > q.link
  BY <1>1, SoundParts
<1>5. \A x \in Items : seen2[q.on] < disk[x].at /\ disk[x].at <= q.link =>
        \/ disk[x].kind = "skipped"
        \/ \E d \in q.todo : d.item = x
        \/ Handled(disk, rowOf2, bytes2, q, x)
  BY <1>2, SoundParts
<1>6. QED
  BY <1>3, <1>4, <1>5, Zenon DEF SyncSound

SameElsewhere(a, seen2, rowOf2, bytes2) ==
  \A b \in Bindings \ {a} :
    /\ seen2[b] = cursor[b]
    /\ \A x \in Items : rowOf2[<<b, x>>] = vault[<<b, x>>] /\ bytes2[<<b, x>>] = objects[<<b, x>>]

LEMMA OtherSyncsStay ==
  ASSUME SyncInv, NEW i \in DOMAIN open, open[i].action = "connector.sync.completed",
         NEW seen2, NEW rowOf2, NEW bytes2, SameElsewhere(open[i].on, seen2, rowOf2, bytes2)
  PROVE  \A k \in DOMAIN open \ {i} :
           open[k] \in ConnectorForm \cup
                       SyncRequests(bindings, overlapped, drive, changes, seen2, rowOf2, bytes2)
<1> SUFFICES ASSUME NEW k \in DOMAIN open \ {i}, open[k] \notin ConnectorForm
             PROVE  open[k] \in SyncRequests(bindings, overlapped, drive, changes, seen2, rowOf2, bytes2)
  OBVIOUS
<1>1. open[k] \in SyncNow /\ open[k] \in SyncForm /\ open[k].on \in Bindings
      /\ open[k].action = "connector.sync.completed" /\ open[i] \in SyncForm
  BY SyncShape DEF SyncState, SyncNow, SyncRequests, SyncForm
<1>2. open[k].on \notin overlapped => open[k].on # open[i].on
  <2>1. <<open[k], open[i]>> \in SyncApart(overlapped)
    BY SyncShape
  <2>2. QED
    BY <1>1, <2>1 DEF SyncApart
<1>3. bindings[open[k].on] \in Classes /\ open[k].on \notin overlapped
        => SyncSound(drive, seen2, rowOf2, bytes2, open[k])
  BY <1>1, <1>2, SoundElsewhere DEF SyncNow, SyncRequests, SameElsewhere
<1>4. QED
  BY <1>1, <1>3 DEF SyncNow, SyncRequests

LEMMA StoreItemGoes ==
  ASSUME SyncInv, ConnectorInv, ChainInv, NEW i \in DOMAIN open, NEW d, StoreItem(i, d),
         UNCHANGED connectorVars
  PROVE  SyncGoes
<1> DEFINE q == open[i]  a == q.on  known == vault[Key(i, d)].status # "none" /\ bindings[a] # "removed"
           s0 == [item |-> d, known |-> known]  r == [q EXCEPT !.stored = {s0}]
<1>1. /\ q.action = "connector.sync.completed" /\ ~q.ready /\ d \in q.todo /\ d.kind = "file"
      /\ objects' = [objects EXCEPT ![<<a, d.item>>] = drive[d.item].at]
      /\ Continue(i, r)
      /\ UNCHANGED <<log, bindings, drive, changes, cursor, vault, overlapped>>
  BY DEF StoreItem, Walking, Key, connectorVars
<1>2. q \in SyncForm /\ q \in SyncNow /\ d \in Change /\ a \in Bindings /\ d.item \in Items
  BY <1>1, SyncShape DEF SyncNow, SyncForm, Change
<1>3. SettingSound(bindings, overlapped, drive, changes, cursor, vault, objects)
  BY SyncShape
<1>4. /\ drive[d.item].at \in 0..MaxChanges
      /\ objects \in [Keys -> 0..MaxChanges] /\ <<a, d.item>> \in Keys
  BY <1>2, <1>3, ChangeBound DEF SettingSound, DriveSound, Keys
<1>5. /\ objects' \in [Keys -> 0..MaxChanges] /\ objects'[<<a, d.item>>] = drive[d.item].at
      /\ \A b \in Bindings, x \in Items : b # a \/ x # d.item => objects'[<<b, x>>] = objects[<<b, x>>]
  BY <1>1, <1>2, <1>4 DEF Keys
<1>6. known \in BOOLEAN /\ s0.item = d /\ s0.known = known
  OBVIOUS
<1> HIDE DEF known
<1>7. s0 \in [item : Change, known : BOOLEAN]
  BY <1>2, <1>6
<1> HIDE DEF s0, q
<1>8. /\ r \in SyncForm /\ Alike(r, q) /\ r.link = q.link /\ r.ready = q.ready /\ r.seq = q.seq
      /\ r.todo = q.todo /\ r.stored = {s0} /\ r.rows = q.rows
  BY <1>2, <1>7 DEF SyncForm, Alike
<1> HIDE DEF r
<1> DEFINE R == ConnectorForm \cup SyncRequests(bindings, overlapped, drive, changes,
                                                cursor, vault, objects')
<1>9. ASSUME bindings[a] \in Classes, a \notin overlapped
      PROVE  SyncSound(drive, cursor, vault, objects', r)
  <2>1. SyncSound(drive, cursor, vault, objects, q)
    BY <1>2, <1>9 DEF SyncNow, SyncRequests, a
  <2>2. /\ \A e \in r.todo :
              /\ cursor[r.on] < e.at /\ e.at <= drive[e.item].at
              /\ drive[e.item].at > r.link \/ (drive[e.item].at = e.at /\ drive[e.item].kind = e.kind)
              /\ r.rows[e.item] = NoRow
              /\ \A f \in r.todo : f.item = e.item => f = e
        /\ \A x \in Items : r.rows[x] # NoRow => cursor[r.on] < drive[x].at
        /\ r.ready => r.todo = {}
    BY <1>8, <2>1, SoundParts DEF Alike
  <2>3. \A s \in r.stored :
          /\ s.item \in r.todo /\ s.item.kind = "file"
          /\ objects'[<<r.on, s.item.item>>] = drive[s.item.item].at
               \/ drive[s.item.item].at > r.link
    BY <1>1, <1>5, <1>6, <1>8 DEF Alike, q, a
  <2>4. ASSUME NEW x \in Items, cursor[r.on] < drive[x].at, drive[x].at <= r.link
        PROVE  \/ drive[x].kind = "skipped"
               \/ \E e \in r.todo : e.item = x
               \/ Handled(drive, vault, objects', r, x)
    <3>1. CASE x = d.item
      BY <1>1, <1>8, <3>1 DEF q
    <3>2. CASE x # d.item
      <4>1. Handled(drive, vault, objects, q, x) => Handled(drive, vault, objects', r, x)
        BY <1>2, <1>5, <1>8, <3>2 DEF Handled, Alike, a
      <4>2. QED
        BY <1>8, <2>1, <2>4, <4>1, SoundParts DEF Alike
    <3>3. QED
      BY <3>1, <3>2
  <2>5. QED
    BY <2>2, <2>3, <2>4 DEF SyncSound
<1>10. r \in R
  BY <1>2, <1>8, <1>9 DEF SyncNow, SyncRequests, Alike, a
<1>11. \A k \in DOMAIN open \ {i} : open[k] \in R
  <2>1. SameElsewhere(open[i].on, cursor, vault, objects')
    BY <1>5 DEF SameElsewhere, a, q
  <2>2. QED
    BY <1>1, <2>1, OtherSyncsStay DEF q
<1>12. Orderly(open', R, SyncApart(overlapped))
  <2> HIDE DEF R
  <2>1. OrderlyBut(open, i, R, SyncApart(overlapped))
    BY <1>11, SyncShape, OthersStay
  <2>2. Joins(open, i, r, SyncApart(overlapped))
    BY <1>8, SyncAlikeJoins DEF q
  <2>3. open \in Seq(SyncState) /\ open' = [open EXCEPT ![i] = r]
    BY <1>1, SyncShape DEF Continue
  <2>4. QED
    BY <1>10, <2>1, <2>2, <2>3, OrderlyReplaced
<1>13. Mirrored(bindings, overlapped, drive, cursor, vault, objects')
  BY <1>3, <1>5 DEF SettingSound, Mirrored
<1>14. SettingSound(bindings, overlapped, drive, changes, cursor, vault, objects')
  BY <1>3, <1>5, <1>13 DEF SettingSound
<1>15. SyncInv'
  <2>1. SettingSound(bindings', overlapped', drive', changes', cursor', vault', objects')
    BY <1>1, <1>14
  <2>2. Orderly(open', ConnectorForm \cup SyncRequests(bindings', overlapped', drive', changes',
                                                       cursor', vault', objects'),
                SyncApart(overlapped'))
    BY <1>1, <1>12
  <2>3. QED
    BY <2>1, <2>2, SyncWhole
<1>16. ConnectorGoes
  BY <1>1, <1>8, ConnectorContinues DEF ConnectorState, q
<1>17. QED
  BY <1>15, <1>16 DEF SyncGoes

LEMMA CommitSyncGoes ==
  ASSUME SyncInv, ConnectorInv, ChainInv, NEW i \in DOMAIN open, CommitSync(i),
         UNCHANGED connectorVars
  PROVE  SyncGoes
<1> DEFINE q == open[i]  a == q.on
<1>1. /\ q.action = "connector.sync.completed" /\ Commit(i, q.class)
      /\ vault' = VaultAfter(i)
      /\ cursor' = IF bindings[a] = "removed" THEN cursor ELSE [cursor EXCEPT ![a] = q.link]
      /\ UNCHANGED <<bindings, drive, changes, objects, overlapped>>
  BY DEF CommitSync, CursorAfter, connectorVars
<1>2. /\ q \in SyncForm /\ q \in SyncNow /\ a \in Bindings /\ q.rows \in [Items -> VaultRow]
      /\ bindings[a] # "absent" /\ q.link \in 0..changes
  <2>1. changes \in Nat
    BY SyncShape, ChangeBound DEF SettingSound, DriveSound
  <2>2. q \in SyncForm /\ q \in SyncNow
    BY <1>1, SyncShape DEF SyncNow
  <2>3. q.link \in Nat
    BY <2>2, ChangeBound DEF SyncForm
  <2>4. QED
    BY <2>1, <2>2, <2>3 DEF SyncNow, SyncForm, SyncRequests
<1>3. q.ready
  <2>1. log \in Seq(ConnectorEntries)
    BY ConnectorShape
  <2>2. q.seq = Len(log) + 1 /\ Len(log) \in Nat
    BY <1>1, <2>1, LenProperties DEF Commit, MayCommit
  <2>3. QED
    BY <1>2, <2>2 DEF SyncNow, SyncRequests
<1>4. SettingSound(bindings, overlapped, drive, changes, cursor, vault, objects)
  BY SyncShape
<1>5. /\ vault' \in [Keys -> VaultRow]
      /\ \A b \in Bindings, x \in Items :
           vault'[<<b, x>>] = IF b = a /\ q.rows[x] # NoRow THEN q.rows[x] ELSE vault[<<b, x>>]
  <2>1. vault \in [Keys -> VaultRow]
    BY <1>4 DEF SettingSound
  <2>2. \A k \in Keys : k[1] \in Bindings /\ k[2] \in Items
    BY DEF Keys
  <2>3. vault' = [k \in Keys |-> IF k[1] = a /\ q.rows[k[2]] # NoRow THEN q.rows[k[2]] ELSE vault[k]]
    BY <1>1 DEF VaultAfter
  <2>4. \A b \in Bindings, x \in Items : <<b, x>> \in Keys /\ <<b, x>>[1] = b /\ <<b, x>>[2] = x
    BY DEF Keys
  <2> HIDE DEF q, a
  <2>5. vault' \in [Keys -> VaultRow]
    <3>1. \A k \in Keys : q.rows[k[2]] \in VaultRow /\ vault[k] \in VaultRow
      BY <1>2, <2>1, <2>2
    <3>2. QED
      BY <2>3, <3>1
  <2>6. QED
    BY <2>3, <2>4, <2>5
<1>6. /\ cursor' \in [Bindings -> 0..changes]
      /\ bindings[a] \in Classes => cursor'[a] = q.link
      /\ \A b \in Bindings \ {a} : cursor'[b] = cursor[b]
  BY <1>1, <1>2, <1>4, ClassMarks DEF SettingSound
<1>7. Untouched(bindings, cursor', vault')
  BY <1>2, <1>4, <1>5, <1>6 DEF SettingSound, Untouched
<1>8. Mirrored(bindings, overlapped, drive, cursor', vault', objects)
  <2> SUFFICES ASSUME NEW b \in Bindings, NEW x \in Items, bindings[b] \in Classes,
                      b \notin overlapped, drive[x].at <= cursor'[b]
               PROVE  /\ drive[x].kind = "file" =>
                           /\ vault'[<<b, x>>] = [status |-> "ready", at |-> drive[x].at]
                           /\ objects[<<b, x>>] = drive[x].at
                      /\ drive[x].kind = "absent" => vault'[<<b, x>>].status # "ready"
    BY DEF Mirrored
  <2>1. CASE b # a
    BY <1>4, <1>5, <1>6, <2>1 DEF SettingSound, Mirrored
  <2>2. CASE b = a
    <3>1. SyncSound(drive, cursor, vault, objects, q)
      BY <1>2, <2>2 DEF SyncNow, SyncRequests
    <3>2. /\ drive[x].at \in Int /\ cursor[a] \in Int /\ drive[x].at <= q.link
      BY <1>2, <1>4, <1>6, <2>2 DEF SettingSound, DriveSound
    <3>3. CASE drive[x].at <= cursor[a]
      <4>1. q.rows[x] = NoRow
        BY <3>1, <3>2, <3>3, SoundParts
      <4>2. vault'[<<b, x>>] = vault[<<b, x>>]
        BY <1>5, <4>1
      <4>3. QED
        BY <1>4, <2>2, <3>3, <4>2 DEF SettingSound, Mirrored
    <3>4. CASE cursor[a] < drive[x].at
      <4>1. drive[x].kind = "skipped" \/ Handled(drive, vault, objects, q, x)
        BY <1>3, <3>1, <3>2, <3>4, SoundParts
      <4>2. vault'[<<a, x>>] = IF q.rows[x] # NoRow THEN q.rows[x] ELSE vault[<<a, x>>]
        BY <1>5, <2>2
      <4> HIDE DEF a, q
      <4>3. CASE drive[x].kind = "file"
        <5>1. q.rows[x] = [status |-> "ready", at |-> drive[x].at] /\ objects[<<a, x>>] = drive[x].at
          BY <4>1, <4>3 DEF Handled, a
        <5>2. q.rows[x] # NoRow
          BY <5>1 DEF NoRow
        <5>3. QED
          BY <2>2, <4>2, <4>3, <5>1, <5>2
      <4>4. CASE drive[x].kind = "absent"
        <5>1. IF q.rows[x] # NoRow THEN q.rows[x].status = "deleted"
              ELSE vault[<<a, x>>].status # "ready"
          BY <4>1, <4>4 DEF Handled, a
        <5>2. QED
          BY <2>2, <4>2, <4>4, <5>1
      <4>5. QED
        BY <4>3, <4>4
    <3>5. QED
      BY <3>2, <3>3, <3>4
  <2>3. QED
    BY <2>1, <2>2
<1>9. SettingSound(bindings, overlapped, drive, changes, cursor', vault', objects)
  BY <1>4, <1>5, <1>6, <1>7, <1>8 DEF SettingSound
<1> DEFINE R == ConnectorForm \cup SyncRequests(bindings, overlapped, drive, changes,
                                                cursor', vault', objects)
<1>10. \A k \in DOMAIN open \ {i} : open[k] \in R
  <2>1. SameElsewhere(open[i].on, cursor', vault', objects)
    BY <1>5, <1>6 DEF SameElsewhere
  <2>2. QED
    BY <1>1, <2>1, OtherSyncsStay
<1>11. Orderly(open', R, SyncApart(overlapped))
  <2> HIDE DEF R
  <2>1. OrderlyBut(open, i, R, SyncApart(overlapped))
    BY <1>10, SyncShape, OthersStay
  <2>2. open \in Seq(SyncState) /\ open' = RemoveAt(open, i)
    BY <1>1, SyncShape DEF Commit
  <2>3. QED
    BY <2>1, <2>2, OrderlyRemoved
<1>12. SyncInv'
  <2>1. SettingSound(bindings', overlapped', drive', changes', cursor', vault', objects')
    BY <1>1, <1>9
  <2>2. Orderly(open', ConnectorForm \cup SyncRequests(bindings', overlapped', drive', changes',
                                                       cursor', vault', objects'),
                SyncApart(overlapped'))
    BY <1>1, <1>11
  <2>3. QED
    BY <2>1, <2>2, SyncWhole
<1>13. ConnectorGoes
  BY <1>1, ConnectorsBesideCommit
<1>14. QED
  BY <1>12, <1>13 DEF SyncGoes

LEMMA SyncStepGoes ==
  ASSUME SyncInv, ConnectorInv, ChainInv, SyncStep, UNCHANGED connectorVars
  PROVE  SyncGoes
BY DriveChangeGoes, TriggerSyncGoes, WriteItemGoes, WriteCursorGoes, CommitSyncGoes,
   DeleteItemGoes, StoreItemGoes DEF SyncStep

-----------------------------------------------------------------------------
(* Services that rest.                                                     *)
LEMMA RestStays ==
  /\ BridgeInit /\ UNCHANGED bridgeVars => BridgeInit'
  /\ WorkspaceInit /\ UNCHANGED workspaceVars => WorkspaceInit'
  /\ ConnectorsInit /\ UNCHANGED connectorVars => ConnectorsInit'
  /\ SyncInit /\ UNCHANGED syncVars => SyncInit'
BY DEF BridgeInit, bridgeVars, Idle, WorkspaceInit, workspaceVars, ConnectorsInit, connectorVars,
       SyncInit, syncVars

LEMMA NotLogged ==
  ASSUME NEW P, log \in Seq(P), NEW action, NEW on, \A e \in P : e.action # action
  PROVE  Entries(action, on) = {} /\ ~Logged(action, on)
<1>1. \A k \in DOMAIN log : log[k] \in P
  BY LenProperties
<1>2. QED
  BY <1>1 DEF Entries, Logged

BridgeActions == {"bridge.enrolled", "bridge.revoked", "bridge.job.completed"}
Silent(P, actions) == \A e \in P : e.action \notin actions

LEMMA BridgeAtRest ==
  ASSUME BridgeInit, NEW P, log \in Seq(P), Silent(P, BridgeActions)
  PROVE  /\ BridgeAudited /\ InProgressAccounted
         /\ bridge = "absent" /\ bridge \in BridgeStatus /\ jobs \in [Jobs -> JobStatus]
         /\ agent = Idle /\ AgentSound(jobs, agent) /\ ResultsAreVerdicts(log)
<1>1. \A on : /\ ~Logged("bridge.enrolled", on) /\ ~Logged("bridge.revoked", on)
              /\ Entries("bridge.job.completed", on) = {}
  BY NotLogged DEF BridgeActions, Silent
<1>2. \A j : LastVerdict(j) = "none"
  BY <1>1, Zenon DEF LastVerdict
<1>3. BridgeAudited
  BY <1>1, <1>2 DEF BridgeAudited, BridgeInit, Final
<1>4. InProgressAccounted
  BY DEF InProgressAccounted, With, BridgeInit
<1>5. ResultsAreVerdicts(log)
  <2>1. \A k \in DOMAIN log : log[k] \in P
    BY LenProperties
  <2>2. QED
    BY <2>1 DEF ResultsAreVerdicts, BridgeActions, Silent
<1>6. /\ bridge = "absent" /\ bridge \in BridgeStatus /\ jobs \in [Jobs -> JobStatus]
      /\ agent = Idle
  BY DEF BridgeInit, BridgeStatus, JobStatus
<1>7. AgentSound(jobs, agent)
  BY <1>6 DEF AgentSound, AgentForm, Idle
<1>8. QED
  BY <1>3, <1>4, <1>5, <1>6, <1>7

LEMMA WorkspaceAtRest ==
  ASSUME WorkspaceInit, NEW P, log \in Seq(P), Silent(P, WorkspaceActions)
  PROVE  /\ WorkspaceAudited /\ projects \subseteq Projects
         /\ runs \in [AgentRuns -> Projects \cup {"absent"}]
         /\ folders \in [Folders -> FolderNames \cup {"absent", "deleted"}]
         /\ files \in [Files -> Folders \cup Projects \cup {"absent", "homeless"}]
<1>1. \A action \in WorkspaceActions : \A on : Entries(action, on) = {} /\ ~Logged(action, on)
  BY NotLogged DEF Silent
<1>2. \A f \in Folders : folders[f] \notin FolderNames
  BY MarksAreNoIds DEF WorkspaceInit
<1>3. WorkspaceAudited
  BY <1>1, <1>2 DEF WorkspaceAudited, WorkspaceInit, WorkspaceActions
<1>4. QED
  BY <1>3 DEF WorkspaceInit

LEMMA ConnectorsAtRest ==
  ASSUME ConnectorsInit, NEW P, log \in Seq(P), Silent(P, ConnectorActions)
  PROVE  /\ ConnectorsAudited /\ BindingsNeedInstallation /\ TokensSound(tokens, completed)
         /\ installs \in [Classes -> InstallRow]
         /\ bindings \in [Bindings -> Classes \cup {"absent", "removed"}]
<1>1. \A action \in ConnectorActions : \A on : ~Logged(action, on)
  BY NotLogged DEF Silent
<1>2. \A c : LastInstall(c) = "none"
  <2>1. \A k \in DOMAIN log : log[k].action \notin ConnectorActions
    BY LenProperties DEF Silent
  <2>2. \A c : InstallEntries(c) = {}
    BY <2>1 DEF InstallEntries, InstallActions, ConnectorActions
  <2>3. QED
    BY <2>2, LastInstallIs
<1>3. StatusAudited(installs)
  BY <1>2 DEF StatusAudited, ConnectorsInit
<1>4. ConnectorsAudited
  BY <1>1, <1>3 DEF ConnectorsAudited, StatusAudited, ConnectorsInit, ConnectorActions
<1>5. BindingsNeedInstallation
  BY ClassMarks DEF BindingsNeedInstallation, ConnectorsInit
<1>6. TokensSound(tokens, completed)
  BY DEF TokensSound, ConnectorsInit, TokenRow
<1>7. QED
  BY <1>4, <1>5, <1>6 DEF ConnectorsInit, InstallRow

LEMMA SyncAtRest ==
  ASSUME SyncInit
  PROVE  /\ CursorSound /\ DriveSound(drive, changes) /\ cursor \in [Bindings -> 0..changes]
         /\ vault \in [Keys -> VaultRow] /\ objects \in [Keys -> 0..MaxChanges]
         /\ \A b \in Bindings, x \in Items : cursor[b] = 0 /\ vault[<<b, x>>] = NoRow
<1>1. \A b \in Bindings, x \in Items :
        /\ drive[x].kind = "absent" /\ cursor[b] = 0
        /\ vault[<<b, x>>] = NoRow /\ vault[<<b, x>>].status = "none"
  BY DEF SyncInit, Keys, NoRow
<1>2. CursorSound
  BY <1>1 DEF CursorSound
<1>3. DriveSound(drive, changes)
  BY ChangeBound DEF DriveSound, SyncInit
<1>4. QED
  BY <1>1, <1>2, <1>3, ChangeBound DEF SyncInit, VaultRow, NoRow

-----------------------------------------------------------------------------
(* The whole.                                                              *)
LEMMA NothingOpen == ASSUME NEW R, NEW A  PROVE Orderly(<<>>, R, A)
BY DEF Orderly

LEMMA SyncedInit ==
  ASSUME Init, scenario = "sync"
  PROVE  ConnectorInv /\ Len(log) = 2
<1>1. PICK b \in Bindings, t \in Tokens :
        /\ log = <<Entry("connector.oauth.completed", t), Entry("connector.bound", b)>>
        /\ bindings = [x \in Bindings |-> IF x = b THEN Synced ELSE "absent"]
        /\ tokens = [x \in Tokens |-> IF x = t THEN [state |-> "gone", class |-> Synced]
                                      ELSE [state |-> "unused", class |-> "none"]]
        /\ completed = [x \in Tokens |-> IF x = t THEN 1 ELSE 0]
  BY DEF Init
<1>2. /\ Synced \in Classes /\ waitlist = {} /\ open = <<>>
      /\ installs = [c \in Classes |-> IF c = Synced THEN [status |-> "installed", creds |-> TRUE]
                                       ELSE [status |-> "absent", creds |-> FALSE]]
  BY ScenariosAreKnown DEF Init
<1>3. /\ Len(log) = 2 /\ DOMAIN log = 1..2
      /\ log[1] = [action |-> "connector.oauth.completed", on |-> t, detail |-> Synced]
      /\ log[2] = [action |-> "connector.bound", on |-> b, detail |-> Synced]
  BY <1>1 DEF Entry
<1>4. log \in Seq(ConnectorEntries)
  <2>1. /\ Entry("connector.oauth.completed", t) \in ConnectorEntries
        /\ Entry("connector.bound", b) \in ConnectorEntries
    BY <1>2 DEF Entry, ConnectorEntries, ConnectorActions
  <2>2. QED
    BY <1>1, <2>1
<1>5. \A c \in Classes : LastInstall(c) = IF c = Synced THEN "connector.oauth.completed" ELSE "none"
  <2> SUFFICES ASSUME NEW c \in Classes
               PROVE  LastInstall(c) = IF c = Synced THEN "connector.oauth.completed" ELSE "none"
    OBVIOUS
  <2>1. InstallEntries(c) = IF c = Synced THEN {1} ELSE {}
    <3>1. \A k : k \in 1..2 <=> k = 1 \/ k = 2
      OBVIOUS
    <3>2. QED
      BY <1>3, <3>1 DEF InstallEntries, InstallActions
  <2>2. LastOf({1}) = 1
    <3>1. 1 \in Nat /\ {1} \subseteq 1..1
      OBVIOUS
    <3>2. QED
      BY <3>1, LastOfFacts
  <2>3. QED
    BY <1>3, <2>1, <2>2, LastInstallIs
<1>6. StatusAudited(installs)
  BY <1>2, <1>5 DEF StatusAudited
<1>7. /\ \A x \in Bindings : bindings[x] # "absent" <=> Logged("connector.bound", x)
      /\ \A c \in Classes : c \in waitlist <=> Logged("connector.waitlist.requested", c)
  <2>1. \A k : k \in 1..2 <=> k = 1 \/ k = 2
    OBVIOUS
  <2>2. \A x : Logged("connector.bound", x) <=> x = b
    BY <1>3, <2>1 DEF Logged, Entries
  <2>3. \A c : ~Logged("connector.waitlist.requested", c)
    BY <1>3, <2>1 DEF Logged, Entries
  <2>4. QED
    BY <1>1, <1>2, <2>2, <2>3 DEF Synced
<1>8. ConnectorsAudited
  BY <1>6, <1>7 DEF ConnectorsAudited, StatusAudited
<1>9. /\ installs \in [Classes -> InstallRow]
      /\ bindings \in [Bindings -> Classes \cup {"absent", "removed"}]
      /\ TokensSound(tokens, completed) /\ BindingsNeedInstallation
  <2>1. installs \in [Classes -> InstallRow]
    BY <1>2 DEF InstallRow
  <2>2. TokensSound(tokens, completed)
    BY <1>1, <1>2 DEF TokensSound, TokenRow
  <2>3. BindingsNeedInstallation
    BY <1>1, <1>2, ClassMarks DEF BindingsNeedInstallation
  <2>4. QED
    BY <1>1, <1>2, <2>1, <2>2, <2>3
<1>10. QED
  BY <1>2, <1>3, <1>4, <1>8, <1>9, NothingOpen DEF ConnectorInv

LEMMA InitHolds == Init => IInv
<1> SUFFICES ASSUME Init  PROVE IInv
  OBVIOUS
<1>1. /\ scenario \in Scenarios /\ open = <<>>
      /\ WorkspaceInit /\ SyncInit /\ BridgeInit
      /\ scenario # "sync" => log = <<>> /\ ConnectorsInit
  BY DEF Init
<1>2. scenario # "sync" => \A P : log \in Seq(P)
  BY <1>1
<1>3. ChainInv
  <2>1. Len(log) <= LogLimit
    <3>1. CASE scenario = "sync"
      BY <1>1, <3>1, SyncedInit, ScenariosAreKnown
    <3>2. CASE scenario # "sync"
      <4>1. Len(log) = 0
        BY <1>1, <3>2
      <4>2. QED
        BY <4>1, ChainBounds
    <3>3. QED
      BY <3>1, <3>2
  <2>2. QED
    BY <1>1, <2>1, ChainBounds DEF ChainInv
<1>4. scenario = "bridge" => BridgeInv
  <2> SUFFICES ASSUME scenario = "bridge"  PROVE BridgeInv
    OBVIOUS
  <2>1. log \in Seq({}) /\ log \in Seq(BridgeEntries) /\ Silent({}, BridgeActions)
    BY <1>2 DEF Silent
  <2>2. Orderly(open, BridgeRequests(bridge, jobs, agent), BridgeApart)
    BY <1>1, NothingOpen
  <2>3. QED
    BY <1>1, <2>1, <2>2, BridgeAtRest DEF BridgeInv
<1>5. scenario = "workspace" => WorkspaceInv
  <2> SUFFICES ASSUME scenario = "workspace"  PROVE WorkspaceInv
    OBVIOUS
  <2>1. log \in Seq({}) /\ log \in Seq(WorkspaceEntries) /\ Silent({}, WorkspaceActions)
    BY <1>2 DEF Silent
  <2>2. Orderly(open, WorkspaceRequests(projects, runs, folders, files), WorkspaceApart)
    BY <1>1, NothingOpen
  <2>3. QED
    BY <1>1, <2>1, <2>2, WorkspaceAtRest DEF WorkspaceInv
<1>6. scenario \in ConnectorScenarios => ConnectorInv
  <2> SUFFICES ASSUME scenario \in ConnectorScenarios, scenario # "sync"  PROVE ConnectorInv
    BY SyncedInit
  <2>1. log \in Seq({}) /\ log \in Seq(ConnectorEntries) /\ Silent({}, ConnectorActions)
    BY <1>2 DEF Silent
  <2>2. Orderly(open, SyncForm \cup ConnectorRequests(installs, bindings, overtaken, tokens, completed),
                ConnectorApart)
    BY <1>1, NothingOpen
  <2>3. QED
    BY <1>1, <2>1, <2>2, ConnectorsAtRest DEF ConnectorInv
<1>7. scenario = "sync" => SyncInv
  <2>1. Orderly(open, ConnectorForm \cup SyncRequests(bindings, overlapped, drive, changes, cursor,
                                                      vault, objects),
                SyncApart(overlapped))
    BY <1>1, NothingOpen
  <2>2. overlapped \subseteq Bindings
    BY <1>1 DEF SyncInit
  <2>3. QED
    BY <1>1, <2>1, <2>2, SyncAtRest DEF SyncInv
<1>8. QED
  BY <1>1, <1>3, <1>4, <1>5, <1>6, <1>7 DEF IInv, ConnectorScenarios

(* The sync's step in full.                                                *)
LEMMA SyncingGoes ==
  ASSUME SyncInv, ConnectorInv, ChainInv,
         (SyncStep /\ UNCHANGED connectorVars) \/ (BindingStep /\ UNCHANGED syncVars)
  PROVE  SyncGoes
<1>1. CASE SyncStep /\ UNCHANGED connectorVars
  BY <1>1, SyncStepGoes
<1>2. CASE BindingStep /\ UNCHANGED syncVars
  BY <1>2, BindingStepGoes, SyncBesideBindingStep DEF SyncGoes
<1>3. QED
  BY <1>1, <1>2

LEMMA SyncRecordGoes ==
  ASSUME SyncInv, ConnectorInv, ChainInv, NEW i \in DOMAIN open,
         (Record(i) /\ UNCHANGED log) \/ Rollback(i), UNCHANGED <<connectorVars, syncVars>>
  PROVE  SyncGoes
<1>1. UNCHANGED <<bindings, syncVars>> /\ UNCHANGED connectorVars
  BY DEF connectorVars
<1>2. Len(log) \in Nat
  BY ConnectorShape, LenProperties
<1>3. CASE Record(i) /\ UNCHANGED log
  BY <1>1, <1>2, <1>3, SyncRecord, ConnectorRecord DEF SyncGoes
<1>4. CASE Rollback(i)
  BY <1>1, <1>4, SyncRollback, ConnectorRollback DEF SyncGoes
<1>5. QED
  BY <1>3, <1>4

(* The steps of the whole, by the service that takes them.                 *)
StepOfService ==
  \/ /\ scenario = "workspace"
     /\ (WorkspaceRequest /\ UNCHANGED <<log, workspaceVars>>) \/ \E i \in DOMAIN open : CommitWorkspace(i)
     /\ UNCHANGED <<connectorVars, syncVars, bridgeVars>>
  \/ /\ scenario = "waitlist" /\ (InstallStep \/ WaitlistStep)
     /\ UNCHANGED <<workspaceVars, syncVars, bridgeVars>>
  \/ /\ scenario = "connectors" /\ (InstallStep \/ BindingStep \/ OAuthStep)
     /\ UNCHANGED <<workspaceVars, syncVars, bridgeVars>>
  \/ /\ scenario = "sync"
     /\ (SyncStep /\ UNCHANGED connectorVars) \/ (BindingStep /\ UNCHANGED syncVars)
     /\ UNCHANGED <<workspaceVars, bridgeVars>>
  \/ /\ scenario = "bridge" /\ BridgeStep
     /\ UNCHANGED <<workspaceVars, connectorVars, syncVars>>
StepOfChain ==
  /\ \E i \in DOMAIN open : (Record(i) /\ UNCHANGED log) \/ Rollback(i)
  /\ UNCHANGED workspaceVars /\ UNCHANGED connectorVars
  /\ UNCHANGED syncVars /\ UNCHANGED bridgeVars

LEMMA NextIs ==
  ASSUME Next
  PROVE  UNCHANGED scenario /\ (StepOfService \/ StepOfChain)
<1>1. CASE Workspace
  BY <1>1 DEF Workspace, Rests, StepOfService
<1>2. CASE Waitlist
  BY <1>2 DEF Waitlist, Rests, StepOfService
<1>3. CASE Connect
  BY <1>3 DEF Connect, Rests, StepOfService
<1>4. CASE Sync
  BY <1>4 DEF Sync, Rests, StepOfService
<1>5. CASE Bridge
  BY <1>5 DEF Bridge, Rests, StepOfService
<1>6. CASE RecordActivity
  BY <1>6 DEF RecordActivity, Rests, StepOfChain
<1>7. CASE RequestFails
  BY <1>7 DEF RequestFails, Rests, StepOfChain
<1>8. QED
  BY <1>1, <1>2, <1>3, <1>4, <1>5, <1>6, <1>7 DEF Next

(* What a step does to what the action properties are about.               *)
StepGoes == IInv' /\ Forward /\ (RevokedAndQuiet => RevokedAndQuiet')

LEMMA BridgeRests ==
  ASSUME BridgeInit, UNCHANGED bridgeVars
  PROVE  BridgeInit' /\ Forward /\ (RevokedAndQuiet => RevokedAndQuiet')
<1>1. BridgeInit'
  BY RestStays
<1>2. Forward
  BY DEF Forward, bridgeVars
<1>3. ~RevokedAndQuiet
  BY DEF RevokedAndQuiet, BridgeInit
<1>4. QED
  BY <1>1, <1>2, <1>3

LEMMA WorkspaceScenario ==
  ASSUME IInv, scenario = "workspace", UNCHANGED scenario, StepOfService \/ StepOfChain
  PROVE  StepGoes
<1>1. ChainInv /\ WorkspaceInv /\ BridgeInit /\ ConnectorsInit /\ SyncInit /\ scenario \in Scenarios
  BY DEF IInv, ConnectorScenarios
<1>2. UNCHANGED connectorVars /\ UNCHANGED syncVars /\ UNCHANGED bridgeVars
  BY DEF StepOfService, StepOfChain
<1>3. WorkspaceGoes
  <2>1. CASE StepOfService
    <3>1. (WorkspaceRequest /\ UNCHANGED <<log, workspaceVars>>) \/ \E i \in DOMAIN open : CommitWorkspace(i)
      BY <2>1 DEF StepOfService
    <3>2. QED
      BY <1>1, <3>1, WorkspaceRequestGoes, CommitWorkspaceGoes
  <2>2. CASE StepOfChain
    <3>1. PICK i \in DOMAIN open : (Record(i) /\ UNCHANGED log) \/ Rollback(i)
      BY <2>2 DEF StepOfChain
    <3>2. UNCHANGED workspaceVars
      BY <2>2 DEF StepOfChain
    <3>3. QED
      BY <1>1, <3>1, <3>2, WorkspaceRecord, WorkspaceRollback
  <2>3. QED
    BY <2>1, <2>2
<1>4. ConnectorsInit' /\ SyncInit'
  BY <1>1, <1>2, RestStays
<1>5. BridgeInit' /\ Forward /\ (RevokedAndQuiet => RevokedAndQuiet')
  BY <1>1, <1>2, BridgeRests
<1>6. IInv'
  BY <1>1, <1>3, <1>4, <1>5 DEF IInv, WorkspaceGoes, ConnectorScenarios
<1>7. QED
  BY <1>5, <1>6 DEF StepGoes

LEMMA ConnectorScenario ==
  ASSUME IInv, scenario \in {"waitlist", "connectors"}, UNCHANGED scenario,
         StepOfService \/ StepOfChain
  PROVE  StepGoes
<1>1. ChainInv /\ ConnectorInv /\ BridgeInit /\ WorkspaceInit /\ SyncInit /\ scenario \in Scenarios
  BY DEF IInv, ConnectorScenarios
<1>2. UNCHANGED workspaceVars /\ UNCHANGED syncVars /\ UNCHANGED bridgeVars
  BY DEF StepOfService, StepOfChain
<1>3. ConnectorGoes
  <2>1. CASE StepOfService
    <3>1. InstallStep \/ WaitlistStep \/ BindingStep \/ OAuthStep
      BY <2>1 DEF StepOfService
    <3>2. QED
      BY <1>1, <3>1, InstallStepGoes, WaitlistStepGoes, BindingStepGoes, OAuthStepGoes
  <2>2. CASE StepOfChain
    <3>1. PICK i \in DOMAIN open : (Record(i) /\ UNCHANGED log) \/ Rollback(i)
      BY <2>2 DEF StepOfChain
    <3>2. UNCHANGED connectorVars
      BY <2>2 DEF StepOfChain
    <3>3. QED
      BY <1>1, <3>1, <3>2, ConnectorRecord, ConnectorRollback
  <2>3. QED
    BY <2>1, <2>2
<1>4. WorkspaceInit' /\ SyncInit'
  BY <1>1, <1>2, RestStays
<1>5. BridgeInit' /\ Forward /\ (RevokedAndQuiet => RevokedAndQuiet')
  BY <1>1, <1>2, BridgeRests
<1>6. IInv'
  BY <1>1, <1>3, <1>4, <1>5 DEF IInv, ConnectorGoes, ConnectorScenarios
<1>7. QED
  BY <1>5, <1>6 DEF StepGoes

LEMMA SyncScenario ==
  ASSUME IInv, scenario = "sync", UNCHANGED scenario, StepOfService \/ StepOfChain
  PROVE  StepGoes
<1>1. /\ ChainInv /\ SyncInv /\ ConnectorInv /\ BridgeInit /\ WorkspaceInit
      /\ scenario \in Scenarios
  BY DEF IInv, ConnectorScenarios
<1>2. UNCHANGED workspaceVars /\ UNCHANGED bridgeVars
  BY DEF StepOfService, StepOfChain
<1>3. SyncGoes
  <2>1. CASE StepOfService
    <3>1. (SyncStep /\ UNCHANGED connectorVars) \/ (BindingStep /\ UNCHANGED syncVars)
      BY <2>1 DEF StepOfService
    <3>2. QED
      BY <1>1, <3>1, SyncingGoes
  <2>2. CASE StepOfChain
    <3>1. PICK i \in DOMAIN open : (Record(i) /\ UNCHANGED log) \/ Rollback(i)
      BY <2>2 DEF StepOfChain
    <3>2. UNCHANGED connectorVars /\ UNCHANGED syncVars
      BY <2>2 DEF StepOfChain
    <3>3. QED
      BY <1>1, <3>1, <3>2, SyncRecordGoes
  <2>3. QED
    BY <2>1, <2>2
<1>4. WorkspaceInit'
  BY <1>1, <1>2, RestStays
<1>5. BridgeInit' /\ Forward /\ (RevokedAndQuiet => RevokedAndQuiet')
  BY <1>1, <1>2, BridgeRests
<1>6. IInv'
  BY <1>1, <1>3, <1>4, <1>5 DEF IInv, SyncGoes, ConnectorGoes, ConnectorScenarios
<1>7. QED
  BY <1>5, <1>6 DEF StepGoes

LEMMA BridgeScenario ==
  ASSUME IInv, scenario = "bridge", UNCHANGED scenario, StepOfService \/ StepOfChain
  PROVE  StepGoes
<1>1. /\ ChainInv /\ BridgeInv /\ ConnectorsInit /\ SyncInit /\ WorkspaceInit
      /\ scenario \in Scenarios
  BY DEF IInv, ConnectorScenarios
<1>2. UNCHANGED workspaceVars /\ UNCHANGED connectorVars /\ UNCHANGED syncVars
  BY DEF StepOfService, StepOfChain
<1>3. BridgeGoes
  <2>1. CASE StepOfService
    <3>1. BridgeStep
      BY <2>1 DEF StepOfService
    <3>2. QED
      BY <1>1, <3>1, BridgeStepGoes
  <2>2. CASE StepOfChain
    <3>1. PICK i \in DOMAIN open : (Record(i) /\ UNCHANGED log) \/ Rollback(i)
      BY <2>2 DEF StepOfChain
    <3>2. UNCHANGED bridgeVars
      BY <2>2 DEF StepOfChain
    <3>3. QED
      BY <1>1, <3>1, <3>2, BridgeRecord, BridgeRollback
  <2>3. QED
    BY <2>1, <2>2
<1>4. WorkspaceInit' /\ ConnectorsInit' /\ SyncInit'
  BY <1>1, <1>2, RestStays
<1>5. IInv'
  BY <1>1, <1>3, <1>4 DEF IInv, BridgeGoes, ConnectorScenarios
<1>6. RevokedAndQuiet => RevokedAndQuiet'
  BY <1>3 DEF BridgeGoes, RevokedAndQuiet, Quiet
<1>7. QED
  BY <1>3, <1>5, <1>6 DEF StepGoes, BridgeGoes

(* A step of something else.                                               *)
LEMMA StutterGoes == ASSUME IInv, UNCHANGED vars  PROVE StepGoes
<1>1. /\ UNCHANGED <<log, open, scenario>>
      /\ UNCHANGED workspaceVars /\ UNCHANGED connectorVars /\ UNCHANGED syncVars
      /\ UNCHANGED bridgeVars
  BY DEF vars
<1>2. ChainInv' /\ scenario' \in Scenarios
  BY <1>1 DEF IInv, ChainInv
<1>3. IF scenario' = "bridge" THEN BridgeInv' ELSE BridgeInit'
  <2>1. ASSUME BridgeInv  PROVE BridgeInv'
    <3>1. Orderly(open', BridgeState, BridgeApart)
      BY <1>1, <2>1, BridgeShape
    <3>2. QED
      BY <1>1, <2>1, <3>1, BridgeKept
  <2>2. QED
    BY <1>1, <2>1, RestStays DEF IInv
<1>4. IF scenario' = "workspace" THEN WorkspaceInv' ELSE WorkspaceInit'
  <2>1. ASSUME WorkspaceInv  PROVE WorkspaceInv'
    <3>1. Orderly(open', WorkspaceState, WorkspaceApart)
      BY <1>1, <2>1, WorkspaceShape
    <3>2. QED
      BY <1>1, <2>1, <3>1, WorkspaceKept
  <2>2. QED
    BY <1>1, <2>1, RestStays DEF IInv
<1>5. IF scenario' \in ConnectorScenarios THEN ConnectorInv' ELSE ConnectorsInit'
  <2>1. ASSUME ConnectorInv  PROVE ConnectorInv'
    <3>1. Orderly(open', ConnectorState, ConnectorApart)
      BY <1>1, <2>1, ConnectorShape
    <3>2. QED
      BY <1>1, <2>1, <3>1, ConnectorKept
  <2>2. QED
    BY <1>1, <2>1, RestStays DEF IInv, ConnectorScenarios
<1>6. IF scenario' = "sync" THEN SyncInv' ELSE SyncInit'
  <2>1. ASSUME SyncInv  PROVE SyncInv'
    <3>1. Orderly(open', SyncState, SyncApart(overlapped)) /\ UNCHANGED <<bindings, syncVars>>
      BY <1>1, <2>1, SyncShape DEF connectorVars
    <3>2. QED
      BY <2>1, <3>1, SyncKept
  <2>2. QED
    BY <1>1, <2>1, RestStays DEF IInv
<1>7. IInv'
  BY <1>2, <1>3, <1>4, <1>5, <1>6 DEF IInv
<1>8. Forward
  BY <1>1 DEF Forward, bridgeVars
<1>9. RevokedAndQuiet => RevokedAndQuiet'
  BY <1>1 DEF RevokedAndQuiet, bridgeVars
<1>10. QED
  BY <1>7, <1>8, <1>9 DEF StepGoes

LEMMA NextGoes == ASSUME IInv, [Next]_vars  PROVE StepGoes
<1>1. CASE Next
  <2>1. UNCHANGED scenario /\ (StepOfService \/ StepOfChain)
    BY <1>1, NextIs
  <2>2. scenario \in {"workspace", "waitlist", "connectors", "sync", "bridge"}
    BY ScenariosAreKnown DEF IInv
  <2>3. QED
    BY <2>1, <2>2, WorkspaceScenario, ConnectorScenario, SyncScenario, BridgeScenario
<1>2. CASE UNCHANGED vars
  BY <1>2, StutterGoes
<1>3. QED
  BY <1>1, <1>2

-----------------------------------------------------------------------------
(* What is always true of every organisation, whatever its requests do:    *)
(* the rows fit the trail, every open request can rely on what it checked, *)
(* and no two of them are at odds.                                         *)
THEOREM Inductive == Spec => []IInv
<1>1. IInv /\ [Next]_vars => IInv'
  BY NextGoes DEF StepGoes
<1>2. QED
  BY InitHolds, <1>1, PTL DEF Spec

LEMMA TrailOf ==
  ASSUME IInv
  PROVE  /\ scenario = "bridge" => log \in Seq(BridgeEntries) /\ open \in Seq(BridgeState)
         /\ scenario = "workspace" => log \in Seq(WorkspaceEntries) /\ open \in Seq(WorkspaceState)
         /\ scenario \in ConnectorScenarios => log \in Seq(ConnectorEntries) /\ open \in Seq(ConnectorState)
         /\ scenario \in {"bridge", "workspace"} \cup ConnectorScenarios
<1>1. scenario \in {"bridge", "workspace"} \cup ConnectorScenarios
  BY ScenariosAreKnown DEF IInv, ConnectorScenarios
<1>2. QED
  BY <1>1, BridgeShape, WorkspaceShape, ConnectorShape DEF IInv

LEMMA SilentTrails ==
  /\ Silent(BridgeEntries, WorkspaceActions) /\ Silent(BridgeEntries, ConnectorActions)
  /\ Silent(WorkspaceEntries, BridgeActions) /\ Silent(WorkspaceEntries, ConnectorActions)
  /\ Silent(ConnectorEntries, BridgeActions) /\ Silent(ConnectorEntries, WorkspaceActions)
BY DEF Silent, BridgeEntries, WorkspaceEntries, ConnectorEntries, BridgeActions, WorkspaceActions,
       ConnectorActions

LEMMA BridgeFacts ==
  ASSUME IInv
  PROVE  /\ BridgeAudited /\ InProgressAccounted
         /\ bridge \in BridgeStatus /\ jobs \in [Jobs -> JobStatus] /\ AgentSound(jobs, agent)
<1>1. CASE scenario = "bridge"
  BY <1>1 DEF IInv, BridgeInv
<1>2. CASE scenario = "workspace"
  BY <1>2, TrailOf, SilentTrails, BridgeAtRest DEF IInv
<1>3. CASE scenario \in ConnectorScenarios
  <2>1. BridgeInit
    BY <1>3 DEF IInv, ConnectorScenarios
  <2>2. QED
    BY <1>3, <2>1, TrailOf, SilentTrails, BridgeAtRest
<1>4. QED
  BY <1>1, <1>2, <1>3, TrailOf

LEMMA WorkspaceFacts ==
  ASSUME IInv
  PROVE  /\ WorkspaceAudited /\ projects \subseteq Projects
         /\ runs \in [AgentRuns -> Projects \cup {"absent"}]
         /\ folders \in [Folders -> FolderNames \cup {"absent", "deleted"}]
         /\ files \in [Files -> Folders \cup Projects \cup {"absent", "homeless"}]
<1>1. CASE scenario = "workspace"
  BY <1>1 DEF IInv, WorkspaceInv
<1>2. CASE scenario = "bridge"
  BY <1>2, TrailOf, SilentTrails, WorkspaceAtRest DEF IInv
<1>3. CASE scenario \in ConnectorScenarios
  <2>1. WorkspaceInit
    BY <1>3 DEF IInv, ConnectorScenarios
  <2>2. QED
    BY <1>3, <2>1, TrailOf, SilentTrails, WorkspaceAtRest
<1>4. QED
  BY <1>1, <1>2, <1>3, TrailOf

LEMMA ConnectorFacts ==
  ASSUME IInv
  PROVE  /\ ConnectorsAudited /\ BindingsNeedInstallation /\ TokensSound(tokens, completed)
         /\ installs \in [Classes -> InstallRow]
         /\ bindings \in [Bindings -> Classes \cup {"absent", "removed"}]
<1>1. CASE scenario \in ConnectorScenarios
  BY <1>1 DEF IInv, ConnectorInv
<1>2. CASE scenario = "bridge"
  <2>1. ConnectorsInit
    BY <1>2 DEF IInv, ConnectorScenarios
  <2>2. QED
    BY <1>2, <2>1, TrailOf, SilentTrails, ConnectorsAtRest
<1>3. CASE scenario = "workspace"
  <2>1. ConnectorsInit
    BY <1>3 DEF IInv, ConnectorScenarios
  <2>2. QED
    BY <1>3, <2>1, TrailOf, SilentTrails, ConnectorsAtRest
<1>4. QED
  BY <1>1, <1>2, <1>3, TrailOf

LEMMA SyncFacts ==
  ASSUME IInv
  PROVE  CursorSound /\ DriveSound(drive, changes) /\ cursor \in [Bindings -> 0..changes]
<1>1. CASE scenario = "sync"
  BY <1>1 DEF IInv, SyncInv
<1>2. CASE scenario # "sync"
  BY <1>2, SyncAtRest DEF IInv
<1>3. QED
  BY <1>1, <1>2

(* Rows, requests and the agent keep their shapes; no request outgrows the *)
(* numbers of the trail.                                                   *)
THEOREM TypeCorrect == Spec => []TypeOK
<1>1. ASSUME IInv  PROVE TypeOK
  <2>1. /\ Len(log) <= LogLimit /\ Len(open) <= MaxOpen
        /\ \A k \in DOMAIN open : open[k].seq \in 0..(Len(log) + 1)
    BY <1>1 DEF IInv, ChainInv
  <2>2. \A c \in Classes : /\ installs[c].status \in {"absent", "pending", "installed", "uninstalled"}
                           /\ installs[c].creds \in BOOLEAN
    BY <1>1, ConnectorFacts DEF InstallRow
  <2>3. cursor \in [Bindings -> 0..MaxChanges]
    <3>1. 0..changes \subseteq 0..MaxChanges
      BY <1>1, SyncFacts, ChangeBound DEF DriveSound
    <3>2. QED
      BY <1>1, <3>1, SyncFacts
  <2>4. /\ agent.batch \subseteq Jobs /\ agent.job \in Jobs \cup {0}
        /\ agent.pc \in {"idle", "polling", "running", "submitting"}
    BY <1>1, BridgeFacts DEF AgentSound, AgentForm
  <2>5. QED
    BY <1>1, <2>1, <2>2, <2>3, <2>4, BridgeFacts, WorkspaceFacts, ConnectorFacts DEF TypeOK
<1>2. QED
  BY Inductive, <1>1, PTL

(* The audit trail and the rows of all services tell the same story,       *)
(* although requests fail at any point and draw one number (audit.py and   *)
(* every record_activity call).                                            *)
THEOREM AuditIsTrue == Spec => []AuditMatchesRows
<1>1. IInv => AuditMatchesRows
  BY BridgeFacts, WorkspaceFacts, ConnectorFacts DEF AuditMatchesRows
<1>2. QED
  BY Inductive, <1>1, PTL

(* A binding belongs to an installation in use, unless the request that    *)
(* made it and an uninstall overlapped (connectors.py:316-347 and          *)
(* 180-199).                                                               *)
THEOREM BindingsAreInstalled == Spec => []BindingsNeedInstallation
<1>1. IInv => BindingsNeedInstallation
  BY ConnectorFacts
<1>2. QED
  BY Inductive, <1>1, PTL

(* One consent of a user never installs a connector twice, however many    *)
(* callbacks carry its token (connector_oauth.py:175-188).                 *)
THEOREM ConsentInstallsOnce == Spec => []OneInstallPerConsent
<1>1. IInv => OneInstallPerConsent
  BY ConnectorFacts DEF OneInstallPerConsent, TokensSound, TokenRow
<1>2. QED
  BY Inductive, <1>1, PTL

(* The cursor of a binding never runs ahead of its vault, rows and bytes,  *)
(* although syncs fail half-way (sharepoint.py), unless two syncs of the   *)
(* binding overlapped.                                                     *)
THEOREM CursorsAreSound == Spec => []CursorSound
<1>1. IInv => CursorSound
  BY SyncFacts
<1>2. QED
  BY Inductive, <1>1, PTL

(* No claimed job is forgotten unnoticed: it is with the agent, or its     *)
(* claim was lost on the way or given up (bridges.py:230-245,              *)
(* runner.py:38-45).                                                       *)
THEOREM ClaimsAccounted == Spec => []InProgressAccounted
<1>1. IInv => InProgressAccounted
  BY BridgeFacts
<1>2. QED
  BY Inductive, <1>1, PTL

(* A job only goes forward and gets one verdict, late and repeated results *)
(* included (the status checks of bridges.py).                             *)
THEOREM JobsOnlyAdvance == Spec => JobsGoForward
<1>1. IInv /\ [Next]_vars =>
        [\A j \in Jobs : jobs'[j] = jobs[j] \/ jobs'[j] \in Later(jobs[j])]_vars
  BY NextGoes DEF StepGoes, Forward
<1>2. QED
  BY Inductive, <1>1, PTL DEF Spec, JobsGoForward

(* A revocation is final once the polls admitted before it are over        *)
(* (bridges.py:196, dependencies/bridge.py:103).                           *)
THEOREM RevocationIsFinal == Spec => RevocationHolds
<1>1. IInv /\ [Next]_vars => [RevokedAndQuiet => RevokedAndQuiet']_vars
  BY NextGoes DEF StepGoes
<1>2. QED
  BY Inductive, <1>1, PTL DEF Spec, RevocationHolds
=============================================================================
