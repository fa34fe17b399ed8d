--------------------------- MODULE SharePointSync ----------------------------
(***************************************************************************)
(* POST .../bindings/{id}/sync (routes/v1/connector_sync.py): one          *)
(* transaction reads the binding's delta cursor, walks the changes of the  *)
(* drive since then (sync/sharepoint.py), stores the content of every      *)
(* changed file in object storage, writes its row, and at the end writes   *)
(* the new cursor.  Storage is outside the transaction.  The drive is      *)
(* external: a counter numbers its changes, an item carries the number of  *)
(* its last one, and the delta of a cursor is the set of the items that    *)
(* changed after it.                                                       *)
(***************************************************************************)
EXTENDS ConnectorInstalls

CONSTANTS Items,        \* drive items, by external_ref
          MaxChanges    \* bound: changes of the drive

ASSUME ChangeBound == MaxChanges \in Nat

VARIABLES drive,        \* item -> [kind, at]; kind "absent", "file" or "skipped":
                        \* a folder, empty, above MAX_FILE_BYTES, or without a
                        \* download URL
          changes,      \* number of changes so far
          cursor,       \* binding -> delta_link in its config, 0 without one
          vault,        \* <<binding, item>> -> [status, at] of its files row
          objects,      \* <<binding, item>> -> version of the stored bytes
          overlapped    \* history: bindings with two syncs open at once

syncVars == <<drive, changes, cursor, vault, objects, overlapped>>

NoRow == [status |-> "none", at |-> 0]
Keys == Bindings \X Items

SyncInit ==
  /\ drive = [x \in Items |-> [kind |-> "absent", at |-> 0]]
  /\ changes = 0
  /\ cursor = [b \in Bindings |-> 0]
  /\ vault = [k \in Keys |-> NoRow]
  /\ objects = [k \in Keys |-> 0]
  /\ overlapped = {}

DriveChange(x, kind) ==
  /\ changes < MaxChanges
  /\ drive[x].kind # "absent" \/ kind # "absent"
  /\ changes' = changes + 1
  /\ drive' = [drive EXCEPT ![x] = [kind |-> kind, at |-> changes + 1]]
  /\ UNCHANGED <<log, open, cursor, vault, objects, overlapped>>

Syncing(b) == {k \in DOMAIN open : open[k].action = "connector.sync.completed"
                                   /\ open[k].on = b}

(* The changes after cursor c: items as they are now.  The walk passes     *)
(* over skipped ones.                                                      *)
Delta(c) ==
  {[item |-> x, kind |-> drive[x].kind, at |-> drive[x].at] :
     x \in {y \in Items : drive[y].at > c /\ drive[y].kind # "skipped"}}

(* The binding with its cursor and the credentials are read without a      *)
(* lock, then GET /delta gives the changes and the link to go on from.     *)
TriggerSync(b) ==
  /\ bindings[b] \in Catalog!SyncEngines
  /\ installs[bindings[b]].creds
  /\ Begin([action |-> "connector.sync.completed", on |-> b, class |-> bindings[b],
            link |-> changes, todo |-> Delta(cursor[b]), stored |-> {},
            rows |-> [x \in Items |-> NoRow],
            ready |-> FALSE, locks |-> {}, shares |-> {}, seq |-> 0])
  /\ overlapped' = IF Syncing(b) = {} THEN overlapped ELSE overlapped \cup {b}
  /\ UNCHANGED <<log, drive, changes, cursor, vault, objects>>

Walking(i) == open[i].action = "connector.sync.completed" /\ ~open[i].ready
Busy(i) == open[i].stored # {}

FileLock(b, d) == <<"file", b, d.item>>
Key(i, d) == <<open[i].on, d.item>>

(* Written rows keep the binding from being deleted until the end: a new   *)
(* row by its foreign key, an old one because the DELETE has to null it.   *)
RowWritten(i, d, status) ==
  Continue(i, [open[i] EXCEPT
    !.todo = @ \ {d},
    !.stored = {},
    !.rows[d.item] = [status |-> status, at |-> d.at],
    !.locks = @ \cup {FileLock(open[i].on, d)},
    !.shares = @ \cup {<<"binding", open[i].on>>}])

DeleteItem(i, d) ==
  /\ Walking(i) /\ ~Busy(i) /\ d \in open[i].todo /\ d.kind = "absent"
  /\ IF vault[Key(i, d)].status = "ready" /\ bindings[open[i].on] # "removed"
     THEN RowWritten(i, d, "deleted")
     ELSE Continue(i, [open[i] EXCEPT !.todo = @ \ {d}])
  /\ UNCHANGED <<log, syncVars>>

(* Look the row up, download what the drive has now, and store it.         *)
StoreItem(i, d) ==
  /\ Walking(i) /\ ~Busy(i) /\ d \in open[i].todo /\ d.kind = "file"
  /\ drive[d.item].kind # "absent"
  /\ objects' = [objects EXCEPT ![Key(i, d)] = drive[d.item].at]
  /\ Continue(i, [open[i] EXCEPT
       !.stored = {[item |-> d, known |-> /\ vault[Key(i, d)].status # "none"
                                          /\ bindings[open[i].on] # "removed"]}])
  /\ UNCHANGED <<log, drive, changes, cursor, vault, overlapped>>

(* UPDATE of the row found, by its id; INSERT of a new one, which the      *)
(* unique index refuses when another sync has inserted it meanwhile, and   *)
(* the foreign key when the binding is gone.                               *)
WriteItem(i) ==
  /\ Walking(i)
  /\ \E s \in open[i].stored :
       /\ s.known \/ (vault[Key(i, s.item)].status = "none" /\ bindings[open[i].on] # "removed")
       /\ RowWritten(i, s.item, "ready")
  /\ UNCHANGED <<log, syncVars>>

(* UPDATE of the binding's config.                                         *)
WriteCursor(i) ==
  /\ Walking(i) /\ ~Busy(i) /\ open[i].todo = {}
  /\ Continue(i, [open[i] EXCEPT !.ready = TRUE, !.locks = @ \cup {<<"config", open[i].on>>}])
  /\ UNCHANGED <<log, syncVars>>

VaultAfter(i) ==
  [k \in Keys |-> IF k[1] = open[i].on /\ open[i].rows[k[2]] # NoRow
                  THEN open[i].rows[k[2]] ELSE vault[k]]

(* Faulty: the cursor of the moment the sync ends.                         *)
CursorOfCommit(i) == changes

(* The delta link that came with the changes.                              *)
CursorAfter(i) == open[i].link

CommitSync(i) ==
  /\ open[i].action = "connector.sync.completed"
  /\ Commit(i, open[i].class)
  /\ vault' = VaultAfter(i)
  /\ cursor' = IF bindings[open[i].on] = "removed" THEN cursor
               ELSE [cursor EXCEPT ![open[i].on] = CursorAfter(i)]
  /\ UNCHANGED <<drive, changes, objects, overlapped>>

SyncStep ==
  \/ \E x \in Items, kind \in {"absent", "file", "skipped"} : DriveChange(x, kind)
  \/ \E b \in Bindings : TriggerSync(b)
  \/ \E i \in DOMAIN open :
       \/ WriteItem(i) \/ WriteCursor(i) \/ CommitSync(i)
       \/ /\ Walking(i)
          /\ \E d \in open[i].todo : DeleteItem(i, d) \/ StoreItem(i, d)
=============================================================================
