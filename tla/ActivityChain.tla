---------------------------- MODULE ActivityChain ----------------------------
(***************************************************************************)
(* The audit trail of one organisation and the requests that write to it.  *)
(* A request is one READ COMMITTED transaction (dependencies/org.py): its  *)
(* statements write rows, its last statement inserts a row of activity_log *)
(* (audit.py), whose trigger numbers the row one above the last row it can *)
(* see, and UNIQUE (org_id, seq) refuses the second of two requests that   *)
(* saw the same last row.                                                  *)
(*                                                                         *)
(* A request in `open` is a record with at least                           *)
(*   action  what it records, or the name of an unaudited request          *)
(*   on      the resource it is about                                      *)
(*   ready   whether its statements, the audit insert excepted, have run   *)
(*   locks   the rows it locks exclusively, by name                        *)
(*   shares  the rows its foreign keys hold FOR KEY SHARE                  *)
(*   seq     the number its audit row got, 0 before the insert             *)
(* A component adds what its commit needs to know.  What a commit writes   *)
(* is the component's; a rollback writes nothing.                          *)
(***************************************************************************)
EXTENDS Naturals, Sequences, SequencesExt

CONSTANTS LogLimit,     \* bound: rows of activity_log
          MaxOpen       \* bound: transactions open at a time

VARIABLES log,          \* the committed rows of activity_log, by seq
          open          \* the open transactions, the audited ones by insert

ASSUME ChainBounds == LogLimit \in Nat /\ MaxOpen \in Nat \ {0}

ChainInit == log = <<>> /\ open = <<>>

(* A statement waits for the rows that other open transactions hold.       *)
Free(locks, shares, others) ==
  \A k \in others : /\ locks \cap (open[k].locks \cup open[k].shares) = {}
                    /\ shares \cap open[k].locks = {}

Begin(r) ==
  /\ Len(open) < MaxOpen
  /\ Free(r.locks, r.shares, DOMAIN open)
  /\ open' = Append(open, r)

(* A later statement of request i takes further locks.                     *)
Continue(i, r) ==
  /\ Free(r.locks, r.shares, DOMAIN open \ {i})
  /\ open' = [open EXCEPT ![i] = r]

(* The INSERT into activity_log: the trigger reads the last committed row. *)
Record(i) ==
  /\ open[i].ready /\ open[i].seq = 0
  /\ Len(log) < LogLimit
  /\ open' = Append(RemoveAt(open, i), [open[i] EXCEPT !.seq = Len(log) + 1])

(* Of the requests that got one number the first holds the lock and the    *)
(* index entry; the others wait, and fail on the unique index once it has  *)
(* committed.                                                              *)
MayCommit(i) ==
  /\ open[i].seq = Len(log) + 1
  /\ \A j \in 1..(i - 1) : open[j].seq # open[i].seq

Commit(i, detail) ==
  /\ MayCommit(i)
  /\ log' = Append(log, [action |-> open[i].action, on |-> open[i].on,
                         detail |-> detail])
  /\ open' = RemoveAt(open, i)

(* An unaudited request.                                                   *)
CommitUnaudited(i) == open' = RemoveAt(open, i) /\ UNCHANGED log

(* A refused audit insert, an error of any statement, a vendor or the      *)
(* storage failing, a deadlock that the database breaks, a lost connection *)
(* or a server that stops.                                                 *)
Rollback(i) == open' = RemoveAt(open, i) /\ UNCHANGED log

(* The places of the audit rows about a resource.                          *)
Entries(action, on) == {k \in DOMAIN log : log[k].action = action /\ log[k].on = on}
Logged(action, on) == Entries(action, on) # {}
=============================================================================
