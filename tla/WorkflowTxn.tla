----------------------------- MODULE WorkflowTxn -----------------------------
(***************************************************************************)
(* One workflow run under requests that overlap.  Every request is a       *)
(* PostgreSQL transaction at the default isolation level, READ COMMITTED:  *)
(* a SELECT sees the rows committed at that moment and the request's own   *)
(* writes; an UPDATE waits for a row that another open transaction has     *)
(* written, then goes on with the newest version of that row; a deadlock   *)
(* aborts one of its transactions.  No statement of runs.py locks what it  *)
(* reads, so everything between _load_run_state and the UPDATEs it leads   *)
(* to works on statuses that may be stale.                                 *)
(***************************************************************************)
EXTENDS WorkflowRows, SequencesExt

CONSTANTS Session,      \* requests that may be open at the same time
          Definitions, LoopLimit,
          RunLogLimit   \* model bound: cancel is not sent once this many run events exist

ASSUME TxnAssumptions == /\ IsFiniteSet(Node)
                         /\ Definitions \subseteq Definition
                         /\ LoopLimit \in Nat \ {0}
                         /\ RunLogLimit \in Nat

VARIABLES definition,   \* the pinned template version or document snapshot
          db,           \* committed rows
          txn,          \* per session, its open transaction and local variables
          exhausted     \* history: a drive was cut off by LoopLimit

vars == <<definition, db, txn, exhausted>>

NoTxn == [pc |-> "idle",
          mine |-> NoRows,        \* uncommitted rows, meaningful where locked
          holds |-> {},           \* node rows written or locked by this transaction
          holdsRun |-> FALSE,     \* the run row as well
          batch |-> <<>>,         \* transitions still to apply, per node
          queue |-> <<>>,         \* the nodes they are applied to, in order
          next |-> "idle",        \* where to go when the queue is empty
          dispatched |-> FALSE, iteration |-> 0,
          status |-> "absent"]    \* the status _finalize_run_status settled on

Init == /\ definition \in Definitions
        /\ db = NoRows
        /\ txn = [s \in Session |-> NoTxn]
        /\ exhausted = FALSE

-----------------------------------------------------------------------------
\* The rows of over where a transaction owns them, of base elsewhere.
Overlay(base, over, nodes, run) ==
    LET rowOf(n) == IF n \in nodes THEN over ELSE base
        runRow   == IF run THEN over ELSE base
    IN  [run |-> runRow.run, completed_at |-> runRow.completed_at,
         run_log |-> runRow.run_log,
         node |-> [n \in Node |-> rowOf(n).node[n]],
         decision |-> [n \in Node |-> rowOf(n).decision[n]],
         node_log |-> [n \in Node |-> rowOf(n).node_log[n]]]

\* What a SELECT of session s returns.
View(s) == Overlay(db, txn[s].mine, txn[s].holds, txn[s].holdsRun)

\* Rows that s wants to write and another open transaction has locked.
LockedByOther(s, n) == \E o \in Session \ {s} : n \in txn[o].holds
RunLockedByOther(s) == \E o \in Session \ {s} : txn[o].holdsRun

At(s, label) == txn[s].pc = label
SetTxn(s, t) == txn' = [txn EXCEPT ![s] = t]

\* Transaction t has written rows under the given locks, and goes on at label.
Written(t, rows, nodes, run, label) ==
    [t EXCEPT !.mine = Overlay(NoRows, rows, nodes, run),
              !.holds = nodes, !.holdsRun = run, !.pc = label]

\* Transaction t is about to apply a batch and goes on at next afterwards.  A
\* SELECT without ORDER BY fixes no order of the nodes, so every order is possible.
Planned(t, batch, next) ==
    {[t EXCEPT !.pc = IF queue = <<>> THEN next ELSE "write",
               !.batch = IF queue = <<>> THEN <<>> ELSE batch,
               !.queue = queue,
               !.next = next] : queue \in SetToSeqs(DOMAIN batch)}

-----------------------------------------------------------------------------
(* Requests arrive.  Each begins with _load_run_state.                     *)

\* No other request can see the run before this transaction commits.
CreateRun(s) ==
    /\ At(s, "idle")
    /\ db.run = "absent"
    /\ \A o \in Session : At(o, "idle")
    /\ SetTxn(s, Written(NoTxn, Inserted(definition), Node, TRUE, "dispatch"))
    /\ UNCHANGED <<definition, db, exhausted>>

MarkManualDone(s, n) ==
    /\ At(s, "idle")
    /\ db.run # "absent"
    /\ CanMarkDone(definition, db.node, n)
    /\ \E t \in Planned(NoTxn, ManualCompletion(n), "dispatch") : SetTxn(s, t)
    /\ UNCHANGED <<definition, db, exhausted>>

SubmitGateDecision(s, n, decision) ==
    /\ At(s, "idle")
    /\ db.run # "absent"
    /\ CanDecide(definition, db.node, n)
    /\ \E t \in Planned(NoTxn, GateTransition(n, decision),
                        IF decision = "rejected" THEN "force_failed" ELSE "dispatch") :
          SetTxn(s, t)
    /\ UNCHANGED <<definition, db, exhausted>>

\* The UPDATE of cancel_run starts: its snapshot fixes the rows it will visit.
CancelRun(s) ==
    /\ At(s, "idle")
    /\ db.run # "absent"
    /\ Len(db.run_log) < RunLogLimit
    /\ \E queue \in SetToSeqs({n \in Node : db.node[n] \notin Terminal}) :
          SetTxn(s, [NoTxn EXCEPT !.pc = "cancel", !.queue = queue])
    /\ UNCHANGED <<definition, db, exhausted>>

-----------------------------------------------------------------------------
(* An open request, statement by statement.                                *)

\* _dispatch_ready_adapters: read the statuses, run the adapters.
DispatchReadyAdapters(s) ==
    LET node == View(s).node IN
    /\ At(s, "dispatch")
    /\ \E failing \in SUBSET Invocable(definition, node) :
       \E t \in Planned([txn[s] EXCEPT !.dispatched = (Dispatchable(definition, node) # {})],
                        Dispatch(definition, node, failing), "advance") :
          SetTxn(s, t)
    /\ UNCHANGED <<definition, db, exhausted>>

\* Faulty: the loop ends when no adapter was dispatched, whatever advance did.
AdvancePassStopsEarly(s) ==
    /\ At(s, "advance")
    /\ \E t \in Planned(txn[s], Advance(definition, View(s).node),
                        IF txn[s].dispatched THEN "dispatch" ELSE "finalize") :
          SetTxn(s, t)
    /\ UNCHANGED <<definition, db, exhausted>>

\* Read the statuses again, compute advance, and decide whether to iterate.
AdvancePass(s) ==
    LET batch == Advance(definition, View(s).node)
        quiet == ~txn[s].dispatched /\ DOMAIN batch = {}
        last  == txn[s].iteration + 1 = LoopLimit
        loop  == [txn[s] EXCEPT !.iteration = IF quiet \/ last THEN @ ELSE @ + 1]
    IN
    /\ At(s, "advance")
    /\ \E t \in Planned(loop, batch, IF quiet \/ last THEN "finalize" ELSE "dispatch") :
          SetTxn(s, t)
    /\ exhausted' = (exhausted \/ (last /\ ~quiet))
    /\ UNCHANGED <<definition, db>>

\* One UPDATE of _apply_transitions: it has no condition on the node's status,
\* so after waiting for the row it overwrites whatever it finds.  Its event is
\* put behind those written before; the table itself keeps no such order, and
\* WorkflowEvents says what it keeps.
ApplyTransition(s) ==
    LET t == txn[s]
        n == Head(t.queue)
    IN
    /\ At(s, "write")
    /\ ~LockedByOther(s, n)
    /\ SetTxn(s, [Written(t, ApplyTransitions(View(s), [m \in {n} |-> t.batch[m]]),
                          t.holds \cup {n}, t.holdsRun,
                          IF Len(t.queue) = 1 THEN t.next ELSE "write")
                    EXCEPT !.queue = Tail(@),
                           !.batch = IF Len(t.queue) = 1 THEN <<>> ELSE @])
    /\ UNCHANGED <<definition, db, exhausted>>

\* One row of cancel_run's UPDATE: its condition on the status is evaluated
\* again on the newest version of the row.
SkipNode(s) ==
    LET t == txn[s]
        n == Head(t.queue)
        skip == IF View(s).node[n] \in Terminal THEN <<>>
                ELSE [m \in {n} |-> Moves("skipped", "node.skipped")]
    IN
    /\ At(s, "cancel") /\ t.queue # <<>>
    /\ ~LockedByOther(s, n)
    /\ SetTxn(s, [Written(t, ApplyTransitions(View(s), skip),
                          t.holds \cup {n}, t.holdsRun, "cancel")
                    EXCEPT !.queue = Tail(@)])
    /\ UNCHANGED <<definition, db, exhausted>>

\* The second UPDATE of cancel_run and the run.cancelled event.
CancelRunRow(s) ==
    /\ At(s, "cancel") /\ txn[s].queue = <<>>
    /\ ~RunLockedByOther(s)
    /\ SetTxn(s, Written(txn[s], MarkCancelled(View(s)), txn[s].holds, TRUE, "commit"))
    /\ UNCHANGED <<definition, db, exhausted>>

\* Faulty: the forced status of a rejected gate is ignored.
ComputeRunStatusUnforced(s) ==
    /\ txn[s].pc \in {"finalize", "force_failed"}
    /\ SetTxn(s, [txn[s] EXCEPT !.pc = "update_run",
                                !.status = ComputedRunStatus(View(s).node)])
    /\ UNCHANGED <<definition, db, exhausted>>

\* _finalize_run_status reads the statuses ...
ComputeRunStatus(s) ==
    /\ txn[s].pc \in {"finalize", "force_failed"}
    /\ SetTxn(s, [txn[s] EXCEPT
            !.pc = "update_run",
            !.status = IF At(s, "force_failed") THEN "failed"
                                                ELSE ComputedRunStatus(View(s).node)])
    /\ UNCHANGED <<definition, db, exhausted>>

\* ... and then updates the run, if the row does not have the status already.
FinalizeRunStatus(s) ==
    LET t == txn[s]
        same == View(s).run = t.status
    IN
    /\ At(s, "update_run")
    /\ same \/ ~RunLockedByOther(s)
    /\ SetTxn(s, Written(t, Finalize(View(s), t.status), t.holds,
                         t.holdsRun \/ ~same, "commit"))
    /\ UNCHANGED <<definition, db, exhausted>>

Commit(s) ==
    /\ At(s, "commit")
    /\ db' = View(s)
    /\ SetTxn(s, NoTxn)
    /\ UNCHANGED <<definition, exhausted>>

\* A crash, a lost connection, an unexpected exception or a deadlock.
Rollback(s) ==
    /\ ~At(s, "idle")
    /\ SetTxn(s, NoTxn)
    /\ UNCHANGED <<definition, db, exhausted>>

Step(s) == \/ DispatchReadyAdapters(s) \/ AdvancePass(s) \/ ApplyTransition(s)
           \/ SkipNode(s) \/ CancelRunRow(s)
           \/ ComputeRunStatus(s) \/ FinalizeRunStatus(s) \/ Commit(s)

-----------------------------------------------------------------------------
(* Deadlock detection: some open transactions wait for each other.         *)

WaitsFor(s, o) ==
    \/ /\ txn[s].pc \in {"write", "cancel"}
       /\ txn[s].queue # <<>>
       /\ Head(txn[s].queue) \in txn[o].holds
    \/ /\ \/ At(s, "cancel") /\ txn[s].queue = <<>>
          \/ At(s, "update_run") /\ View(s).run # txn[s].status
       /\ txn[o].holdsRun

\* Faulty: transactions that wait for each other are left alone.
NeverDeadlocked(s) == FALSE

Deadlocked(s) ==
    \E D \in SUBSET Session :
        s \in D /\ \A d \in D : \E o \in D \ {d} : WaitsFor(d, o)

AbortDeadlock(s) == Deadlocked(s) /\ Rollback(s)

Next == \E s \in Session :
            \/ CreateRun(s)
            \/ \E n \in Node : MarkManualDone(s, n)
            \/ \E n \in Node, decision \in {"approved", "rejected"} :
                  SubmitGateDecision(s, n, decision)
            \/ CancelRun(s)
            \/ Step(s)
            \/ Rollback(s)

Spec == Init /\ [][Next]_vars

\* A request that was started keeps being executed.  Strong fairness: a
\* request that waits for a row gets it in the end, because PostgreSQL queues
\* those who wait for a row.  The deadlock detector aborts one of a cycle.
FairSpec == Spec /\ \A s \in Session : SF_vars(Step(s))
                 /\ WF_vars(\E o \in Session : AbortDeadlock(o))

-----------------------------------------------------------------------------
(* Properties that overlapping requests do not break.                      *)

TypeOK ==
    /\ definition \in Definition
    /\ db \in Rows
    /\ exhausted \in BOOLEAN
    /\ \A s \in Session :
        /\ txn[s].pc \in {"idle", "dispatch", "advance", "write", "cancel", "finalize",
                          "force_failed", "update_run", "commit"}
        /\ txn[s].mine \in Rows
        /\ txn[s].holds \subseteq Node
        /\ txn[s].queue \in Seq(Node)
        /\ txn[s].status \in RunStatus \cup {"absent"}

Justifies(events, n) == \E event \in events : Logged(db, n, event)

Completing == {"node.completed", "gate.approved", "node.skipped"}
Failing    == {"node.failed", "gate.rejected"}

InRunLog(event) == \E i \in 1..Len(db.run_log) : db.run_log[i] = event

\* Whatever a stale read leads to, the committed events justify what was done:
\* a node was only promoted after events that let every upstream node pass,
\* and a run only reported completed or failed after the events that say so.
\* An event built on another request's uncommitted work would break this.
EventsAreJustified ==
    /\ \A n \in Node : Logged(db, n, "node.ready") =>
          \A u \in Upstream(definition, n) : Justifies(Completing, u)
    /\ InRunLog("run.completed") => \A n \in Node : Justifies(Completing, n)
    /\ InRunLog("run.failed") => \E n \in Node : Justifies(Failing, n)

\* A request that makes an automated node ready also finishes it, before any
\* other request can see it: no adapter is left for somebody else to run.
AutomatedNeverWaits ==
    ~exhausted => \A n \in Node : db.node[n] = "ready" => definition.kind[n] # "automated"

\* Every request ends, although requests wait for each other's rows: cancel_run
\* and a drive lock the same rows in different orders.
RequestsEnd == \A s \in Session : ~At(s, "idle") ~> At(s, "idle")

-----------------------------------------------------------------------------
(* With a single session, WorkflowTxn implements WorkflowRun.              *)

only == CHOOSE s \in Session : TRUE
open == txn[only]

\* A batch counts as applied as soon as it is computed, and so does the status
\* that _finalize_run_status computes.
Applied ==
    CASE open.pc = "idle"       -> db
      [] open.pc = "write"      -> ApplyTransitions(View(only),
                                       Restrict(open.batch, ToSet(open.queue)))
      [] open.pc = "cancel"     -> Cancelled(View(only))
      [] open.pc = "update_run" -> Finalize(View(only), open.status)
      [] OTHER                  -> View(only)

Stage ==
    CASE open.pc = "write" -> open.next
      [] open.pc \in {"cancel", "update_run"} -> "commit"
      [] OTHER -> open.pc

Serial == INSTANCE WorkflowRun WITH
    work <- Applied,
    pc <- Stage,
    dispatched <- open.dispatched,
    iteration <- open.iteration

\* Requests that do not overlap behave as if each computed its batches and
\* applied them at once: what WorkflowRun's runs and proofs establish is true
\* of the statements the code executes, as long as nobody else is around.
ImplementsWorkflowRun == Serial!Spec

-----------------------------------------------------------------------------
(* What the docstring of _advance_until_blocked says and overlapping       *)
(* requests break.                                                         *)

\* "Drive the run forward until it blocks on human input or completes": when
\* no request is open, no node of a running run waits to be promoted.
DrivenUntilBlocked ==
    /\ \A s \in Session : At(s, "idle")
    /\ db.run = "running"
    /\ ~exhausted
    => Promotable(definition, db.node) = {}
=============================================================================
