----------------------------- MODULE WorkflowRun -----------------------------
(***************************************************************************)
(* One workflow run, driven by requests that do not overlap: the service   *)
(* functions of workflow/runs.py.  A request is one database transaction:  *)
(* it works on its own copy of the run's rows (work), loops over           *)
(* _dispatch_ready_adapters and advance, finalizes the run status and      *)
(* commits (db), or is rolled back by a failure at any point.              *)
(* WorkflowTxn is the same code with requests that do overlap.             *)
(***************************************************************************)
EXTENDS WorkflowRows, FiniteSets

CONSTANTS Definitions,  \* the definitions a run may be created from
          LoopLimit,    \* iterations of _advance_until_blocked (1024 in the code)
          RunLogLimit   \* model bound: cancel is not sent once this many run events exist

ASSUME DefinitionsValid == Definitions \subseteq Definition
ASSUME LimitsAreNat == LoopLimit \in Nat \ {0} /\ RunLogLimit \in Nat

VARIABLES definition,   \* the pinned template version or document snapshot
          db,           \* committed rows
          work,         \* the rows as the open transaction sees them
          pc,           \* where the open request is
          dispatched,   \* this iteration's dispatch_transitions were not empty
          iteration,    \* iterations of _advance_until_blocked done so far
          exhausted     \* history: a drive was cut off by LoopLimit

vars == <<definition, db, work, pc, dispatched, iteration, exhausted>>
loop == <<dispatched, iteration, exhausted>>

Init == /\ definition \in Definitions
        /\ db = NoRows
        /\ work = NoRows
        /\ pc = "idle"
        /\ dispatched = FALSE
        /\ iteration = 0
        /\ exhausted = FALSE

-----------------------------------------------------------------------------
\* create_run and create_run_from_document, up to the first loop iteration.
CreateRun ==
    /\ pc = "idle"
    /\ db.run = "absent"
    /\ work' = Inserted(definition)
    /\ pc' = "dispatch"
    /\ UNCHANGED <<definition, db, loop>>

MarkManualDone(n) ==
    /\ pc = "idle"
    /\ db.run # "absent"
    /\ CanMarkDone(definition, db.node, n)
    /\ work' = ApplyTransitions(db, ManualCompletion(n))
    /\ pc' = "dispatch"
    /\ UNCHANGED <<definition, db, loop>>

\* Faulty: a rejected gate is driven on like an approved one.
SubmitGateDecisionDriven(n, decision) ==
    /\ pc = "idle"
    /\ db.run # "absent"
    /\ CanDecide(definition, db.node, n)
    /\ work' = ApplyTransitions(db, GateTransition(n, decision))
    /\ pc' = "dispatch"
    /\ UNCHANGED <<definition, db, loop>>

\* A rejected gate is finalized at once, with the status forced to FAILED.
SubmitGateDecision(n, decision) ==
    /\ pc = "idle"
    /\ db.run # "absent"
    /\ CanDecide(definition, db.node, n)
    /\ work' = ApplyTransitions(db, GateTransition(n, decision))
    /\ pc' = IF decision = "rejected" THEN "force_failed" ELSE "dispatch"
    /\ UNCHANGED <<definition, db, loop>>

\* No guard on the run's status: a finished run can be cancelled as well.
CancelRun ==
    /\ pc = "idle"
    /\ db.run # "absent"
    /\ Len(db.run_log) < RunLogLimit
    /\ work' = Cancelled(db)
    /\ pc' = "commit"
    /\ UNCHANGED <<definition, db, loop>>

-----------------------------------------------------------------------------
\* Faulty: what an iteration dispatched is still there in the next one.
DispatchReadyAdaptersKeeping ==
    /\ pc = "dispatch"
    /\ \E failing \in SUBSET Invocable(definition, work.node) :
          work' = ApplyTransitions(work, Dispatch(definition, work.node, failing))
    /\ dispatched' = (dispatched \/ Dispatchable(definition, work.node) # {})
    /\ pc' = "advance"
    /\ UNCHANGED <<definition, db, iteration, exhausted>>

\* Step 1 of an iteration of _advance_until_blocked.
DispatchReadyAdapters ==
    /\ pc = "dispatch"
    /\ \E failing \in SUBSET Invocable(definition, work.node) :
          work' = ApplyTransitions(work, Dispatch(definition, work.node, failing))
    /\ dispatched' = (Dispatchable(definition, work.node) # {})
    /\ pc' = "advance"
    /\ UNCHANGED <<definition, db, iteration, exhausted>>

\* Faulty: the loop ends when no adapter was dispatched, whatever advance did.
AdvancePassStopsEarly ==
    /\ pc = "advance"
    /\ work' = ApplyTransitions(work, Advance(definition, work.node))
    /\ pc' = IF dispatched THEN "dispatch" ELSE "finalize"
    /\ iteration' = IF dispatched THEN iteration + 1 ELSE iteration
    /\ UNCHANGED <<definition, db, dispatched, exhausted>>

\* Faulty: an unbounded loop that never breaks.
AdvancePassForever ==
    /\ pc = "advance"
    /\ work' = ApplyTransitions(work, Advance(definition, work.node))
    /\ pc' = "dispatch"
    /\ UNCHANGED <<definition, db, loop>>

\* Step 2, and the decision to iterate again.
AdvancePass ==
    LET batch == Advance(definition, work.node)
        quiet == ~dispatched /\ DOMAIN batch = {}
        last  == iteration + 1 = LoopLimit
    IN
    /\ pc = "advance"
    /\ work' = ApplyTransitions(work, batch)
    /\ pc' = IF quiet \/ last THEN "finalize" ELSE "dispatch"
    /\ iteration' = IF quiet \/ last THEN iteration ELSE iteration + 1
    /\ exhausted' = (exhausted \/ (last /\ ~quiet))
    /\ UNCHANGED <<definition, db, dispatched>>

FinalizeRunStatus ==
    /\ pc \in {"finalize", "force_failed"}
    /\ work' = Finalize(work, IF pc = "force_failed" THEN "failed"
                                                     ELSE ComputedRunStatus(work.node))
    /\ pc' = "commit"
    /\ UNCHANGED <<definition, db, loop>>

Commit ==
    /\ pc = "commit"
    /\ db' = work
    /\ pc' = "idle"
    /\ dispatched' = FALSE /\ iteration' = 0
    /\ UNCHANGED <<definition, work, exhausted>>

\* A crash, a lost connection or an unexpected exception: the transaction of
\* the request is rolled back (dependencies/org.py, conn.transaction()).
Rollback ==
    /\ pc # "idle"
    /\ work' = db
    /\ pc' = "idle"
    /\ dispatched' = FALSE /\ iteration' = 0
    /\ UNCHANGED <<definition, db, exhausted>>

\* The steps of an open request; the rest is up to users.
Drive == DispatchReadyAdapters \/ AdvancePass \/ FinalizeRunStatus \/ Commit

Next == \/ CreateRun
        \/ \E n \in Node : MarkManualDone(n)
        \/ \E n \in Node, decision \in {"approved", "rejected"} :
              SubmitGateDecision(n, decision)
        \/ CancelRun
        \/ Drive
        \/ Rollback

Spec == Init /\ [][Next]_vars

\* The server keeps executing a request it has started; no user is obliged
\* to send one.
FairSpec == Spec /\ WF_vars(Drive)

-----------------------------------------------------------------------------
(* Properties of the committed rows.                                       *)

Created == db.run # "absent"

TypeOK ==
    /\ definition \in Definition
    /\ db \in Rows
    /\ work \in Rows
    /\ pc \in {"idle", "dispatch", "advance", "finalize", "force_failed", "commit"}
    /\ dispatched \in BOOLEAN
    /\ iteration \in Nat
    /\ exhausted \in BOOLEAN

Quiet(def, node) ==
    /\ Promotable(def, node) = {}
    /\ \A n \in Node : node[n] = "ready" => def.kind[n] # "automated"

\* _advance_until_blocked "drives the run forward until it blocks on human
\* input or completes": no request leaves behind a node that could be promoted
\* or an automated node that is ready, unless the loop ran into its bound.
BlockedOnHumans ==
    Created /\ ~exhausted => Quiet(definition, db.node)

\* Pass 1 of advance: nobody is asked to work on a node, and no adapter runs,
\* before all upstream nodes are completed.  A skipped upstream node never lets
\* a downstream node start, because cancel_run leaves nothing pending.
UpstreamCompleted ==
    \A n \in Node : db.node[n] \in {"ready", "completed", "failed"} =>
        \A u \in Upstream(definition, n) : db.node[u] = "completed"

\* The run's status agrees with its nodes after every request, whichever of
\* the three ways of finalizing (computed, forced, cancelled) set it.
RunStatusMatchesNodes ==
    /\ db.run = "running" => \E n \in Node : db.node[n] \notin Terminal
    /\ db.run = "completed" => \A n \in Node : db.node[n] = "completed"
    /\ db.run = "failed" => \E n \in Node : db.node[n] = "failed"
    /\ db.run = "cancelled" => \A n \in Node : db.node[n] \in Terminal
    /\ db.run \in {"completed", "failed", "cancelled"} => db.completed_at

\* As long as no node has failed, a run that is not over has a node waiting
\* for a person: the engine never strands a run by itself.
NeverStranded ==
    (/\ db.run = "running"
     /\ ~exhausted
     /\ \A n \in Node : db.node[n] # "failed")
    => \E n \in Node : db.node[n] = "ready" /\ definition.kind[n] # "automated"

\* The migration promises that "the final state of a run can be derived by
\* replaying events".  For nodes it holds while requests do not overlap: a node
\* has one verdict at most, written after it was ready, so its events determine
\* its status and its gate decision without an order being stored.  Requests
\* that overlap break it: see FinalStateReplays in WorkflowEvents.
AuditLogReplays ==
    Created =>
        \A n \in Node :
            /\ db.node[n] = ReplayedStatus(definition, db, n)
            /\ db.decision[n] = "approved" <=> Logged(db, n, "gate.approved")
            /\ db.decision[n] = "rejected" <=> Logged(db, n, "gate.rejected")

\* A verdict on a node is final, whatever requests follow: a node that is
\* completed, failed or skipped is never worked on again, and gets no event.
VerdictsAreFinal ==
    [][\A n \in Node : db.node[n] \in Terminal =>
          /\ db'.node[n] = db.node[n]
          /\ db'.decision[n] = db.decision[n]
          /\ db'.node_log[n] = db.node_log[n]]_vars

\* A cancelled run stays cancelled: its nodes accept no request any more.
CancelledIsFinal ==
    [][db.run = "cancelled" => db'.run = "cancelled"]_vars

\* A drive goes round its loop at most twice per node, so the bound of 1024 "so
\* a buggy template cannot infinite-loop" cuts no drive off whose workflow has
\* fewer than 512 nodes: exhausted, which other properties except, stays FALSE.
PassesBounded ==
    LET passes == 2 * Cardinality(Node) IN
    /\ iteration <= passes
    /\ exhausted => LoopLimit <= passes

\* The committed rows seen as the promise of RunLifecycle.
Promise == INSTANCE RunLifecycle WITH
    gates <- {n \in Node : definition.kind[n] \in {"gate.review", "gate.approve"}},
    status <- db.run,
    verdict <- [n \in Node |-> IF db.run # "absent" /\ db.node[n] \in Terminal
                               THEN db.node[n] ELSE "none"]

\* Every commit of a request is one step of the abstract run lifecycle: no
\* request shows a reader an intermediate state or a verdict taken back.
ImplementsLifecycle == Promise!Spec

\* Every request ends: the drive loop cannot run for ever, so the transaction
\* and the locks it holds are released.
RequestsEnd == (pc # "idle") ~> (pc = "idle")

-----------------------------------------------------------------------------
(* What comments and docstrings say, and the code does not do.             *)

\* runs.py, submit_gate_decision: "Today a rejected gate fails the whole run."
RejectedGateFailsRun ==
    (\E n \in Node : db.decision[n] = "rejected") => db.run \in {"failed", "cancelled"}

\* executor.py, derive_run_status: "Any node failed and no nodes still
\* progressing -> FAILED".  Nothing progresses when no node is ready or running.
FailedAndNotProgressingFails ==
    (/\ \E n \in Node : db.node[n] = "failed"
     /\ \A n \in Node : db.node[n] \notin {"ready", "running"})
    => db.run \in {"failed", "cancelled"}
=============================================================================
