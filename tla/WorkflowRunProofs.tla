-------------------------- MODULE WorkflowRunProofs --------------------------
(***************************************************************************)
(* Proofs about WorkflowRun, for every set of nodes and definitions.       *)
(***************************************************************************)
EXTENDS WorkflowRun, FiniteSetTheorems, TLAPS

Batch(t) == DOMAIN t \subseteq Node /\ t \in [DOMAIN t -> Transition]

\* The fields of a row set after a batch of transitions, one by one.
LEMMA ApplyFields ==
  ASSUME NEW rows \in Rows, NEW t, Batch(t)
  PROVE  LET new == ApplyTransitions(rows, t) IN
         /\ new \in Rows
         /\ new.run = rows.run
         /\ new.completed_at = rows.completed_at
         /\ new.run_log = rows.run_log
         /\ \A n \in DOMAIN t :
              /\ new.node[n] = t[n].new_status
              /\ new.node_log[n] = Append(rows.node_log[n], t[n].event_type)
              /\ t[n].gate_decision # "none" => new.decision[n] = t[n].gate_decision
              /\ t[n].gate_decision = "none" => new.decision[n] = rows.decision[n]
         /\ \A n \in Node \ DOMAIN t :
              /\ new.node[n] = rows.node[n]
              /\ new.node_log[n] = rows.node_log[n]
              /\ new.decision[n] = rows.decision[n]
<1> DEFINE node == [n \in Node |-> IF n \in DOMAIN t THEN t[n].new_status ELSE rows.node[n]]
           decision == [n \in Node |->
              IF n \in DOMAIN t /\ t[n].gate_decision # "none"
              THEN t[n].gate_decision ELSE rows.decision[n]]
           log == [n \in Node |->
              IF n \in DOMAIN t THEN Append(rows.node_log[n], t[n].event_type)
                                ELSE rows.node_log[n]]
<1>1. node \in [Node -> NodeStatus]
  BY DEF Rows, Batch, Transition
<1>2. decision \in [Node -> GateDecision]
  BY DEF Rows, Batch, Transition
<1>3. log \in [Node -> Seq(NodeEvent)]
  BY DEF Rows, Batch, Transition
<1>4. ApplyTransitions(rows, t) =
        [rows EXCEPT !.node = node, !.decision = decision, !.node_log = log]
  BY DEF ApplyTransitions
<1> HIDE DEF node, decision, log
<1>5. /\ ApplyTransitions(rows, t) \in Rows
      /\ ApplyTransitions(rows, t).run = rows.run
      /\ ApplyTransitions(rows, t).completed_at = rows.completed_at
      /\ ApplyTransitions(rows, t).run_log = rows.run_log
      /\ ApplyTransitions(rows, t).node = node
      /\ ApplyTransitions(rows, t).decision = decision
      /\ ApplyTransitions(rows, t).node_log = log
  BY <1>1, <1>2, <1>3, <1>4 DEF Rows
<1>6. QED
  BY <1>5 DEF Batch, node, decision, log

-----------------------------------------------------------------------------
(* Rows that a sequence of legal transitions can produce.                  *)

Verdicts == {Moves("completed", "node.completed"), Moves("failed", "node.failed"),
             [new_status |-> "completed", event_type |-> "gate.approved",
              gate_decision |-> "approved"],
             [new_status |-> "failed", event_type |-> "gate.rejected",
              gate_decision |-> "rejected"]}

\* The two moves the executor makes: promote a node whose upstream nodes have
\* all passed, and give a verdict on a ready node.
LegalBatch(def, node, t) ==
    /\ Batch(t)
    /\ \A n \in DOMAIN t :
        \/ /\ node[n] = "pending"
           /\ \A u \in Upstream(def, n) : node[u] \in Passed
           /\ t[n] = Moves("ready", "node.ready")
        \/ node[n] = "ready" /\ t[n] \in Verdicts

NodesInv(def, rows) ==
    \A n \in Node :
        /\ rows.node[n] \notin {"running", "paused"}
        /\ rows.node[n] \in {"ready", "completed", "failed"} =>
              \A u \in Upstream(def, n) : rows.node[u] = "completed"
        /\ rows.node[n] = "skipped" => rows.run = "cancelled"
        /\ rows.run = "cancelled" => rows.node[n] \in Terminal

\* A node without a verdict has no gate event and no decision, so the events
\* of a gate determine its decision.
LogInv(def, rows) ==
    \A n \in Node :
        /\ rows.node[n] = ReplayedStatus(def, rows, n)
        /\ rows.decision[n] = "approved" <=> Logged(rows, n, "gate.approved")
        /\ rows.decision[n] = "rejected" <=> Logged(rows, n, "gate.rejected")
        /\ rows.node[n] \notin Terminal => rows.decision[n] = "none"

\* A legal batch keeps the invariants of the node rows: _apply_transitions moves
\* live nodes only, in the direction the executor allows.
LEMMA LegalNodes ==
  ASSUME NEW def \in Definition, NEW rows \in Rows, NEW t,
         LegalBatch(def, rows.node, t), NodesInv(def, rows), rows.run # "cancelled"
  PROVE  NodesInv(def, ApplyTransitions(rows, t))
<1> DEFINE new == ApplyTransitions(rows, t)
<1>1. Batch(t)
  BY DEF LegalBatch
<1> SUFFICES ASSUME NEW n \in Node
             PROVE  /\ new.node[n] \notin {"running", "paused"}
                    /\ new.node[n] \in {"ready", "completed", "failed"} =>
                          \A u \in Upstream(def, n) : new.node[u] = "completed"
                    /\ new.node[n] # "skipped"
                    /\ new.run # "cancelled"
  BY DEF NodesInv
<1>2. new.run = rows.run /\ \A m \in Node : rows.node[m] = "completed" => new.node[m] = "completed"
  <2>1. \A m \in DOMAIN t : rows.node[m] # "completed"
    BY DEF LegalBatch
  <2>2. QED
    BY <1>1, <2>1, ApplyFields
<1>3. CASE n \notin DOMAIN t
  <2>1. new.node[n] = rows.node[n]
    BY <1>1, <1>3, ApplyFields
  <2>2. QED
    BY <1>2, <2>1 DEF NodesInv, Upstream
<1>4. CASE n \in DOMAIN t
  <2>1. new.node[n] = t[n].new_status
    BY <1>1, <1>4, ApplyFields
  <2>2. new.node[n] \in {"ready", "completed", "failed"}
    BY <1>4, <2>1 DEF LegalBatch, Moves, Verdicts
  <2>3. \A u \in Upstream(def, n) : rows.node[u] = "completed"
    BY <1>4 DEF LegalBatch, NodesInv, Passed, Upstream
  <2>4. QED
    BY <1>2, <2>2, <2>3 DEF Upstream
<1>5. QED
  BY <1>3, <1>4

\* A legal batch keeps the event rows of a node in step with its status and
\* decision: _apply_transitions writes both.
LEMMA LegalLog ==
  ASSUME NEW def \in Definition, NEW rows \in Rows, NEW t,
         LegalBatch(def, rows.node, t), LogInv(def, rows)
  PROVE  LogInv(def, ApplyTransitions(rows, t))
<1> DEFINE new == ApplyTransitions(rows, t)
<1>1. Batch(t)
  BY DEF LegalBatch
<1> SUFFICES ASSUME NEW n \in Node
             PROVE  /\ new.node[n] = ReplayedStatus(def, new, n)
                    /\ new.decision[n] = "approved" <=> Logged(new, n, "gate.approved")
                    /\ new.decision[n] = "rejected" <=> Logged(new, n, "gate.rejected")
                    /\ new.node[n] \notin Terminal => new.decision[n] = "none"
  BY DEF LogInv
<1>2. CASE n \notin DOMAIN t
  <2>1. /\ new.node[n] = rows.node[n] /\ new.node_log[n] = rows.node_log[n]
        /\ new.decision[n] = rows.decision[n]
    BY <1>1, <1>2, ApplyFields
  <2>2. QED
    BY <2>1 DEF LogInv, ReplayedStatus, Logged
<1>3. CASE n \in DOMAIN t
  <2> DEFINE log == rows.node_log[n]
             event == t[n].event_type
  <2>1. /\ new.node[n] = t[n].new_status
        /\ new.node_log[n] = Append(log, event)
        /\ t[n].gate_decision # "none" => new.decision[n] = t[n].gate_decision
        /\ t[n].gate_decision = "none" => new.decision[n] = rows.decision[n]
    BY <1>1, <1>3, ApplyFields
  <2>2. log \in Seq(NodeEvent) /\ event \in NodeEvent
    BY <1>1, <1>3 DEF Rows, Batch, Transition
  <2>3. /\ new.node_log[n] # <<>>
        /\ new.node_log[n][Len(new.node_log[n])] = event
    BY <2>1, <2>2
  <2>4. \A x : Logged(new, n, x) <=> Logged(rows, n, x) \/ x = event
    BY <2>1, <2>2 DEF Logged
  <2>5. rows.decision[n] = "none"
    BY <1>3 DEF LegalBatch, LogInv, Terminal
  <2>6. ~Logged(rows, n, "gate.approved") /\ ~Logged(rows, n, "gate.rejected")
    BY <2>5 DEF LogInv
  <2>7. t[n] \in Verdicts \cup {Moves("ready", "node.ready")}
    BY <1>3 DEF LegalBatch
  <2>8. new.node[n] = ReplayedStatus(def, new, n)
    <3>1. t[n].new_status = StatusAfter(event)
      BY <2>7 DEF StatusAfter, Verdicts, Moves
    <3>2. QED
      BY <2>1, <2>3, <3>1 DEF ReplayedStatus
  <2>9. /\ t[n].gate_decision = "approved" <=> event = "gate.approved"
        /\ t[n].gate_decision = "rejected" <=> event = "gate.rejected"
        /\ t[n].gate_decision \in GateDecision
        /\ t[n].new_status \notin Terminal => t[n].gate_decision = "none"
    BY <2>7 DEF Verdicts, Moves, Terminal, GateDecision
  <2>10. new.decision[n] = t[n].gate_decision
    BY <2>1, <2>5
  <2>11. /\ Logged(new, n, "gate.approved") <=> event = "gate.approved"
         /\ Logged(new, n, "gate.rejected") <=> event = "gate.rejected"
    BY <2>4, <2>6
  <2>12. QED
    BY <2>1, <2>8, <2>9, <2>10, <2>11
<1>4. QED
  BY <1>2, <1>3

-----------------------------------------------------------------------------
(* The inductive invariant.                                                *)

RowsInv(def, rows) ==
    /\ rows.run \in {"absent", "running", "completed", "failed", "cancelled"}
    /\ NodesInv(def, rows)
    /\ rows.run = "absent" => rows = NoRows
    /\ rows.run # "absent" => LogInv(def, rows)
    /\ rows.run \in {"completed", "failed", "cancelled"} => rows.completed_at
    /\ rows.run = "failed" => \E n \in Node : rows.node[n] = "failed"

\* The part of RunStatusMatchesNodes that a request restores when it finalizes.
Settled(rows) ==
    /\ rows.run = "running" => \E n \in Node : rows.node[n] \notin Terminal
    /\ rows.run = "completed" => \A n \in Node : rows.node[n] = "completed"

\* What a request keeps of the rows it started from.
Extends(old, new) ==
    /\ \A n \in Node : old.node[n] \in Terminal =>
          /\ new.node[n] = old.node[n]
          /\ new.decision[n] = old.decision[n]
          /\ new.node_log[n] = old.node_log[n]
    /\ old.run = "cancelled" => new.run = "cancelled"

\* What each point of an open request knows about its rows.
RequestInv ==
    /\ pc = "idle" => work = db
    /\ pc \in {"dispatch", "advance", "finalize", "force_failed"} =>
          work.run \in {"running", "failed"}
    /\ pc = "advance" /\ ~dispatched => Dispatchable(definition, work.node) = {}
    /\ pc \in {"finalize", "force_failed", "commit"} /\ ~exhausted =>
          Quiet(definition, work.node)
    /\ pc = "force_failed" => \E n \in Node : work.node[n] = "failed"
    /\ pc = "commit" => Settled(work) /\ work.run # "absent"

IInv ==
    /\ TypeOK
    /\ RowsInv(definition, db)
    /\ RowsInv(definition, work)
    /\ Settled(db)
    /\ BlockedOnHumans
    /\ Extends(db, work)
    /\ RequestInv

-----------------------------------------------------------------------------
(* Every batch the executor computes is legal.                             *)

\* The transitions the executor emits are Transition objects.
LEMMA VerdictIsTransition ==
  /\ \A v \in Verdicts : v \in Transition
  /\ Moves("ready", "node.ready") \in Transition
  /\ Moves("skipped", "node.skipped") \in Transition
BY DEF Verdicts, Moves, Transition, NodeStatus, NodeEvent, GateDecision

\* apply_manual_completion, past its guards, returns a legal batch.
LEMMA ManualLegal ==
  ASSUME NEW def, NEW node, NEW n \in Node, CanMarkDone(def, node, n)
  PROVE  LegalBatch(def, node, ManualCompletion(n))
<1>1. ManualCompletion(n) = [m \in {n} |-> Moves("completed", "node.completed")]
  BY DEF ManualCompletion
<1>2. Moves("completed", "node.completed") \in Verdicts
  BY DEF Verdicts
<1>3. QED
  BY <1>1, <1>2, VerdictIsTransition DEF LegalBatch, Batch, CanMarkDone

\* apply_gate_decision, past its guards, returns a legal batch.
LEMMA GateLegal ==
  ASSUME NEW def, NEW node, NEW n \in Node, NEW decision, CanDecide(def, node, n)
  PROVE  LegalBatch(def, node, GateTransition(n, decision))
<1>1. /\ DOMAIN GateTransition(n, decision) = {n}
      /\ GateTransition(n, decision) = [m \in {n} |-> GateTransition(n, decision)[m]]
      /\ GateTransition(n, decision)[n] \in Verdicts
  BY DEF GateTransition, Verdicts
<1>2. QED
  BY <1>1, VerdictIsTransition DEF LegalBatch, Batch, CanDecide

\* _dispatch_ready_adapters builds a legal batch, whichever adapters fail.
LEMMA DispatchLegal ==
  ASSUME NEW def, NEW node, NEW failing
  PROVE  LegalBatch(def, node, Dispatch(def, node, failing))
<1>1. /\ DOMAIN Dispatch(def, node, failing) = Dispatchable(def, node)
      /\ Dispatch(def, node, failing) =
            [m \in Dispatchable(def, node) |-> Dispatch(def, node, failing)[m]]
      /\ \A n \in Dispatchable(def, node) : Dispatch(def, node, failing)[n] \in Verdicts
  BY DEF Dispatch, Verdicts
<1>2. QED
  BY <1>1, VerdictIsTransition DEF LegalBatch, Batch, Dispatchable

\* advance returns a legal batch: it readies a node only when every upstream
\* node has passed, and completes only ready placeholders.
LEMMA AdvanceLegal ==
  ASSUME NEW def, NEW node
  PROVE  LegalBatch(def, node, Advance(def, node))
<1> DEFINE S == Promotable(def, node) \cup Placeholders(def, node)
<1>1. /\ DOMAIN Advance(def, node) = S
      /\ Advance(def, node) = [m \in S |-> Advance(def, node)[m]]
      /\ \A n \in S : Advance(def, node)[n] =
            IF node[n] = "pending" THEN Moves("ready", "node.ready")
                                   ELSE Moves("completed", "node.completed")
  BY DEF Advance
<1>2. Moves("completed", "node.completed") \in Verdicts
  BY DEF Verdicts
<1>3. \A n \in S :
        \/ /\ node[n] = "pending"
           /\ \A u \in Upstream(def, n) : node[u] \in Passed
           /\ Advance(def, node)[n] = Moves("ready", "node.ready")
        \/ node[n] = "ready" /\ Advance(def, node)[n] \in Verdicts
  BY <1>1, <1>2 DEF Promotable, Placeholders
<1>4. Batch(Advance(def, node))
  BY <1>1, <1>3, VerdictIsTransition DEF Batch, Promotable, Placeholders
<1>5. QED
  BY <1>1, <1>3, <1>4 DEF LegalBatch

\* A legal batch keeps the rows consistent and takes no verdict back.
LEMMA LegalStep ==
  ASSUME NEW def \in Definition, NEW rows \in Rows, RowsInv(def, rows),
         rows.run \in {"running", "failed"},
         NEW t, LegalBatch(def, rows.node, t)
  PROVE  LET new == ApplyTransitions(rows, t) IN
         /\ new \in Rows
         /\ RowsInv(def, new)
         /\ Extends(rows, new)
         /\ new.run = rows.run
<1> DEFINE new == ApplyTransitions(rows, t)
<1>1. Batch(t)
  BY DEF LegalBatch
<1>2. new \in Rows /\ new.run = rows.run /\ new.completed_at = rows.completed_at
  BY <1>1, ApplyFields
<1>3. Extends(rows, new)
  <2>1. \A n \in DOMAIN t : rows.node[n] \notin Terminal
    BY DEF LegalBatch, Terminal
  <2>2. \A n \in Node \ DOMAIN t :
          /\ new.node[n] = rows.node[n]
          /\ new.node_log[n] = rows.node_log[n]
          /\ new.decision[n] = rows.decision[n]
    BY <1>1, ApplyFields
  <2>3. QED
    BY <1>2, <2>1, <2>2 DEF Extends
<1>4. NodesInv(def, new)
  BY LegalNodes DEF RowsInv
<1>5. LogInv(def, new)
  BY LegalLog DEF RowsInv
<1>6. rows.run = "failed" => \E n \in Node : new.node[n] = "failed"
  BY <1>3 DEF RowsInv, Extends, Terminal
<1>7. QED
  BY <1>2, <1>3, <1>4, <1>5, <1>6 DEF RowsInv

\* Taking no verdict back is transitive over the batches of one request.
LEMMA ExtendsTransitive ==
  ASSUME NEW a, NEW b, NEW c, Extends(a, b), Extends(b, c)
  PROVE  Extends(a, c)
BY DEF Extends

-----------------------------------------------------------------------------
(* The two steps that write the run row.                                   *)

\* cancel_run leaves consistent rows, with every node terminal, and takes no
\* verdict back.
LEMMA CancelStep ==
  ASSUME NEW def \in Definition, NEW rows \in Rows, RowsInv(def, rows), rows.run # "absent"
  PROVE  LET new == Cancelled(rows) IN
         /\ new \in Rows
         /\ RowsInv(def, new)
         /\ Extends(rows, new)
         /\ new.run = "cancelled"
         /\ Quiet(def, new.node)
<1> DEFINE open == {n \in Node : rows.node[n] \notin Terminal}
           t == [n \in open |-> Moves("skipped", "node.skipped")]
           mid == ApplyTransitions(rows, t)
           new == Cancelled(rows)
<1>1. Batch(t)
  BY VerdictIsTransition DEF Batch
<1>2. /\ mid \in Rows
      /\ \A n \in open : /\ mid.node[n] = "skipped"
                         /\ mid.node_log[n] = Append(rows.node_log[n], "node.skipped")
                         /\ mid.decision[n] = rows.decision[n]
      /\ \A n \in Node \ open : /\ mid.node[n] = rows.node[n]
                                /\ mid.node_log[n] = rows.node_log[n]
                                /\ mid.decision[n] = rows.decision[n]
  <2>1. \A n \in open : t[n] = Moves("skipped", "node.skipped")
    OBVIOUS
  <2>2. /\ Moves("skipped", "node.skipped").new_status = "skipped"
        /\ Moves("skipped", "node.skipped").event_type = "node.skipped"
        /\ Moves("skipped", "node.skipped").gate_decision = "none"
    BY DEF Moves
  <2>3. DOMAIN t = open
    OBVIOUS
  <2> HIDE DEF t
  <2>4. QED
    BY <1>1, <2>1, <2>2, <2>3, ApplyFields
<1>3. new = [mid EXCEPT !.run = "cancelled", !.completed_at = TRUE,
                        !.run_log = Append(mid.run_log, "run.cancelled")]
  <2>1. mid.run_log = rows.run_log
    BY <1>1, ApplyFields
  <2>2. QED
    BY <2>1 DEF Cancelled, MarkCancelled
<1> HIDE DEF mid, new
<1>4. Append(mid.run_log, "run.cancelled") \in Seq(RunEvent)
  BY <1>2 DEF Rows, RunEvent
<1>5. /\ new \in Rows
      /\ new.run = "cancelled" /\ new.completed_at
      /\ new.node = mid.node /\ new.decision = mid.decision
      /\ new.node_log = mid.node_log
  BY <1>2, <1>3, <1>4 DEF Rows, RunStatus
<1>6. \A n \in Node : new.node[n] \in Terminal
  <2>1. \A n \in open : new.node[n] = "skipped"
    BY <1>2, <1>5
  <2>2. \A n \in Node \ open : new.node[n] = rows.node[n] /\ rows.node[n] \in Terminal
    BY <1>2, <1>5, Zenon
  <2>3. "skipped" \in Terminal
    BY DEF Terminal
  <2>4. QED
    BY <2>1, <2>2, <2>3
<1>7. Extends(rows, new)
  BY <1>2, <1>5 DEF Extends
<1>8. NodesInv(def, new)
  <2> SUFFICES ASSUME NEW n \in Node, new.node[n] \in {"ready", "completed", "failed"}
               PROVE  \A u \in Upstream(def, n) : new.node[u] = "completed"
    BY <1>5, <1>6 DEF NodesInv, Terminal
  <2>1. new.node[n] = rows.node[n]
    BY <1>2, <1>5
  <2>2. \A u \in Upstream(def, n) : u \in Node /\ rows.node[u] = "completed"
    BY <2>1 DEF RowsInv, NodesInv, Upstream
  <2>3. QED
    BY <1>2, <1>5, <2>2 DEF Terminal
<1>9. LogInv(def, new)
  <2> SUFFICES ASSUME NEW n \in Node
               PROVE  /\ new.node[n] = ReplayedStatus(def, new, n)
                      /\ new.decision[n] = "approved" <=> Logged(new, n, "gate.approved")
                      /\ new.decision[n] = "rejected" <=> Logged(new, n, "gate.rejected")
    BY <1>6 DEF LogInv
  <2>1. CASE n \notin open
    BY <1>2, <1>5, <2>1 DEF RowsInv, LogInv, ReplayedStatus, Logged
  <2>2. CASE n \in open
    <3> DEFINE log == rows.node_log[n]
    <3>1. /\ new.node[n] = "skipped" /\ new.decision[n] = rows.decision[n]
          /\ new.node_log[n] = Append(log, "node.skipped")
          /\ log \in Seq(NodeEvent)
      BY <1>2, <1>5, <2>2 DEF Rows
    <3>2. /\ new.node_log[n] # <<>>
          /\ new.node_log[n][Len(new.node_log[n])] = "node.skipped"
      BY <3>1
    <3>3. \A x : Logged(new, n, x) <=> Logged(rows, n, x) \/ x = "node.skipped"
      BY <3>1 DEF Logged
    <3>4. QED
      BY <3>1, <3>2, <3>3 DEF RowsInv, LogInv, ReplayedStatus, StatusAfter
  <2>3. QED
    BY <2>1, <2>2
<1>10. Quiet(def, new.node)
  BY <1>6 DEF Quiet, Promotable, Terminal
<1>11. QED
  BY <1>5, <1>7, <1>8, <1>9, <1>10 DEF RowsInv, new

\* Finalizing makes the run's status agree with its nodes.
LEMMA FinalizeStep ==
  ASSUME NEW def \in Definition, NEW rows \in Rows, RowsInv(def, rows),
         rows.run \in {"running", "failed"},
         NEW status,
         \/ status = ComputedRunStatus(rows.node)
         \/ status = "failed" /\ \E n \in Node : rows.node[n] = "failed"
  PROVE  LET new == Finalize(rows, status) IN
         /\ new \in Rows
         /\ RowsInv(def, new)
         /\ Settled(new)
         /\ Extends(rows, new)
         /\ new.node = rows.node
         /\ new.run # "absent"
<1> DEFINE new == Finalize(rows, status)
<1>1. /\ status \in {"running", "completed", "failed"}
      /\ status = "running" => \E n \in Node : rows.node[n] \notin Terminal
      /\ status = "failed" => \E n \in Node : rows.node[n] = "failed"
      /\ status = "completed" => \A n \in Node : rows.node[n] = "completed"
  <2>1. \A n \in Node : rows.node[n] # "skipped"
    BY DEF RowsInv, NodesInv
  <2>2. CASE status = "failed" /\ \E n \in Node : rows.node[n] = "failed"
    BY <2>2
  <2>3. CASE status = ComputedRunStatus(rows.node)
    BY <2>1, <2>3 DEF ComputedRunStatus, IsRunTerminal, DeriveRunStatus, Terminal
  <2>4. QED
    BY <2>2, <2>3
<1>2. CASE rows.run = status
  <2>1. new = rows
    BY <1>2 DEF Finalize
  <2>2. QED
    BY <1>1, <1>2, <2>1 DEF Settled, Extends
<1>3. CASE rows.run # status
  <2> DEFINE log == CASE status = "completed" -> Append(rows.run_log, "run.completed")
                      [] status = "failed"    -> Append(rows.run_log, "run.failed")
                      [] OTHER                -> rows.run_log
             done == rows.completed_at \/ status \in {"completed", "failed"}
  <2>1. new = [rows EXCEPT !.run = status, !.completed_at = done, !.run_log = log]
    BY <1>3 DEF Finalize
  <2>2. log \in Seq(RunEvent)
    <3>1. /\ rows.run_log \in Seq(RunEvent)
          /\ Append(rows.run_log, "run.completed") \in Seq(RunEvent)
          /\ Append(rows.run_log, "run.failed") \in Seq(RunEvent)
      BY DEF Rows, RunEvent
    <3>2. CASE status = "completed"
      BY <3>1, <3>2
    <3>3. CASE status = "failed"
      BY <3>1, <3>3
    <3>4. CASE status = "running"
      BY <3>1, <3>4
    <3>5. QED
      BY <1>1, <3>2, <3>3, <3>4
  <2>3. done \in BOOLEAN
    BY DEF Rows
  <2> HIDE DEF log, done, new
  <2>4. /\ new \in Rows
        /\ new.run = status /\ new.completed_at = done
        /\ new.node = rows.node /\ new.decision = rows.decision
        /\ new.node_log = rows.node_log
    BY <1>1, <2>1, <2>2, <2>3 DEF Rows, RunStatus
  <2>5. NodesInv(def, new)
    BY <2>4, <1>1 DEF RowsInv, NodesInv
  <2>6. LogInv(def, new)
    <3>1. LogInv(def, rows)
      BY DEF RowsInv
    <3>2. \A n, x : Logged(new, n, x) <=> Logged(rows, n, x)
      BY <2>4 DEF Logged
    <3>3. \A n : ReplayedStatus(def, new, n) = ReplayedStatus(def, rows, n)
      BY <2>4 DEF ReplayedStatus
    <3>4. QED
      BY <2>4, <3>1, <3>2, <3>3 DEF LogInv
  <2>7. status \in {"completed", "failed"} => done
    BY DEF done
  <2>8. QED
    BY <1>1, <2>4, <2>5, <2>6, <2>7 DEF RowsInv, Settled, Extends, new
<1>4. QED
  BY <1>2, <1>3

-----------------------------------------------------------------------------
(* The invariant holds initially and is kept by every action.              *)

\* The rows before create_run have their types.
LEMMA NoRowsType == NoRows \in Rows
BY DEF NoRows, Rows, NodeStatus, GateDecision

\* The inductive invariant holds before create_run.
LEMMA InitIInv == Init => IInv
<1> SUFFICES ASSUME Init PROVE IInv
  OBVIOUS
<1>1. NoRows \in Rows
  BY NoRowsType
<1>2. TypeOK
  BY <1>1, DefinitionsValid DEF Init, TypeOK
<1>3. RowsInv(definition, NoRows)
  BY DEF RowsInv, NodesInv, NoRows
<1>4. Settled(NoRows) /\ Extends(NoRows, NoRows)
  BY DEF Settled, NoRows, Extends
<1>5. BlockedOnHumans /\ RequestInv
  BY DEF Init, BlockedOnHumans, Created, RequestInv, NoRows
<1>6. QED
  BY <1>2, <1>3, <1>4, <1>5 DEF IInv, Init

\* The rows of an inserted run: entry nodes ready, everything else pending.
LEMMA InsertedRows ==
  ASSUME NEW def \in Definition
  PROVE  /\ Inserted(def) \in Rows
         /\ Inserted(def).run = "running"
         /\ RowsInv(def, Inserted(def))
<1> DEFINE new == Inserted(def)
<1>1. InitialNodeStates(def) \in [Node -> {"ready", "pending"}]
  BY DEF InitialNodeStates
<1>2. \A n \in Node : InitialNodeStates(def)[n] = "ready" => Upstream(def, n) = {}
  BY DEF InitialNodeStates, EntryKeys
<1>3. /\ new \in Rows
      /\ new.run = "running"
      /\ new.node = InitialNodeStates(def)
      /\ new.decision = [n \in Node |-> "none"]
      /\ new.node_log = [n \in Node |-> <<>>]
  <2> DEFINE log == <<"run.started">>
             nodes == InitialNodeStates(def)
  <2>1. log \in Seq(RunEvent) /\ nodes \in [Node -> NodeStatus]
    BY <1>1 DEF RunEvent, NodeStatus
  <2>2. new = [NoRows EXCEPT !.run = "running", !.node = nodes, !.run_log = log]
    BY DEF Inserted
  <2>3. /\ NoRows \in Rows
        /\ NoRows.decision = [n \in Node |-> "none"]
        /\ NoRows.node_log = [n \in Node |-> <<>>]
    BY NoRowsType DEF NoRows
  <2> HIDE DEF log, nodes, new
  <2>4. /\ new \in Rows /\ new.run = "running" /\ new.node = nodes
        /\ new.decision = NoRows.decision /\ new.node_log = NoRows.node_log
    BY <2>1, <2>2, <2>3 DEF Rows, RunStatus
  <2>5. QED
    BY <2>3, <2>4 DEF nodes, new
<1> HIDE DEF new
<1>4. NodesInv(def, new)
  BY <1>1, <1>2, <1>3 DEF NodesInv
<1>5. LogInv(def, new)
  <2>1. \A n \in Node : new.node_log[n] = <<>>
    BY <1>3
  <2>2. \A n \in Node : \A x : ~Logged(new, n, x)
    BY <2>1 DEF Logged
  <2>3. \A n \in Node : ReplayedStatus(def, new, n) = new.node[n]
    BY <1>3, <2>1 DEF ReplayedStatus
  <2>4. QED
    BY <1>3, <2>2, <2>3 DEF LogInv
<1>6. QED
  BY <1>3, <1>4, <1>5 DEF RowsInv, new

\* create_run and create_run_from_document keep the inductive invariant.
LEMMA CreateRunInv == IInv /\ CreateRun => IInv'
<1> SUFFICES ASSUME IInv, CreateRun PROVE IInv'
  OBVIOUS
<1>1. definition \in Definition
  BY DEF IInv, TypeOK
<1>2. /\ work' \in Rows /\ work'.run = "running"
      /\ RowsInv(definition, work')
  BY <1>1, InsertedRows DEF CreateRun
<1>3. Extends(db, work')
  BY DEF CreateRun, IInv, RowsInv, NoRows, Extends, Terminal
<1>4. QED
  BY <1>2, <1>3 DEF CreateRun, IInv, TypeOK, RequestInv, BlockedOnHumans, Created, loop

\* A node that is ready belongs to a run that is neither over nor absent.
LEMMA ReadyMeansLive ==
  ASSUME IInv, db.run # "absent", NEW n \in Node, db.node[n] = "ready"
  PROVE  db.run \in {"running", "failed"}
BY DEF IInv, RowsInv, NodesInv, Settled, Terminal

\* mark_manual_done keeps the inductive invariant.
LEMMA MarkManualDoneInv ==
  ASSUME IInv, NEW n \in Node, MarkManualDone(n)
  PROVE  IInv'
<1>1. db.run \in {"running", "failed"}
  BY ReadyMeansLive DEF MarkManualDone, CanMarkDone
<1>2. /\ work' \in Rows /\ RowsInv(definition, work')
      /\ Extends(db, work') /\ work'.run = db.run
  BY <1>1, ManualLegal, LegalStep DEF MarkManualDone, IInv, TypeOK
<1>3. QED
  BY <1>1, <1>2 DEF MarkManualDone, IInv, TypeOK, RequestInv, BlockedOnHumans, Created, loop

\* submit_gate_decision keeps the inductive invariant, for both decisions.
LEMMA SubmitGateDecisionInv ==
  ASSUME IInv, NEW n \in Node, NEW decision \in {"approved", "rejected"},
         SubmitGateDecision(n, decision)
  PROVE  IInv'
<1> DEFINE t == GateTransition(n, decision)
<1>1. db.run \in {"running", "failed"}
  BY ReadyMeansLive DEF SubmitGateDecision, CanDecide
<1>2. LegalBatch(definition, db.node, t) /\ work' = ApplyTransitions(db, t)
  BY GateLegal DEF SubmitGateDecision
<1>3. /\ work' \in Rows /\ RowsInv(definition, work')
      /\ Extends(db, work') /\ work'.run = db.run
  BY <1>1, <1>2, LegalStep DEF IInv, TypeOK
<1>4. ASSUME decision = "rejected"
      PROVE  /\ work'.node[n] = "failed"
             /\ ~exhausted => Quiet(definition, work'.node)
  <2>1. /\ DOMAIN t = {n} /\ t[n].new_status = "failed"
    BY <1>4 DEF GateTransition
  <2>2. /\ work'.node[n] = "failed"
        /\ \A m \in Node \ {n} : work'.node[m] = db.node[m]
    BY <1>2, <2>1, ApplyFields DEF LegalBatch, IInv, TypeOK
  <2>3. ~exhausted => Quiet(definition, db.node)
    BY <1>1 DEF IInv, BlockedOnHumans, Created
  <2>4. QED
    BY <2>2, <2>3 DEF Quiet, Promotable, Upstream, Passed
<1>5. QED
  BY <1>1, <1>3, <1>4
     DEF SubmitGateDecision, IInv, TypeOK, RequestInv, BlockedOnHumans, Created, loop

\* cancel_run keeps the inductive invariant, whatever state the run is in.
LEMMA CancelRunInv == IInv /\ CancelRun => IInv'
<1> SUFFICES ASSUME IInv, CancelRun PROVE IInv'
  OBVIOUS
<1>1. /\ work' \in Rows /\ RowsInv(definition, work') /\ Extends(db, work')
      /\ work'.run = "cancelled" /\ Quiet(definition, work'.node)
  BY CancelStep DEF CancelRun, IInv, TypeOK
<1>2. QED
  BY <1>1 DEF CancelRun, IInv, TypeOK, RequestInv, Settled, BlockedOnHumans, Created, loop

\* _dispatch_ready_adapters keeps the inductive invariant.
LEMMA DispatchInv == IInv /\ DispatchReadyAdapters => IInv'
<1> SUFFICES ASSUME IInv, DispatchReadyAdapters PROVE IInv'
  OBVIOUS
<1>1. PICK failing \in SUBSET Invocable(definition, work.node) :
        work' = ApplyTransitions(work, Dispatch(definition, work.node, failing))
  BY DEF DispatchReadyAdapters
<1>2. work.run \in {"running", "failed"} /\ definition \in Definition /\ work \in Rows
  BY DEF DispatchReadyAdapters, IInv, RequestInv, TypeOK
<1>3. LegalBatch(definition, work.node, Dispatch(definition, work.node, failing))
  BY DispatchLegal
<1>4. /\ work' \in Rows /\ RowsInv(definition, work')
      /\ Extends(work, work') /\ work'.run = work.run
  BY <1>1, <1>2, <1>3, LegalStep DEF IInv
<1>5. Extends(db, work')
  BY <1>4, ExtendsTransitive DEF IInv
<1>6. ASSUME Dispatchable(definition, work.node) = {}
      PROVE  Dispatchable(definition, work'.node) = {}
  <2>1. DOMAIN Dispatch(definition, work.node, failing) = {}
    BY <1>6 DEF Dispatch
  <2>2. \A n \in Node : work'.node[n] = work.node[n]
    BY <1>1, <1>2, <1>3, <2>1, ApplyFields DEF LegalBatch
  <2>3. QED
    BY <1>6, <2>2 DEF Dispatchable
<1>7. QED
  BY <1>2, <1>4, <1>5, <1>6
     DEF DispatchReadyAdapters, IInv, TypeOK, RequestInv, BlockedOnHumans, Created

\* The advance step of _advance_until_blocked keeps the inductive invariant, and
\* when it breaks out of the loop by itself it leaves nothing to do.
LEMMA AdvanceInv == IInv /\ AdvancePass => IInv'
<1> DEFINE batch == Advance(definition, work.node)
           quiet == ~dispatched /\ DOMAIN batch = {}
<1> SUFFICES ASSUME IInv, AdvancePass PROVE IInv'
  OBVIOUS
<1>1. work.run \in {"running", "failed"} /\ definition \in Definition /\ work \in Rows
  BY DEF AdvancePass, IInv, RequestInv, TypeOK
<1>2. LegalBatch(definition, work.node, batch) /\ work' = ApplyTransitions(work, batch)
  BY AdvanceLegal DEF AdvancePass
<1>3. /\ work' \in Rows /\ RowsInv(definition, work')
      /\ Extends(work, work') /\ work'.run = work.run
  BY <1>1, <1>2, LegalStep DEF IInv
<1>4. Extends(db, work')
  BY <1>3, ExtendsTransitive DEF IInv
<1>5. ASSUME quiet PROVE Quiet(definition, work'.node)
  <2>1. \A n \in Node : work'.node[n] = work.node[n]
    BY <1>1, <1>2, <1>5, ApplyFields DEF LegalBatch
  <2>2. Promotable(definition, work.node) = {} /\ Placeholders(definition, work.node) = {}
    BY <1>5 DEF Advance
  <2>3. Dispatchable(definition, work.node) = {}
    BY <1>5 DEF AdvancePass, IInv, RequestInv
  <2>4. Promotable(definition, work'.node) = {}
    BY <2>1, <2>2 DEF Promotable, Upstream
  <2>5. \A n \in Node : work'.node[n] = "ready" => definition.kind[n] # "automated"
    BY <2>1, <2>2, <2>3 DEF Placeholders, Dispatchable
  <2>6. QED
    BY <2>4, <2>5 DEF Quiet
<1> DEFINE last == iteration + 1 = LoopLimit
<1>6. /\ pc' = IF quiet \/ last THEN "finalize" ELSE "dispatch"
      /\ iteration' = IF quiet \/ last THEN iteration ELSE iteration + 1
      /\ exhausted' = (exhausted \/ (last /\ ~quiet))
      /\ definition' = definition /\ db' = db /\ dispatched' = dispatched
  BY DEF AdvancePass
<1>7. /\ pc' \in {"finalize", "dispatch"}
      /\ exhausted => exhausted'
      /\ pc' = "finalize" /\ ~exhausted' => quiet
  <2> HIDE DEF quiet, last
  <2>1. QED
    BY <1>6
<1>8. iteration' \in Nat
  BY <1>6 DEF IInv, TypeOK
<1>9. exhausted' \in BOOLEAN
  BY <1>6 DEF IInv, TypeOK
<1> HIDE DEF quiet, last, batch
<1>10. TypeOK'
  BY <1>3, <1>6, <1>7, <1>8, <1>9 DEF IInv, TypeOK
<1>11. BlockedOnHumans'
  BY <1>6, <1>7 DEF IInv, BlockedOnHumans, Created
<1>12. RequestInv'
  BY <1>1, <1>3, <1>5, <1>6, <1>7 DEF RequestInv
<1>13. QED
  BY <1>3, <1>4, <1>6, <1>10, <1>11, <1>12 DEF IInv

\* _finalize_run_status keeps the inductive invariant, forced or not.
LEMMA FinalizeInv == IInv /\ FinalizeRunStatus => IInv'
<1> DEFINE status == IF pc = "force_failed" THEN "failed" ELSE ComputedRunStatus(work.node)
<1> SUFFICES ASSUME IInv, FinalizeRunStatus PROVE IInv'
  OBVIOUS
<1>1. work.run \in {"running", "failed"} /\ definition \in Definition /\ work \in Rows
  BY DEF FinalizeRunStatus, IInv, RequestInv, TypeOK
<1>2. \/ status = ComputedRunStatus(work.node)
      \/ status = "failed" /\ \E n \in Node : work.node[n] = "failed"
  BY DEF IInv, RequestInv
<1>3. /\ work' \in Rows /\ RowsInv(definition, work') /\ Settled(work')
      /\ Extends(work, work') /\ work'.node = work.node /\ work'.run # "absent"
  BY <1>1, <1>2, FinalizeStep DEF FinalizeRunStatus, IInv
<1>4. Extends(db, work')
  BY <1>3, ExtendsTransitive DEF IInv
<1>5. ~exhausted => Quiet(definition, work'.node)
  BY <1>3 DEF FinalizeRunStatus, IInv, RequestInv
<1>6. QED
  BY <1>3, <1>4, <1>5
     DEF FinalizeRunStatus, IInv, TypeOK, RequestInv, BlockedOnHumans, Created, loop

\* A request that changed nothing took no verdict back.
LEMMA ExtendsItself == ASSUME NEW rows PROVE Extends(rows, rows)
BY DEF Extends

\* Committing the request's rows keeps the inductive invariant.
LEMMA CommitInv == IInv /\ Commit => IInv'
<1> SUFFICES ASSUME IInv, Commit PROVE IInv'
  OBVIOUS
<1>1. /\ db' = work /\ work' = work /\ pc' = "idle" /\ dispatched' = FALSE
      /\ iteration' = 0 /\ exhausted' = exhausted /\ definition' = definition
      /\ pc = "commit"
  BY DEF Commit
<1>2. TypeOK'
  BY <1>1 DEF IInv, TypeOK
<1>3. RowsInv(definition, db)' /\ RowsInv(definition, work)' /\ Settled(db)'
  BY <1>1 DEF IInv, RequestInv
<1>4. BlockedOnHumans'
  BY <1>1 DEF IInv, RequestInv, BlockedOnHumans
<1>5. Extends(db, work)'
  BY <1>1, ExtendsItself
<1>6. RequestInv'
  BY <1>1 DEF RequestInv
<1>7. QED
  BY <1>2, <1>3, <1>4, <1>5, <1>6 DEF IInv

\* Rolling the request back keeps the inductive invariant.
LEMMA RollbackInv == IInv /\ Rollback => IInv'
<1> SUFFICES ASSUME IInv, Rollback PROVE IInv'
  OBVIOUS
<1>1. /\ db' = db /\ work' = db /\ pc' = "idle" /\ dispatched' = FALSE
      /\ iteration' = 0 /\ exhausted' = exhausted /\ definition' = definition
  BY DEF Rollback
<1>2. TypeOK'
  BY <1>1 DEF IInv, TypeOK
<1>3. RowsInv(definition, db)' /\ RowsInv(definition, work)' /\ Settled(db)'
  BY <1>1 DEF IInv
<1>4. BlockedOnHumans'
  BY <1>1 DEF IInv, BlockedOnHumans, Created
<1>5. Extends(db, work)'
  BY <1>1, ExtendsItself
<1>6. RequestInv'
  BY <1>1 DEF RequestInv
<1>7. QED
  BY <1>2, <1>3, <1>4, <1>5, <1>6 DEF IInv

\* IInv holds in every state a run can reach by requests that do not overlap.
THEOREM Inductive == Spec => []IInv
<1>1. Init => IInv
  BY InitIInv
<1>2. IInv /\ [Next]_vars => IInv'
  <2> SUFFICES ASSUME IInv, [Next]_vars PROVE IInv'
    OBVIOUS
  <2>1. CASE CreateRun
    BY <2>1, CreateRunInv
  <2>2. ASSUME NEW n \in Node, MarkManualDone(n) PROVE IInv'
    BY <2>2, MarkManualDoneInv
  <2>3. ASSUME NEW n \in Node, NEW decision \in {"approved", "rejected"},
               SubmitGateDecision(n, decision)
        PROVE  IInv'
    BY <2>3, SubmitGateDecisionInv
  <2>4. CASE CancelRun
    BY <2>4, CancelRunInv
  <2>5. CASE Drive
    BY <2>5, DispatchInv, AdvanceInv, FinalizeInv, CommitInv DEF Drive
  <2>6. CASE Rollback
    BY <2>6, RollbackInv
  <2>7. CASE UNCHANGED vars
    BY <2>7 DEF vars, IInv, TypeOK, RequestInv, BlockedOnHumans, Created
  <2>8. QED
    BY <2>1, <2>2, <2>3, <2>4, <2>5, <2>6, <2>7 DEF Next
<1>3. QED
  BY <1>1, <1>2, PTL DEF Spec

-----------------------------------------------------------------------------
(* What follows from it.                                                   *)

\* Rows keep their types and every status is one the schema knows.
THEOREM TypeCorrect == Spec => []TypeOK
<1>1. IInv => TypeOK
  BY DEF IInv
<1>2. QED
  BY <1>1, Inductive, PTL

\* No committed request leaves promotable or automated work behind, whatever
\* the workflow, unless _advance_until_blocked hit its iteration bound.
THEOREM DriveCompletes == Spec => []BlockedOnHumans
<1>1. IInv => BlockedOnHumans
  BY DEF IInv
<1>2. QED
  BY <1>1, Inductive, PTL

\* No node is offered to a person or an adapter before its upstream nodes are
\* completed, in any workflow.
THEOREM WorkFollowsEdges == Spec => []UpstreamCompleted
<1>1. IInv => UpstreamCompleted
  BY DEF IInv, RowsInv, NodesInv, UpstreamCompleted
<1>2. QED
  BY <1>1, Inductive, PTL

\* The run row and the node rows agree after every request.
THEOREM RunStatusSound == Spec => []RunStatusMatchesNodes
<1>1. IInv => RunStatusMatchesNodes
  BY DEF IInv, RowsInv, NodesInv, Settled, RunStatusMatchesNodes
<1>2. QED
  BY <1>1, Inductive, PTL

\* The events of a node determine its status and its gate decision.
THEOREM AuditLogSound == Spec => []AuditLogReplays
<1>1. IInv => AuditLogReplays
  BY DEF IInv, RowsInv, LogInv, AuditLogReplays, Created
<1>2. QED
  BY <1>1, Inductive, PTL

\* On an acyclic definition the engine never strands a run by itself: a
\* pending node with no pending node before it waits for a ready one.
THEOREM NeverStrandedThm ==
  ASSUME \A def \in Definitions : Acyclic(def)
  PROVE  Spec => []NeverStranded
<1>1. ASSUME IInv, definition \in Definitions PROVE NeverStranded
  <2> SUFFICES ASSUME db.run = "running", ~exhausted,
                      \A n \in Node : db.node[n] # "failed"
               PROVE  \E n \in Node : db.node[n] = "ready" /\ definition.kind[n] # "automated"
    BY DEF NeverStranded
  <2>1. Quiet(definition, db.node)
    BY <1>1 DEF IInv, BlockedOnHumans, Created
  <2>2. SUFFICES \E n \in Node : db.node[n] = "ready"
    BY <2>1 DEF Quiet
  <2>3. PICK n \in Node : db.node[n] \notin Terminal
    BY <1>1 DEF IInv, Settled
  <2>4. \A m \in Node : db.node[m] \in {"pending", "ready", "completed"}
    BY <1>1 DEF IInv, RowsInv, NodesInv, TypeOK, Rows, NodeStatus
  <2>5. CASE db.node[n] = "ready"
    BY <2>5
  <2>6. CASE db.node[n] = "pending"
    <3> DEFINE S == {m \in Node : db.node[m] = "pending"}
    <3>1. S \in (SUBSET Node) \ {{}}
      BY <2>6
    <3>2. PICK m \in S : Upstream(definition, m) \cap S = {}
      BY <1>1, <3>1 DEF Acyclic
    <3>3. PICK u \in Upstream(definition, m) : db.node[u] \notin Passed
      BY <2>1, <3>2 DEF Quiet, Promotable
    <3>4. u \in Node /\ db.node[u] # "pending"
      BY <3>2, <3>3 DEF Upstream
    <3>5. QED
      BY <2>4, <3>3, <3>4 DEF Passed
  <2>7. QED
    BY <2>3, <2>4, <2>5, <2>6 DEF Terminal
<1>2. Spec => [](definition \in Definitions)
  <2>1. Init => definition \in Definitions
    BY DEF Init
  <2>2. definition \in Definitions /\ [Next]_vars => (definition \in Definitions)'
    BY DEF Next, vars, CreateRun, MarkManualDone, SubmitGateDecision, CancelRun, Drive,
           DispatchReadyAdapters, AdvancePass, FinalizeRunStatus, Commit, Rollback
  <2>3. QED
    BY <2>1, <2>2, PTL DEF Spec
<1>3. IInv /\ definition \in Definitions => NeverStranded
  BY <1>1
<1>4. QED
  BY <1>2, <1>3, Inductive, PTL

-----------------------------------------------------------------------------
(* The drive loop and its bound.                                           *)

\* The moves the executor can still make: from pending to ready to a verdict.
Unmoved(node) == {n \in Node : node[n] = "pending"}
Undecided(node) == {n \in Node : node[n] \in {"pending", "ready"}}
Left(node) == Cardinality(Unmoved(node)) + Cardinality(Undecided(node))

\* No node has more than two moves left.
LEMMA TwoMovesEach ==
  ASSUME IsFiniteSet(Node), NEW node
  PROVE  /\ IsFiniteSet(Unmoved(node)) /\ Cardinality(Unmoved(node)) \in Nat
         /\ IsFiniteSet(Undecided(node)) /\ Cardinality(Undecided(node)) \in Nat
         /\ Cardinality(Node) \in Nat /\ Left(node) \in Nat
         /\ Left(node) <= 2 * Cardinality(Node)
<1>1. Unmoved(node) \in SUBSET Node /\ Undecided(node) \in SUBSET Node
  BY DEF Unmoved, Undecided
<1>2. /\ IsFiniteSet(Unmoved(node)) /\ Cardinality(Unmoved(node)) <= Cardinality(Node)
      /\ IsFiniteSet(Undecided(node)) /\ Cardinality(Undecided(node)) <= Cardinality(Node)
  BY <1>1, FS_Subset
<1>3. /\ Cardinality(Node) \in Nat
      /\ Cardinality(Unmoved(node)) \in Nat /\ Cardinality(Undecided(node)) \in Nat
  BY <1>2, FS_CardinalityType
<1>4. QED
  BY <1>2, <1>3 DEF Left

\* A legal batch moves nodes forward only, and one that is not empty leaves
\* fewer moves.
LEMMA BatchUsesMoves ==
  ASSUME IsFiniteSet(Node), NEW def, NEW rows \in Rows, NEW t,
         LegalBatch(def, rows.node, t)
  PROVE  LET new == ApplyTransitions(rows, t) IN
         /\ Left(new.node) <= Left(rows.node)
         /\ DOMAIN t # {} => Left(new.node) < Left(rows.node)
<1> DEFINE new == ApplyTransitions(rows, t)
<1>1. /\ \A n \in DOMAIN t : new.node[n] = t[n].new_status
      /\ \A n \in Node \ DOMAIN t : new.node[n] = rows.node[n]
      /\ DOMAIN t \subseteq Node
  BY ApplyFields DEF LegalBatch, Batch
<1>2. \A n \in DOMAIN t :
        \/ rows.node[n] = "pending" /\ new.node[n] = "ready"
        \/ rows.node[n] = "ready" /\ new.node[n] \in Terminal
  <2>1. /\ Moves("ready", "node.ready").new_status = "ready"
        /\ \A v \in Verdicts : v.new_status \in Terminal
    BY DEF Verdicts, Moves, Terminal
  <2>2. QED
    BY <1>1, <2>1 DEF LegalBatch
<1> HIDE DEF new
<1>3. /\ Unmoved(new.node) \subseteq Unmoved(rows.node)
      /\ Undecided(new.node) \subseteq Undecided(rows.node)
  BY <1>1, <1>2 DEF Terminal, Unmoved, Undecided
<1>4. ASSUME DOMAIN t # {}
      PROVE  \/ Unmoved(new.node) # Unmoved(rows.node)
             \/ Undecided(new.node) # Undecided(rows.node)
  <2>1. PICK n \in DOMAIN t : TRUE
    BY <1>4
  <2>2. CASE rows.node[n] = "pending" /\ new.node[n] = "ready"
    BY <1>1, <2>2 DEF Unmoved
  <2>3. CASE rows.node[n] = "ready" /\ new.node[n] \in Terminal
    BY <1>1, <2>3 DEF Undecided, Terminal
  <2>4. QED
    BY <1>2, <2>2, <2>3
<1>5. /\ Cardinality(Unmoved(new.node)) <= Cardinality(Unmoved(rows.node))
      /\ Cardinality(Unmoved(rows.node)) = Cardinality(Unmoved(new.node)) =>
            Unmoved(rows.node) = Unmoved(new.node)
  <2>1. IsFiniteSet(Unmoved(rows.node))
    BY TwoMovesEach
  <2>2. QED
    BY <1>3, <2>1, FS_Subset
<1>6. /\ Cardinality(Undecided(new.node)) <= Cardinality(Undecided(rows.node))
      /\ Cardinality(Undecided(rows.node)) = Cardinality(Undecided(new.node)) =>
            Undecided(rows.node) = Undecided(new.node)
  <2>1. IsFiniteSet(Undecided(rows.node))
    BY TwoMovesEach
  <2>2. QED
    BY <1>3, <2>1, FS_Subset
<1>7. /\ Cardinality(Unmoved(new.node)) \in Nat /\ Cardinality(Undecided(new.node)) \in Nat
      /\ Cardinality(Unmoved(rows.node)) \in Nat /\ Cardinality(Undecided(rows.node)) \in Nat
  BY TwoMovesEach
<1>8. QED
  BY <1>4, <1>5, <1>6, <1>7 DEF Left, new

\* The rounds a drive has made and the moves left to it are no more than two per
\* node together; a dispatch pays for the round it belongs to.
BudgetInv ==
    LET passes == 2 * Cardinality(Node) IN
    /\ PassesBounded
    /\ pc = "idle" => iteration = 0
    /\ pc = "dispatch" => iteration + Left(work.node) <= passes
    /\ pc = "advance" =>
          iteration + Left(work.node) + (IF dispatched THEN 1 ELSE 0) <= passes

\* A request starts with no round made.
LEMMA RequestBegins ==
  ASSUME IsFiniteSet(Node), BudgetInv, pc = "idle", UNCHANGED loop, pc' \notin {"idle", "advance"}
  PROVE  BudgetInv'
BY TwoMovesEach DEF BudgetInv, PassesBounded, loop

\* _dispatch_ready_adapters uses a move of every node it finds.
LEMMA DispatchBudget ==
  ASSUME IsFiniteSet(Node), IInv, BudgetInv, DispatchReadyAdapters
  PROVE  BudgetInv'
<1>1. PICK failing \in SUBSET Invocable(definition, work.node) :
        work' = ApplyTransitions(work, Dispatch(definition, work.node, failing))
  BY DEF DispatchReadyAdapters
<1> DEFINE t == Dispatch(definition, work.node, failing)
<1>2. LegalBatch(definition, work.node, t) /\ work \in Rows
  BY DispatchLegal DEF IInv, TypeOK
<1>3. /\ dispatched' = (DOMAIN t # {})
      /\ pc = "dispatch" /\ pc' = "advance"
      /\ iteration' = iteration /\ exhausted' = exhausted
  BY DEF DispatchReadyAdapters, Dispatch
<1> HIDE DEF t
<1>4. /\ Left(work'.node) <= Left(work.node)
      /\ dispatched' => Left(work'.node) < Left(work.node)
  BY <1>1, <1>2, <1>3, BatchUsesMoves DEF t
<1>5. Left(work.node) \in Nat /\ Left(work'.node) \in Nat /\ Cardinality(Node) \in Nat
  BY TwoMovesEach
<1>6. iteration \in Nat
  BY DEF IInv, TypeOK
<1>7. QED
  BY <1>3, <1>4, <1>5, <1>6 DEF BudgetInv, PassesBounded

\* A round is counted when the adapters or advance moved a node.
LEMMA AdvanceBudget ==
  ASSUME IsFiniteSet(Node), IInv, BudgetInv, AdvancePass
  PROVE  BudgetInv'
<1> DEFINE t == Advance(definition, work.node)
           quiet == ~dispatched /\ DOMAIN t = {}
           last == iteration + 1 = LoopLimit
<1>1. /\ LegalBatch(definition, work.node, t) /\ work \in Rows
      /\ work' = ApplyTransitions(work, t)
  BY AdvanceLegal DEF AdvancePass, IInv, TypeOK
<1>2. /\ pc = "advance"
      /\ pc' = IF quiet \/ last THEN "finalize" ELSE "dispatch"
      /\ iteration' = IF quiet \/ last THEN iteration ELSE iteration + 1
      /\ exhausted' = (exhausted \/ (last /\ ~quiet))
  BY DEF AdvancePass
<1>3. /\ Left(work'.node) <= Left(work.node)
      /\ DOMAIN t # {} => Left(work'.node) < Left(work.node)
  BY <1>1, BatchUsesMoves
<1>4. Left(work.node) \in Nat /\ Left(work'.node) \in Nat /\ Cardinality(Node) \in Nat
  BY TwoMovesEach
<1>5. iteration \in Nat /\ dispatched \in BOOLEAN /\ exhausted \in BOOLEAN
  BY DEF IInv, TypeOK
<1> DEFINE passes == 2 * Cardinality(Node)
<1>6. iteration + Left(work.node) + (IF dispatched THEN 1 ELSE 0) <= passes
  BY <1>2 DEF BudgetInv
<1>7. ~quiet => iteration + 1 + Left(work'.node) <= passes
  <2>1. CASE dispatched
    BY <1>3, <1>4, <1>5, <1>6, <2>1
  <2>2. CASE DOMAIN t # {}
    BY <1>3, <1>4, <1>5, <1>6, <2>2
  <2>3. QED
    BY <2>1, <2>2
<1> HIDE DEF quiet, t
<1>8. /\ iteration <= passes /\ (exhausted => LoopLimit <= passes)
  BY DEF BudgetInv, PassesBounded
<1>9. iteration' <= passes /\ (exhausted' => LoopLimit <= passes)
  BY <1>2, <1>4, <1>5, <1>7, <1>8
<1>10. pc' = "dispatch" => iteration' + Left(work'.node) <= passes
  BY <1>2, <1>7
<1>11. QED
  BY <1>2, <1>9, <1>10 DEF BudgetInv, PassesBounded

LEMMA BudgetStep ==
  ASSUME IsFiniteSet(Node), IInv, BudgetInv, [Next]_vars
  PROVE  BudgetInv'
<1>1. CASE CreateRun \/ CancelRun
  BY <1>1, RequestBegins DEF CreateRun, CancelRun
<1>2. ASSUME NEW n \in Node, MarkManualDone(n)  PROVE BudgetInv'
  BY <1>2, RequestBegins DEF MarkManualDone
<1>3. ASSUME NEW n \in Node, NEW decision \in {"approved", "rejected"},
             SubmitGateDecision(n, decision)
      PROVE  BudgetInv'
  BY <1>3, RequestBegins DEF SubmitGateDecision
<1>4. CASE DispatchReadyAdapters
  BY <1>4, DispatchBudget
<1>5. CASE AdvancePass
  BY <1>5, AdvanceBudget
<1>6. CASE FinalizeRunStatus
  BY <1>6 DEF FinalizeRunStatus, BudgetInv, PassesBounded, loop
<1>7. CASE Commit \/ Rollback
  BY <1>7, TwoMovesEach DEF Commit, Rollback, BudgetInv, PassesBounded
<1>8. CASE UNCHANGED vars
  BY <1>8 DEF vars, BudgetInv, PassesBounded
<1>9. QED
  BY <1>1, <1>2, <1>3, <1>4, <1>5, <1>6, <1>7, <1>8 DEF Next, Drive

\* No drive needs more rounds than two per node, whatever the workflow, the
\* requests before and the adapters' results: 1024 iterations are enough for
\* every workflow of fewer than 512 nodes.
THEOREM LoopBoundSuffices ==
  ASSUME IsFiniteSet(Node)
  PROVE  Spec => []PassesBounded
<1>1. Init => BudgetInv
  BY TwoMovesEach DEF Init, BudgetInv, PassesBounded
<1>2. IInv /\ BudgetInv /\ [Next]_vars => BudgetInv'
  BY BudgetStep
<1>3. BudgetInv => PassesBounded
  BY DEF BudgetInv
<1>4. QED
  BY <1>1, <1>2, <1>3, Inductive, PTL DEF Spec

-----------------------------------------------------------------------------
(* What no request takes back.                                             *)

\* The committed rows change only when a request commits.
LEMMA OnlyCommitWrites == [Next]_vars => Commit \/ UNCHANGED db
BY DEF Next, vars, CreateRun, MarkManualDone, SubmitGateDecision, CancelRun, Drive,
       DispatchReadyAdapters, AdvancePass, FinalizeRunStatus, Commit, Rollback

\* Once a node is completed, failed or skipped, no later request changes its
\* status or decision or writes another event for it.
THEOREM VerdictsAreFinalThm == Spec => VerdictsAreFinal
<1>1. IInv /\ [Next]_vars =>
        [\A n \in Node : db.node[n] \in Terminal =>
          /\ db'.node[n] = db.node[n]
          /\ db'.decision[n] = db.decision[n]
          /\ db'.node_log[n] = db.node_log[n]]_vars
  <2> SUFFICES ASSUME IInv, [Next]_vars, NEW n \in Node, db.node[n] \in Terminal
               PROVE  /\ db'.node[n] = db.node[n]
                      /\ db'.decision[n] = db.decision[n]
                      /\ db'.node_log[n] = db.node_log[n]
    OBVIOUS
  <2>1. CASE UNCHANGED db
    BY <2>1
  <2>2. CASE Commit
    BY <2>2 DEF Commit, IInv, Extends
  <2>3. QED
    BY <2>1, <2>2, OnlyCommitWrites
<1>2. QED
  BY <1>1, Inductive, PTL DEF Spec, VerdictsAreFinal

\* No request brings a cancelled run back.
THEOREM CancelledIsFinalThm == Spec => CancelledIsFinal
<1>1. IInv /\ [Next]_vars => [db.run = "cancelled" => db'.run = "cancelled"]_vars
  <2> SUFFICES ASSUME IInv, [Next]_vars, db.run = "cancelled"
               PROVE  db'.run = "cancelled"
    OBVIOUS
  <2>1. CASE UNCHANGED db
    BY <2>1
  <2>2. CASE Commit
    BY <2>2 DEF Commit, IInv, Extends
  <2>3. QED
    BY <2>1, <2>2, OnlyCommitWrites
<1>2. QED
  BY <1>1, Inductive, PTL DEF Spec, CancelledIsFinal
-----------------------------------------------------------------------------
(* The life cycle of RunLifecycle.                                         *)

Gates == {n \in Node : definition.kind[n] \in {"gate.review", "gate.approve"}}

\* The nodes to which the open request has given a verdict.
Decided == {n \in Node : db.node[n] \notin Terminal /\ work.node[n] \in Terminal}

\* A request that drives the run decides one gate at most, and approves it; it
\* skips nothing, and unless it creates the run, it has decided some node.
Driving ==
    /\ pc \in {"dispatch", "advance", "finalize", "commit"}
    /\ db.run \in {"absent", "running", "failed"}
    /\ \A n \in Decided : work.node[n] \in {"completed", "failed"}
    /\ \A g \in Decided \cap Gates : db.run # "absent" /\ work.node[g] = "completed"
    /\ \A g, h \in Decided \cap Gates : g = h
    /\ db.run # "absent" => Decided # {}
    /\ pc = "commit" => work.run = ComputedRunStatus(work.node)

\* A request that rejects a gate does nothing else.
Rejecting ==
    /\ pc \in {"force_failed", "commit"}
    /\ db.run \in {"running", "failed"}
    /\ \E g \in Gates : /\ db.node[g] = "ready" /\ work.node[g] = "failed"
                        /\ \A n \in Node \ {g} : work.node[n] = db.node[n]
    /\ pc = "commit" => work.run = "failed"

\* A request that cancels the run skips all that is open.
Cancelling ==
    /\ pc = "commit" /\ db.run # "absent" /\ work.run = "cancelled"
    /\ \A n \in Node : db.node[n] \notin Terminal => work.node[n] = "skipped"

IntentInv == pc # "idle" => Driving \/ Rejecting \/ Cancelling

\* A legal batch that names no gate, or none but one that it approves while no gate
\* has been decided, goes on with what a driving request does.
LEMMA BatchDrives ==
  ASSUME IInv, Driving, NEW t, LegalBatch(definition, work.node, t),
         \A n \in DOMAIN t \cap Gates : t[n].new_status \notin Terminal,
         work' = ApplyTransitions(work, t), UNCHANGED <<definition, db>>,
         pc' \in {"dispatch", "advance", "finalize"}
  PROVE  Driving'
<1>1. Batch(t) /\ work \in Rows
  BY DEF LegalBatch, IInv, TypeOK
<1>2. /\ \A n \in DOMAIN t : work'.node[n] = t[n].new_status
      /\ \A n \in Node \ DOMAIN t : work'.node[n] = work.node[n]
  BY <1>1, ApplyFields
<1>3. \A n \in DOMAIN t : n \in Node /\ work.node[n] \notin Terminal
  BY <1>1 DEF LegalBatch, Batch, Terminal
<1>4. \A n \in DOMAIN t : t[n].new_status \in {"ready", "completed", "failed"}
  BY DEF LegalBatch, Verdicts, Moves
<1>5. Gates' = Gates /\ db' = db
  BY DEF Gates
<1>6. \A n \in Decided : work'.node[n] = work.node[n]
  BY <1>2, <1>3 DEF Decided
<1>7. \A n \in Decided' : n \in Decided \/ n \in DOMAIN t
  BY <1>2, <1>5 DEF Decided
<1>8. \A n \in Decided' \cap Gates : n \in Decided
  BY <1>2, <1>7 DEF Decided
<1>9. Decided \subseteq Decided'
  BY <1>5, <1>6 DEF Decided
<1>10. \A n \in Decided' : work'.node[n] \in {"completed", "failed"}
  BY <1>2, <1>4, <1>6, <1>7 DEF Driving, Decided, Terminal
<1>11. \A g \in Decided' \cap Gates : db.run # "absent" /\ work'.node[g] = "completed"
  BY <1>6, <1>8 DEF Driving
<1>12. \A g, h \in Decided' \cap Gates : g = h
  BY <1>8 DEF Driving
<1>13. QED
  BY <1>5, <1>9, <1>10, <1>11, <1>12 DEF Driving

\* A run that is created has no verdict yet.
LEMMA CreateRunDrives == ASSUME IInv, CreateRun  PROVE Driving'
<1>1. /\ pc' = "dispatch" /\ db' = db /\ db.run = "absent" /\ definition' = definition
      /\ work' = Inserted(definition)
  BY DEF CreateRun
<1>2. \A n \in Node : work'.node[n] \in {"ready", "pending"}
  BY <1>1 DEF Inserted, InitialNodeStates, NoRows
<1>3. Decided' = {}
  BY <1>2 DEF Decided, Terminal
<1>4. QED
  BY <1>1, <1>3 DEF Driving

\* mark_manual_done and an approval decide the one node they are asked about, and a
\* rejection is that of one gate.
LEMMA OneIsDecided ==
  ASSUME IInv, db.run # "absent", NEW n \in Node, db.node[n] = "ready",
         NEW t, LegalBatch(definition, db.node, t), DOMAIN t = {n},
         work' = ApplyTransitions(db, t), UNCHANGED <<definition, db>>
  PROVE  /\ db.run \in {"running", "failed"}
         /\ work'.node[n] = t[n].new_status
         /\ \A m \in Node \ {n} : work'.node[m] = db.node[m]
         /\ t[n].new_status \in Terminal => Decided' = {n}
         /\ Gates' = Gates
<1>1. Batch(t) /\ db \in Rows
  BY DEF LegalBatch, IInv, TypeOK
<1>2. /\ work'.node[n] = t[n].new_status
      /\ \A m \in Node \ {n} : work'.node[m] = db.node[m]
  BY <1>1, ApplyFields
<1>3. db.run \in {"running", "failed"}
  BY ReadyMeansLive
<1>4. t[n].new_status \in Terminal => Decided' = {n}
  BY <1>2 DEF Decided, Terminal
<1>5. QED
  BY <1>2, <1>3, <1>4 DEF Gates

LEMMA MarkManualDoneDrives ==
  ASSUME IInv, NEW n \in Node, MarkManualDone(n)
  PROVE  Driving'
<1> DEFINE t == ManualCompletion(n)
<1>1. /\ db.run # "absent" /\ db.node[n] = "ready" /\ definition.kind[n] = "manual"
      /\ work' = ApplyTransitions(db, t) /\ UNCHANGED <<definition, db>> /\ pc' = "dispatch"
  BY DEF MarkManualDone, CanMarkDone
<1>2. LegalBatch(definition, db.node, t)
  BY ManualLegal DEF MarkManualDone
<1>3. DOMAIN t = {n} /\ t[n].new_status = "completed"
  BY DEF ManualCompletion, Moves
<1> HIDE DEF t
<1>4. /\ db.run \in {"running", "failed"} /\ work'.node[n] = "completed"
      /\ Decided' = {n} /\ Gates' = Gates /\ db' = db
  BY <1>1, <1>2, <1>3, OneIsDecided DEF Terminal
<1>5. n \notin Gates
  BY <1>1 DEF Gates
<1>6. QED
  BY <1>1, <1>4, <1>5 DEF Driving

LEMMA SubmitGateDecisionIntends ==
  ASSUME IInv, NEW n \in Node, NEW decision \in {"approved", "rejected"},
         SubmitGateDecision(n, decision)
  PROVE  Driving' \/ Rejecting'
<1> DEFINE t == GateTransition(n, decision)
<1>1. /\ db.run # "absent" /\ db.node[n] = "ready" /\ n \in Gates
      /\ work' = ApplyTransitions(db, t) /\ UNCHANGED <<definition, db>>
      /\ pc' = IF decision = "rejected" THEN "force_failed" ELSE "dispatch"
  BY DEF SubmitGateDecision, CanDecide, Gates
<1>2. LegalBatch(definition, db.node, t)
  BY GateLegal DEF SubmitGateDecision
<1>3. /\ DOMAIN t = {n}
      /\ t[n].new_status = IF decision = "approved" THEN "completed" ELSE "failed"
  BY DEF GateTransition
<1> HIDE DEF t
<1>4. /\ db.run \in {"running", "failed"} /\ work'.node[n] = t[n].new_status
      /\ \A m \in Node \ {n} : work'.node[m] = db.node[m]
      /\ Decided' = {n} /\ Gates' = Gates /\ db' = db
  BY <1>1, <1>2, <1>3, OneIsDecided DEF Terminal
<1>5. CASE decision = "approved"
  BY <1>1, <1>3, <1>4, <1>5 DEF Driving
<1>6. CASE decision = "rejected"
  BY <1>1, <1>3, <1>4, <1>6 DEF Rejecting
<1>7. QED
  BY <1>5, <1>6

LEMMA CancelRunIntends == ASSUME IInv, CancelRun  PROVE Cancelling'
<1> DEFINE open == {n \in Node : db.node[n] \notin Terminal}
           t == [n \in open |-> Moves("skipped", "node.skipped")]
<1>1. /\ db.run # "absent" /\ work' = Cancelled(db) /\ pc' = "commit" /\ db' = db
  BY DEF CancelRun
<1>2. Cancelled(db) = MarkCancelled(ApplyTransitions(db, t))
  BY DEF Cancelled
<1>3. db \in Rows /\ Batch(t)
  BY VerdictIsTransition DEF Batch, IInv, TypeOK
<1>4. \A n \in open : n \in DOMAIN t /\ t[n].new_status = "skipped"
  BY DEF Moves
<1> HIDE DEF t
<1>5. /\ ApplyTransitions(db, t) \in Rows
      /\ \A n \in open : ApplyTransitions(db, t).node[n] = "skipped"
  BY <1>3, <1>4, ApplyFields
<1>6. work'.run = "cancelled" /\ work'.node = ApplyTransitions(db, t).node
  BY <1>1, <1>2, <1>5 DEF MarkCancelled, Rows
<1>7. QED
  BY <1>1, <1>5, <1>6 DEF Cancelling

\* The loop decides automated nodes only.
LEMMA DispatchDrives == ASSUME IInv, Driving, DispatchReadyAdapters  PROVE Driving'
<1>1. PICK failing \in SUBSET Invocable(definition, work.node) :
        work' = ApplyTransitions(work, Dispatch(definition, work.node, failing))
  BY DEF DispatchReadyAdapters
<1>2. LegalBatch(definition, work.node, Dispatch(definition, work.node, failing))
  BY DispatchLegal
<1>3. DOMAIN Dispatch(definition, work.node, failing) \cap Gates = {}
  BY DEF Dispatch, Dispatchable, Gates
<1>4. QED
  BY <1>1, <1>2, <1>3, BatchDrives DEF DispatchReadyAdapters

LEMMA AdvanceDrives == ASSUME IInv, Driving, AdvancePass  PROVE Driving'
<1> DEFINE t == Advance(definition, work.node)
<1>1. LegalBatch(definition, work.node, t)
  BY AdvanceLegal
<1>2. \A n \in DOMAIN t \cap Gates : t[n].new_status \notin Terminal
  <2>1. \A n \in DOMAIN t \cap Gates : work.node[n] = "pending"
    BY DEF Advance, Promotable, Placeholders, Gates
  <2>2. \A n \in DOMAIN t : work.node[n] = "pending" => t[n] = Moves("ready", "node.ready")
    BY DEF Advance
  <2>3. Moves("ready", "node.ready").new_status \notin Terminal
    BY DEF Moves, Terminal
  <2>4. QED
    BY <2>1, <2>2, <2>3
<1>3. /\ work' = ApplyTransitions(work, t) /\ UNCHANGED <<definition, db>>
      /\ pc' \in {"dispatch", "finalize"}
  BY DEF AdvancePass
<1>4. QED
  BY <1>1, <1>2, <1>3, BatchDrives

\* _finalize_run_status writes the status of the run only.
LEMMA FinalizeIntends ==
  ASSUME IInv, IntentInv, FinalizeRunStatus
  PROVE  IntentInv'
<1> DEFINE status == IF pc = "force_failed" THEN "failed" ELSE ComputedRunStatus(work.node)
<1>1. /\ pc \in {"finalize", "force_failed"} /\ pc' = "commit"
      /\ work' = Finalize(work, status) /\ UNCHANGED <<definition, db>>
  BY DEF FinalizeRunStatus
<1>2. work'.run = status /\ work'.node = work.node
  <2>1. work \in Rows
    BY DEF IInv, TypeOK
  <2> HIDE DEF status
  <2>2. QED
    BY <1>1, <2>1 DEF Finalize, Rows
<1>3. Decided' = Decided /\ Gates' = Gates /\ db' = db
  BY <1>1, <1>2 DEF Decided, Gates
<1>4. CASE Driving
  <2>1. pc = "finalize"
    BY <1>1, <1>4 DEF Driving
  <2>2. Driving'
    BY <1>1, <1>2, <1>3, <1>4, <2>1 DEF Driving
  <2>3. QED
    BY <2>2 DEF IntentInv
<1>5. CASE Rejecting
  <2>1. pc = "force_failed"
    BY <1>1, <1>5 DEF Rejecting
  <2>2. Rejecting'
    BY <1>1, <1>2, <1>3, <1>5, <2>1 DEF Rejecting
  <2>3. QED
    BY <2>2 DEF IntentInv
<1>6. ~Cancelling
  BY <1>1 DEF Cancelling
<1>7. QED
  BY <1>1, <1>4, <1>5, <1>6 DEF IntentInv

LEMMA IntentStep == ASSUME IInv, IntentInv, [Next]_vars  PROVE IntentInv'
<1>1. CASE CreateRun
  BY <1>1, CreateRunDrives DEF IntentInv
<1>2. ASSUME NEW n \in Node, MarkManualDone(n)  PROVE IntentInv'
  BY <1>2, MarkManualDoneDrives DEF IntentInv
<1>3. ASSUME NEW n \in Node, NEW decision \in {"approved", "rejected"},
             SubmitGateDecision(n, decision)
      PROVE  IntentInv'
  BY <1>3, SubmitGateDecisionIntends DEF IntentInv
<1>4. CASE CancelRun
  BY <1>4, CancelRunIntends DEF IntentInv
<1>5. CASE DispatchReadyAdapters
  <2>1. Driving
    BY <1>5 DEF DispatchReadyAdapters, IntentInv, Rejecting, Cancelling
  <2>2. QED
    BY <1>5, <2>1, DispatchDrives DEF IntentInv
<1>6. CASE AdvancePass
  <2>1. Driving
    BY <1>6 DEF AdvancePass, IntentInv, Rejecting, Cancelling
  <2>2. QED
    BY <1>6, <2>1, AdvanceDrives DEF IntentInv
<1>7. CASE FinalizeRunStatus
  BY <1>7, FinalizeIntends
<1>8. CASE Commit \/ Rollback
  BY <1>8 DEF Commit, Rollback, IntentInv
<1>9. CASE UNCHANGED vars
  BY <1>9 DEF vars, IntentInv, Driving, Rejecting, Cancelling, Decided, Gates
<1>10. QED
  BY <1>1, <1>2, <1>3, <1>4, <1>5, <1>6, <1>7, <1>8, <1>9 DEF Next, Drive

-----------------------------------------------------------------------------
(* The committed rows seen as the promise.                                 *)

Verdict(rows) == [n \in Node |-> IF rows.run # "absent" /\ rows.node[n] \in Terminal
                                 THEN rows.node[n] ELSE "none"]

\* A row set that exists, or has no terminal node, shows its terminal nodes.
LEMMA VerdictShown ==
  ASSUME NEW def, NEW rows, RowsInv(def, rows), NEW n \in Node
  PROVE  Verdict(rows)[n] = IF rows.node[n] \in Terminal THEN rows.node[n] ELSE "none"
<1>1. rows.run = "absent" => rows.node[n] = "pending"
  BY DEF RowsInv, NoRows
<1>2. QED
  BY <1>1 DEF Verdict, Terminal

\* The computed status is what the verdicts amount to.
LEMMA StatusIsSummary ==
  ASSUME NEW rows \in Rows, NEW def, RowsInv(def, rows)
  PROVE  Promise!Summary(Verdict(rows)) = ComputedRunStatus(rows.node)
<1>1. \A n \in Node : /\ Verdict(rows)[n] = "none" <=> rows.node[n] \notin Terminal
                      /\ Verdict(rows)[n] = "failed" <=> rows.node[n] = "failed"
  BY VerdictShown DEF Terminal
<1>2. \A n \in Node : rows.node[n] \in Terminal =>
        rows.node[n] \notin {"running", "pending", "ready", "paused"}
  BY DEF Terminal
<1>3. CASE \E n \in Node : rows.node[n] \notin Terminal
  <2>1. Promise!Open(Verdict(rows)) # {}
    BY <1>1, <1>3 DEF Promise!Open
  <2>2. QED
    BY <1>3, <2>1 DEF Promise!Summary, ComputedRunStatus, IsRunTerminal
<1>4. CASE \A n \in Node : rows.node[n] \in Terminal
  <2>1. Promise!Open(Verdict(rows)) = {}
    BY <1>1, <1>4 DEF Promise!Open
  <2>2. QED
    BY <1>1, <1>2, <1>4, <2>1
       DEF Promise!Summary, ComputedRunStatus, IsRunTerminal, DeriveRunStatus
<1>5. QED
  BY <1>3, <1>4
\* The commit of a request that drives the run.
LEMMA DrivingCommits ==
  ASSUME IInv, Driving, Commit
  PROVE  Promise!Next
<1> DEFINE old == Verdict(db)
           new == Verdict(work)
           dec == [n \in Decided |-> work.node[n]]
<1>1. /\ db' = work /\ definition' = definition /\ work.run = ComputedRunStatus(work.node)
      /\ db \in Rows /\ work \in Rows /\ RowsInv(definition, db) /\ RowsInv(definition, work)
      /\ Extends(db, work)
  BY DEF Commit, Driving, IInv, TypeOK
<1>2. \A n \in Node : /\ old[n] = IF db.node[n] \in Terminal THEN db.node[n] ELSE "none"
                      /\ new[n] = IF work.node[n] \in Terminal THEN work.node[n] ELSE "none"
  BY <1>1, VerdictShown
<1>3. work.run = Promise!Summary(new)
  BY <1>1, StatusIsSummary
<1>4. Decided \subseteq Promise!Open(old)
  BY <1>2 DEF Decided, Promise!Open
<1>5. dec \in [Decided -> {"completed", "failed"}]
  BY DEF Driving
<1>6. new = [n \in Node |-> IF n \in Decided THEN dec[n] ELSE old[n]]
  <2>1. ASSUME NEW n \in Node
        PROVE  new[n] = IF n \in Decided THEN dec[n] ELSE old[n]
    BY <1>1, <1>2 DEF Decided, Extends
  <2> HIDE DEF old, dec
  <2>2. QED
    BY <2>1 DEF Verdict
<1>7. /\ \A g \in Decided \cap Gates : dec[g] = "completed"
      /\ \A g, h \in Decided \cap Gates : g = h
  BY DEF Driving
<1>8. /\ old = [n \in Node |-> IF db.run # "absent" /\ db.node[n] \in Terminal
                               THEN db.node[n] ELSE "none"]
      /\ new = [n \in Node |-> IF work.run # "absent" /\ work.node[n] \in Terminal
                               THEN work.node[n] ELSE "none"]
  BY DEF Verdict
<1>9. Gates = {n \in Node : definition.kind[n] \in {"gate.review", "gate.approve"}}
  BY DEF Gates
<1> HIDE DEF old, new, dec
<1>10. Promise!Decide(Decided)
  BY <1>1, <1>4, <1>5, <1>6, <1>7, <1>8, <1>9 DEF Promise!Decide
<1> DEFINE shown == [n \in Node |-> IF db.run # "absent" /\ db.node[n] \in Terminal
                                    THEN db.node[n] ELSE "none"]
           asked == {n \in Node : definition.kind[n] \in {"gate.review", "gate.approve"}}
<1>11. shown = old /\ shown' = new
  BY <1>1, <1>8
<1>12. asked = Gates /\ asked' = asked
  BY <1>1, <1>9
<1>13. db'.run = Promise!Summary(shown')
  BY <1>1, <1>3, <1>11 DEF Promise!Summary, Promise!Open
<1>14. CASE db.run = "absent"
  <2>1. Decided \cap Gates = {}
    BY <1>14 DEF Driving
  <2>2. Decided \in SUBSET (Promise!Open(shown) \ asked)
    BY <1>4, <1>11, <1>12, <2>1
  <2>3. \E decided \in SUBSET (Promise!Open(shown) \ asked) : Promise!Decide(decided)
    BY <1>10, <2>2 DEF Promise!Decide
  <2>4. Promise!Start
    BY <1>12, <1>13, <1>14, <2>3 DEF Promise!Start
  <2>5. QED
    BY <2>4 DEF Promise!Next
<1>15. CASE db.run # "absent"
  <2>1. db.run \in {"running", "failed"} /\ Decided # {}
    BY <1>15 DEF Driving
  <2>2. Decided \in (SUBSET Promise!Open(shown)) \ {{}}
    BY <1>4, <1>11, <2>1
  <2>3. \E decided \in (SUBSET Promise!Open(shown)) \ {{}} : Promise!Decide(decided)
    BY <1>10, <2>2 DEF Promise!Decide
  <2>4. Promise!Work
    BY <1>12, <1>13, <2>1, <2>3 DEF Promise!Work
  <2>5. QED
    BY <2>4 DEF Promise!Next
<1>16. QED
  BY <1>14, <1>15

\* The commit of a request that rejects a gate.
LEMMA RejectingCommits ==
  ASSUME IInv, Rejecting, Commit
  PROVE  Promise!Reject
<1> DEFINE old == Verdict(db)
           new == Verdict(work)
<1>1. /\ db' = work /\ definition' = definition /\ work.run = "failed"
      /\ db.run \in {"running", "failed"}
      /\ RowsInv(definition, db) /\ RowsInv(definition, work)
  BY DEF Commit, Rejecting, IInv
<1>2. PICK g \in Gates : /\ db.node[g] = "ready" /\ work.node[g] = "failed"
                         /\ \A n \in Node \ {g} : work.node[n] = db.node[n]
  BY DEF Rejecting
<1>3. \A n \in Node : /\ old[n] = IF db.node[n] \in Terminal THEN db.node[n] ELSE "none"
                      /\ new[n] = IF work.node[n] \in Terminal THEN work.node[n] ELSE "none"
  BY <1>1, VerdictShown
<1>4. g \in Node
  BY DEF Gates
<1>5. g \in Promise!Open(old)
  BY <1>2, <1>3, <1>4 DEF Promise!Open, Terminal
<1>6. new = [old EXCEPT ![g] = "failed"]
  <2>1. \A n \in Node : new[n] = IF n = g THEN "failed" ELSE old[n]
    BY <1>2, <1>3 DEF Terminal
  <2>2. QED
    BY <2>1 DEF Verdict
<1>7. /\ old = [n \in Node |-> IF db.run # "absent" /\ db.node[n] \in Terminal
                               THEN db.node[n] ELSE "none"]
      /\ new = [n \in Node |-> IF work.run # "absent" /\ work.node[n] \in Terminal
                               THEN work.node[n] ELSE "none"]
  BY DEF Verdict
<1>8. Gates = {n \in Node : definition.kind[n] \in {"gate.review", "gate.approve"}}
  BY DEF Gates
<1> HIDE DEF old, new
<1>9. QED
  BY <1>1, <1>5, <1>6, <1>7, <1>8 DEF Promise!Reject

\* The commit of a request that cancels the run.
LEMMA CancellingCommits ==
  ASSUME IInv, Cancelling, Commit
  PROVE  Promise!Cancel
<1> DEFINE old == Verdict(db)
           new == Verdict(work)
<1>1. /\ db' = work /\ definition' = definition /\ work.run = "cancelled"
      /\ db.run # "absent"
      /\ RowsInv(definition, db) /\ RowsInv(definition, work) /\ Extends(db, work)
  BY DEF Commit, Cancelling, IInv
<1>2. \A n \in Node : /\ old[n] = IF db.node[n] \in Terminal THEN db.node[n] ELSE "none"
                      /\ new[n] = IF work.node[n] \in Terminal THEN work.node[n] ELSE "none"
  BY <1>1, VerdictShown
<1>3. new = [n \in Node |-> IF old[n] = "none" THEN "skipped" ELSE old[n]]
  <2>1. \A n \in Node : new[n] = IF old[n] = "none" THEN "skipped" ELSE old[n]
    BY <1>1, <1>2 DEF Cancelling, Extends, Terminal
  <2> HIDE DEF old
  <2>2. QED
    BY <2>1 DEF Verdict
<1>4. /\ old = [n \in Node |-> IF db.run # "absent" /\ db.node[n] \in Terminal
                               THEN db.node[n] ELSE "none"]
      /\ new = [n \in Node |-> IF work.run # "absent" /\ work.node[n] \in Terminal
                               THEN work.node[n] ELSE "none"]
  BY DEF Verdict
<1> HIDE DEF old, new
<1>5. QED
  BY <1>1, <1>3, <1>4 DEF Promise!Cancel

\* No request changes the definition its run was created from.
LEMMA DefinitionIsPinned == [Next]_vars => definition' = definition
BY DEF Next, vars, CreateRun, MarkManualDone, SubmitGateDecision, CancelRun, Drive,
       DispatchReadyAdapters, AdvancePass, FinalizeRunStatus, Commit, Rollback

\* Whatever the workflow and whatever the users send, a reader of the run sees the
\* life cycle that RunLifecycle promises: each commit of create_run, mark_manual_done,
\* submit_gate_decision or cancel_run is one of its steps, and nothing else shows.
THEOREM ImplementsLifecycleThm == Spec => ImplementsLifecycle
<1>1. Init => Promise!Init
  <2> SUFFICES ASSUME Init  PROVE Promise!Init
    OBVIOUS
  <2>1. db.run = "absent"
    BY DEF Init, NoRows
  <2>2. QED
    BY <2>1 DEF Promise!Init
<1>2. Init => IntentInv
  BY DEF Init, IntentInv
<1>3. IInv /\ IntentInv /\ [Next]_vars => IntentInv'
  BY IntentStep
<1>4. IInv /\ IntentInv /\ [Next]_vars => [Promise!Next]_(Promise!lifecycleVars)
  <2> SUFFICES ASSUME IInv, IntentInv, [Next]_vars
               PROVE  Promise!Next \/ UNCHANGED Promise!lifecycleVars
    OBVIOUS
  <2>1. CASE Commit
    <3>1. Driving \/ Rejecting \/ Cancelling
      BY <2>1 DEF Commit, IntentInv
    <3>2. QED
      BY <2>1, <3>1, DrivingCommits, RejectingCommits, CancellingCommits DEF Promise!Next
  <2>2. CASE UNCHANGED db
    <3>1. definition' = definition
      BY DefinitionIsPinned
    <3>2. QED
      BY <2>2, <3>1 DEF Promise!lifecycleVars
  <2>3. QED
    BY <2>1, <2>2, OnlyCommitWrites
<1>5. QED
  BY <1>1, <1>2, <1>3, <1>4, Inductive, PTL DEF Spec, ImplementsLifecycle, Promise!Spec
=============================================================================
