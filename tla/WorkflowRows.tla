---------------------------- MODULE WorkflowRows ----------------------------
(***************************************************************************)
(* The rows of one workflow run and what the statements of runs.py do to   *)
(* them: the run row, its node rows and its event rows.  The events of the *)
(* run and of each node are kept apart, in the order they were written.    *)
(* The table has no column for that order: what can be told of it where    *)
(* requests overlap is the subject of WorkflowEvents.                      *)
(***************************************************************************)
EXTENDS WorkflowExecutor, Naturals, Sequences

RunEvent == {"run.started", "run.completed", "run.failed", "run.cancelled"}

\* workflow_runs, workflow_run_nodes and workflow_run_events of this run.
\* run = "absent" before the row is inserted.
Rows == [run          : RunStatus \cup {"absent"},
         completed_at : BOOLEAN,
         node         : [Node -> NodeStatus],
         decision     : [Node -> GateDecision],
         node_log     : [Node -> Seq(NodeEvent)],
         run_log      : Seq(RunEvent)]

NoRows == [run |-> "absent", completed_at |-> FALSE,
           node |-> [n \in Node |-> "pending"],
           decision |-> [n \in Node |-> "none"],
           node_log |-> [n \in Node |-> <<>>],
           run_log |-> <<>>]

-----------------------------------------------------------------------------
\* _apply_transitions: one UPDATE and one event per transition.
ApplyTransitions(rows, batch) ==
    [rows EXCEPT
        !.node = [n \in Node |-> IF n \in DOMAIN batch THEN batch[n].new_status
                                                       ELSE rows.node[n]],
        !.decision = [n \in Node |->
            IF n \in DOMAIN batch /\ batch[n].gate_decision # "none"
            THEN batch[n].gate_decision ELSE rows.decision[n]],
        !.node_log = [n \in Node |->
            IF n \in DOMAIN batch THEN Append(rows.node_log[n], batch[n].event_type)
                                  ELSE rows.node_log[n]]]

\* Faulty: every change of status emits "run." and the status.
FinalizeAlwaysEmits(rows, status) ==
    [rows EXCEPT !.run = status,
                 !.completed_at = rows.completed_at \/ status \in {"completed", "failed"},
                 !.run_log = IF rows.run = status THEN @ ELSE Append(@, "run." \o status)]

\* The UPDATE of _finalize_run_status matches no row when the status is
\* already right; otherwise completed_at is set once and never cleared.
Finalize(rows, status) ==
    IF rows.run = status THEN rows
    ELSE [rows EXCEPT
            !.run = status,
            !.completed_at = rows.completed_at \/ status \in {"completed", "failed"},
            !.run_log = CASE status = "completed" -> Append(rows.run_log, "run.completed")
                          [] status = "failed"    -> Append(rows.run_log, "run.failed")
                          [] OTHER                -> rows.run_log]

\* cancel_run overwrites the run's status, whatever it was ...
MarkCancelled(rows) ==
    [rows EXCEPT !.run = "cancelled",
                 !.completed_at = TRUE,
                 !.run_log = Append(rows.run_log, "run.cancelled")]

\* Faulty: nodes that wait for their upstream nodes are forgotten.
CancelledReadyOnly(rows) ==
    LET open == {n \in Node : rows.node[n] = "ready"} IN
    MarkCancelled(ApplyTransitions(rows, [n \in open |-> Moves("skipped", "node.skipped")]))

\* ... after skipping every node that is not terminal.
Cancelled(rows) ==
    LET open == {n \in Node : rows.node[n] \notin Terminal} IN
    MarkCancelled(ApplyTransitions(rows, [n \in open |-> Moves("skipped", "node.skipped")]))

Inserted(def) ==
    [NoRows EXCEPT !.run = "running",
                   !.node = InitialNodeStates(def),
                   !.run_log = <<"run.started">>]

-----------------------------------------------------------------------------
(* What a reader of workflow_run_events can tell from the events alone.    *)

StatusAfter(event) ==
    IF event = "node.ready" THEN "ready"
    ELSE IF event \in {"node.completed", "gate.approved"} THEN "completed"
    ELSE IF event \in {"node.failed", "gate.rejected"} THEN "failed"
    ELSE "skipped"

\* The status of a node after its last event.  While requests do not overlap, no
\* order needs to be stored to find it: a node becomes ready before its verdict.
ReplayedStatus(def, rows, n) ==
    LET log == rows.node_log[n] IN
    IF log = <<>> THEN InitialNodeStates(def)[n] ELSE StatusAfter(log[Len(log)])

Logged(rows, n, event) ==
    \E i \in 1..Len(rows.node_log[n]) : rows.node_log[n][i] = event
=============================================================================
