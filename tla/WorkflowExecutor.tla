-------------------------- MODULE WorkflowExecutor --------------------------
(***************************************************************************)
(* The pure decision logic of a workflow run: workflow/executor.py over    *)
(* the definition types of workflow/schema.py, and the part of             *)
(* workflow/runs.py that turns a READY automated node into a transition.   *)
(* Nothing here has state: every operator maps a definition and a status   *)
(* per node to the transitions the code would return.                      *)
(***************************************************************************)
CONSTANT Node

NodeKind == {"automated", "gate.review", "gate.approve", "gate.signature",
             "manual", "external_wait", "branch.condition", "branch.iterate",
             "submission", "notification"}

NodeStatus == {"pending", "ready", "running", "paused",
               "completed", "failed", "skipped"}

RunStatus == {"pending", "running", "paused", "completed", "failed", "cancelled"}

\* A node's params.tool: absent, naming no adapter, or naming a registered one.
ToolRef == {"unset", "unregistered", "registered"}

Terminal == {"completed", "failed", "skipped"}
Passed   == {"completed", "skipped"}

Definition == [edges : SUBSET (Node \X Node),
               kind  : [Node -> NodeKind],
               tool  : [Node -> ToolRef]]

Upstream(def, n) == {m \in Node : <<m, n>> \in def.edges}

EntryKeys(def) == {n \in Node : Upstream(def, n) = {}}

\* What registry.validate_definition accepts: no edge closes a cycle.
Acyclic(def) ==
    \A S \in (SUBSET Node) \ {{}} : \E n \in S : Upstream(def, n) \cap S = {}

-----------------------------------------------------------------------------
NodeEvent == {"node.ready", "node.completed", "node.failed", "node.skipped",
              "gate.approved", "gate.rejected"}

GateDecision == {"none", "approved", "rejected"}

Transition == [new_status : NodeStatus, event_type : NodeEvent,
               gate_decision : GateDecision]

\* A batch of transitions names each node at most once: it is a function from
\* the nodes that move to their transitions.
Moves(status, event) ==
    [new_status |-> status, event_type |-> event, gate_decision |-> "none"]

InitialNodeStates(def) ==
    [n \in Node |-> IF n \in EntryKeys(def) THEN "ready" ELSE "pending"]

\* Faulty: "terminal" taken to include failed upstream nodes.
PromotableAfterFailure(def, node) ==
    {n \in Node : node[n] = "pending" /\ \A u \in Upstream(def, n) : node[u] \in Terminal}

\* Pass 1 of advance: PENDING nodes with every upstream node passed.
Promotable(def, node) ==
    {n \in Node : /\ node[n] = "pending"
                  /\ \A u \in Upstream(def, n) : node[u] \in Passed}

\* Pass 2 of advance: READY automated nodes without a tool.
Placeholders(def, node) ==
    {n \in Node : /\ node[n] = "ready"
                  /\ def.kind[n] = "automated"
                  /\ def.tool[n] = "unset"}

\* Both passes look at the same snapshot of the node statuses.
Advance(def, node) ==
    [n \in Promotable(def, node) \cup Placeholders(def, node) |->
        IF node[n] = "pending" THEN Moves("ready", "node.ready")
                               ELSE Moves("completed", "node.completed")]

\* Faulty: a tool without an adapter is left alone.
DispatchableIfRegistered(def, node) ==
    {n \in Node : /\ node[n] = "ready"
                  /\ def.kind[n] = "automated"
                  /\ def.tool[n] = "registered"}

\* READY automated nodes that name a tool, and those whose adapter is called.
Dispatchable(def, node) ==
    {n \in Node : /\ node[n] = "ready"
                  /\ def.kind[n] = "automated"
                  /\ def.tool[n] # "unset"}

Invocable(def, node) ==
    {n \in Dispatchable(def, node) : def.tool[n] = "registered"}

\* An adapter that raises or reports an error fails its node; a tool without
\* an adapter completes as a placeholder.
Dispatch(def, node, failing) ==
    [n \in Dispatchable(def, node) |->
        IF n \in failing THEN Moves("failed", "node.failed")
                         ELSE Moves("completed", "node.completed")]

CanMarkDone(def, node, n) == def.kind[n] = "manual" /\ node[n] = "ready"

ManualCompletion(n) == [m \in {n} |-> Moves("completed", "node.completed")]

\* Faulty: the status of the gate is not looked at.
CanAlwaysDecide(def, node, n) == def.kind[n] \in {"gate.review", "gate.approve"}

CanDecide(def, node, n) ==
    def.kind[n] \in {"gate.review", "gate.approve"} /\ node[n] = "ready"

\* Faulty: the decision is not stored with the gate.
GateTransitionUnrecorded(n, decision) ==
    [m \in {n} |-> IF decision = "approved" THEN Moves("completed", "gate.approved")
                                            ELSE Moves("failed", "gate.rejected")]

GateTransition(n, decision) ==
    [m \in {n} |->
        IF decision = "approved"
        THEN [new_status |-> "completed", event_type |-> "gate.approved",
              gate_decision |-> "approved"]
        ELSE [new_status |-> "failed", event_type |-> "gate.rejected",
              gate_decision |-> "rejected"]]

-----------------------------------------------------------------------------
IsRunTerminal(node) == \A n \in Node : node[n] \in Terminal

DeriveRunStatus(node) ==
    IF \E n \in Node : node[n] \in {"running", "pending", "ready", "paused"}
    THEN "running"
    ELSE IF \E n \in Node : node[n] = "failed" THEN "failed" ELSE "completed"

\* The status _finalize_run_status computes when it is not forced.
ComputedRunStatus(node) ==
    IF IsRunTerminal(node) THEN DeriveRunStatus(node) ELSE "running"
=============================================================================
