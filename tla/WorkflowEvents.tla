--------------------------- MODULE WorkflowEvents ---------------------------
(***************************************************************************)
(* workflow_run_events as the table stores it.  WorkflowTxn keeps the      *)
(* events of a node in the order they are written; the table does not: its *)
(* ids are random, and occurred_at defaults to now(), which PostgreSQL     *)
(* fixes when the transaction begins.  So all events of a request carry    *)
(* one time, and it may be earlier than that of events committed before.   *)
(***************************************************************************)
EXTENDS WorkflowTxn

CONSTANT RequestLimit   \* model bound: transactions begun

VARIABLES clock,        \* transactions begun so far; each begins at a time of its own
          began,        \* per session, now() of its transaction; 0 if it has none
          stored,       \* per node, the committed rows of workflow_run_events
          touched,      \* history: when an event of the node was last committed
          contested     \* history: nodes that two overlapping requests wrote

eventVars == <<clock, began, stored, touched, contested>>

EventsInit ==
    /\ Init
    /\ clock = 0
    /\ began = [s \in Session |-> 0]
    /\ stored = [n \in Node |-> {}]
    /\ touched = [n \in Node |-> 0]
    /\ contested = {}

-----------------------------------------------------------------------------
\* The transaction begins, with the lookup of the caller's membership, before the
\* request reads anything of the run.  A run is known to others once committed.
Begin(s) ==
    /\ began[s] = 0
    /\ db.run = "absent" => \A o \in Session : began[o] = 0
    /\ clock < RequestLimit
    /\ clock' = clock + 1
    /\ began' = [began EXCEPT ![s] = clock + 1]
    /\ UNCHANGED <<vars, stored, touched, contested>>

\* What the request then does, up to its commit.
Execute(s) ==
    /\ began[s] # 0
    /\ ~At(s, "commit")
    /\ \/ CreateRun(s)
       \/ \E n \in Node : MarkManualDone(s, n)
       \/ \E n \in Node, decision \in {"approved", "rejected"} :
             SubmitGateDecision(s, n, decision)
       \/ CancelRun(s)
       \/ Step(s)
    /\ UNCHANGED eventVars

\* The rows that _emit_event inserted about n, but for their random ids.
Inserts(s, n) ==
    LET log == View(s).node_log[n] IN
    {[occurred_at |-> began[s], event_type |-> log[i]] :
        i \in (Len(db.node_log[n]) + 1)..Len(log)}

CommitEvents(s) ==
    LET written == {n \in Node : Inserts(s, n) # {}} IN
    /\ began[s] # 0
    /\ Commit(s)
    /\ stored' = [n \in Node |-> stored[n] \cup Inserts(s, n)]
    /\ touched' = [n \in Node |-> IF n \in written THEN clock ELSE touched[n]]
    /\ contested' = contested \cup {n \in written : began[s] <= touched[n]}
    /\ began' = [began EXCEPT ![s] = 0]
    /\ UNCHANGED clock

\* A failure at any point, or a refusal before anything was done.
RollbackEvents(s) ==
    /\ began[s] # 0
    /\ Rollback(s) \/ (At(s, "idle") /\ UNCHANGED vars)
    /\ began' = [began EXCEPT ![s] = 0]
    /\ UNCHANGED <<clock, stored, touched, contested>>

EventsNext == \E s \in Session : Begin(s) \/ Execute(s) \/ CommitEvents(s) \/ RollbackEvents(s)

EventsSpec == EventsInit /\ [][EventsNext]_<<vars, eventVars>>

-----------------------------------------------------------------------------
(* What a reader can tell who sorts the events by occurred_at.             *)

Latest(n) == {e \in stored[n] : \A f \in stored[n] : f.occurred_at <= e.occurred_at}

\* Of the events of one request a verdict is the last.
ReplayGives(n) ==
    LET told == {StatusAfter(e.event_type) : e \in Latest(n)} IN
    IF stored[n] = {} THEN db.node[n] = InitialNodeStates(definition)[n]
    ELSE IF told \cap Terminal = {} THEN db.node[n] = "ready"
    ELSE told \cap Terminal = {db.node[n]}

\* The time order of the stored events leads to the row of every node whose
\* writers did not overlap, however many requests there were and whatever else
\* they overlapped with: it takes two requests on one node to lose it.
UncontestedNodesReplay ==
    db.run # "absent" => \A n \in Node \ contested : ReplayGives(n)

\* "The final state of a run can be derived by replaying events" (the docstring
\* of the workflow engine's migration), once the run is over and no request open.
FinalStateReplays ==
    /\ db.run \in {"completed", "failed", "cancelled"}
    /\ \A s \in Session : began[s] = 0
    => \A n \in Node : ReplayGives(n)
=============================================================================
